---------------------------- MODULE MCConnection ----------------------------
(***************************************************************************)
(* Model-checking instances of Connection: which deadlines may expire.     *)
(* The cfg files add the bounds.                                           *)
(***************************************************************************)
EXTENDS Connection

\* Only the rekey timer: no wait is cut short, so every attempt succeeds.
RekeyTimer == {"RekeyDue"}

\* A peer that answers a rekey too late, and the timer that tries again.
SlowRekey == {"HandshakeFrame", "RekeyDue"}

EveryDeadline == DeadlineKind
=============================================================================
