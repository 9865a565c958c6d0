----------------------------- MODULE ConnEvents -----------------------------
(***************************************************************************)
(* What the application may rely on: the order of the events of one        *)
(* connection, as the comments on NetEvent and ConnEvent promise and as    *)
(* app.rs assumes ("always precedes its Conn events", "final event for the *)
(* connection").  Task implements it.                                      *)
(***************************************************************************)

VARIABLES
    stage,      \* how far the connection has come
    rekeying,   \* between RekeyStarted and RekeyCompleted or RekeyFailed
    last        \* the latest event

vars == <<stage, rekeying, last>>

Init ==
    /\ stage = "Unopened"
    /\ rekeying = FALSE
    /\ last = "none"

Advance(from, to, event) ==
    /\ stage \in from
    /\ stage' = to
    /\ last' = event

Opened == Advance({"Unopened"}, "Opened", "Opened") /\ UNCHANGED rekeying

SasRequired == Advance({"Opened"}, "Asked", "RequestSas") /\ UNCHANGED rekeying

Established == Advance({"Asked"}, "Established", "Established") /\ UNCHANGED rekeying

Traffic(event) ==
    Advance({"Established"}, "Established", event) /\ UNCHANGED rekeying

\* A send may be rejected at any time before the end.
SendRejected ==
    /\ stage \in {"Opened", "Asked", "Established"}
    /\ last' = "SendRejected"
    /\ UNCHANGED <<stage, rekeying>>

RekeyStarted ==
    /\ Advance({"Established"}, "Established", "RekeyStarted")
    /\ ~rekeying
    /\ rekeying' = TRUE

RekeyEnded(event) ==
    /\ Advance({"Established"}, "Established", event)
    /\ rekeying
    /\ rekeying' = FALSE

\* RekeyFailed(Repeated): a warning, whether or not a rekey is under way.
RekeyRejected ==
    Advance({"Established"}, "Established", "RekeyRejected") /\ UNCHANGED rekeying

Closed ==
    /\ Advance({"Opened", "Asked", "Established"}, "Closed", "Closed")
    /\ rekeying' = FALSE

Next ==
    \/ Opened
    \/ SasRequired
    \/ Established
    \/ \E event \in {"Message", "DataRejected"} : Traffic(event)
    \/ SendRejected
    \/ RekeyStarted
    \/ \E event \in {"RekeyCompleted", "RekeyFailed"} : RekeyEnded(event)
    \/ RekeyRejected
    \/ Closed

Spec == Init /\ [][Next]_vars
=============================================================================
