------------------------------- MODULE MCTask -------------------------------
(***************************************************************************)
(* Model-checking instances of Task: what the application does.            *)
(***************************************************************************)
EXTENDS Task

\* A session that is used and rekeyed: the application stays.
Rekeying == {"Approve", "Rekey", "Message"}

\* A user who may walk away from the prompt, or close.
Walkaway == {"Approve", "Reject", "Close", "DropHandles", "DropReceiver"}
=============================================================================
