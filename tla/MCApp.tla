------------------------------- MODULE MCApp -------------------------------
(***************************************************************************)
(* Model-checking instances of App: what the user does.                     *)
(***************************************************************************)
EXTENDS App

\* Identities, prompts, chats and rekeys over dialed and accepted connections.
Talking == {"Profile", "Listen", "Dial", "Answer", "Chat", "Rekey", "Target"}

\* A user who never approves: closes sessions, rejects or leaves the prompts,
\* or quits.
Waiting == {"Profile", "Listen", "Dial", "Close", "Quit"}

\* Loads identities and listens.
Listening == {"Profile", "Listen"}
=============================================================================
