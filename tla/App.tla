-------------------------------- MODULE App --------------------------------
(***************************************************************************)
(* The application of ruxmsg-cli: the peer table, the queue of SAS prompts, *)
(* the default target, the open chat, the listener, profile switch and      *)
(* shutdown, driven by the user's keys and by the events of Net.            *)
(*                                                                          *)
(* A label is the number in "peerN".  A handle is the connection it leads   *)
(* to, which the application itself knows by its identifier only.           *)
(***************************************************************************)
EXTENDS Net, SequencesExt

CONSTANT USES    \* what the user of this instance does; one who does not
                 \* "Answer" rejects prompts or leaves them

ASSUME UsesBounds ==
    USES \subseteq {"Answer", "Listen", "Dial", "Chat", "Target", "Close", "Rekey",
                    "Profile", "Quit"}

VARIABLES
    phase,            \* "Running", "Loading" (profile), "Stopping" or "Exited"
    peers,            \* App::peers, by label
    by_id,            \* App::by_id
    default_target,
    next_label,
    listener,         \* App::listener: a listener task, or None
    sas,              \* App::sas: the prompts, the one shown first
    mode,             \* the label of the open chat, or None for the REPL
    seen,             \* history: whose words were shown when the answer now
                      \* being typed was begun
    answered,         \* history: connections the application tried to answer
    approved          \* history: connections whose words the user approved

appVars == <<phase, peers, by_id, default_target, next_label, listener, sas, mode,
             seen, answered, approved>>

vars == <<netVars, appVars>>

history == <<seen, answered, approved>>
table   == <<peers, by_id, default_target, next_label>>

None == 0

Init ==
    /\ NetInit
    /\ phase = "Running"
    /\ peers = [l \in {} |-> None] /\ by_id = [i \in {} |-> None]
    /\ default_target = None /\ next_label = 0
    /\ listener = None /\ mode = None /\ sas = <<>>
    /\ seen = None /\ answered = {} /\ approved = {}

Without(f, x) == [y \in DOMAIN f \ {x} |-> f[y]]

With(f, x, v) == [y \in DOMAIN f \cup {x} |-> IF y = x THEN v ELSE f[y]]

-----------------------------------------------------------------------------
(* Net events.  The event has been taken from the queue.                   *)

OnOpened(e) ==
    LET label == next_label + 1 IN
    /\ next_label' = label
    /\ by_id' = With(by_id, e.id, label)
    /\ peers' = With(peers, label, [id |-> e.id, handle |-> e.from,
                                    status |-> "Handshaking", unread |-> FALSE])
    /\ UNCHANGED <<conns, default_target, listener, sas, mode, history>>

\* The handle is dropped, whichever listener the event is about.
OnListenerStopped(e) ==
    /\ listener' = None
    /\ UNCHANGED <<conns, table, sas, mode, history>>

\* Mutant: there is always room for another prompt.
PromptRoomAlways == TRUE

PromptRoom == Len(sas) < MAX_UNAUTHENTICATED_HANDSHAKES

Prompt(e, label) == [id |-> e.id, label |-> label, words |-> e.from, typed |-> ""]

OnSasRequired(e, label) ==
    /\ IF label \in DOMAIN peers /\ ~PromptRoom
       THEN /\ conns' = TrySend(peers[label].handle, "Reject")
            /\ answered' = answered \cup {peers[label].handle}
            /\ UNCHANGED sas
       ELSE /\ sas' = Append(sas, Prompt(e, label))
            /\ UNCHANGED <<conns, answered>>
    /\ UNCHANGED <<table, listener, mode, seen, approved>>

OnEstablished(label) ==
    /\ peers' = [peers EXCEPT ![label].status = "Connected"]
    /\ UNCHANGED <<conns, by_id, default_target, next_label, listener, sas, mode, history>>

OnMessage(label) ==
    /\ peers' = [peers EXCEPT ![label].unread = (@ \/ mode # label)]
    /\ UNCHANGED <<conns, by_id, default_target, next_label, listener, sas, mode, history>>

\* Mutant: the prompt of a closed connection stays in the queue.
PromptsOfAll(id) == sas

\* Mutant: what was typed under a prompt that goes away counts for the next.
PromptsInherit(id) ==
    LET left == SelectSeq(sas, LAMBDA p : p.id # id) IN
    IF sas # <<>> /\ left # <<>> /\ Head(sas).id = id
    THEN [left EXCEPT ![1].typed = Head(sas).typed] ELSE left

\* What retain leaves: the prompts that are not of id, in their order.
Retained(s, id) ==
    LET kept[n \in 0..Len(s)] ==
            IF n = 0 THEN <<>>
            ELSE IF s[n].id # id THEN Append(kept[n - 1], s[n]) ELSE kept[n - 1]
    IN  kept[Len(s)]

PromptsOfOthers(id) == Retained(sas, id)

\* A closed conversation stays readable only while its chat is open.
Kept(label) == mode = label

OnClosed(e, label) ==
    /\ sas' = PromptsOfOthers(e.id)
    /\ default_target' = IF default_target = label THEN None ELSE default_target
    /\ IF Kept(label)
       THEN /\ peers' = [peers EXCEPT ![label].status = "Closed"]
            /\ UNCHANGED by_id
       ELSE /\ peers' = Without(peers, label)
            /\ by_id' = Without(by_id, e.id)
    /\ UNCHANGED <<conns, next_label, listener, mode, history>>

Ignored == UNCHANGED <<conns, table, listener, sas, mode, history>>

\* Rekey and rejection events touch nothing that is kept here.
OnConnEvent(e) ==
    IF e.id \notin DOMAIN by_id THEN Ignored
    ELSE LET label == by_id[e.id] IN
         CASE e.kind = "SasRequired" -> OnSasRequired(e, label)
           [] e.kind = "Established" -> OnEstablished(label)
           [] e.kind = "Message"     -> OnMessage(label)
           [] e.kind = "Closed"      -> OnClosed(e, label)
           [] OTHER                  -> Ignored

OnNetEvent ==
    /\ phase = "Running"
    /\ events # <<>>
    /\ events' = Tail(events)
    /\ LET e == Head(events) IN
       CASE e.kind = "Opened"          -> OnOpened(e)
         [] e.kind = "DialFailed"      -> Ignored
         [] e.kind = "ListenerStopped" -> OnListenerStopped(e)
         [] OTHER                      -> OnConnEvent(e)
    /\ UNCHANGED <<net, next_id, permits, listeners, phase>>

-----------------------------------------------------------------------------
(* The prompt: letters go to the one in front, whatever the mode.           *)

Keys == {<<"", "ye">>, <<"ye", "yes">>, <<"", "no">>, <<"ye", "no">>, <<"yes", "no">>,
         <<"yes", "ye">>, <<"ye", "">>, <<"no", "">>, <<"no", "ye">>, <<"no", "yes">>}

\* One letter more or less; "no" stands for all that cannot become "yes".
TypeAnswer ==
    /\ "Answer" \in USES
    /\ phase = "Running" /\ sas # <<>>
    /\ \E typed \in {"", "ye", "yes", "no"} :
          /\ <<Head(sas).typed, typed>> \in Keys
          /\ sas' = [sas EXCEPT ![1].typed = typed]
    /\ seen' = IF Head(sas).typed = "" THEN Head(sas).words ELSE seen
    /\ UNCHANGED <<netVars, phase, table, listener, mode, answered, approved>>

Answered == Tail(sas)

\* A handle that takes no command is not noticed.
AnswerSas(approve) ==
    /\ phase = "Running" /\ sas # <<>>
    /\ sas' = Answered
    /\ LET label == Head(sas).label IN
       IF label \in DOMAIN peers
       THEN /\ conns' = TrySend(peers[label].handle, IF approve THEN "Approve" ELSE "Reject")
            /\ answered' = answered \cup {peers[label].handle}
       ELSE UNCHANGED <<conns, answered>>
    /\ approved' = IF approve THEN approved \cup {seen} ELSE approved
    /\ UNCHANGED <<net, next_id, permits, listeners, events, phase, table, listener,
                   mode, seen>>

Enter == sas # <<>> /\ AnswerSas(Head(sas).typed = "yes")

Escape == AnswerSas(FALSE)

-----------------------------------------------------------------------------
(* Commands of the REPL, which a prompt suspends, and keys of the chat.     *)

AtRepl(use) == use \in USES /\ phase = "Running" /\ mode = None /\ sas = <<>>

InChat == phase = "Running" /\ mode # None /\ sas = <<>>

Start ==
    /\ AtRepl("Listen")
    /\ listener = None
    /\ listen
    /\ listener' = Len(listeners')
    /\ UNCHANGED <<net, next_id, permits, conns, events, phase, table, sas, mode, history>>

Stop ==
    /\ AtRepl("Listen")
    /\ listener # None
    /\ listeners' = Stopped(listener)
    /\ listener' = None
    /\ UNCHANGED <<net, next_id, permits, conns, events, phase, table, sas, mode, history>>

Connect ==
    /\ AtRepl("Dial")
    /\ dial
    /\ UNCHANGED <<net, next_id, permits, listeners, events, appVars>>

UseTarget(label) ==
    /\ AtRepl("Target")
    /\ default_target' = label
    /\ UNCHANGED <<netVars, phase, peers, by_id, next_label, listener, sas, mode, history>>

CloseSession(label) ==
    /\ AtRepl("Close")
    /\ conns' = TrySend(peers[label].handle, "Close")
    /\ UNCHANGED <<net, next_id, permits, listeners, events, appVars>>

\* By command, or by a key of the chat.
RequestRekey(label) ==
    /\ AtRepl("Rekey") \/ (InChat /\ "Rekey" \in USES /\ label = mode)
    /\ peers[label].status = "Connected"
    /\ conns' = TrySend(peers[label].handle, "Rekey")
    /\ UNCHANGED <<net, next_id, permits, listeners, events, appVars>>

\* Only the REPL enters a chat: by label, or the default target.
TryEnterChat(label) ==
    /\ AtRepl("Chat")
    /\ peers[label].status = "Connected"
    /\ mode' = label
    /\ default_target' = label
    /\ peers' = [peers EXCEPT ![label].unread = FALSE]
    /\ UNCHANGED <<netVars, phase, by_id, next_label, listener, sas, history>>

\* Mutant: a closed peer is not forgotten when its chat is left.
ForgetsNever(label) == FALSE

ForgetsClosed(label) == label \in DOMAIN peers /\ peers[label].status = "Closed"

LeaveChat ==
    /\ InChat
    /\ mode' = None
    /\ IF ForgetsClosed(mode)
       THEN /\ peers' = Without(peers, mode)
            /\ by_id' = Without(by_id, peers[mode].id)
       ELSE UNCHANGED <<peers, by_id>>
    /\ UNCHANGED <<netVars, phase, default_target, next_label, listener, sas, history>>

-----------------------------------------------------------------------------
(* Profile switch: the key store is awaited, while tasks run on.            *)

\* Mutant: only the listener keeps a profile from being switched.
EnsureNoListener == listener = None

EnsureIdle == peers = [l \in {} |-> None] /\ listener = None

SwitchProfile ==
    /\ AtRepl("Profile")
    /\ EnsureIdle
    /\ net < MAX_NETS
    /\ phase' = "Loading"
    /\ UNCHANGED <<netVars, table, listener, sas, mode, history>>

\* install_identity: a new Net with its own queue; the old queue is dropped.
InstallIdentity ==
    /\ phase = "Loading"
    /\ phase' = "Running"
    /\ net' = net + 1
    /\ events' = <<>>
    /\ UNCHANGED <<next_id, permits, conns, listeners, table, listener, sas, mode, history>>

LoadFails ==
    /\ phase = "Loading"
    /\ phase' = "Running"
    /\ UNCHANGED <<netVars, table, listener, sas, mode, history>>

-----------------------------------------------------------------------------
(* Shutdown.                                                                *)

\* Mutant: only a session that is established is closed.
AskedIfConnected(c) ==
    \E l \in DOMAIN peers : peers[l].handle = c /\ peers[l].status = "Connected"

\* Every peer is asked to close, whatever its handshake has come to.
AskedToClose(c) == \E l \in DOMAIN peers : peers[l].handle = c

\* Quit, or a termination signal.
Quit ==
    /\ "Quit" \in USES
    /\ phase = "Running"
    /\ phase' = "Stopping"
    /\ listeners' = IF listener = None THEN listeners ELSE Stopped(listener)
    /\ listener' = None
    /\ conns' = [c \in DOMAIN conns |->
                    IF AskedToClose(c) THEN TrySend(c, "Close")[c] ELSE conns[c]]
    /\ UNCHANGED <<net, next_id, permits, events, table, sas, mode, history>>

AllClosed == \A l \in DOMAIN peers : peers[l].status = "Closed"

\* Only Closed counts now; the rest is dropped, the handle of an Opened too.
AwaitClosed ==
    /\ phase = "Stopping" /\ net # 0
    /\ ~AllClosed
    /\ events # <<>>
    /\ events' = Tail(events)
    /\ LET e == Head(events) IN
       peers' = IF e.kind = "Closed" /\ e.id \in DOMAIN by_id
                THEN [peers EXCEPT ![by_id[e.id]].status = "Closed"] ELSE peers
    /\ UNCHANGED <<net, next_id, permits, conns, listeners, phase, by_id,
                   default_target, next_label, listener, sas, mode, history>>

\* Every session is closed, or half a second has passed.
Exit ==
    /\ phase = "Stopping"
    /\ phase' = "Exited"
    /\ peers' = [l \in {} |-> None] /\ by_id' = [i \in {} |-> None]
    /\ sas' = <<>> /\ mode' = None
    /\ UNCHANGED <<netVars, default_target, next_label, listener, history>>

Next ==
    \/ phase # "Exited" /\ NetNext /\ UNCHANGED appVars
    \/ OnNetEvent
    \/ TypeAnswer \/ Enter \/ Escape
    \/ Start \/ Stop \/ Connect
    \/ \E label \in DOMAIN peers :
          UseTarget(label) \/ CloseSession(label) \/ RequestRekey(label) \/ TryEnterChat(label)
    \/ LeaveChat
    \/ SwitchProfile \/ InstallIdentity \/ LoadFails
    \/ Quit \/ AwaitClosed \/ Exit

Spec == Init /\ [][Next]_vars

\* The event loop takes events and tasks end, and a branch that is ready again
\* and again is taken in the end: select! chooses at random, and a sender that
\* waits for room is served in turn.  A prompt is ended by SasDecision at the
\* latest, and the key store answers.  The user owes nothing.
Fairness ==
    /\ SF_vars(OnNetEvent)
    /\ WF_vars(InstallIdentity \/ LoadFails)
    /\ WF_vars(AwaitClosed)
    /\ \A c \in 1..MAX_CONNECTIONS :
          /\ SF_vars(c \in DOMAIN conns /\ Close(c) /\ UNCHANGED appVars)
          /\ WF_vars(c \in DOMAIN conns /\ Obey(c) /\ UNCHANGED appVars)
          /\ WF_vars(c \in DOMAIN conns /\ Orphaned(c) /\ UNCHANGED appVars)
          /\ WF_vars(c \in DOMAIN conns /\ conns[c].stage = "Asked" /\ Ends(c)
                        /\ UNCHANGED appVars)

FairSpec == Spec /\ Fairness

-----------------------------------------------------------------------------
(* Properties.                                                              *)

Serving == phase \in {"Running", "Loading"}

Asks(c) == \E i \in DOMAIN sas : sas[i].words = c

\* The peer table and its index agree, and every handle in it leads to the
\* connection with the peer's identifier under the identity in use: no event of
\* one peer, or of an earlier identity, can reach another.
Indexed ==
    /\ \A label \in DOMAIN peers :
          LET peer == peers[label] IN
          /\ peer.id \in DOMAIN by_id /\ by_id[peer.id] = label
          /\ conns[peer.handle].id = peer.id
          /\ conns[peer.handle].net = net
    /\ \A id \in DOMAIN by_id : by_id[id] \in DOMAIN peers /\ peers[by_id[id]].id = id

\* The prompts are the verifications that are waiting: each prompt asks about a
\* peer that is still handshaking, so an answer always has someone to go to; each
\* connection that asked has its prompt or its answer and never both, so none is
\* lost in the queue and none answered twice; and the queue keeps its limit,
\* although dialed connections, which take no permit, may ask as well.
PromptsExact ==
    Serving =>
        /\ \A i \in DOMAIN sas :
              /\ sas[i].label \in DOMAIN peers
              /\ peers[sas[i].label].status = "Handshaking"
              /\ peers[sas[i].label].handle = sas[i].words
        /\ \A i, j \in DOMAIN sas : sas[i].label = sas[j].label => i = j
        /\ \A label \in DOMAIN peers :
              LET c == peers[label].handle IN
              (/\ conns[c].stage \in {"Asked", "Approved", "Establishing", "Established"}
               /\ \A i \in DOMAIN events : events[i] # ConnEvent(c, "SasRequired"))
                  => Asks(c) \/ c \in answered
        /\ \A c \in answered : ~Asks(c)
        /\ Len(sas) <= MAX_UNAUTHENTICATED_HANDSHAKES

\* "Type yes and press Enter to approve": a peer is shown as connected only if
\* its own words were on the screen from the first letter of that yes, although
\* prompts come and go while the user types.
ConnectedWasApproved ==
    \A label \in DOMAIN peers :
        peers[label].status = "Connected" => peers[label].handle \in approved

\* "A closed conversation stays readable only while its chat is open": the open
\* chat has its peer, no other closed peer is kept, an open chat has nothing
\* unread, and the default target can be talked to or is still handshaking.
NothingStale ==
    Serving =>
        /\ mode # None => mode \in DOMAIN peers /\ ~peers[mode].unread
        /\ \A label \in DOMAIN peers : peers[label].status = "Closed" => mode = label
        /\ default_target # None => default_target \in DOMAIN peers
                                    /\ peers[default_target].status # "Closed"

\* A prompt goes away in the end, also when the user never answers.
PromptsResolve ==
    \A c \in 1..MAX_CONNECTIONS : Asks(c) ~> (~Asks(c) \/ ~Serving)

\* Shutdown "closes every session": the wait for their Closed events comes to its
\* end by itself, also when handshakes are under way and other events come in,
\* and does not depend on the half second running out.  (A Close that finds its
\* queue full is dropped, which does not matter while what fills the queue ends
\* the connection too.)
ShutdownDrains == phase = "Stopping" ~> (AllClosed \/ phase = "Exited")

\* "You cannot switch profiles ... while a listener or active sessions exist."
SwitchWithoutListener ==
    [][net' # net => \A l \in DOMAIN listeners : ~Accepting(l)]_vars
=============================================================================
