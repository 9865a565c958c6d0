-------------------------------- MODULE Net --------------------------------
(***************************************************************************)
(* The facade of ruxmsg-net: dials, listeners with their accept loop, and  *)
(* the permits that bound unauthenticated inbound connections.  A          *)
(* connection task appears here as what module Task promises to the        *)
(* application: its events in the order of ConnEvents.                     *)
(*                                                                         *)
(* There is one Net per loaded identity, numbered in order.  Only the      *)
(* newest has a reader of its event queue; the tasks of the others run on  *)
(* until they notice.                                                      *)
(***************************************************************************)
EXTENDS Integers, Sequences, FiniteSets

CONSTANTS
    MAX_UNAUTHENTICATED_HANDSHAKES,   \* 4
    MAX_ACCEPT_FAILURES,              \* 20
    EVENT_QUEUE,                      \* 256
    CONTROL_QUEUE,                    \* 8
    MAX_CONNECTIONS,                  \* bound: dials and accepted streams
    MAX_LISTENERS,                    \* bound: calls of listen
    MAX_NETS                          \* bound: identities loaded

ASSUME NetBounds ==
    /\ MAX_UNAUTHENTICATED_HANDSHAKES \in Nat \ {0}
    /\ MAX_ACCEPT_FAILURES \in Nat \ {0}
    /\ EVENT_QUEUE \in Nat \ {0}
    /\ CONTROL_QUEUE \in Nat \ {0}
    /\ MAX_CONNECTIONS \in Nat
    /\ MAX_LISTENERS \in Nat
    /\ MAX_NETS \in Nat \ {0}

VARIABLES
    net,         \* the current Net, 0 before the first identity
    next_id,     \* next_id[n]: Net::next_id
    permits,     \* permits[n]: free permits of Net::unauthenticated
    conns,       \* every dial and connection, in the order of creation
    listeners,   \* every listener task, in the order of creation
    events       \* the event queue of the current Net

netVars == <<net, next_id, permits, conns, listeners, events>>

Nets == 1..MAX_NETS

\* How far a task is: "Approved" and "Ending" lie between an input and the
\* event that tells of it, and "Establishing" waits for room with no permit.
Stage == {"Dialing", "New", "Opened", "Asked", "Approved", "Establishing",
          "Established", "Ending", "Closed"}

\* The permit is held from accept until the handshake ends.
Unauthenticated == {"New", "Opened", "Asked", "Approved"}

NetInit ==
    /\ net = 0
    /\ next_id = [n \in Nets |-> 1]
    /\ permits = [n \in Nets |-> MAX_UNAUTHENTICATED_HANDSHAKES]
    /\ conns = <<>> /\ listeners = <<>> /\ events = <<>>

\* events.send: waits for room; without a reader it fails at once.
Tell(n, event) ==
    IF n = net
    THEN Len(events) < EVENT_QUEUE /\ events' = Append(events, event)
    ELSE UNCHANGED events

ConnEvent(c, kind) == [kind |-> kind, id |-> conns[c].id, from |-> c]

Becomes(c, stage) == conns' = [conns EXCEPT ![c].stage = stage]

\* Mutant: only a handshake that succeeds gives its permit back.
ReleasedOnSuccess(c, stage) ==
    IF ~conns[c].outbound /\ conns[c].stage \in Unauthenticated /\ stage = "Establishing"
    THEN [permits EXCEPT ![conns[c].net] = @ + 1] ELSE permits

\* The permits after the handshake of c has come to its end in stage.
Released(c, stage) ==
    IF ~conns[c].outbound /\ conns[c].stage \in Unauthenticated
    THEN [permits EXCEPT ![conns[c].net] = @ + 1] ELSE permits

Authenticated(c, stage) ==
    /\ Becomes(c, stage)
    /\ permits' = Released(c, stage)
    /\ UNCHANGED <<net, next_id, listeners>>

-----------------------------------------------------------------------------
(* Dials.                                                                  *)

Connection(n, id, outbound, stage) ==
    [net |-> n, id |-> id, outbound |-> outbound, stage |-> stage, control |-> <<>>]

dial ==
    /\ net # 0
    /\ Len(conns) < MAX_CONNECTIONS
    /\ conns' = Append(conns, Connection(net, 0, TRUE, "Dialing"))

\* spawn gives the connection its identifier.
DialSucceeds(c) ==
    /\ conns[c].stage = "Dialing"
    /\ LET n == conns[c].net IN
        /\ conns' = [conns EXCEPT ![c] = Connection(n, next_id[n], TRUE, "New")]
        /\ next_id' = [next_id EXCEPT ![n] = @ + 1]
    /\ UNCHANGED <<net, permits, listeners, events>>

DialFails(c) ==
    /\ conns[c].stage = "Dialing"
    /\ Becomes(c, "Closed")
    /\ Tell(conns[c].net, [kind |-> "DialFailed", id |-> 0, from |-> c])
    /\ UNCHANGED <<net, next_id, permits, listeners>>

-----------------------------------------------------------------------------
(* Listeners.                                                              *)

listen ==
    /\ net # 0
    /\ Len(listeners) < MAX_LISTENERS
    /\ listeners' = Append(listeners, [net |-> net, state |-> "Accepting", failures |-> 0])

\* Listener::stop aborts the task wherever it waits.
Stopped(l) == [listeners EXCEPT ![l].state = "Ended"]

Accepting(l) == listeners[l].state = "Accepting"

HasPermit(n) == permits[n] > 0

Accept(l) ==
    LET n == listeners[l].net IN
    /\ Accepting(l)
    /\ HasPermit(n)
    /\ Len(conns) < MAX_CONNECTIONS
    /\ permits' = [permits EXCEPT ![n] = @ - 1]
    /\ listeners' = [listeners EXCEPT ![l].failures = 0]
    /\ conns' = Append(conns, Connection(n, next_id[n], FALSE, "New"))
    /\ next_id' = [next_id EXCEPT ![n] = @ + 1]
    /\ UNCHANGED <<net, events>>

\* The stream is dropped.
AcceptWithoutPermit(l) ==
    /\ Accepting(l)
    /\ ~HasPermit(listeners[l].net)
    /\ listeners' = [listeners EXCEPT ![l].failures = 0]
    /\ UNCHANGED <<net, next_id, permits, conns, events>>

AcceptFails(l) ==
    LET failures == listeners[l].failures + 1 IN
    /\ Accepting(l)
    /\ listeners' = [listeners EXCEPT
            ![l].failures = failures,
            ![l].state = IF failures >= MAX_ACCEPT_FAILURES THEN "Reporting" ELSE @]
    /\ UNCHANGED <<net, next_id, permits, conns, events>>

\* The last thing a failing listener does.
Report(l) ==
    /\ listeners[l].state = "Reporting"
    /\ listeners' = [listeners EXCEPT ![l].state = "Ended"]
    /\ Tell(listeners[l].net, [kind |-> "ListenerStopped", id |-> 0, from |-> l])
    /\ UNCHANGED <<net, next_id, permits, conns>>

-----------------------------------------------------------------------------
(* Connections.                                                            *)

\* Another event while the stage moves on.
Event(c, kind, from, to) ==
    /\ conns[c].stage = from
    /\ conns[c].net = net
    /\ Becomes(c, to)
    /\ Tell(net, ConnEvent(c, kind))
    /\ UNCHANGED <<net, next_id, permits, listeners>>

Announce(c) == Event(c, "Opened", "New", "Opened")

RequestSas(c) == Event(c, "SasRequired", "Opened", "Asked")

Establish(c) == Event(c, "Established", "Establishing", "Established")

Deliver(c) == Event(c, "Message", "Established", "Established")

Close(c) == Event(c, "Closed", "Ending", "Closed")

\* The peer has confirmed what the user approved.
PeerConfirms(c) ==
    /\ conns[c].stage = "Approved"
    /\ Authenticated(c, "Establishing")
    /\ UNCHANGED events

Alive == {"Opened", "Asked", "Approved", "Established"}

\* The peer closes, an error, a deadline.
Ends(c) ==
    /\ conns[c].stage \in Alive
    /\ Authenticated(c, "Ending")
    /\ UNCHANGED events

\* A task whose events nobody reads notices, and ends in silence.
Orphaned(c) ==
    /\ conns[c].net # net
    /\ conns[c].stage \notin {"Dialing", "Closed"}
    /\ Authenticated(c, "Closed")
    /\ UNCHANGED events

\* A handle's try_send fails when the queue is full or the task is gone.
Takes(c) == conns[c].stage # "Closed" /\ Len(conns[c].control) < CONTROL_QUEUE

TrySend(c, command) ==
    IF Takes(c) THEN [conns EXCEPT ![c].control = Append(@, command)] ELSE conns

\* The task takes a command.  Only a connection that asked is approved.
Obey(c) ==
    /\ conns[c].stage \in Alive
    /\ conns[c].control # <<>>
    /\ LET command == Head(conns[c].control)
           stage   == CASE command = "Close" -> "Ending"
                        [] command = "Reject" /\ conns[c].stage = "Asked" -> "Ending"
                        [] command = "Approve" /\ conns[c].stage = "Asked" -> "Approved"
                        [] OTHER -> conns[c].stage
       IN  /\ conns' = [conns EXCEPT ![c].control = Tail(@), ![c].stage = stage]
           /\ permits' = IF stage = "Ending" THEN Released(c, stage) ELSE permits
    /\ UNCHANGED <<net, next_id, listeners, events>>

NetNext ==
    \/ \E c \in DOMAIN conns :
          \/ DialSucceeds(c) \/ DialFails(c)
          \/ Announce(c) \/ RequestSas(c) \/ PeerConfirms(c) \/ Establish(c)
          \/ Deliver(c) \/ Obey(c) \/ Ends(c) \/ Close(c) \/ Orphaned(c)
    \/ \E l \in DOMAIN listeners :
          Accept(l) \/ AcceptWithoutPermit(l) \/ AcceptFails(l) \/ Report(l)

-----------------------------------------------------------------------------

\* However handshakes end, the permits that are out are those of the inbound
\* connections that are still unauthenticated.
PermitsBalance ==
    \A n \in Nets :
        permits[n] + Cardinality({c \in DOMAIN conns :
                        conns[c].net = n /\ ~conns[c].outbound
                            /\ conns[c].stage \in Unauthenticated})
            = MAX_UNAUTHENTICATED_HANDSHAKES
=============================================================================
