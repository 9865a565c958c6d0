-------------------------------- MODULE Task --------------------------------
(***************************************************************************)
(* The task that owns one connection (ruxmsg-net, struct Task): it hands   *)
(* one input at a time to its engine and carries out the effects in order, *)
(* waiting at every write and every event.  Around it are an application   *)
(* that uses bounded queues and may go away, a peer that sends any frame a *)
(* program of this protocol might, and a stream that may fail at any write.*)
(***************************************************************************)
EXTENDS Engine

CONSTANTS
    LOCAL_IDENTITY, PEER_IDENTITY,   \* raw identity keys, compared in glare
    EVENT_QUEUE,      \* 256
    CONTROL_QUEUE,    \* 8
    MESSAGE_QUEUE,    \* 64
    USES,             \* what the application of this instance does
    MAX_BUFFERED,     \* bound: frames that arrive in one read
    MAX_RUNS          \* bound: ephemerals the engine draws before no further
                      \* rekey is asked for

Command == {"Close", "Rekey", "Approve", "Reject"}

ASSUME TaskBounds ==
    /\ LOCAL_IDENTITY \in Nat
    /\ PEER_IDENTITY \in Nat
    /\ LOCAL_IDENTITY # PEER_IDENTITY
    /\ EVENT_QUEUE \in Nat \ {0}
    /\ CONTROL_QUEUE \in Nat \ {0}
    /\ MESSAGE_QUEUE \in Nat \ {0}
    /\ USES \subseteq Command \cup {"Message", "DropHandles", "DropReceiver"}
    /\ MAX_BUFFERED \in Nat \ {0}
    /\ MAX_RUNS \in Nat

VARIABLES
    engine,     \* Task::engine
    armed,      \* the identifiers of the engine's armed deadlines, by kind
    table,      \* Task::deadlines: <<kind, identifier>>
    pc,         \* where Task::run is: "Announce", "Run" or "Done"
    pending,    \* the effects process has still to carry out
    batch,      \* what fire_due collected and has still to feed
    buffered,   \* complete frames in the decoder that drain_frames will feed
    permit,     \* the handshake permit is held
    lost, orphaned, closing,
    events,     \* the event queue
    control,    \* the control queue
    messages,   \* the length of the message queue
    receiver,   \* the application still reads events
    handles,    \* a ConnectionHandle still exists
    told        \* history: what the events sent so far amount to

vars == <<engine, armed, table, pc, pending, batch, buffered, permit, lost,
          orphaned, closing, events, control, messages, receiver, handles, told>>

flow   == <<pc, permit, lost, orphaned, closing>>
queues == <<events, control, messages, receiver, handles, told>>

\* Net::spawn: only an inbound connection holds a permit.
Init ==
    /\ engine \in {NewEngine(role, LOCAL_IDENTITY) : role \in {"Initiator", "Responder"}}
    /\ permit = (engine.role = "Responder")
    /\ armed = [kind \in {} |-> 0]
    /\ table = {} /\ batch = {} /\ buffered = 0
    /\ pc = "Announce" /\ pending = <<>>
    /\ lost = FALSE /\ orphaned = FALSE /\ closing = FALSE
    /\ events = <<>> /\ control = <<>> /\ messages = 0
    /\ receiver = TRUE /\ handles = TRUE
    /\ told = [stage |-> "Unopened", rekeying |-> FALSE, last |-> "none"]

-----------------------------------------------------------------------------
(* apply: hand an input to the engine and queue its effects.               *)

Effects(r) ==
    (IF r.deliver = NoContent THEN <<>> ELSE << <<"Message">> >>)
    \o [i \in DOMAIN r.out |-> <<"Send">>]
    \o (IF r.event[1] = "none" THEN <<>> ELSE <<r.event>>)
    \o (IF r.e.phase = "Closed" THEN << <<"CloseTransport">> >> ELSE <<>>)

\* A new identifier differs from every live one; an identifier that was
\* cancelled lives on in the batch only, which holds one per kind.
FreshId(kind) == IF <<kind, 0>> \in batch' THEN 1 ELSE 0

\* SetDeadline and CancelDeadline are carried out with the rest, in no time.
Deadlines(r, entries) ==
    LET touched   == r.e.touched
        cancelled == {<<k, armed[k]>> : k \in touched \cap DOMAIN armed}
        now       == [k \in r.e.deadlines |-> IF k \in touched THEN FreshId(k)
                                              ELSE armed[k]]
    IN  /\ armed' = now
        /\ table' = (entries \ cancelled)
                      \cup {<<k, now[k]>> : k \in touched \cap r.e.deadlines}

\* entries: the driver's table when the input is handed over.
Apply(r, entries) ==
    IF engine.phase = "Closed"
    THEN table' = entries /\ UNCHANGED <<engine, armed, pending>>
    ELSE /\ engine' = Settled(r.e)
         /\ Deadlines(r, entries)
         /\ pending' = Effects(r)

\* An input that comes from no deadline and from no frame.
ApplyNow(r) ==
    /\ UNCHANGED <<batch, buffered>>
    /\ Apply(r, table)

-----------------------------------------------------------------------------
(* process: one effect at a time.                                          *)

\* What an event tells the application.
Told(t, event) ==
    LET name == IF event = <<"RekeyFailed", "Repeated">> THEN "RekeyRejected"
                ELSE event[1]
    IN  [stage    |-> CASE name = "Opened"      -> "Opened"
                        [] name = "RequestSas"  -> "Asked"
                        [] name = "Established" -> "Established"
                        [] name = "Closed"      -> "Closed"
                        [] OTHER -> t.stage,
         rekeying |-> CASE name = "RekeyStarted" -> TRUE
                        [] name \in {"RekeyCompleted", "RekeyFailed", "Closed"} -> FALSE
                        [] OTHER -> t.rekeying,
         last     |-> name]

Room == Len(events) < EVENT_QUEUE

\* emit waits for room; a send to a vanished application sets orphaned.
emit(event) ==
    IF receiver
    THEN /\ Room
         /\ events' = Append(events, event)
         /\ told' = Told(told, event)
         /\ UNCHANGED orphaned
    ELSE orphaned' = TRUE /\ UNCHANGED <<events, told>>

Processing(tag) == pc = "Run" /\ pending # <<>> /\ Head(pending)[1] = tag

SendWritten ==
    /\ Processing("Send")
    /\ pending' = Tail(pending)
    /\ UNCHANGED <<engine, armed, table, batch, buffered, flow, queues>>

\* Mutant: a failed write ends the loop, and the remaining effects are dropped.
SendFailsAbandoning ==
    /\ Processing("Send")
    /\ ~lost
    /\ lost' = TRUE
    /\ closing' = TRUE
    /\ pending' = <<>>
    /\ UNCHANGED <<engine, armed, table, batch, buffered, pc, permit, orphaned,
                   queues>>

\* An error, or WRITE_TIMEOUT; no further write is tried.
SendFails ==
    /\ Processing("Send")
    /\ ~lost
    /\ lost' = TRUE
    /\ pending' = Tail(pending)
    /\ UNCHANGED <<engine, armed, table, batch, buffered, pc, permit, orphaned,
                   closing, queues>>

\* Mutant: only Established releases the permit.
EndsHandshakeWell(tag) == tag = "Established"

EndsHandshake(tag) == tag \in {"Established", "Closed"}

\* The permit is released before the event is sent.
ReleasePermit ==
    /\ pc = "Run" /\ pending # <<>> /\ EndsHandshake(Head(pending)[1])
    /\ permit
    /\ permit' = FALSE
    /\ UNCHANGED <<engine, armed, table, batch, buffered, pc, pending, lost,
                   orphaned, closing, queues>>

Notify ==
    /\ pc = "Run" /\ pending # <<>>
    /\ Head(pending)[1] \notin {"Send", "CloseTransport"}
    /\ permit => ~EndsHandshake(Head(pending)[1])
    /\ emit(Head(pending))
    /\ pending' = Tail(pending)
    /\ UNCHANGED <<engine, armed, table, batch, buffered, pc, permit, lost,
                   closing, control, messages, receiver, handles>>

CloseTransport ==
    /\ Processing("CloseTransport")
    /\ closing' = TRUE
    /\ pending' = Tail(pending)
    /\ UNCHANGED <<engine, armed, table, batch, buffered, pc, permit, lost,
                   orphaned, queues>>

-----------------------------------------------------------------------------
(* run.                                                                    *)

\* Opened is sent, and Start is handed over; without an application the
\* connection is dropped.
Announce ==
    /\ pc = "Announce"
    /\ IF receiver
       THEN /\ emit(<<"Opened">>)
            /\ pc' = "Run"
            /\ ApplyNow(start(engine))
            /\ UNCHANGED <<permit, lost, closing, control, messages, receiver, handles>>
       ELSE /\ pc' = "Done"
            /\ permit' = FALSE
            /\ UNCHANGED <<engine, armed, table, pending, batch, buffered, lost,
                           orphaned, closing, queues>>

\* The end of apply: a failed write, or a vanished application, ends the
\* connection.
Settle ==
    /\ pc = "Run" /\ pending = <<>>
    /\ engine.phase # "Closed"
    /\ lost \/ orphaned
    /\ ApplyNow(IF lost THEN transport_closed(engine) ELSE local_close(engine))
    /\ UNCHANGED <<flow, queues>>

\* The last input has been dealt with completely.
Applied ==
    /\ pc = "Run" /\ pending = <<>>
    /\ engine.phase = "Closed" \/ ~(lost \/ orphaned)

\* Task::run is at its select.
Selecting == Applied /\ batch = {} /\ buffered = 0 /\ ~closing

\* The frames a peer's program may send now: the one this engine waits for,
\* also damaged, and whatever an established peer may start by itself.
PeerHello(purpose, role, previous) ==
    HelloPayload(purpose, role, PEER_IDENTITY, <<PEER_IDENTITY, engine.entropy>>, previous)

AwaitedFrame ==
    LET run == engine.run IN
    CASE engine.phase = "Handshaking" /\ run = NoRun ->
            {CommitPayload(PeerHello("Initial", "Initiator", NoId))}
      [] run.step = "Hello" -> {PeerHello(run.purpose, "Responder", run.previous)}
      [] run.step = "Reveal" -> {run.commit.commitment}
      [] run.step \in {"Sas", "AuthInit"} -> {HandshakePayload(0, run.transcript)}
      [] run.step = "AuthResp" -> {HandshakePayload(1, run.transcript)}
      [] run.step = "ConfirmResp" ->
            {SessionConfirmPayload(SessionKeys(run.transcript), "Responder")}
      [] run.step = "ConfirmInit" ->
            {SessionConfirmPayload(SessionKeys(run.transcript), "Initiator")}
      [] OTHER -> {}

OtherRole(role) == IF role = "Initiator" THEN "Responder" ELSE "Initiator"

SessionFrames(s) ==
    IF s = NoSession THEN {}
    ELSE {ClosePayload(s.id, "Normal"), SessionConfirmPayload(s.id, OtherRole(s.role))}
         \cup (IF s.receiver.ch.next < COUNTER_MAX
               THEN {DataPayload(s.id, OtherRole(s.role), s.receiver.ch.next, 1)} ELSE {})
         \cup (IF engine.entropy < MAX_RUNS
               THEN {CommitPayload(PeerHello("Rekey", "Initiator", s.id))} ELSE {})

PeerFrames ==
    AwaitedFrame
    \cup {[f EXCEPT !.intact = FALSE] : f \in AwaitedFrame}
    \cup SessionFrames(engine.active) \cup SessionFrames(engine.draining)
    \cup {ClosePayload(NoId, "ProtocolError")}

\* read returns some complete frames.
Read ==
    /\ Selecting
    /\ buffered' \in 1..MAX_BUFFERED
    /\ UNCHANGED <<engine, armed, table, pending, batch, flow, queues>>

\* End of stream, or an error.
ReadEnd ==
    /\ Selecting
    /\ ApplyNow(transport_closed(engine))
    /\ UNCHANGED <<flow, queues>>

\* drain_frames: the next frame of the decoder.
DrainFrame ==
    /\ Applied /\ batch = {} /\ buffered > 0 /\ ~closing
    /\ buffered' = buffered - 1
    /\ UNCHANGED batch
    /\ \/ \E f \in PeerFrames : Apply(on_frame(engine, f), table)
       \/ \E respond \in BOOLEAN : Apply(malformed(engine, respond), table)
    /\ UNCHANGED <<flow, queues>>

RecvMessage ==
    /\ Selecting
    /\ messages > 0
    /\ messages' = messages - 1
    /\ ApplyNow(on_send(engine, 1))
    /\ UNCHANGED <<flow, events, control, receiver, handles, told>>

ControlInput(c) ==
    CASE c = "Close"   -> local_close(engine)
      [] c = "Rekey"   -> begin_rekey(engine)
      [] c = "Approve" -> on_sas(engine, TRUE)
      [] c = "Reject"  -> on_sas(engine, FALSE)

RecvControl ==
    /\ Selecting
    /\ control # <<>>
    /\ control' = Tail(control)
    /\ ApplyNow(ControlInput(Head(control)))
    /\ UNCHANGED <<flow, events, messages, receiver, handles, told>>

\* Mutant: a command queue without senders is ignored.
HandlesGoneIgnored == Selecting /\ ~handles /\ control = <<>> /\ UNCHANGED vars

\* control.recv() returns None: every handle was dropped.
HandlesGone ==
    /\ Selecting
    /\ ~handles /\ control = <<>>
    /\ ApplyNow(local_close(engine))
    /\ UNCHANGED <<flow, queues>>

\* fire_due collects the deadlines that have passed.
FireDue(due) ==
    /\ Selecting
    /\ due # {} /\ due \subseteq table
    /\ (\E entry \in due : entry[1] = "RekeyDue") => engine.entropy < MAX_RUNS
    /\ batch' = due
    /\ UNCHANGED <<engine, armed, table, pending, buffered, flow, queues>>

\* Mutant: the engine compares the kind of a deadline, not its identifier.
HandleTimeoutOfKind(entry) ==
    IF entry[1] \in DOMAIN armed THEN on_timeout(engine, entry[1])
    ELSE Result(engine, <<>>, <<"none">>)

\* Engine::on_timeout: a stale identifier is ignored.
HandleTimeout(entry) ==
    IF entry[1] \in DOMAIN armed /\ armed[entry[1]] = entry[2]
    THEN on_timeout(engine, entry[1])
    ELSE Result(engine, <<>>, <<"none">>)

\* Mutant: a deadline that fired stays in the driver's table.
RetainedAll(entry) == table

Retained(entry) == table \ {entry}

\* fire_due feeds them one after the other.
FireNext(entry) ==
    /\ Applied
    /\ entry \in batch
    /\ batch' = batch \ {entry}
    /\ Apply(HandleTimeout(entry), Retained(entry))
    /\ UNCHANGED <<buffered, flow, queues>>

\* The loop ends; the stream, the queues and the permit are dropped.
Finish ==
    /\ Applied /\ batch = {} /\ closing
    /\ pc' = "Done"
    /\ permit' = FALSE
    /\ buffered' = 0 /\ control' = <<>> /\ messages' = 0
    /\ UNCHANGED <<engine, armed, table, pending, batch, lost, orphaned, closing,
                   events, receiver, handles, told>>

-----------------------------------------------------------------------------
(* The application.  Its handle arrives with Opened; try_send fails when a  *)
(* queue is full or the task is gone, and nothing happens.                 *)

HasHandle ==
    /\ handles /\ told.stage # "Unopened"
    /\ \A i \in DOMAIN events : events[i] # <<"Opened">>

task == <<engine, armed, table, pc, pending, batch, buffered, permit, lost,
          orphaned, closing>>

NextEvent ==
    /\ receiver /\ events # <<>>
    /\ events' = Tail(events)
    /\ UNCHANGED <<task, control, messages, receiver, handles, told>>

SendMessage ==
    /\ "Message" \in USES
    /\ HasHandle /\ pc # "Done" /\ messages < MESSAGE_QUEUE
    /\ messages' = messages + 1
    /\ UNCHANGED <<task, events, control, receiver, handles, told>>

SendControl(c) ==
    /\ HasHandle /\ pc # "Done" /\ Len(control) < CONTROL_QUEUE
    /\ c = "Rekey" => engine.entropy < MAX_RUNS
    /\ control' = Append(control, c)
    /\ UNCHANGED <<task, events, messages, receiver, handles, told>>

DropHandles ==
    /\ "DropHandles" \in USES
    /\ HasHandle
    /\ handles' = FALSE
    /\ UNCHANGED <<task, events, control, messages, receiver, told>>

\* The event queue is dropped with what is in it, the handle included.
DropReceiver ==
    /\ "DropReceiver" \in USES
    /\ receiver
    /\ receiver' = FALSE
    /\ events' = <<>>
    /\ handles' = (handles /\ (HasHandle \/ told.stage = "Unopened"))
    /\ UNCHANGED <<task, control, messages, told>>

Next ==
    \/ SendWritten \/ SendFails \/ ReleasePermit \/ Notify \/ CloseTransport
    \/ Announce \/ Settle
    \/ Read \/ ReadEnd \/ DrainFrame
    \/ RecvMessage \/ RecvControl \/ HandlesGone
    \/ \E due \in SUBSET table : FireDue(due)
    \/ \E entry \in batch : FireNext(entry)
    \/ Finish
    \/ NextEvent \/ SendMessage
    \/ \E c \in Command \cap USES : SendControl(c)
    \/ DropHandles \/ DropReceiver

Spec == Init /\ [][Next]_vars

\* A step of the runtime that stays possible is taken: the task runs while it
\* can, a write ends (WRITE_TIMEOUT), and the application reads its events.
\* select! chooses at random, so a branch that is ready again and again, such
\* as a deadline that has passed or a command that waits, is taken in the end.
\* The user, the peer and the other uses of the handle owe nothing.
Fairness ==
    /\ WF_vars(Announce) /\ WF_vars(SendWritten \/ SendFails)
    /\ WF_vars(ReleasePermit) /\ WF_vars(Notify) /\ WF_vars(CloseTransport)
    /\ WF_vars(Settle) /\ WF_vars(DrainFrame) /\ WF_vars(Finish)
    /\ WF_vars(\E entry \in batch : FireNext(entry))
    /\ WF_vars(NextEvent)
    /\ SF_vars(RecvControl) /\ SF_vars(HandlesGone)
    /\ \A kind \in {"HandshakeTotal", "SasDecision"} :
          SF_vars(\E due \in SUBSET table :
                     (\E entry \in due : entry[1] = kind) /\ FireDue(due))

FairSpec == Spec /\ Fairness

-----------------------------------------------------------------------------
(* Properties.                                                             *)

\* The driver's table and the engine's list always hold the same deadlines,
\* though one removes a fired deadline by itself and is told of a cancelled one.
DeadlinesAgree == table = {<<kind, armed[kind]>> : kind \in DOMAIN armed}

\* A failed rekey is retried when its new RekeyDue has passed, and not by an old
\* one that fire_due had collected together with the deadline that failed it.
FailedRekeyWaits ==
    [][(batch # {} /\ engine.rekey_blocked /\ ~engine'.rekey_blocked)
          => <<"RekeyDue", armed["RekeyDue"]>> \in batch]_vars

\* An inbound connection occupies a handshake permit exactly while it is
\* unauthenticated, whatever input, failed write or vanished application ends
\* its handshake.
PermitExact ==
    (pc = "Run" /\ pending = <<>>) =>
        (permit <=> engine.role = "Responder" /\ engine.phase \in {"Idle", "Handshaking"})

\* "Final event for the connection": as long as the application reads events,
\* no connection that was announced ends without Closed.
NoSilentEnd == (pc = "Done" /\ receiver) => told.stage = "Closed"

Contract == INSTANCE ConnEvents
    WITH stage <- told.stage, rekeying <- told.rekeying, last <- told.last

\* The application sees the events in an order it can rely on.
EventsInOrder == Contract!Spec

\* A connection that is closed, has lost its transport or has no user left
\* releases its task.
TaskEnds == (engine.phase = "Closed" \/ lost \/ ~handles) ~> pc = "Done"

\* No peer and no idle user occupies a handshake permit for ever.
PermitReturns == permit ~> ~permit
=============================================================================
