----------------------------- MODULE Connection -----------------------------
(***************************************************************************)
(* Two engines joined by a TCP connection: the composition the network     *)
(* driver (ruxmsg-net) makes of two Engine values, their users, their      *)
(* timers and the byte stream.  A channel is FIFO and loses nothing, but   *)
(* the connection may break, a frame may be damaged, and any armed         *)
(* deadline may expire at any moment: time is not modelled, only the order *)
(* in which things happen.                                                 *)
(***************************************************************************)
EXTENDS Engine

CONSTANTS
    DIALER_IDENTITY, LISTENER_IDENTITY,  \* raw identity keys, compared in glare
    EXPIRING,     \* the deadline kinds that may expire in this instance
    MAX_RUNS,     \* bound: ephemerals an engine draws before it stops starting
                  \* rekeys on request or on RekeyDue
    MAX_SENDS,    \* bound: messages each user sends
    MAX_FAULTS    \* bound: frames damaged and connections broken

ASSUME ConnectionBounds ==
    /\ DIALER_IDENTITY \in Nat
    /\ LISTENER_IDENTITY \in Nat
    /\ DIALER_IDENTITY # LISTENER_IDENTITY
    /\ EXPIRING \subseteq DeadlineKind
    /\ MAX_RUNS \in Nat
    /\ MAX_SENDS \in Nat
    /\ MAX_FAULTS \in Nat

Node == {"dialer", "listener"}
Peer(n) == IF n = "dialer" THEN "listener" ELSE "dialer"

VARIABLES
    engine,     \* [Node -> Engine]
    channel,    \* channel[n]: the frames in flight to n, oldest first
    rekeying,   \* the application's per-peer flag, driven by the events
    approved,   \* history: the user approved the SAS when asked
    sent,       \* history: how many messages n handed over for sending
    received,   \* history: the contents delivered to n, in order
    cause,      \* history: the CloseCause, or "none"
    faults      \* history: transport faults so far

vars == <<engine, channel, rekeying, approved, sent, received, cause, faults>>

Init ==
    /\ engine   = [n \in Node |->
                     IF n = "dialer" THEN NewEngine("Initiator", DIALER_IDENTITY)
                                     ELSE NewEngine("Responder", LISTENER_IDENTITY)]
    /\ channel  = [n \in Node |-> <<>>]
    /\ rekeying = [n \in Node |-> FALSE]
    /\ approved = [n \in Node |-> FALSE]
    /\ sent     = [n \in Node |-> 0]
    /\ received = [n \in Node |-> <<>>]
    /\ cause    = [n \in Node |-> "none"]
    /\ faults   = 0

Open(n) == engine[n].phase \notin {"Idle", "Closed"}

-----------------------------------------------------------------------------
(* The driver carries out a result: it writes the frames in order, hands   *)
(* the event and the content to the application, and after CloseTransport  *)
(* reads no more.  A frame to a closed peer is lost.                       *)

\* The application's per-peer rekeying flag after an event.
ShowsRekeying(event, shown) ==
    CASE event[1] = "RekeyStarted" -> TRUE
      [] event[1] \in {"RekeyCompleted", "RekeyFailed", "Closed"} -> FALSE
      [] OTHER -> shown

Perform(n, r, inbox) ==
    /\ engine' = [engine EXCEPT ![n] = Settled(r.e)]
    /\ channel' = [m \in Node |->
                     CASE m = n -> IF r.e.phase = "Closed" THEN <<>> ELSE inbox
                       [] OTHER -> IF engine[m].phase = "Closed" THEN <<>>
                                   ELSE channel[m] \o r.out]
    /\ rekeying' = [rekeying EXCEPT ![n] = ShowsRekeying(r.event, @)]
    /\ received' = IF r.deliver = NoContent THEN received
                   ELSE [received EXCEPT ![n] = Append(@, r.deliver)]
    /\ cause' = IF r.event[1] = "Closed" THEN [cause EXCEPT ![n] = r.event[2]]
                ELSE cause

\* Task::run feeds Start before it reads anything.
Start(n) ==
    /\ engine[n].phase = "Idle"
    /\ Perform(n, start(engine[n]), channel[n])
    /\ UNCHANGED <<approved, sent, faults>>

Receive(n) ==
    /\ Open(n)
    /\ channel[n] # <<>>
    /\ Perform(n, on_frame(engine[n], Head(channel[n])), Tail(channel[n]))
    /\ UNCHANGED <<approved, sent, faults>>

\* The user may answer at any time, also a prompt that is gone.
SasDecision(n, answer) ==
    /\ Open(n)
    /\ Perform(n, on_sas(engine[n], answer), channel[n])
    /\ approved' = [approved EXCEPT ![n] = @ \/ (answer /\ engine[n].run.step = "Sas")]
    /\ UNCHANGED <<sent, faults>>

LocalSend(n) ==
    /\ Open(n)
    /\ sent[n] < MAX_SENDS
    /\ LET r == on_send(engine[n], sent[n] + 1) IN
         /\ Perform(n, r, channel[n])
         /\ sent' = IF r.event[1] = "SendRejected" THEN sent
                    ELSE [sent EXCEPT ![n] = @ + 1]
    /\ UNCHANGED <<approved, faults>>

LocalSendTooLarge(n) ==
    /\ Open(n)
    /\ Perform(n, on_send(engine[n], TooLarge), channel[n])
    /\ UNCHANGED <<approved, sent, faults>>

RequestRekey(n) ==
    /\ Open(n)
    /\ engine[n].entropy < MAX_RUNS
    /\ Perform(n, begin_rekey(engine[n]), channel[n])
    /\ UNCHANGED <<approved, sent, faults>>

\* fire_due feeds a deadline of the driver's table that has passed.
Timeout(n, kind) ==
    /\ Open(n)
    /\ kind \in engine[n].deadlines \cap EXPIRING
    /\ kind = "RekeyDue" => engine[n].entropy < MAX_RUNS
    /\ Perform(n, on_timeout(engine[n], kind), channel[n])
    /\ UNCHANGED <<approved, sent, faults>>

LocalClose(n) ==
    /\ Open(n)
    /\ Perform(n, local_close(engine[n]), channel[n])
    /\ UNCHANGED <<approved, sent, faults>>

\* End of stream: everything the closed peer wrote has been read.
TransportClosed(n) ==
    /\ Open(n)
    /\ engine[Peer(n)].phase = "Closed"
    /\ channel[n] = <<>>
    /\ Perform(n, transport_closed(engine[n]), <<>>)
    /\ UNCHANGED <<approved, sent, faults>>

-----------------------------------------------------------------------------
(* Transport faults.                                                       *)

\* The connection breaks under n, with frames still in flight.
TransportLost(n) ==
    /\ Open(n)
    /\ faults < MAX_FAULTS
    /\ faults' = faults + 1
    /\ Perform(n, transport_closed(engine[n]), <<>>)
    /\ UNCHANGED <<approved, sent>>

\* A frame arrives whose framing (Malformed) does not decode.
ReceiveMalformed(n, respond) ==
    /\ Open(n)
    /\ channel[n] # <<>>
    /\ faults < MAX_FAULTS
    /\ faults' = faults + 1
    /\ Perform(n, malformed(engine[n], respond), Tail(channel[n]))
    /\ UNCHANGED <<approved, sent>>

\* A frame's payload is damaged, or a DATA frame's ciphertext.
Damage(n) ==
    /\ Open(n)
    /\ channel[n] # <<>>
    /\ faults < MAX_FAULTS
    /\ faults' = faults + 1
    /\ \/ channel' = [channel EXCEPT ![n][1].intact = FALSE]
       \/ /\ Head(channel[n]).kind = "DATA"
          /\ channel' = [channel EXCEPT ![n][1].key = NoKey]
    /\ UNCHANGED <<engine, rekeying, approved, sent, received, cause>>

Next ==
    \E n \in Node :
        \/ Start(n)
        \/ Receive(n)
        \/ \E answer \in BOOLEAN : SasDecision(n, answer)
        \/ LocalSend(n)
        \/ LocalSendTooLarge(n)
        \/ RequestRekey(n)
        \/ \E kind \in DeadlineKind : Timeout(n, kind)
        \/ LocalClose(n)
        \/ TransportClosed(n)
        \/ TransportLost(n)
        \/ \E respond \in BOOLEAN : ReceiveMalformed(n, respond)
        \/ Damage(n)

Spec == Init /\ [][Next]_vars

\* What the runtime owes an open connection: bytes in flight arrive, an end of
\* stream is noticed, and a deadline that stays armed expires.  Users owe
\* nothing.
Fairness ==
    \A n \in Node :
        /\ WF_vars(Start(n))
        /\ WF_vars(Receive(n))
        /\ WF_vars(TransportClosed(n))
        /\ \A kind \in {"HandshakeFrame", "SasDecision", "HandshakeTotal", "Drain"} :
              WF_vars(Timeout(n, kind))

FairSpec == Spec /\ Fairness

-----------------------------------------------------------------------------
(* Properties of every instance.                                           *)

Established(n) == engine[n].phase = "Established"

\* Nothing waits without a deadline: not a handshake, not the SAS prompt, not a
\* rekey, not a draining session.  And no deadline of an earlier wait is left
\* armed to cut a later one short.
EveryWaitIsTimed == \A n \in Node : WaitsTimed(engine[n])

\* A failed rekey never prevents a later one: an established engine is either
\* rekeying or has its next rekey armed, and a block on message-triggered
\* rekeys is always lifted by an armed deadline.
RekeyAlwaysScheduled == \A n \in Node : RekeyScheduled(engine[n])

\* Nobody has a session unless both users approved the SAS, even when the AUTH
\* of the faster user arrives while the slower one still reads the words.
ApprovedByBoth ==
    \A n \in Node : Established(n) => approved[n] /\ approved[Peer(n)]

\* Two ends that hold the same session are its two roles and agree on how far
\* each direction has come: what the receiving chain has not derived yet is
\* what is still in flight.  No frame of another session moves the chain.  (A
\* damaged frame may or may not have moved it: the link has been faultless.)
Sessions(n) == {engine[n].active, engine[n].draining} \ {NoSession}

InFlightOf(s, n) ==
    {i \in DOMAIN channel[n] : channel[n][i].kind = "DATA" /\ channel[n][i].id = s.id}

SharedSessionInStep ==
    faults = 0 => \A n \in Node : \A s \in Sessions(n), t \in Sessions(Peer(n)) :
        s.id = t.id =>
            /\ s.role # t.role
            /\ s.counter = t.receiver.ch.next + Cardinality(InFlightOf(s, Peer(n)))

\* A message of a session we still hold, active or draining, is delivered when
\* it arrives, whatever was damaged, aborted or rejected before it.
HeldSessionDelivers ==
    \A n \in Node : (Established(n) /\ channel[n] # <<>>) =>
        LET f == Head(channel[n]) IN
        (/\ f.kind = "DATA" /\ f.intact /\ f.key # NoKey
         /\ \E s \in Sessions(n) : s.id = f.id)
            => on_data(engine[n], f).deliver = f.content

\* Timeouts alone never make two correct engines accuse each other: a late
\* frame of an aborted rekey, a slow user or a crossing CLOSE ends no session
\* with a protocol or authentication error while the link damages nothing.
HonestPeerNeverBlamed ==
    faults = 0 => \A n \in Node : cause[n] \notin {"ProtocolError", "AuthenticationFailure"}

\* "The header shows the session state, such as ACTIVE, rekeying" (cli.md): the
\* flag the header is drawn from follows the engine.
RekeyingShown ==
    \A n \in Node : rekeying[n] <=> (Established(n) /\ engine[n].run # NoRun)

\* A started handshake comes to an end, whatever the users and the peer do.
HandshakeEnds ==
    \A n \in Node : engine[n].phase = "Handshaking"
                      ~> engine[n].phase \in {"Established", "Closed"}

\* So does every rekey.
RekeyEnds == \A n \in Node : engine[n].run # NoRun ~> engine[n].run = NoRun

\* A connection does not stay half closed.
CloseReachesPeer ==
    \A n \in Node : engine[n].phase = "Closed" ~> engine[Peer(n)].phase = "Closed"

-----------------------------------------------------------------------------
(* Properties of a calm instance: no handshake or drain deadline expires   *)
(* and nothing damages a frame.                                            *)

InFlight(n) == {i \in DOMAIN channel[n] : channel[n][i].kind = "DATA"}

\* "Queued application DATA is not lost" (protocol-spec section 8.5): rekeys,
\* also simultaneous ones and one inside another's drain window, lose nothing.
NothingLost ==
    \A n \in Node : Open(n) =>
        /\ Len(received[n]) + Cardinality(InFlight(n)) = sent[Peer(n)]
        /\ \A i \in DOMAIN received[n] : received[n][i] = i

\* Once the wire is quiet, either a user is being asked for the SAS or both
\* ends share one session and neither waits for the other.  Glare never leaves
\* two initiators or two responders.
QuietMeansAgreed ==
    (\A n \in Node : Open(n) /\ channel[n] = <<>>) =>
        \/ \E n \in Node : engine[n].run.step = "Sas"
        \/ /\ \A n \in Node : Established(n) /\ engine[n].run = NoRun
           /\ engine["dialer"].active.id = engine["listener"].active.id

\* No rekey attempt fails.
NoRekeyFails == \A n \in Node : ~engine[n].rekey_blocked

-----------------------------------------------------------------------------
(* What the documents say and the engine does not do.                      *)

\* protocol-spec.md section 8.4: "A failed or timed-out candidate is discarded;
\* the old session returns to ACTIVE and remains usable."  Usable: once the
\* wire is quiet, the peer still receives on the session we send on.
OldSessionUsable ==
    (\A n \in Node : Established(n) /\ channel[n] = <<>>) =>
        \A n \in Node : engine[n].rekey_blocked =>
            \E s \in Sessions(Peer(n)) : s.id = engine[n].active.id
=============================================================================
