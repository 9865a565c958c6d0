------------------------------- MODULE Engine -------------------------------
(***************************************************************************)
(* The sans-IO protocol engine (machine.rs, with the payload checks of     *)
(* handshake.rs and close.rs).  An engine is a record, and every handler   *)
(* of Engine::handle is an operator from an engine and an input to a       *)
(* result: the next engine, the frames to send, the event to notify and    *)
(* the content to deliver.  No input notifies more than one event.         *)
(*                                                                         *)
(* Cryptography is symbolic.  An ephemeral key (with its nonce) is a fresh *)
(* value; a commitment is the HELLO it commits to, which nobody opens      *)
(* before the reveal; a signature or a confirmation is the transcript it   *)
(* covers; the session id is a function of the transcript.                 *)
(***************************************************************************)
EXTENDS Ratchet, Sequences

CONSTANTS
    LATE_REKEY_FRAME_GRACE,             \* 8
    REKEY_REJECTION_WARNING_THRESHOLD,  \* 3
    REKEY_MESSAGE_LIMIT,                \* rekey_message_limit, 1_000_000
    MESSAGES_MAX                        \* u64::MAX, where messages saturates

ASSUME EngineBounds ==
    /\ LATE_REKEY_FRAME_GRACE \in Nat
    /\ REKEY_REJECTION_WARNING_THRESHOLD \in Nat
    /\ REKEY_MESSAGE_LIMIT \in Nat \ {0}     \* set_rekey_message_limit: max(1)
    /\ MESSAGES_MAX \in Nat

DeadlineKind == {"HandshakeFrame", "SasDecision", "HandshakeTotal",
                 "RekeyDue", "Drain"}

NoId      == <<>>                  \* Option<SessionId>::None
NoSession == [id |-> NoId]         \* Option<Session>::None
NoRun     == [step |-> "None"]     \* Option<Run>::None
NoFrame   == [kind |-> "None"]     \* Option<Frame>::None
NoContent == 0                     \* no Effect::Deliver
TooLarge  == -1                    \* a content longer than MAX_CONTENT

-----------------------------------------------------------------------------
(* Frames.  intact says whether the payload still decodes; the wire type   *)
(* of COMMIT, HELLO and AUTH is HANDSHAKE or REKEY, by their purpose.      *)

CommitPayload(hello) ==
    [kind |-> "COMMIT", intact |-> TRUE, purpose |-> hello.purpose,
     previous |-> hello.previous, commitment |-> hello]

HelloPayload(purpose, role, identity, ephemeral, previous) ==
    [kind |-> "HELLO", intact |-> TRUE, purpose |-> purpose, role |-> role,
     identity |-> identity, ephemeral |-> ephemeral, previous |-> previous]

HandshakePayload(stage, transcript) ==
    [kind |-> "AUTH", intact |-> TRUE, purpose |-> transcript.initiator.purpose,
     stage |-> stage, transcript |-> transcript]

SessionConfirmPayload(id, role) ==
    [kind |-> "CONFIRM", intact |-> TRUE, id |-> id, role |-> role]

DataPayload(id, direction, counter, content) ==
    [kind |-> "DATA", intact |-> TRUE, id |-> id, direction |-> direction,
     counter |-> counter, key |-> counter, content |-> content]

ClosePayload(id, reason) ==
    [kind |-> "CLOSE", intact |-> TRUE, id |-> id, reason |-> reason]

Decodes(f, kind) == f.kind = kind /\ f.intact

MessageType(f) ==
    CASE f.kind = "DATA"    -> "Data"
      [] f.kind = "CLOSE"   -> "Close"
      [] f.kind = "CONFIRM" -> "SessionConfirm"
      [] OTHER -> IF f.purpose = "Rekey" THEN "Rekey" ELSE "Handshake"

-----------------------------------------------------------------------------
(* Sessions and runs.                                                      *)

\* Session::new.  The sender's counter; direction is the run role of the side
\* that sends.
Session(id, role, peer) ==
    [id |-> id, role |-> role, peer |-> peer, counter |-> 0,
     receiver |-> NewReceiver]

Transcript(initiator, responder) ==
    [initiator |-> initiator, responder |-> responder]

\* derive_session_keys: the transcript binds both ephemerals and the session
\* being replaced.
SessionKeys(transcript) ==
    <<transcript.initiator.ephemeral, transcript.responder.ephemeral,
      transcript.initiator.previous>>

Previous(id) == id[3]

\* Engine::with_shared_identity.  entropy counts the ephemeral keys drawn;
\* deadlines is the set of armed kinds, since arm replaces a kind's deadline;
\* touched is the set of kinds with a SetDeadline or CancelDeadline effect
\* among the effects of the current input.
NewEngine(role, identity) ==
    [role |-> role, identity |-> identity, entropy |-> 0, phase |-> "Idle",
     run |-> NoRun, active |-> NoSession, draining |-> NoSession,
     deadlines |-> {}, touched |-> {}, messages |-> 0, rekey_blocked |-> FALSE,
     late_rekey_frames |-> 0, consecutive_rekey_rejections |-> 0]

Result(e, out, event) ==
    [e |-> e, out |-> out, event |-> event, deliver |-> NoContent]

-----------------------------------------------------------------------------
(* Deadlines and termination.                                              *)

arm(e, kind) ==
    [e EXCEPT !.deadlines = @ \cup {kind}, !.touched = @ \cup {kind}]

cancel(e, kinds) ==
    [e EXCEPT !.deadlines = @ \ kinds, !.touched = @ \cup (kinds \cap e.deadlines)]

cancel_all(e) == cancel(e, DeadlineKind)

\* The effects of an input have been handed out.
Settled(e) == [e EXCEPT !.touched = {}]

rearm_frame_deadline(e) ==
    IF \/ e.run.purpose = "Rekey"
       \/ e.run.step \in {"Hello", "Reveal", "ConfirmResp", "ConfirmInit"}
    THEN arm(e, "HandshakeFrame")
    ELSE cancel(e, {"HandshakeFrame"})

\* notify_peer is a close reason, or "none".
terminate(e, cause, notify_peer) ==
    Result([cancel_all(e) EXCEPT !.run = NoRun, !.active = NoSession,
                                 !.draining = NoSession, !.phase = "Closed"],
           IF notify_peer = "none" THEN <<>>
           ELSE <<ClosePayload(e.active.id, notify_peer)>>,
           <<"Closed", cause>>)

fail_initial(e, error) ==
    IF error \in {"SignatureInvalid", "ConfirmationInvalid"}
    THEN terminate(e, "AuthenticationFailure", "AuthenticationFailure")
    ELSE IF error = "IdentityMismatch"
    THEN terminate(e, "AuthenticationFailure", "IdentityChanged")
    ELSE terminate(e, "ProtocolError", "ProtocolError")

\* Mutant: a failed rekey schedules no retry.
fail_rekey_without_retry(e, error) ==
    Result(cancel([e EXCEPT !.run = NoRun, !.rekey_blocked = TRUE,
                            !.late_rekey_frames = LATE_REKEY_FRAME_GRACE],
                  {"HandshakeFrame", "HandshakeTotal", "RekeyDue"}),
           <<>>, <<"RekeyFailed", "Invalid">>)

\* Mutant: no grace for late frames.
fail_rekey_without_grace(e, error) ==
    Result(arm(cancel([e EXCEPT !.run = NoRun, !.rekey_blocked = TRUE],
                      {"HandshakeFrame", "HandshakeTotal"}),
               "RekeyDue"),
           <<>>, <<"RekeyFailed", "Invalid">>)

fail_rekey(e, error) ==
    Result(arm(cancel([e EXCEPT !.run = NoRun, !.rekey_blocked = TRUE,
                                !.late_rekey_frames = LATE_REKEY_FRAME_GRACE],
                      {"HandshakeFrame", "HandshakeTotal"}),
               "RekeyDue"),
           <<>>,
           <<"RekeyFailed", CASE error = "TransportTimeout" -> "Timeout"
                              [] error = "IdentityMismatch" -> "IdentityMismatch"
                              [] OTHER -> "Invalid">>)

\* The error arm of on_frame_handshaking, on_sas and on_rekey_frame.
Fail(e, error) ==
    IF e.phase = "Handshaking" THEN fail_initial(e, error) ELSE fail_rekey(e, error)

note_rekey_rejection(e) ==
    IF e.consecutive_rekey_rejections >= REKEY_REJECTION_WARNING_THRESHOLD
    THEN Result(e, <<>>, <<"none">>)
    ELSE Result([e EXCEPT !.consecutive_rekey_rejections = @ + 1], <<>>,
                IF e.consecutive_rekey_rejections + 1
                     = REKEY_REJECTION_WARNING_THRESHOLD
                THEN <<"RekeyFailed", "Repeated">> ELSE <<"none">>)

-----------------------------------------------------------------------------
(* Starting a run.                                                         *)

fresh_keys(e) == <<e.identity, e.entropy>>

Run(e, purpose, role, previous, commit, step) ==
    [purpose |-> purpose, role |-> role, previous |-> previous,
     local_hello |-> HelloPayload(purpose, role, e.identity, fresh_keys(e), previous),
     commit |-> commit, step |-> step, transcript |-> <<>>, early |-> NoFrame]

WithRun(e, run) == [e EXCEPT !.run = run, !.entropy = @ + 1]

\* start_initiator_run: the engine with its new run; the frame it sends is
\* CommitPayload(run.local_hello).
start_initiator_run(e, purpose, previous) ==
    WithRun(e, Run(e, purpose, "Initiator", previous, NoFrame, "Hello"))

\* Mutant: answering a rekey is always announced.
start_responder_run_announces(e, commit, emit_rekey_started) ==
    LET started == WithRun(e, Run(e, commit.purpose, "Responder", commit.previous,
                                  commit, "Reveal"))
        timed   == IF commit.purpose = "Rekey" THEN arm(started, "HandshakeTotal")
                   ELSE started
    IN  Result(rearm_frame_deadline(timed), <<started.run.local_hello>>,
               IF commit.purpose = "Rekey" THEN <<"RekeyStarted">> ELSE <<"none">>)

start_responder_run(e, commit, emit_rekey_started) ==
    LET started == WithRun(e, Run(e, commit.purpose, "Responder", commit.previous,
                                  commit, "Reveal"))
        timed   == IF commit.purpose = "Rekey" THEN arm(started, "HandshakeTotal")
                   ELSE started
    IN  Result(rearm_frame_deadline(timed), <<started.run.local_hello>>,
               IF commit.purpose = "Rekey" /\ emit_rekey_started
               THEN <<"RekeyStarted">> ELSE <<"none">>)

start(e) ==
    IF e.phase # "Idle" THEN Result(e, <<>>, <<"none">>)
    ELSE LET timed == arm([e EXCEPT !.phase = "Handshaking"], "HandshakeTotal") IN
         IF e.role = "Initiator"
         THEN LET started == start_initiator_run(timed, "Initial", NoId)
              IN  Result(rearm_frame_deadline(started),
                         <<CommitPayload(started.run.local_hello)>>, <<"none">>)
         ELSE Result(arm(timed, "HandshakeFrame"), <<>>, <<"none">>)

begin_rekey(e) ==
    IF e.phase # "Established" \/ e.run # NoRun THEN Result(e, <<>>, <<"none">>)
    ELSE LET started == start_initiator_run(e, "Rekey", e.active.id)
         IN  Result(rearm_frame_deadline(arm(started, "HandshakeTotal")),
                    <<CommitPayload(started.run.local_hello)>>, <<"RekeyStarted">>)

-----------------------------------------------------------------------------
(* Completing a run.  out is what step_run already pushed.                 *)

remote_identity(run) ==
    IF run.role = "Initiator" THEN run.transcript.responder.identity
                              ELSE run.transcript.initiator.identity

complete_initial(e, out) ==
    LET id == SessionKeys(e.run.transcript) IN
    Result(arm(cancel([e EXCEPT !.active = Session(id, e.run.role,
                                                   remote_identity(e.run)),
                                !.run = NoRun, !.phase = "Established",
                                !.messages = 0, !.late_rekey_frames = 0,
                                !.consecutive_rekey_rejections = 0],
                      {"HandshakeFrame", "SasDecision", "HandshakeTotal"}),
               "RekeyDue"),
           out, <<"Established">>)

\* Mutant: the old session is destroyed at promotion instead of drained.
complete_rekey_without_drain(e, out) ==
    LET id == SessionKeys(e.run.transcript) IN
    Result(arm(cancel([e EXCEPT !.active = Session(id, e.run.role, e.active.peer),
                                !.run = NoRun, !.messages = 0,
                                !.rekey_blocked = FALSE,
                                !.late_rekey_frames = 0,
                                !.consecutive_rekey_rejections = 0],
                      {"HandshakeFrame", "HandshakeTotal"}),
               "RekeyDue"),
           out, <<"RekeyCompleted">>)

\* Mutant: promotion leaves the deadlines of the finished run armed.
complete_rekey_without_cancel(e, out) ==
    LET id == SessionKeys(e.run.transcript) IN
    Result(arm(arm([e EXCEPT !.draining = e.active,
                             !.active = Session(id, e.run.role, e.active.peer),
                             !.run = NoRun, !.messages = 0,
                             !.rekey_blocked = FALSE,
                             !.late_rekey_frames = 0,
                             !.consecutive_rekey_rejections = 0],
                   "Drain"), "RekeyDue"),
           out, <<"RekeyCompleted">>)

complete_rekey(e, out) ==
    LET id == SessionKeys(e.run.transcript) IN
    IF e.active.peer # remote_identity(e.run) \/ e.active.id = id
    THEN [fail_rekey(e, "IdentityMismatch") EXCEPT !.out = out]
    ELSE Result(arm(arm(cancel([e EXCEPT !.draining = e.active,
                                         !.active = Session(id, e.run.role,
                                                            e.active.peer),
                                         !.run = NoRun, !.messages = 0,
                                         !.rekey_blocked = FALSE,
                                         !.late_rekey_frames = 0,
                                         !.consecutive_rekey_rejections = 0],
                               {"HandshakeFrame", "HandshakeTotal"}),
                        "Drain"), "RekeyDue"),
                out, <<"RekeyCompleted">>)

Complete(e, out) ==
    IF e.phase = "Handshaking" THEN complete_initial(e, out) ELSE complete_rekey(e, out)

-----------------------------------------------------------------------------
(* step_run, one operator per step.                                        *)

\* verify_handshake_for_role: a signature over another transcript is caught by
\* the transcript comparison before it is verified.
verify_auth(e, f, stage) ==
    Decodes(f, "AUTH") /\ f.stage = stage /\ f.transcript = e.run.transcript

step_AuthInit(e, f) ==
    IF ~verify_auth(e, f, 0) THEN Fail(e, "InvalidHandshake")
    ELSE Result(rearm_frame_deadline([e EXCEPT !.run.step = "ConfirmInit"]),
                <<HandshakePayload(1, e.run.transcript)>>, <<"none">>)

step_AuthResp(e, f) ==
    IF ~verify_auth(e, f, 1) THEN Fail(e, "InvalidHandshake")
    ELSE Result(rearm_frame_deadline([e EXCEPT !.run.step = "ConfirmResp"]),
                <<SessionConfirmPayload(SessionKeys(e.run.transcript), "Initiator")>>,
                <<"none">>)

\* SessionConfirmPayload::verify_from
verify_from(e, f, role) ==
    /\ Decodes(f, "CONFIRM")
    /\ f.role = role
    /\ f.id = SessionKeys(e.run.transcript)

ConfirmError(f) ==
    IF f.kind = "CONFIRM" /\ ~f.intact THEN "Encoding" ELSE "ConfirmationInvalid"

step_ConfirmResp(e, f) ==
    IF ~verify_from(e, f, "Responder") THEN Fail(e, ConfirmError(f))
    ELSE Complete(e, <<>>)

step_ConfirmInit(e, f) ==
    IF ~verify_from(e, f, "Initiator") THEN Fail(e, ConfirmError(f))
    ELSE Complete(e, <<SessionConfirmPayload(SessionKeys(e.run.transcript),
                                             "Responder")>>)

after_approval(e) ==
    LET stepped == [e EXCEPT !.run.step =
                       IF e.run.role = "Initiator" THEN "AuthResp" ELSE "AuthInit"]
    IN  IF e.run.role = "Initiator"
        THEN Result(rearm_frame_deadline(stepped),
                    <<HandshakePayload(0, e.run.transcript)>>, <<"none">>)
        ELSE IF e.run.early # NoFrame
        THEN step_AuthInit([stepped EXCEPT !.run.early = NoFrame], e.run.early)
        ELSE Result(rearm_frame_deadline(stepped), <<>>, <<"none">>)

\* out: the reveal, on the initiator's side.
after_hellos(e, transcript, out) ==
    LET known == [e EXCEPT !.run.transcript = transcript] IN
    IF e.run.purpose = "Initial"
    THEN Result(arm(cancel([known EXCEPT !.run.step = "Sas"], {"HandshakeFrame"}),
                    "SasDecision"),
                out, <<"RequestSas">>)
    ELSE LET r == after_approval(known) IN [r EXCEPT !.out = out \o @]

HelloError(e, f, role) ==
    LET mine == e.run.local_hello IN
    IF \/ ~Decodes(f, "HELLO")
       \/ f.role # role
       \/ f.purpose # e.run.purpose
       \/ f.previous # e.run.previous
       \/ f.identity = mine.identity
       \/ f.ephemeral = mine.ephemeral
    THEN "InvalidHandshake"
    ELSE IF e.run.purpose = "Rekey" /\ f.identity # e.active.peer
    THEN "IdentityMismatch"
    ELSE "none"

step_Hello(e, f) ==
    LET error == HelloError(e, f, "Responder") IN
    IF error # "none" THEN Fail(e, error)
    ELSE after_hellos(e, Transcript(e.run.local_hello, f), <<e.run.local_hello>>)

step_Reveal(e, f) ==
    LET error == HelloError(e, f, "Initiator") IN
    IF error # "none" THEN Fail(e, error)
    ELSE IF e.run.commit.commitment # f THEN Fail(e, "InvalidHandshake")
    ELSE after_hellos(e, Transcript(f, e.run.local_hello), <<>>)

\* Mutant: the early AUTH is processed while the user still decides.
step_Sas_at_once(e, f) == step_AuthInit(e, f)

step_Sas(e, f) ==
    IF e.run.role = "Responder" /\ e.run.early = NoFrame /\ MessageType(f) = "Handshake"
    THEN Result([e EXCEPT !.run.early = f], <<>>, <<"none">>)
    ELSE Fail(e, "InvalidStateTransition")

step_run(e, f) ==
    CASE e.run.step = "Hello"       -> step_Hello(e, f)
      [] e.run.step = "Reveal"      -> step_Reveal(e, f)
      [] e.run.step = "Sas"         -> step_Sas(e, f)
      [] e.run.step = "AuthResp"    -> step_AuthResp(e, f)
      [] e.run.step = "AuthInit"    -> step_AuthInit(e, f)
      [] e.run.step = "ConfirmResp" -> step_ConfirmResp(e, f)
      [] e.run.step = "ConfirmInit" -> step_ConfirmInit(e, f)

-----------------------------------------------------------------------------
(* REKEY and SESSION_CONFIRM frames in the Established phase.              *)

ReferencesActive(e, f) ==
    /\ Decodes(f, "COMMIT")
    /\ f.purpose = "Rekey"
    /\ f.previous # NoId
    /\ f.previous = e.active.id

on_incoming_commit(e, commit, emit_rekey_started) ==
    IF ~ReferencesActive(e, commit) THEN note_rekey_rejection(e)
    ELSE start_responder_run([e EXCEPT !.consecutive_rekey_rejections = 0],
                             commit, emit_rekey_started)

\* Mutant: both ends believe they win.
both_win_rekey_glare(local, remote) == local # remote

\* Mutant: both ends give in.
neither_wins_rekey_glare(local, remote) == local = remote

local_identity_wins_rekey_glare(local, remote) == local > remote

resolve_glare(e, commit) ==
    IF commit.previous # e.run.previous THEN note_rekey_rejection(e)
    ELSE IF local_identity_wins_rekey_glare(e.identity, e.active.peer)
    THEN Result(e, <<>>, <<"none">>)
    ELSE on_incoming_commit(cancel([e EXCEPT !.run = NoRun],
                                   {"HandshakeFrame", "HandshakeTotal"}),
                            commit, FALSE)

on_rekey_frame(e, f) ==
    IF e.run = NoRun
    THEN IF ReferencesActive(e, f)
         THEN on_incoming_commit([e EXCEPT !.late_rekey_frames = 0], f, TRUE)
         ELSE IF e.late_rekey_frames > 0
         THEN Result([e EXCEPT !.late_rekey_frames = @ - 1], <<>>, <<"none">>)
         ELSE IF MessageType(f) = "SessionConfirm"
         THEN terminate(e, "ProtocolError", "ProtocolError")
         ELSE note_rekey_rejection(e)
    ELSE IF /\ e.run.role = "Initiator"
            /\ e.run.step = "Hello"
            /\ MessageType(f) = "Rekey"
            /\ Decodes(f, "COMMIT")
    THEN resolve_glare(e, f)
    ELSE step_run(e, f)

-----------------------------------------------------------------------------
(* DATA and CLOSE.                                                         *)

Counted(e) == [e EXCEPT !.messages = IF @ < MESSAGES_MAX THEN @ + 1 ELSE @]

\* Count one message and trigger a rekey at the limit; what the message itself
\* sends goes out before the COMMIT.
maybe_trigger_rekey(e, out) ==
    LET r == IF e.messages >= REKEY_MESSAGE_LIMIT /\ ~e.rekey_blocked
             THEN begin_rekey(e) ELSE Result(e, <<>>, <<"none">>)
    IN  [r EXCEPT !.out = out \o @]

on_send(e, content) ==
    IF content = TooLarge THEN Result(e, <<>>, <<"SendRejected", "TooLarge">>)
    ELSE IF e.phase # "Established" THEN Result(e, <<>>, <<"SendRejected", "NotActive">>)
    ELSE IF e.active.counter >= COUNTER_MAX
    THEN terminate(e, "ProtocolError", "ProtocolError")
    ELSE maybe_trigger_rekey(
            Counted([e EXCEPT !.active.counter = @ + 1]),
            <<DataPayload(e.active.id, e.active.role, e.active.counter, content)>>)

\* Mutant: the session id of a DATA frame is not compared.
AddressedAnySession(s, f) == f.intact /\ f.direction # s.role

\* DataReceiver::decrypt for a session: a frame of another session or of our
\* own direction never reaches the ratchet.
Addressed(s, f) == f.intact /\ f.id = s.id /\ f.direction # s.role

decrypts(s, f) == Addressed(s, f) /\ DecryptError(s.receiver, f) = "none"

decrypt(s, f) ==
    IF Addressed(s, f) THEN [s EXCEPT !.receiver = Decrypt(@, f)] ELSE s

\* Mutant: a frame the active session rejects is not offered to the old one.
on_data_active_only(e, f) ==
    LET tried == [e EXCEPT !.active = decrypt(@, f)] IN
    IF decrypts(e.active, f)
    THEN [maybe_trigger_rekey(Counted(tried), <<>>) EXCEPT !.deliver = f.content]
    ELSE IF ~f.intact THEN terminate(tried, "ProtocolError", "ProtocolError")
    ELSE Result(tried, <<>>, <<"DataRejected">>)

on_data(e, f) ==
    LET tried == [e EXCEPT !.active = decrypt(@, f)] IN
    IF decrypts(e.active, f)
    THEN [maybe_trigger_rekey(Counted(tried), <<>>) EXCEPT !.deliver = f.content]
    ELSE LET both == IF e.draining = NoSession THEN tried
                     ELSE [tried EXCEPT !.draining = decrypt(@, f)]
         IN  IF e.draining # NoSession /\ decrypts(e.draining, f)
             THEN [Result(both, <<>>, <<"none">>) EXCEPT !.deliver = f.content]
             ELSE IF ~f.intact       \* is_malformed
             THEN terminate(both, "ProtocolError", "ProtocolError")
             ELSE Result(both, <<>>, <<"DataRejected">>)

on_close_frame(e, f) ==
    IF ~Decodes(f, "CLOSE") THEN terminate(e, "ProtocolError", "ProtocolError")
    ELSE IF e.phase = "Handshaking"
    THEN IF f.id = NoId THEN terminate(e, "PeerUnauthenticated", "none")
         ELSE Result(e, <<>>, <<"none">>)
    ELSE IF f.id # NoId /\ f.id = e.active.id
    THEN terminate(e, "PeerUnauthenticated", "none")
    ELSE IF f.id # NoId /\ f.id = e.draining.id
    THEN Result(cancel([e EXCEPT !.draining = NoSession], {"Drain"}),
                <<>>, <<"none">>)
    ELSE Result(e, <<>>, <<"none">>)

-----------------------------------------------------------------------------
(* Engine::handle: one operator per input.                                 *)

accept_first_commit(e, f) ==
    IF Decodes(f, "COMMIT") /\ f.purpose = "Initial" /\ f.previous = NoId
    THEN start_responder_run(e, f, TRUE)
    ELSE fail_initial(e, "InvalidHandshake")

on_frame(e, f) ==
    CASE e.phase \in {"Idle", "Closed"} ->
            terminate(e, "ProtocolError", "ProtocolError")
      [] e.phase = "Handshaking" ->
            IF MessageType(f) = "Close" THEN on_close_frame(e, f)
            ELSE IF e.run = NoRun THEN accept_first_commit(e, f)
            ELSE step_run(e, f)
      [] e.phase = "Established" ->
            CASE MessageType(f) = "Data"  -> on_data(e, f)
              [] MessageType(f) = "Close" -> on_close_frame(e, f)
              [] MessageType(f) \in {"Rekey", "SessionConfirm"} -> on_rekey_frame(e, f)
              [] MessageType(f) = "Handshake" ->
                    terminate(e, "ProtocolError", "ProtocolError")

on_sas(e, approved) ==
    LET answered == cancel(e, {"SasDecision"}) IN
    IF e.phase # "Handshaking" \/ e.run.step # "Sas" THEN Result(e, <<>>, <<"none">>)
    ELSE IF ~approved THEN terminate(answered, "SasRejected", "AuthenticationFailure")
    ELSE after_approval(answered)

\* Mutant: no deadline interrupts a user who is still reading the words.
on_timeout_spares_user(e, kind) ==
    LET fired == [e EXCEPT !.deadlines = @ \ {kind}] IN
    IF e.run.step = "Sas" THEN Result(fired, <<>>, <<"none">>)
    ELSE CASE kind \in {"HandshakeFrame", "HandshakeTotal"} ->
                IF e.phase = "Handshaking"
                THEN terminate(fired, "Timeout", "ResourceLimit")
                ELSE fail_rekey(fired, "TransportTimeout")
           [] kind = "RekeyDue" ->
                begin_rekey([fired EXCEPT !.rekey_blocked = FALSE,
                                          !.late_rekey_frames = 0])
           [] kind = "Drain" ->
                Result([fired EXCEPT !.draining = NoSession], <<>>, <<"none">>)

\* Mutant: the frame and total deadlines only guard the initial handshake.
on_timeout_initial_only(e, kind) ==
    LET fired == [e EXCEPT !.deadlines = @ \ {kind}] IN
    CASE kind \in {"HandshakeFrame", "HandshakeTotal"} ->
            IF e.phase = "Handshaking" THEN terminate(fired, "Timeout", "ResourceLimit")
            ELSE Result(fired, <<>>, <<"none">>)
      [] kind = "SasDecision" -> terminate(fired, "Timeout", "AuthenticationFailure")
      [] kind = "RekeyDue" ->
            begin_rekey([fired EXCEPT !.rekey_blocked = FALSE, !.late_rekey_frames = 0])
      [] kind = "Drain" -> Result([fired EXCEPT !.draining = NoSession], <<>>, <<"none">>)

on_timeout(e, kind) ==
    LET fired == [e EXCEPT !.deadlines = @ \ {kind}] IN
    IF kind \notin e.deadlines THEN Result(e, <<>>, <<"none">>)
    ELSE CASE kind \in {"HandshakeFrame", "HandshakeTotal"} ->
                IF e.phase = "Handshaking"
                THEN terminate(fired, "Timeout", "ResourceLimit")
                ELSE IF e.run # NoRun THEN fail_rekey(fired, "TransportTimeout")
                ELSE Result(fired, <<>>, <<"none">>)
           [] kind = "SasDecision" ->
                terminate(fired, "Timeout", "AuthenticationFailure")
           [] kind = "RekeyDue" ->
                begin_rekey([fired EXCEPT !.rekey_blocked = FALSE,
                                          !.late_rekey_frames = 0])
           [] kind = "Drain" ->
                Result([fired EXCEPT !.draining = NoSession], <<>>, <<"none">>)

local_close(e) == terminate(e, "Local", "Normal")

\* Mutant: a lost transport only ends an unfinished handshake.
transport_closed_handshake(e) ==
    IF e.phase = "Established" THEN Result(e, <<>>, <<"none">>)
    ELSE terminate(e, "TransportLost", "none")

transport_closed(e) == terminate(e, "TransportLost", "none")

malformed(e, respond) ==
    terminate(e, "ProtocolError", IF respond THEN "ProtocolError" ELSE "none")

-----------------------------------------------------------------------------
(* What holds of one engine, whatever inputs it is given.                  *)

\* Nothing waits without a deadline: not a handshake, not the SAS prompt, not a
\* rekey, not a draining session.  And no deadline of an earlier wait is left
\* armed to cut a later one short.
WaitsTimed(e) ==
    /\ e.phase = "Handshaking" =>
         /\ "HandshakeTotal" \in e.deadlines
         /\ "SasDecision" \in e.deadlines <=> e.run.step = "Sas"
    /\ e.phase = "Established" =>
         /\ "HandshakeTotal" \in e.deadlines <=> e.run # NoRun
         /\ "HandshakeFrame" \in e.deadlines <=> e.run # NoRun
         /\ "SasDecision" \notin e.deadlines
    /\ "Drain" \in e.deadlines <=> e.draining # NoSession

\* A failed rekey never prevents a later one: an established engine is either
\* rekeying or has its next rekey armed, and a block on message-triggered
\* rekeys is always lifted by an armed deadline.
RekeyScheduled(e) ==
    e.phase = "Established" =>
        /\ e.run # NoRun \/ "RekeyDue" \in e.deadlines
        /\ e.rekey_blocked => "RekeyDue" \in e.deadlines
=============================================================================
