---------------------------- MODULE EngineProofs ----------------------------
(***************************************************************************)
(* What every handler of an engine guarantees, for every input and every    *)
(* value of the constants: the engine stays consistent, its waits are       *)
(* timed, its effects report each change of its deadlines, and its event    *)
(* tells what happened.  The proofs about Task and Connection rest on this. *)
(***************************************************************************)
EXTENDS Engine, RatchetProofs

EngineFields ==
    {"role", "identity", "entropy", "phase", "run", "active", "draining", "deadlines",
     "touched", "messages", "rekey_blocked", "late_rekey_frames",
     "consecutive_rekey_rejections"}

RunFields ==
    {"purpose", "role", "previous", "local_hello", "commit", "step", "transcript", "early"}

SessionFields == {"id", "role", "peer", "counter", "receiver"}

AskedSteps == {"Sas", "AuthResp", "AuthInit", "ConfirmResp", "ConfirmInit"}

Steps == {"Hello", "Reveal"} \cup AskedSteps

\* Sessions and the deadlines that are theirs.
Held(e) ==
    /\ DOMAIN e = EngineFields
    /\ e.deadlines \subseteq DeadlineKind
    /\ e.draining = NoSession \/ DOMAIN e.draining = SessionFields
    /\ "Drain" \in e.deadlines <=> e.draining # NoSession
    /\ e.phase = "Established" =>
          /\ DOMAIN e.active = SessionFields
          /\ e.active.id # NoId
          /\ e.rekey_blocked => "RekeyDue" \in e.deadlines

\* A run, of the purpose and about the session that the phase asks for.
HasRun(e) ==
    /\ e.phase \in {"Handshaking", "Established"}
    /\ DOMAIN e.run = RunFields
    /\ e.run.step \in Steps
    /\ e.run.purpose = IF e.phase = "Established" THEN "Rekey" ELSE "Initial"
    /\ e.phase = "Established" => e.run.previous = e.active.id

\* Within a handler: a run that is timed, but for its frame deadline.
Running(e) ==
    /\ Held(e) /\ HasRun(e)
    /\ "HandshakeTotal" \in e.deadlines
    /\ "SasDecision" \notin e.deadlines

EngineOK(e) ==
    /\ Held(e)
    /\ e.phase \in {"Idle", "Handshaking", "Established", "Closed"}
    /\ e.run = NoRun \/ HasRun(e)
    /\ e.phase \in {"Idle", "Closed"} =>
          e.run = NoRun /\ e.draining = NoSession /\ e.deadlines = {}
    /\ WaitsTimed(e)
    /\ RekeyScheduled(e)

-----------------------------------------------------------------------------
(* What a result tells.                                                    *)

\* Effects tell of every deadline that is armed or cancelled.
Reported(e, after) ==
    /\ e.touched \subseteq after.touched
    /\ \A k \in DeadlineKind \ after.touched : k \in after.deadlines <=> k \in e.deadlines

\* The stage of the connection, as its events have told it.
StageOf(e) ==
    CASE e.phase = "Closed" -> "Closed"
      [] e.phase = "Established" -> "Established"
      [] e.phase = "Handshaking" /\ e.run.step \in AskedSteps -> "Asked"
      [] OTHER -> "Opened"

UnderWay(e) == e.phase = "Established" /\ e.run # NoRun

Same(e, after) ==
    /\ StageOf(after) = StageOf(e)
    /\ UnderWay(after) <=> UnderWay(e)

Moves(e, after, from, to) == StageOf(e) = from /\ StageOf(after) = to

\* The event of a result is the one that fits the change of the engine.
Legal(e, r) ==
    \/ r.event[1] = "none" /\ Same(e, r.e)
    \/ r.event[1] = "SendRejected" /\ Same(e, r.e)
    \/ r.event[1] = "DataRejected" /\ Same(e, r.e) /\ e.phase = "Established"
    \/ r.event = <<"RekeyFailed", "Repeated">> /\ Same(e, r.e) /\ e.phase = "Established"
    \/ /\ r.event[1] = "RequestSas" /\ Moves(e, r.e, "Opened", "Asked")
       /\ ~UnderWay(e) /\ ~UnderWay(r.e)
    \/ /\ r.event[1] = "Established" /\ Moves(e, r.e, "Asked", "Established")
       /\ ~UnderWay(e) /\ ~UnderWay(r.e)
    \/ /\ r.event[1] = "RekeyStarted" /\ Moves(e, r.e, "Established", "Established")
       /\ ~UnderWay(e) /\ UnderWay(r.e)
    \/ /\ r.event[1] \in {"RekeyCompleted", "RekeyFailed"}
       /\ r.event # <<"RekeyFailed", "Repeated">>
       /\ Moves(e, r.e, "Established", "Established")
       /\ UnderWay(e) /\ ~UnderWay(r.e)
    \/ r.event[1] = "Closed" /\ r.e.phase = "Closed"

\* Content is delivered in an established session only, and ends nothing.
Delivers(e, r) ==
    r.deliver # NoContent =>
        e.phase = "Established" /\ r.event[1] \in {"none", "RekeyStarted"}

IsSequence(s) == \E S : s \in Seq(S)

Handled(e, r) ==
    /\ DOMAIN r = {"e", "out", "event", "deliver"}
    /\ EngineOK(r.e)
    /\ r.e.role = e.role
    /\ Reported(e, r.e)
    /\ Legal(e, r)
    /\ Delivers(e, r)
    /\ IsSequence(r.out)

-----------------------------------------------------------------------------

\* Output that sends nothing is a sequence.
LEMMA NoneSent == IsSequence(<<>>)
BY <<>> \in Seq({}) DEF IsSequence

\* So is a single frame.
LEMMA OneSent == ASSUME NEW f PROVE IsSequence(<<f>>)
BY <<f>> \in Seq({f}) DEF IsSequence

\* So is one output after another.
LEMMA BothSent ==
  ASSUME NEW s, NEW t, IsSequence(s), IsSequence(t)
  PROVE  IsSequence(s \o t)
<1>1. PICK S : s \in Seq(S)
  BY DEF IsSequence
<1>2. PICK T : t \in Seq(T)
  BY DEF IsSequence
<1>3. s \in Seq(S \cup T) /\ t \in Seq(S \cup T)
  BY <1>1, <1>2
<1>4. s \o t \in Seq(S \cup T)
  BY <1>3
<1> QED BY <1>4 DEF IsSequence

\* terminate ends everything at once: it leaves a closed engine, no session to
\* drain and no deadline, and tells Closed.
LEMMA Terminate ==
  ASSUME NEW e, NEW why, NEW notify, DOMAIN e = EngineFields, e.deadlines \subseteq DeadlineKind
  PROVE  Handled(e, terminate(e, why, notify))
BY NoneSent, OneSent DEF terminate, Result, cancel_all, cancel, Handled, EngineOK, Held, WaitsTimed, RekeyScheduled,
   Reported, Legal, Delivers, EngineFields, DeadlineKind, NoRun, NoSession, NoContent

\* fail_rekey ends the run and nothing else: the session stays, a retry is armed
\* and the failure is told.
LEMMA FailRekey ==
  ASSUME NEW e, NEW error, Held(e), HasRun(e), e.phase = "Established",
         "SasDecision" \notin e.deadlines
  PROVE  Handled(e, fail_rekey(e, error))
<1> DEFINE r == fail_rekey(e, error)
<1>1. EngineOK(r.e) /\ r.e.role = e.role /\ r.e.phase = "Established" /\ r.e.run = NoRun
  BY DEF fail_rekey, Result, arm, cancel, EngineOK, Held, HasRun, WaitsTimed, RekeyScheduled,
   EngineFields, DeadlineKind, NoRun, NoSession, SessionFields
<1>2. Reported(e, r.e)
  BY DEF fail_rekey, Result, arm, cancel, Held, Reported, EngineFields, DeadlineKind
<1>3. /\ r.event[1] = "RekeyFailed" /\ r.event # <<"RekeyFailed", "Repeated">>
      /\ r.out = <<>> /\ r.deliver = NoContent /\ DOMAIN r = {"e", "out", "event", "deliver"}
  BY DEF fail_rekey, Result
<1>4. UnderWay(e) /\ ~UnderWay(r.e) /\ Moves(e, r.e, "Established", "Established")
  BY <1>1 DEF HasRun, NoRun, UnderWay, Moves, StageOf, RunFields, Steps, AskedSteps
<1> HIDE DEF r
<1>5. Handled(e, r)
  BY <1>1, <1>2, <1>3, <1>4, NoneSent DEF Handled, Legal, Delivers
<1> QED BY <1>5 DEF r

\* A result that tells of nothing, or only of a refusal.
LEMMA Quiet ==
  ASSUME NEW e, NEW after, NEW out, NEW event,
         EngineOK(after), after.role = e.role, Reported(e, after), Same(e, after),
         IsSequence(out),
         \/ event[1] \in {"none", "SendRejected"}
         \/ event[1] = "DataRejected" /\ e.phase = "Established"
         \/ event = <<"RekeyFailed", "Repeated">> /\ e.phase = "Established"
  PROVE  Handled(e, Result(after, out, event))
BY DEF Handled, Legal, Delivers, Result

\* What a handler changes before it hands over to another is no event.
LEMMA HandsOver ==
  ASSUME NEW e, NEW x, NEW r, Handled(x, r),
         x.role = e.role, Reported(e, x), Same(e, x)
  PROVE  Handled(e, r)
<1>1. x.phase = "Established" <=> e.phase = "Established"
  BY DEF Same, StageOf
<1>2. Reported(e, r.e)
  BY DEF Handled, Reported
<1>3. Legal(e, r)
  BY <1>1 DEF Handled, Legal, Same, Moves
<1>4. Delivers(e, r)
  BY <1>1 DEF Handled, Delivers
<1> QED BY <1>2, <1>3, <1>4 DEF Handled

\* A failure of a run ends the connection during the first handshake and only
\* the run during a rekey.
LEMMA Fails ==
  ASSUME NEW e, NEW error, Held(e), HasRun(e),
         e.phase = "Established" => "SasDecision" \notin e.deadlines
  PROVE  Handled(e, Fail(e, error))
<1>1. CASE e.phase = "Handshaking"
  BY <1>1, Terminate DEF Fail, fail_initial, Held
<1>2. CASE e.phase # "Handshaking"
  BY <1>2, FailRekey DEF Fail, HasRun
<1> QED BY <1>1, <1>2

\* rearm_frame_deadline makes the run's wait a timed one again.
LEMMA Rearms ==
  ASSUME NEW e, Running(e), e.run.step # "Sas"
  PROVE  LET x == rearm_frame_deadline(e) IN
         EngineOK(x) /\ x.role = e.role /\ Reported(e, x) /\ Same(e, x)
<1> DEFINE x == rearm_frame_deadline(e)
<1>1. /\ DOMAIN x = EngineFields
      /\ \A f \in EngineFields \ {"deadlines", "touched"} : x[f] = e[f]
      /\ x.deadlines \in {e.deadlines \cup {"HandshakeFrame"}, e.deadlines \ {"HandshakeFrame"}}
      /\ e.run.purpose = "Rekey" => "HandshakeFrame" \in x.deadlines
      /\ e.touched \subseteq x.touched
      /\ \A k \in DeadlineKind \ x.touched : k \in x.deadlines <=> k \in e.deadlines
  BY DEF rearm_frame_deadline, arm, cancel, Running, Held, EngineFields, DeadlineKind
<1>2. /\ x.role = e.role /\ x.phase = e.phase /\ x.run = e.run /\ x.active = e.active
      /\ x.draining = e.draining /\ x.rekey_blocked = e.rekey_blocked
  BY <1>1 DEF EngineFields
<1> HIDE DEF x
<1>3. Held(x) /\ HasRun(x) /\ e.run # NoRun
  BY <1>1, <1>2 DEF Running, Held, HasRun, DeadlineKind, RunFields, Steps, AskedSteps, NoRun
<1>4. WaitsTimed(x) /\ RekeyScheduled(x)
  BY <1>1, <1>2, <1>3 DEF Running, Held, HasRun, WaitsTimed, RekeyScheduled
<1>5. EngineOK(x) /\ Reported(e, x) /\ Same(e, x)
  BY <1>1, <1>2, <1>3, <1>4 DEF EngineOK, HasRun, Reported, Same, StageOf, UnderWay
<1> QED BY <1>2, <1>5 DEF x

\* A step within a run.
LEMMA StepsOn ==
  ASSUME NEW e, Running(e), NEW step \in AskedSteps \ {"Sas"},
         e.phase = "Handshaking" => e.run.step \in AskedSteps
  PROVE  LET x == [e EXCEPT !.run.step = step] IN
         /\ Running(x) /\ x.run.step = step /\ x.role = e.role
         /\ Reported(e, x) /\ Same(e, x)
<1> DEFINE x == [e EXCEPT !.run.step = step]
<1>1. /\ DOMAIN x = EngineFields
      /\ \A f \in EngineFields \ {"run"} : x[f] = e[f]
      /\ DOMAIN x.run = RunFields
      /\ \A f \in RunFields \ {"step"} : x.run[f] = e.run[f]
      /\ x.run.step = step
  BY DEF Running, Held, HasRun, EngineFields, RunFields
<1>2. /\ x.role = e.role /\ x.phase = e.phase /\ x.active = e.active
      /\ x.draining = e.draining /\ x.rekey_blocked = e.rekey_blocked
      /\ x.deadlines = e.deadlines /\ x.touched = e.touched
      /\ x.run.purpose = e.run.purpose /\ x.run.previous = e.run.previous
  BY <1>1 DEF EngineFields, RunFields
<1> HIDE DEF x
<1>3. x.run # NoRun /\ e.run # NoRun
  BY <1>1 DEF Running, HasRun, NoRun, RunFields, Steps, AskedSteps
<1>4. Running(x)
  BY <1>1, <1>2 DEF Running, Held, HasRun, Steps
<1>5. Reported(e, x) /\ Same(e, x)
  BY <1>1, <1>2, <1>3 DEF Running, HasRun, Reported, Same, StageOf, UnderWay
<1> QED BY <1>1, <1>2, <1>4, <1>5 DEF x

\* The end of most step handlers: the run advances and the next frame is timed.
LEMMA StepThenRearm ==
  ASSUME NEW e, Running(e), NEW step \in AskedSteps \ {"Sas"}, NEW out, IsSequence(out),
         e.phase = "Handshaking" => e.run.step \in AskedSteps
  PROVE  Handled(e, Result(rearm_frame_deadline([e EXCEPT !.run.step = step]), out, <<"none">>))
<1> DEFINE x == [e EXCEPT !.run.step = step]
           y == rearm_frame_deadline(x)
<1>1. Running(x) /\ x.run.step = step /\ x.role = e.role /\ Reported(e, x) /\ Same(e, x)
  BY StepsOn
<1> HIDE DEF x
<1>2. EngineOK(y) /\ y.role = x.role /\ Reported(x, y) /\ Same(x, y)
  BY <1>1, Rearms
<1> HIDE DEF y
<1>3. Handled(x, Result(y, out, <<"none">>))
  BY <1>2, Quiet
<1>4. Handled(e, Result(y, out, <<"none">>))
  BY <1>1, <1>3, HandsOver
<1> QED BY <1>4 DEF x, y

\* step_AuthInit (responder's check of the initiator's proof).
LEMMA AuthInit ==
  ASSUME NEW e, NEW f, Running(e), e.phase = "Handshaking" => e.run.step \in AskedSteps
  PROVE  Handled(e, step_AuthInit(e, f))
<1>1. Held(e) /\ HasRun(e) /\ "SasDecision" \notin e.deadlines
  BY DEF Running
<1>2. "ConfirmInit" \in AskedSteps \ {"Sas"}
  BY DEF AskedSteps
<1> QED BY <1>1, <1>2, Fails, StepThenRearm, OneSent DEF step_AuthInit

\* step_AuthResp (initiator's check of the responder's proof).
LEMMA AuthResp ==
  ASSUME NEW e, NEW f, Running(e), e.phase = "Handshaking" => e.run.step \in AskedSteps
  PROVE  Handled(e, step_AuthResp(e, f))
<1>1. Held(e) /\ HasRun(e) /\ "SasDecision" \notin e.deadlines
  BY DEF Running
<1>2. "ConfirmResp" \in AskedSteps \ {"Sas"}
  BY DEF AskedSteps
<1> QED BY <1>1, <1>2, Fails, StepThenRearm, OneSent DEF step_AuthResp

\* after_approval: the initiator proves itself, the responder waits for that.
LEMMA Approved ==
  ASSUME NEW e, Running(e), e.phase = "Handshaking" => e.run.step \in AskedSteps
  PROVE  Handled(e, after_approval(e))
<1>1. {"AuthResp", "AuthInit"} \subseteq AskedSteps \ {"Sas"}
  BY DEF AskedSteps
<1>2. CASE e.run.role = "Initiator"
  BY <1>1, <1>2, StepThenRearm, OneSent DEF after_approval
<1>3. CASE e.run.role # "Initiator" /\ e.run.early = NoFrame
  BY <1>1, <1>3, StepThenRearm, NoneSent DEF after_approval
<1>4. CASE e.run.role # "Initiator" /\ e.run.early # NoFrame
  <2> DEFINE x == [e EXCEPT !.run.step = "AuthInit"]
             y == [x EXCEPT !.run.early = NoFrame]
  <2>1. Running(x) /\ x.run.step = "AuthInit" /\ x.role = e.role /\ Reported(e, x) /\ Same(e, x)
    BY <1>1, StepsOn
  <2>2. after_approval(e) = step_AuthInit(y, e.run.early)
    BY <1>4 DEF after_approval
  <2> HIDE DEF x
  <2>3. /\ DOMAIN y = EngineFields
        /\ \A f \in EngineFields \ {"run"} : y[f] = x[f]
        /\ DOMAIN y.run = RunFields
        /\ \A f \in RunFields \ {"early"} : y.run[f] = x.run[f]
    BY <2>1 DEF Running, Held, HasRun, EngineFields, RunFields
  <2> HIDE DEF y
  <2>4. /\ y.role = x.role /\ y.phase = x.phase /\ y.active = x.active
        /\ y.draining = x.draining /\ y.rekey_blocked = x.rekey_blocked
        /\ y.deadlines = x.deadlines /\ y.touched = x.touched
        /\ y.run.purpose = x.run.purpose /\ y.run.previous = x.run.previous
        /\ y.run.step = x.run.step
    BY <2>3 DEF EngineFields, RunFields
  <2>5. x.run # NoRun /\ y.run # NoRun
    BY <2>1, <2>3, <2>4 DEF Running, HasRun, NoRun, RunFields, Steps, AskedSteps
  <2>6. Running(y) /\ Reported(x, y) /\ Same(x, y)
    BY <2>1, <2>3, <2>4, <2>5 DEF Running, Held, HasRun, Reported, Same, StageOf, UnderWay
  <2>7. Handled(y, step_AuthInit(y, e.run.early))
    BY <1>1, <2>1, <2>4, <2>6, AuthInit
  <2>8. Handled(x, step_AuthInit(y, e.run.early))
    BY <2>4, <2>6, <2>7, HandsOver
  <2> QED BY <2>1, <2>2, <2>8, HandsOver
<1> QED BY <1>2, <1>3, <1>4

-----------------------------------------------------------------------------
(* Promotion.                                                              *)

\* Keys derived from a transcript are the identity of a session.
LEMMA KeysAreAnId == ASSUME NEW t PROVE SessionKeys(t) # NoId
BY DEF SessionKeys, NoId

\* What arm and cancel change, and what they leave alone.
Others == EngineFields \ {"deadlines", "touched"}

\* arm adds one deadline, notes that it changed and leaves the rest alone.
LEMMA Arms ==
  ASSUME NEW e, NEW kind, DOMAIN e = EngineFields
  PROVE  LET x == arm(e, kind) IN
         /\ DOMAIN x = EngineFields /\ \A f \in Others : x[f] = e[f]
         /\ x.deadlines = e.deadlines \cup {kind} /\ x.touched = e.touched \cup {kind}
BY DEF arm, EngineFields, Others

\* cancel removes deadlines, notes those that were armed and leaves the rest
\* alone.
LEMMA Cancels ==
  ASSUME NEW e, NEW kinds, DOMAIN e = EngineFields
  PROVE  LET x == cancel(e, kinds) IN
         /\ DOMAIN x = EngineFields /\ \A f \in Others : x[f] = e[f]
         /\ x.deadlines = e.deadlines \ kinds
         /\ x.touched = e.touched \cup (kinds \cap e.deadlines)
BY DEF cancel, EngineFields, Others

\* complete_initial: the run becomes a session, its deadlines go and the first
\* rekey is armed.
LEMMA CompleteInitial ==
  ASSUME NEW e, NEW out, Running(e), e.phase = "Handshaking", e.run.step \in AskedSteps,
         IsSequence(out)
  PROVE  Handled(e, complete_initial(e, out))
<1> DEFINE r == complete_initial(e, out)
           id == SessionKeys(e.run.transcript)
           x == [e EXCEPT !.active = Session(id, e.run.role, remote_identity(e.run)),
                          !.run = NoRun, !.phase = "Established", !.messages = 0,
                          !.late_rekey_frames = 0, !.consecutive_rekey_rejections = 0]
           y == cancel(x, {"HandshakeFrame", "SasDecision", "HandshakeTotal"})
<1>1. /\ DOMAIN x = EngineFields
      /\ x.role = e.role /\ x.phase = "Established" /\ x.run = NoRun
      /\ x.draining = e.draining /\ x.rekey_blocked = e.rekey_blocked
      /\ x.active = Session(id, e.run.role, remote_identity(e.run))
      /\ x.deadlines = e.deadlines /\ x.touched = e.touched
  BY DEF Running, Held, EngineFields
<1>2. DOMAIN x.active = SessionFields /\ x.active.id = id
  BY <1>1 DEF Session, SessionFields
<1>3. r.e = arm(y, "RekeyDue")
  BY DEF complete_initial, Result
<1> HIDE DEF x, r
<1>4. /\ DOMAIN y = EngineFields /\ \A f \in Others : y[f] = x[f]
      /\ y.deadlines = x.deadlines \ {"HandshakeFrame", "SasDecision", "HandshakeTotal"}
      /\ y.touched = x.touched \cup ({"HandshakeFrame", "SasDecision", "HandshakeTotal"} \cap x.deadlines)
  BY <1>1, Cancels
<1> HIDE DEF y
<1>5. /\ DOMAIN r.e = EngineFields /\ \A f \in Others : r.e[f] = y[f]
      /\ r.e.deadlines = y.deadlines \cup {"RekeyDue"} /\ r.e.touched = y.touched \cup {"RekeyDue"}
  BY <1>3, <1>4, Arms
<1>6. /\ DOMAIN r.e = EngineFields
      /\ r.e.role = e.role /\ r.e.phase = "Established" /\ r.e.run = NoRun
      /\ r.e.draining = e.draining
      /\ DOMAIN r.e.active = SessionFields /\ r.e.active.id = SessionKeys(e.run.transcript)
      /\ r.e.deadlines = (e.deadlines \ {"HandshakeFrame", "SasDecision", "HandshakeTotal"}) \cup {"RekeyDue"}
      /\ e.touched \subseteq r.e.touched
      /\ \A k \in DeadlineKind \ r.e.touched : k \in r.e.deadlines <=> k \in e.deadlines
  BY <1>1, <1>2, <1>4, <1>5 DEF EngineFields, Others
<1> USE DEF r
<1>7. /\ r.event[1] = "Established" /\ r.out = out /\ r.deliver = NoContent
      /\ DOMAIN r = {"e", "out", "event", "deliver"}
  BY DEF complete_initial, Result
<1> HIDE DEF r
<1>8. EngineOK(r.e)
  BY <1>6, KeysAreAnId DEF Running, Held, EngineOK, WaitsTimed, RekeyScheduled, DeadlineKind
<1>9. Reported(e, r.e)
  BY <1>6 DEF Reported
<1>10. Moves(e, r.e, "Asked", "Established") /\ ~UnderWay(e) /\ ~UnderWay(r.e)
  BY <1>6 DEF Moves, StageOf, UnderWay
<1>11. Handled(e, r)
  BY <1>6, <1>7, <1>8, <1>9, <1>10 DEF Handled, Legal, Delivers
<1> QED BY <1>11 DEF r

\* complete_rekey: unless the peer changed, the new session replaces the old one,
\* which drains under a deadline of its own.
LEMMA CompleteRekey ==
  ASSUME NEW e, NEW out, Running(e), e.phase = "Established", IsSequence(out)
  PROVE  Handled(e, complete_rekey(e, out))
<1>1. CASE e.active.peer # remote_identity(e.run) \/ e.active.id = SessionKeys(e.run.transcript)
  <2> DEFINE f == fail_rekey(e, "IdentityMismatch")
  <2>1. Handled(e, f)
    BY FailRekey DEF Running
  <2>2. complete_rekey(e, out) = [f EXCEPT !.out = out]
    BY <1>1 DEF complete_rekey
  <2> HIDE DEF f
  <2> QED BY <2>1, <2>2 DEF Handled, Legal, Delivers
<1>2. CASE ~(e.active.peer # remote_identity(e.run) \/ e.active.id = SessionKeys(e.run.transcript))
  <2> DEFINE r == complete_rekey(e, out)
             id == SessionKeys(e.run.transcript)
             x == [e EXCEPT !.draining = e.active,
                            !.active = Session(id, e.run.role, e.active.peer),
                            !.run = NoRun, !.messages = 0, !.rekey_blocked = FALSE,
                            !.late_rekey_frames = 0, !.consecutive_rekey_rejections = 0]
             y == cancel(x, {"HandshakeFrame", "HandshakeTotal"})
             z == arm(y, "Drain")
  <2>1. /\ DOMAIN x = EngineFields
        /\ x.role = e.role /\ x.phase = e.phase /\ x.run = NoRun
        /\ x.draining = e.active /\ x.rekey_blocked = FALSE
        /\ x.active = Session(id, e.run.role, e.active.peer)
        /\ x.deadlines = e.deadlines /\ x.touched = e.touched
    BY DEF Running, Held, EngineFields
  <2>2. DOMAIN x.active = SessionFields /\ x.active.id = id
    BY <2>1 DEF Session, SessionFields
  <2>3. r = Result(arm(z, "RekeyDue"), out, <<"RekeyCompleted">>)
    BY <1>2 DEF complete_rekey
  <2> HIDE DEF x, r
  <2>4. /\ DOMAIN y = EngineFields /\ \A f \in Others : y[f] = x[f]
        /\ y.deadlines = x.deadlines \ {"HandshakeFrame", "HandshakeTotal"}
        /\ y.touched = x.touched \cup ({"HandshakeFrame", "HandshakeTotal"} \cap x.deadlines)
    BY <2>1, Cancels
  <2> HIDE DEF y
  <2>5. /\ DOMAIN z = EngineFields /\ \A f \in Others : z[f] = y[f]
        /\ z.deadlines = y.deadlines \cup {"Drain"} /\ z.touched = y.touched \cup {"Drain"}
    BY <2>4, Arms
  <2> HIDE DEF z
  <2>6. /\ DOMAIN r.e = EngineFields /\ \A f \in Others : r.e[f] = z[f]
        /\ r.e.deadlines = z.deadlines \cup {"RekeyDue"} /\ r.e.touched = z.touched \cup {"RekeyDue"}
    BY <2>3, <2>5, Arms DEF Result
  <2>7. /\ DOMAIN r.e = EngineFields
        /\ r.e.role = e.role /\ r.e.phase = "Established" /\ r.e.run = NoRun
        /\ r.e.draining = e.active /\ r.e.rekey_blocked = FALSE
        /\ DOMAIN r.e.active = SessionFields /\ r.e.active.id = SessionKeys(e.run.transcript)
        /\ r.e.deadlines = (e.deadlines \ {"HandshakeFrame", "HandshakeTotal"})
                               \cup {"Drain", "RekeyDue"}
        /\ e.touched \subseteq r.e.touched
        /\ \A k \in DeadlineKind \ r.e.touched : k \in r.e.deadlines <=> k \in e.deadlines
        /\ r.event = <<"RekeyCompleted">> /\ r.out = out /\ r.deliver = NoContent
        /\ DOMAIN r = {"e", "out", "event", "deliver"}
    BY <2>1, <2>2, <2>3, <2>4, <2>5, <2>6 DEF Result, EngineFields, Others
  <2>8. r.e.draining # NoSession
    BY <2>7 DEF Running, Held, NoSession, SessionFields
  <2>9. EngineOK(r.e)
    BY <2>7, <2>8, KeysAreAnId DEF Running, Held, EngineOK, WaitsTimed, RekeyScheduled, DeadlineKind
  <2>10. Reported(e, r.e)
    BY <2>7 DEF Reported
  <2>11. e.run # NoRun
    BY DEF Running, HasRun, NoRun, RunFields, Steps, AskedSteps
  <2>12. Moves(e, r.e, "Established", "Established") /\ UnderWay(e) /\ ~UnderWay(r.e)
    BY <2>7, <2>11 DEF Moves, StageOf, UnderWay
  <2>13. r.event # <<"RekeyFailed", "Repeated">>
    BY <2>7
  <2>14. Handled(e, r)
    BY <2>7, <2>9, <2>10, <2>12, <2>13 DEF Handled, Legal, Delivers
  <2> QED BY <2>14 DEF r
<1> QED BY <1>1, <1>2

\* A run that completes, of either purpose.
LEMMA Completes ==
  ASSUME NEW e, NEW out, EngineOK(e), e.run # NoRun, e.run.step \in AskedSteps \ {"Sas"},
         IsSequence(out)
  PROVE  Handled(e, Complete(e, out))
<1>1. Running(e)
  BY DEF EngineOK, Running, HasRun, WaitsTimed
<1>2. CASE e.phase = "Handshaking"
  BY <1>1, <1>2, CompleteInitial DEF Complete
<1>3. CASE e.phase # "Handshaking"
  BY <1>1, <1>3, CompleteRekey DEF Complete, Running, HasRun
<1> QED BY <1>2, <1>3

\* step_ConfirmResp.
LEMMA ConfirmResp ==
  ASSUME NEW e, NEW f, EngineOK(e), e.run # NoRun, e.run.step \in AskedSteps \ {"Sas"}
  PROVE  Handled(e, step_ConfirmResp(e, f))
<1>1. Held(e) /\ HasRun(e) /\ (e.phase = "Established" => "SasDecision" \notin e.deadlines)
  BY DEF EngineOK, WaitsTimed
<1> QED BY <1>1, Fails, Completes, NoneSent DEF step_ConfirmResp

\* step_ConfirmInit.
LEMMA ConfirmInit ==
  ASSUME NEW e, NEW f, EngineOK(e), e.run # NoRun, e.run.step \in AskedSteps \ {"Sas"}
  PROVE  Handled(e, step_ConfirmInit(e, f))
<1>1. Held(e) /\ HasRun(e) /\ (e.phase = "Established" => "SasDecision" \notin e.deadlines)
  BY DEF EngineOK, WaitsTimed
<1> QED BY <1>1, Fails, Completes, OneSent DEF step_ConfirmInit

-----------------------------------------------------------------------------
(* The hellos.                                                             *)

\* after_hellos: the first handshake asks for approval under a deadline; a rekey,
\* whose peer is known, goes straight on.
LEMMA AfterHellos ==
  ASSUME NEW e, NEW t, NEW out, EngineOK(e), e.run # NoRun, e.run.step \in {"Hello", "Reveal"},
         IsSequence(out)
  PROVE  Handled(e, after_hellos(e, t, out))
<1> DEFINE known == [e EXCEPT !.run.transcript = t]
<1>1. Running(e)
  BY DEF EngineOK, Running, HasRun, WaitsTimed
<1>2. /\ DOMAIN known = EngineFields
      /\ \A f \in EngineFields \ {"run"} : known[f] = e[f]
      /\ DOMAIN known.run = RunFields
      /\ \A f \in RunFields \ {"transcript"} : known.run[f] = e.run[f]
  BY <1>1 DEF Running, Held, HasRun, EngineFields, RunFields
<1>3. after_hellos(e, t, out) =
        IF e.run.purpose = "Initial"
        THEN Result(arm(cancel([known EXCEPT !.run.step = "Sas"], {"HandshakeFrame"}),
                        "SasDecision"), out, <<"RequestSas">>)
        ELSE [after_approval(known) EXCEPT !.out = out \o @]
  BY DEF after_hellos
<1> HIDE DEF known
<1>4. /\ known.role = e.role /\ known.phase = e.phase /\ known.active = e.active
      /\ known.draining = e.draining /\ known.rekey_blocked = e.rekey_blocked
      /\ known.deadlines = e.deadlines /\ known.touched = e.touched
      /\ known.run.purpose = e.run.purpose /\ known.run.previous = e.run.previous
      /\ known.run.step = e.run.step
  BY <1>2 DEF EngineFields, RunFields
<1>5. known.run # NoRun
  BY <1>1, <1>2, <1>4 DEF Running, HasRun, NoRun, Steps, AskedSteps
<1>6. Running(known) /\ Reported(e, known) /\ Same(e, known)
  BY <1>1, <1>2, <1>4, <1>5 DEF Running, Held, HasRun, Reported, Same, StageOf, UnderWay
<1>7. CASE e.run.purpose = "Initial"
  <2> DEFINE x == [known EXCEPT !.run.step = "Sas"]
             y == cancel(x, {"HandshakeFrame"})
             z == arm(y, "SasDecision")
  <2>1. /\ DOMAIN x = EngineFields
        /\ \A f \in EngineFields \ {"run"} : x[f] = known[f]
        /\ DOMAIN x.run = RunFields
        /\ \A f \in RunFields \ {"step"} : x.run[f] = known.run[f]
        /\ x.run.step = "Sas"
    BY <1>2 DEF EngineFields, RunFields
  <2> HIDE DEF x
  <2>2. /\ DOMAIN y = EngineFields /\ \A f \in Others : y[f] = x[f]
        /\ y.deadlines = x.deadlines \ {"HandshakeFrame"}
        /\ y.touched = x.touched \cup ({"HandshakeFrame"} \cap x.deadlines)
    BY <2>1, Cancels
  <2> HIDE DEF y
  <2>3. /\ DOMAIN z = EngineFields /\ \A f \in Others : z[f] = y[f]
        /\ z.deadlines = y.deadlines \cup {"SasDecision"}
        /\ z.touched = y.touched \cup {"SasDecision"}
    BY <2>2, Arms
  <2> HIDE DEF z
  <2>4. /\ z.role = e.role /\ z.phase = e.phase /\ z.active = e.active /\ z.run = x.run
        /\ z.draining = e.draining /\ z.rekey_blocked = e.rekey_blocked
        /\ z.deadlines = (e.deadlines \ {"HandshakeFrame"}) \cup {"SasDecision"}
        /\ z.touched = e.touched \cup ({"HandshakeFrame"} \cap e.deadlines) \cup {"SasDecision"}
        /\ z.run.purpose = "Initial" /\ z.run.step = "Sas" /\ DOMAIN z.run = RunFields
    BY <1>4, <1>7, <2>1, <2>2, <2>3 DEF EngineFields, RunFields, Others
  <2>5. e.phase = "Handshaking" /\ e.run.step \notin AskedSteps
    BY <1>1, <1>7 DEF Running, HasRun, AskedSteps
  <2>6. EngineOK(z)
    BY <1>1, <2>3, <2>4, <2>5 DEF EngineOK, Running, Held, HasRun, WaitsTimed, RekeyScheduled,
       Steps, AskedSteps, DeadlineKind
  <2>7. Reported(e, z)
    BY <2>4 DEF Reported
  <2>8. Moves(e, z, "Opened", "Asked") /\ ~UnderWay(e) /\ ~UnderWay(z)
    BY <2>4, <2>5 DEF Moves, StageOf, UnderWay, AskedSteps
  <2>9. Handled(e, Result(z, out, <<"RequestSas">>))
    BY <2>4, <2>6, <2>7, <2>8 DEF Handled, Legal, Delivers, Result
  <2> QED BY <1>3, <1>7, <2>9 DEF x, y, z
<1>8. CASE e.run.purpose # "Initial"
  <2>1. e.phase = "Established"
    BY <1>1, <1>8 DEF Running, HasRun
  <2>2. Handled(known, after_approval(known))
    BY <1>4, <1>6, <2>1, Approved
  <2>3. Handled(e, after_approval(known))
    BY <1>4, <1>6, <2>2, HandsOver
  <2>4. IsSequence(out \o after_approval(known).out)
    BY <2>2, BothSent DEF Handled
  <2> QED BY <1>3, <1>8, <2>3, <2>4 DEF Handled, Legal, Delivers
<1> QED BY <1>7, <1>8

\* step_Hello.
LEMMA Hello ==
  ASSUME NEW e, NEW f, EngineOK(e), e.run # NoRun, e.run.step \in {"Hello", "Reveal"}
  PROVE  Handled(e, step_Hello(e, f))
<1>1. Held(e) /\ HasRun(e) /\ (e.phase = "Established" => "SasDecision" \notin e.deadlines)
  BY DEF EngineOK, WaitsTimed
<1> QED BY <1>1, Fails, AfterHellos, OneSent DEF step_Hello

\* step_Reveal.
LEMMA Reveal ==
  ASSUME NEW e, NEW f, EngineOK(e), e.run # NoRun, e.run.step \in {"Hello", "Reveal"}
  PROVE  Handled(e, step_Reveal(e, f))
<1>1. Held(e) /\ HasRun(e) /\ (e.phase = "Established" => "SasDecision" \notin e.deadlines)
  BY DEF EngineOK, WaitsTimed
<1> QED BY <1>1, Fails, AfterHellos, NoneSent DEF step_Reveal

\* step_Sas: no frame is expected before the user has decided, but the peer's
\* proof may come early.
LEMMA SasStep ==
  ASSUME NEW e, NEW f, EngineOK(e), e.run # NoRun
  PROVE  Handled(e, step_Sas(e, f))
<1>1. Held(e) /\ HasRun(e) /\ (e.phase = "Established" => "SasDecision" \notin e.deadlines)
  BY DEF EngineOK, WaitsTimed
<1> DEFINE x == [e EXCEPT !.run.early = f]
<1>2. /\ DOMAIN x = EngineFields
      /\ \A g \in EngineFields \ {"run"} : x[g] = e[g]
      /\ DOMAIN x.run = RunFields
      /\ \A g \in RunFields \ {"early"} : x.run[g] = e.run[g]
  BY <1>1 DEF Held, HasRun, EngineFields, RunFields
<1>3. step_Sas(e, f) \in {Result(x, <<>>, <<"none">>), Fail(e, "InvalidStateTransition")}
  BY DEF step_Sas
<1> HIDE DEF x
<1>4. /\ x.role = e.role /\ x.phase = e.phase /\ x.active = e.active
      /\ x.draining = e.draining /\ x.rekey_blocked = e.rekey_blocked
      /\ x.deadlines = e.deadlines /\ x.touched = e.touched
      /\ x.run.purpose = e.run.purpose /\ x.run.previous = e.run.previous
      /\ x.run.step = e.run.step
  BY <1>2 DEF EngineFields, RunFields
<1>5. x.run # NoRun
  BY <1>1, <1>2, <1>4 DEF HasRun, NoRun, Steps, AskedSteps
<1>6. EngineOK(x) /\ Reported(e, x) /\ Same(e, x)
  BY <1>1, <1>2, <1>4, <1>5 DEF EngineOK, Held, HasRun, WaitsTimed, RekeyScheduled, Reported, Same,
     StageOf, UnderWay
<1>7. Handled(e, Result(x, <<>>, <<"none">>))
  BY <1>4, <1>6, Quiet, NoneSent
<1> QED BY <1>1, <1>3, <1>7, Fails

\* A frame for the step that the run is at, whichever it is.
LEMMA Stepped ==
  ASSUME NEW e, NEW f, EngineOK(e), e.run # NoRun
  PROVE  Handled(e, step_run(e, f))
<1>1. HasRun(e) /\ e.run.step \in Steps
  BY DEF EngineOK, HasRun
<1>2. e.run.step # "Sas" => Running(e)
  BY DEF EngineOK, Running, HasRun, WaitsTimed
<1>3. CASE e.run.step \in {"Hello", "Reveal"}
  BY <1>3, Hello, Reveal DEF step_run
<1>4. CASE e.run.step = "Sas"
  BY <1>4, SasStep DEF step_run
<1>5. CASE e.run.step \in {"AuthInit", "AuthResp"}
  BY <1>2, <1>5, AuthInit, AuthResp DEF step_run, AskedSteps
<1>6. CASE e.run.step \in {"ConfirmInit", "ConfirmResp"}
  BY <1>6, ConfirmInit, ConfirmResp DEF step_run, AskedSteps
<1> QED BY <1>1, <1>3, <1>4, <1>5, <1>6 DEF Steps, AskedSteps

-----------------------------------------------------------------------------
(* Runs that start.                                                        *)

\* A new run, and the deadlines that are armed for it.
LEMMA NewRun ==
  ASSUME NEW e, Held(e), "SasDecision" \notin e.deadlines,
         NEW purpose, NEW role, NEW previous, NEW commit, NEW step \in {"Hello", "Reveal"},
         \/ e.phase = "Handshaking" /\ purpose = "Initial" /\ "HandshakeTotal" \in e.deadlines
         \/ e.phase = "Established" /\ purpose = "Rekey" /\ previous = e.active.id
  PROVE  LET x == WithRun(e, Run(e, purpose, role, previous, commit, step))
             y == IF purpose = "Rekey" THEN arm(x, "HandshakeTotal") ELSE x
             z == rearm_frame_deadline(y)
         IN  EngineOK(z) /\ z.role = e.role /\ Reported(e, z) /\ z.phase = e.phase
             /\ z.run # NoRun /\ z.run.step = step
<1> DEFINE x == WithRun(e, Run(e, purpose, role, previous, commit, step))
           y == IF purpose = "Rekey" THEN arm(x, "HandshakeTotal") ELSE x
           z == rearm_frame_deadline(y)
<1>1. /\ DOMAIN x = EngineFields
      /\ x.role = e.role /\ x.phase = e.phase /\ x.active = e.active
      /\ x.draining = e.draining /\ x.rekey_blocked = e.rekey_blocked
      /\ x.deadlines = e.deadlines /\ x.touched = e.touched
      /\ x.run = Run(e, purpose, role, previous, commit, step)
  BY DEF WithRun, Held, EngineFields
<1>2. /\ DOMAIN x.run = RunFields /\ x.run.purpose = purpose /\ x.run.previous = previous
      /\ x.run.step = step
  BY <1>1 DEF Run, RunFields
<1> HIDE DEF x
<1>3. /\ DOMAIN y = EngineFields /\ \A f \in Others : y[f] = x[f]
      /\ y.deadlines = x.deadlines \cup {"HandshakeTotal"}
      /\ x.touched \subseteq y.touched
      /\ y.touched \in {x.touched, x.touched \cup {"HandshakeTotal"}}
      /\ "HandshakeTotal" \in y.touched \/ "HandshakeTotal" \in x.deadlines
  BY <1>1, Arms
<1> HIDE DEF y
<1>4. /\ y.role = e.role /\ y.phase = e.phase /\ y.active = e.active
      /\ y.draining = e.draining /\ y.rekey_blocked = e.rekey_blocked /\ y.run = x.run
  BY <1>1, <1>3 DEF EngineFields, Others
<1>5. Running(y)
  BY <1>1, <1>2, <1>3, <1>4 DEF Running, Held, HasRun, Steps, DeadlineKind
<1>6. Reported(e, y)
  BY <1>1, <1>3 DEF Reported
<1>7. EngineOK(z) /\ z.role = y.role /\ Reported(y, z) /\ Same(y, z)
  BY <1>2, <1>4, <1>5, Rearms
<1>8. z.phase = y.phase /\ z.run = y.run
  BY <1>5 DEF rearm_frame_deadline, arm, cancel, Running, Held, EngineFields
<1> HIDE DEF z
<1>9. Reported(e, z)
  BY <1>6, <1>7 DEF Reported
<1>10. z.run # NoRun
  BY <1>2, <1>4, <1>8 DEF NoRun
<1> QED BY <1>2, <1>4, <1>7, <1>8, <1>9, <1>10 DEF x, y, z

\* A commit has been answered: a run is under way.
Responded(e, r) ==
    /\ DOMAIN r = {"e", "out", "event", "deliver"}
    /\ EngineOK(r.e)
    /\ r.e.role = e.role /\ r.e.phase = e.phase
    /\ Reported(e, r.e)
    /\ r.e.run # NoRun /\ r.e.run.step = "Reveal"
    /\ r.deliver = NoContent /\ IsSequence(r.out)

\* start_responder_run answers a commit with a run of the purpose that the phase
\* asks for.
LEMMA Responds ==
  ASSUME NEW e, Held(e), "SasDecision" \notin e.deadlines, NEW commit, NEW emit,
         \/ /\ e.phase = "Handshaking" /\ commit.purpose = "Initial"
            /\ "HandshakeTotal" \in e.deadlines
         \/ e.phase = "Established" /\ commit.purpose = "Rekey" /\ commit.previous = e.active.id
  PROVE  /\ Responded(e, start_responder_run(e, commit, emit))
         /\ start_responder_run(e, commit, emit).event =
               IF commit.purpose = "Rekey" /\ emit THEN <<"RekeyStarted">> ELSE <<"none">>
<1> DEFINE x == WithRun(e, Run(e, commit.purpose, "Responder", commit.previous, commit, "Reveal"))
           y == IF commit.purpose = "Rekey" THEN arm(x, "HandshakeTotal") ELSE x
           z == rearm_frame_deadline(y)
<1>1. /\ EngineOK(z) /\ z.role = e.role /\ Reported(e, z) /\ z.phase = e.phase
      /\ z.run # NoRun /\ z.run.step = "Reveal"
  BY NewRun
<1>2. start_responder_run(e, commit, emit) =
         Result(z, <<x.run.local_hello>>,
                IF commit.purpose = "Rekey" /\ emit THEN <<"RekeyStarted">> ELSE <<"none">>)
  BY DEF start_responder_run
<1> HIDE DEF x, z
<1> QED BY <1>1, <1>2, OneSent DEF Result, Responded

\* RekeyDue may have fired: it has no deadline then.
LEMMA Begins ==
  ASSUME NEW e,
         \/ EngineOK(e)
         \/ Held(e) /\ "SasDecision" \notin e.deadlines /\ e.phase = "Established" /\ e.run = NoRun
  PROVE  Handled(e, begin_rekey(e)) /\ begin_rekey(e).event[1] \in {"none", "RekeyStarted"}
<1>1. CASE e.phase # "Established" \/ e.run # NoRun
  <2>1. begin_rekey(e) = Result(e, <<>>, <<"none">>)
    BY <1>1 DEF begin_rekey
  <2> QED BY <1>1, <2>1, Quiet, NoneSent DEF Result, Reported, Same
<1>2. CASE e.phase = "Established" /\ e.run = NoRun
  <2> DEFINE x == WithRun(e, Run(e, "Rekey", "Initiator", e.active.id, NoFrame, "Hello"))
             y == IF "Rekey" = "Rekey" THEN arm(x, "HandshakeTotal") ELSE x
             z == rearm_frame_deadline(y)
  <2>1. /\ EngineOK(z) /\ z.role = e.role /\ Reported(e, z) /\ z.phase = e.phase
        /\ z.run # NoRun /\ z.run.step = "Hello"
    BY <1>2, NewRun DEF EngineOK, WaitsTimed
  <2>2. begin_rekey(e) = Result(z, <<CommitPayload(x.run.local_hello)>>, <<"RekeyStarted">>)
    BY <1>2 DEF begin_rekey, start_initiator_run
  <2> HIDE DEF x, z
  <2>3. Moves(e, z, "Established", "Established") /\ ~UnderWay(e) /\ UnderWay(z)
    BY <1>2, <2>1 DEF Moves, StageOf, UnderWay
  <2> QED BY <2>1, <2>2, <2>3, OneSent DEF Result, Handled, Legal, Delivers
<1> QED BY <1>1, <1>2

\* start opens the first handshake under both of its deadlines.
LEMMA Starts ==
  ASSUME NEW e, EngineOK(e)
  PROVE  Handled(e, start(e))
<1>1. CASE e.phase # "Idle"
  BY <1>1, Quiet, NoneSent DEF start, Reported, Same
<1>2. CASE e.phase = "Idle"
  <2> DEFINE i == [e EXCEPT !.phase = "Handshaking"]
             t == arm(i, "HandshakeTotal")
  <2>1. /\ DOMAIN i = EngineFields /\ i.phase = "Handshaking"
        /\ \A f \in EngineFields \ {"phase"} : i[f] = e[f]
    BY DEF EngineOK, Held, EngineFields
  <2>2. start(e) = IF e.role = "Initiator"
                   THEN LET started == start_initiator_run(t, "Initial", NoId)
                        IN  Result(rearm_frame_deadline(started),
                                   <<CommitPayload(started.run.local_hello)>>, <<"none">>)
                   ELSE Result(arm(t, "HandshakeFrame"), <<>>, <<"none">>)
    BY <1>2 DEF start
  <2> HIDE DEF i
  <2>3. /\ DOMAIN t = EngineFields /\ \A f \in Others : t[f] = i[f]
        /\ t.deadlines = i.deadlines \cup {"HandshakeTotal"}
        /\ t.touched = i.touched \cup {"HandshakeTotal"}
    BY <2>1, Arms
  <2> HIDE DEF t
  <2>4. /\ t.role = e.role /\ t.phase = "Handshaking" /\ t.run = NoRun /\ t.draining = NoSession
        /\ t.deadlines = {"HandshakeTotal"} /\ t.touched = e.touched \cup {"HandshakeTotal"}
    BY <1>2, <2>1, <2>3 DEF EngineOK, EngineFields, Others
  <2>5. Held(t) /\ "SasDecision" \notin t.deadlines
    BY <2>3, <2>4 DEF Held, DeadlineKind
  <2>6. Reported(e, t)
    BY <1>2, <2>4 DEF EngineOK, Reported
  <2>7. CASE e.role = "Initiator"
    <3> DEFINE x == WithRun(t, Run(t, "Initial", "Initiator", NoId, NoFrame, "Hello"))
               y == IF "Initial" = "Rekey" THEN arm(x, "HandshakeTotal") ELSE x
               z == rearm_frame_deadline(y)
    <3>1. /\ EngineOK(z) /\ z.role = t.role /\ Reported(t, z) /\ z.phase = t.phase
          /\ z.run # NoRun /\ z.run.step = "Hello"
      BY <2>4, <2>5, NewRun
    <3>2. start(e) = Result(z, <<CommitPayload(x.run.local_hello)>>, <<"none">>)
      BY <2>2, <2>7 DEF start_initiator_run
    <3> HIDE DEF x, z
    <3>3. Same(e, z) /\ Reported(e, z)
      BY <1>2, <2>4, <2>6, <3>1 DEF Same, StageOf, UnderWay, AskedSteps, Reported
    <3> QED BY <2>4, <3>1, <3>2, <3>3, Quiet, OneSent
  <2>8. CASE e.role # "Initiator"
    <3> DEFINE z == arm(t, "HandshakeFrame")
    <3>1. /\ DOMAIN z = EngineFields /\ \A f \in Others : z[f] = t[f]
          /\ z.deadlines = t.deadlines \cup {"HandshakeFrame"}
          /\ z.touched = t.touched \cup {"HandshakeFrame"}
      BY <2>3, Arms
    <3>2. start(e) = Result(z, <<>>, <<"none">>)
      BY <2>2, <2>8
    <3> HIDE DEF z
    <3>3. /\ z.role = e.role /\ z.phase = "Handshaking" /\ z.run = NoRun /\ z.draining = NoSession
          /\ z.deadlines = {"HandshakeTotal", "HandshakeFrame"}
      BY <2>4, <3>1 DEF EngineFields, Others
    <3>4. EngineOK(z)
      BY <3>1, <3>3 DEF EngineOK, Held, WaitsTimed, RekeyScheduled, DeadlineKind, NoRun
    <3>5. Same(e, z) /\ Reported(e, z)
      BY <1>2, <2>6, <3>1, <3>3 DEF Same, StageOf, UnderWay, AskedSteps, Reported, NoRun
    <3> QED BY <3>2, <3>3, <3>4, <3>5, Quiet, NoneSent
  <2> QED BY <2>7, <2>8
<1> QED BY <1>1, <1>2

-----------------------------------------------------------------------------
(* Rekey frames.                                                           *)

\* Nothing changes but counters that no other handler reads.
LEMMA Counts ==
  ASSUME NEW e, NEW x, EngineOK(e), DOMAIN x = EngineFields,
         \A f \in EngineFields \ {"consecutive_rekey_rejections", "late_rekey_frames", "messages"} :
            x[f] = e[f]
  PROVE  EngineOK(x) /\ x.role = e.role /\ x.phase = e.phase /\ x.run = e.run
         /\ x.active = e.active /\ x.deadlines = e.deadlines
         /\ Reported(e, x) /\ Same(e, x)
<1>1. /\ x.role = e.role /\ x.phase = e.phase /\ x.active = e.active /\ x.run = e.run
      /\ x.draining = e.draining /\ x.rekey_blocked = e.rekey_blocked
      /\ x.deadlines = e.deadlines /\ x.touched = e.touched
  BY DEF EngineFields
<1> QED BY <1>1 DEF EngineOK, Held, HasRun, WaitsTimed, RekeyScheduled, Reported, Same, StageOf,
        UnderWay

\* note_rekey_rejection counts a rejected commit and warns once, at the threshold;
\* the connection goes on.
LEMMA Rejects ==
  ASSUME NEW e, EngineOK(e), e.phase = "Established"
  PROVE  Handled(e, note_rekey_rejection(e))
<1> DEFINE n == e.consecutive_rekey_rejections
           x == [e EXCEPT !.consecutive_rekey_rejections = n + 1]
<1>1. CASE n >= REKEY_REJECTION_WARNING_THRESHOLD
  BY <1>1, Quiet, NoneSent DEF note_rekey_rejection, Reported, Same
<1>2. CASE ~(n >= REKEY_REJECTION_WARNING_THRESHOLD)
  <2>1. /\ DOMAIN x = EngineFields
        /\ \A f \in EngineFields \ {"consecutive_rekey_rejections"} : x[f] = e[f]
    BY DEF EngineOK, Held, EngineFields
  <2>2. note_rekey_rejection(e) \in {Result(x, <<>>, <<"RekeyFailed", "Repeated">>),
                                    Result(x, <<>>, <<"none">>)}
    BY <1>2 DEF note_rekey_rejection
  <2> HIDE DEF x
  <2>3. EngineOK(x) /\ x.role = e.role /\ Reported(e, x) /\ Same(e, x)
    BY <2>1, Counts
  <2> QED BY <2>2, <2>3, Quiet, NoneSent
<1> QED BY <1>1, <1>2

\* on_incoming_commit, while no rekey is under way.
LEMMA AnswersCommit ==
  ASSUME NEW e, EngineOK(e), e.phase = "Established", e.run = NoRun, NEW commit
  PROVE  Handled(e, on_incoming_commit(e, commit, TRUE))
<1>1. CASE ~ReferencesActive(e, commit)
  BY <1>1, Rejects DEF on_incoming_commit
<1>2. CASE ReferencesActive(e, commit)
  <2> DEFINE x == [e EXCEPT !.consecutive_rekey_rejections = 0]
             r == start_responder_run(x, commit, TRUE)
  <2>1. /\ DOMAIN x = EngineFields
        /\ \A f \in EngineFields \ {"consecutive_rekey_rejections"} : x[f] = e[f]
    BY DEF EngineOK, Held, EngineFields
  <2>2. on_incoming_commit(e, commit, TRUE) = r
    BY <1>2 DEF on_incoming_commit
  <2> HIDE DEF x
  <2>3. /\ EngineOK(x) /\ x.role = e.role /\ x.phase = e.phase /\ x.active = e.active
        /\ x.run = e.run /\ Reported(e, x)
    BY <2>1, Counts
  <2>4. commit.purpose = "Rekey" /\ commit.previous = x.active.id
    BY <1>2, <2>3 DEF ReferencesActive
  <2>5. Held(x) /\ "SasDecision" \notin x.deadlines
    BY <2>3 DEF EngineOK, WaitsTimed
  <2>6. Responded(x, r) /\ r.event = <<"RekeyStarted">>
    BY <2>3, <2>4, <2>5, Responds
  <2> HIDE DEF r
  <2>7. Reported(e, r.e) /\ Moves(e, r.e, "Established", "Established")
        /\ ~UnderWay(e) /\ UnderWay(r.e)
    BY <2>3, <2>6 DEF Responded, Reported, Moves, StageOf, UnderWay
  <2>8. Handled(e, r)
    BY <2>3, <2>6, <2>7 DEF Responded, Handled, Legal, Delivers
  <2> QED BY <2>2, <2>8
<1> QED BY <1>1, <1>2

\* The losing side of glare drops its run for the peer's: a rekey is under way
\* before and after.
LEMMA Glare ==
  ASSUME NEW e, EngineOK(e), e.phase = "Established", e.run # NoRun, NEW commit,
         Decodes(commit, "COMMIT"), commit.purpose = "Rekey"
  PROVE  Handled(e, resolve_glare(e, commit))
<1>1. CASE commit.previous # e.run.previous
  BY <1>1, Rejects DEF resolve_glare
<1>2. CASE commit.previous = e.run.previous
           /\ local_identity_wins_rekey_glare(e.identity, e.active.peer)
  BY <1>2, Quiet, NoneSent DEF resolve_glare, Reported, Same
<1>3. CASE commit.previous = e.run.previous
           /\ ~local_identity_wins_rekey_glare(e.identity, e.active.peer)
  <2> DEFINE w == [e EXCEPT !.run = NoRun]
             x == cancel(w, {"HandshakeFrame", "HandshakeTotal"})
             y == [x EXCEPT !.consecutive_rekey_rejections = 0]
             r == start_responder_run(y, commit, FALSE)
  <2>1. /\ DOMAIN w = EngineFields /\ w.run = NoRun
        /\ \A f \in EngineFields \ {"run"} : w[f] = e[f]
    BY DEF EngineOK, Held, EngineFields
  <2>2. resolve_glare(e, commit) = on_incoming_commit(x, commit, FALSE)
    BY <1>3 DEF resolve_glare
  <2> HIDE DEF w
  <2>3. /\ DOMAIN x = EngineFields /\ \A f \in Others : x[f] = w[f]
        /\ x.deadlines = w.deadlines \ {"HandshakeFrame", "HandshakeTotal"}
        /\ x.touched = w.touched \cup ({"HandshakeFrame", "HandshakeTotal"} \cap w.deadlines)
    BY <2>1, Cancels
  <2>4. commit.previous = e.active.id /\ e.active.id # NoId
    BY <1>3 DEF EngineOK, HasRun, Held
  <2>5. x.active = e.active
    BY <2>1, <2>3 DEF EngineFields, Others
  <2>6. on_incoming_commit(x, commit, FALSE) = r
    BY <2>4, <2>5 DEF on_incoming_commit, ReferencesActive
  <2> HIDE DEF x
  <2>7. /\ DOMAIN y = EngineFields
        /\ \A f \in EngineFields \ {"consecutive_rekey_rejections"} : y[f] = x[f]
    BY <2>3 DEF EngineFields
  <2> HIDE DEF y
  <2>8. /\ y.role = e.role /\ y.phase = e.phase /\ y.active = e.active /\ y.run = NoRun
        /\ y.draining = e.draining /\ y.rekey_blocked = e.rekey_blocked
        /\ y.deadlines = e.deadlines \ {"HandshakeFrame", "HandshakeTotal"}
        /\ y.touched = e.touched \cup ({"HandshakeFrame", "HandshakeTotal"} \cap e.deadlines)
    BY <2>1, <2>3, <2>7 DEF EngineFields, Others
  <2>9. Held(y) /\ "SasDecision" \notin y.deadlines /\ Reported(e, y)
    BY <2>7, <2>8 DEF EngineOK, WaitsTimed, Held, Reported
  <2>10. y.phase = "Established" /\ commit.purpose = "Rekey" /\ commit.previous = y.active.id
    BY <2>4, <2>8
  <2>11. /\ Responded(y, start_responder_run(y, commit, FALSE))
        /\ start_responder_run(y, commit, FALSE).event =
               IF commit.purpose = "Rekey" /\ FALSE THEN <<"RekeyStarted">> ELSE <<"none">>
    BY <2>9, <2>10, Responds
  <2>12. Responded(y, r) /\ r.event = <<"none">>
    BY <2>11
  <2> HIDE DEF r
  <2>13. Reported(e, r.e) /\ Same(e, r.e)
    BY <2>8, <2>9, <2>12 DEF Responded, Reported, Same, StageOf, UnderWay
  <2>14. Handled(e, r)
    BY <2>8, <2>12, <2>13 DEF Responded, Handled, Legal, Delivers
  <2> QED BY <2>2, <2>6, <2>14
<1> QED BY <1>1, <1>2, <1>3

\* on_rekey_frame: a frame of a rekey, with or without a run of this side.
LEMMA RekeyFrame ==
  ASSUME NEW e, EngineOK(e), e.phase = "Established", NEW f
  PROVE  Handled(e, on_rekey_frame(e, f))
<1>1. CASE e.run = NoRun
  <2>1. CASE ReferencesActive(e, f)
    <3> DEFINE x == [e EXCEPT !.late_rekey_frames = 0]
    <3>1. /\ DOMAIN x = EngineFields
          /\ \A g \in EngineFields \ {"late_rekey_frames"} : x[g] = e[g]
      BY DEF EngineOK, Held, EngineFields
    <3>2. on_rekey_frame(e, f) = on_incoming_commit(x, f, TRUE)
      BY <1>1, <2>1 DEF on_rekey_frame
    <3> HIDE DEF x
    <3>3. /\ EngineOK(x) /\ x.role = e.role /\ x.phase = e.phase /\ x.run = e.run
          /\ Reported(e, x) /\ Same(e, x)
      BY <3>1, Counts
    <3> QED BY <1>1, <3>2, <3>3, AnswersCommit, HandsOver
  <2>2. CASE ~ReferencesActive(e, f) /\ e.late_rekey_frames > 0
    <3> DEFINE x == [e EXCEPT !.late_rekey_frames = @ - 1]
    <3>1. /\ DOMAIN x = EngineFields
          /\ \A g \in EngineFields \ {"late_rekey_frames"} : x[g] = e[g]
      BY DEF EngineOK, Held, EngineFields
    <3>2. on_rekey_frame(e, f) = Result(x, <<>>, <<"none">>)
      BY <1>1, <2>2 DEF on_rekey_frame
    <3> HIDE DEF x
    <3>3. EngineOK(x) /\ x.role = e.role /\ Reported(e, x) /\ Same(e, x)
      BY <3>1, Counts
    <3> QED BY <3>2, <3>3, Quiet, NoneSent
  <2>3. CASE ~ReferencesActive(e, f) /\ ~(e.late_rekey_frames > 0)
    BY <1>1, <2>3, Terminate, Rejects DEF on_rekey_frame, EngineOK, Held
  <2> QED BY <2>1, <2>2, <2>3
<1>2. CASE e.run # NoRun
  <2>1. CASE /\ e.run.role = "Initiator" /\ e.run.step = "Hello"
             /\ MessageType(f) = "Rekey" /\ Decodes(f, "COMMIT")
    <3>1. f.purpose = "Rekey"
      BY <2>1 DEF MessageType, Decodes
    <3> QED BY <1>2, <2>1, <3>1, Glare DEF on_rekey_frame
  <2>2. CASE ~(/\ e.run.role = "Initiator" /\ e.run.step = "Hello"
               /\ MessageType(f) = "Rekey" /\ Decodes(f, "COMMIT"))
    BY <1>2, <2>2, Stepped DEF on_rekey_frame
  <2> QED BY <2>1, <2>2
<1> QED BY <1>1, <1>2

-----------------------------------------------------------------------------
(* DATA and CLOSE.                                                         *)

\* maybe_trigger_rekey starts a rekey at the message limit, unless it is blocked.
LEMMA Triggers ==
  ASSUME NEW e, EngineOK(e), NEW out, IsSequence(out)
  PROVE  /\ Handled(e, maybe_trigger_rekey(e, out))
         /\ maybe_trigger_rekey(e, out).event[1] \in {"none", "RekeyStarted"}
<1> DEFINE r == IF e.messages >= REKEY_MESSAGE_LIMIT /\ ~e.rekey_blocked
                THEN begin_rekey(e) ELSE Result(e, <<>>, <<"none">>)
<1>1. Handled(e, Result(e, <<>>, <<"none">>))
  BY Quiet, NoneSent DEF Reported, Same
<1>2. Handled(e, r) /\ r.event[1] \in {"none", "RekeyStarted"}
  BY <1>1, Begins DEF Result
<1>3. maybe_trigger_rekey(e, out) = [r EXCEPT !.out = out \o @]
  BY DEF maybe_trigger_rekey
<1> HIDE DEF r
<1>4. IsSequence(out \o r.out)
  BY <1>2, BothSent DEF Handled
<1> QED BY <1>2, <1>3, <1>4 DEF Handled, Legal, Delivers

\* Sessions are used, and keep who they are.
UsesOnly(e, x) ==
    /\ DOMAIN x = EngineFields
    /\ \A f \in EngineFields \ {"messages", "active", "draining"} : x[f] = e[f]
    /\ DOMAIN x.active = SessionFields /\ x.active.id = e.active.id
    /\ \/ x.draining = e.draining
       \/ e.draining # NoSession /\ DOMAIN x.draining = SessionFields

\* Sealing and opening change a session's counters only, which no deadline
\* depends on.
LEMMA Uses ==
  ASSUME NEW e, NEW x, EngineOK(e), e.phase = "Established", UsesOnly(e, x)
  PROVE  EngineOK(x) /\ x.role = e.role /\ x.phase = e.phase
         /\ Reported(e, x) /\ Same(e, x)
<1>1. /\ x.role = e.role /\ x.phase = e.phase /\ x.run = e.run
      /\ x.rekey_blocked = e.rekey_blocked
      /\ x.deadlines = e.deadlines /\ x.touched = e.touched
  BY DEF UsesOnly, EngineFields
<1>2. x.draining = NoSession <=> e.draining = NoSession
  BY DEF UsesOnly, NoSession, SessionFields
<1> QED BY <1>1, <1>2 DEF UsesOnly, EngineOK, Held, HasRun, WaitsTimed, RekeyScheduled, Reported, Same,
        StageOf, UnderWay

\* on_send: content goes out sealed, and may set off a rekey.
LEMMA Sends ==
  ASSUME NEW e, EngineOK(e), NEW content
  PROVE  Handled(e, on_send(e, content))
<1>1. CASE content = TooLarge \/ e.phase # "Established"
  <2>1. on_send(e, content) \in {Result(e, <<>>, <<"SendRejected", "TooLarge">>),
                                Result(e, <<>>, <<"SendRejected", "NotActive">>)}
    BY <1>1 DEF on_send
  <2> QED BY <2>1, Quiet, NoneSent DEF Reported, Same
<1>2. CASE content # TooLarge /\ e.phase = "Established" /\ e.active.counter >= COUNTER_MAX
  BY <1>2, Terminate DEF on_send, EngineOK, Held
<1>3. CASE content # TooLarge /\ e.phase = "Established" /\ ~(e.active.counter >= COUNTER_MAX)
  <2> DEFINE w == [e EXCEPT !.active.counter = @ + 1]
             x == Counted(w)
             d == DataPayload(e.active.id, e.active.role, e.active.counter, content)
  <2>1. /\ DOMAIN w = EngineFields /\ w.active = [e.active EXCEPT !.counter = @ + 1]
        /\ \A f \in EngineFields \ {"active"} : w[f] = e[f]
    BY DEF EngineOK, Held, EngineFields
  <2>2. on_send(e, content) = maybe_trigger_rekey(x, <<d>>)
    BY <1>3 DEF on_send
  <2> HIDE DEF w, d
  <2>3. /\ DOMAIN x = EngineFields
        /\ \A f \in EngineFields \ {"messages"} : x[f] = w[f]
    BY <2>1 DEF Counted, EngineFields
  <2> HIDE DEF x
  <2>4. DOMAIN e.active = SessionFields
    BY <1>3 DEF EngineOK, Held
  <2>5. DOMAIN w.active = SessionFields /\ w.active.id = e.active.id
    BY <2>1, <2>4 DEF SessionFields
  <2>6. x.active = w.active /\ x.draining = e.draining
    BY <2>1, <2>3 DEF EngineFields
  <2>7. \A f \in EngineFields \ {"messages", "active", "draining"} : x[f] = e[f]
    BY <2>1, <2>3
  <2>8. UsesOnly(e, x)
    BY <2>3, <2>5, <2>6, <2>7 DEF UsesOnly
  <2>9. EngineOK(x) /\ x.role = e.role /\ Reported(e, x) /\ Same(e, x)
    BY <1>3, <2>8, Uses
  <2> QED BY <2>2, <2>9, Triggers, HandsOver, OneSent
<1> QED BY <1>1, <1>2, <1>3

\* Opening a frame leaves a session the session it was.
LEMMA Decrypts ==
  ASSUME NEW s, NEW f, DOMAIN s = SessionFields
  PROVE  DOMAIN decrypt(s, f) = SessionFields /\ decrypt(s, f).id = s.id
BY DEF decrypt, SessionFields

\* on_data: a frame of the current session, of the draining one, or of neither.
LEMMA Data ==
  ASSUME NEW e, EngineOK(e), e.phase = "Established", NEW f
  PROVE  Handled(e, on_data(e, f))
<1> DEFINE x == [e EXCEPT !.active = decrypt(@, f)]
           y == [x EXCEPT !.draining = decrypt(@, f)]
<1>1. /\ DOMAIN x = EngineFields /\ x.active = decrypt(e.active, f)
      /\ \A g \in EngineFields \ {"active"} : x[g] = e[g]
  BY DEF EngineOK, Held, EngineFields
<1>2. on_data(e, f) =
        IF decrypts(e.active, f)
        THEN [maybe_trigger_rekey(Counted(x), <<>>) EXCEPT !.deliver = f.content]
        ELSE LET both == IF e.draining = NoSession THEN x ELSE y
             IN  IF e.draining # NoSession /\ decrypts(e.draining, f)
                 THEN [Result(both, <<>>, <<"none">>) EXCEPT !.deliver = f.content]
                 ELSE IF ~f.intact THEN terminate(both, "ProtocolError", "ProtocolError")
                 ELSE Result(both, <<>>, <<"DataRejected">>)
  BY DEF on_data
<1> HIDE DEF x
<1>3. /\ DOMAIN y = EngineFields /\ y.draining = decrypt(x.draining, f)
      /\ \A g \in EngineFields \ {"draining"} : y[g] = x[g]
  BY <1>1 DEF EngineFields
<1> HIDE DEF y
<1>4. /\ DOMAIN x.active = SessionFields /\ x.active.id = e.active.id
      /\ x.draining = e.draining /\ y.active = x.active
  BY <1>1, <1>3, Decrypts DEF EngineOK, Held, EngineFields
<1>5. e.draining # NoSession => DOMAIN y.draining = SessionFields
  BY <1>3, <1>4, Decrypts DEF EngineOK, Held
<1>6. CASE decrypts(e.active, f)
  <2> DEFINE z == Counted(x)
             r == maybe_trigger_rekey(z, <<>>)
  <2>1. /\ DOMAIN z = EngineFields
        /\ \A g \in EngineFields \ {"messages"} : z[g] = x[g]
    BY <1>1 DEF Counted, EngineFields
  <2>2. on_data(e, f) = [r EXCEPT !.deliver = f.content]
    BY <1>2, <1>6
  <2> HIDE DEF z
  <2>3. z.active = x.active /\ z.draining = e.draining
    BY <1>4, <2>1 DEF EngineFields
  <2>4. UsesOnly(e, z)
    BY <1>1, <1>4, <2>1, <2>3 DEF UsesOnly
  <2>5. EngineOK(z) /\ z.role = e.role /\ Reported(e, z) /\ Same(e, z)
    BY <2>4, Uses
  <2>6. Handled(e, r) /\ r.event[1] \in {"none", "RekeyStarted"}
    BY <2>5, Triggers, HandsOver, NoneSent
  <2> HIDE DEF r
  <2> QED BY <2>2, <2>6 DEF Handled, Legal, Delivers
<1>7. CASE ~decrypts(e.active, f)
  <2> DEFINE b == IF e.draining = NoSession THEN x ELSE y
  <2>1. EngineOK(b) /\ b.role = e.role /\ Reported(e, b) /\ Same(e, b)
    <3>1. UsesOnly(e, x)
      BY <1>1, <1>4 DEF UsesOnly
    <3>2. e.draining # NoSession => UsesOnly(e, y)
      BY <1>1, <1>3, <1>4, <1>5 DEF UsesOnly
    <3>3. UsesOnly(e, b)
      BY <3>1, <3>2
    <3> HIDE DEF b
    <3> QED BY <3>3, Uses
  <2>2. \/ on_data(e, f) = [Result(b, <<>>, <<"none">>) EXCEPT !.deliver = f.content]
        \/ on_data(e, f) = terminate(b, "ProtocolError", "ProtocolError")
        \/ on_data(e, f) = Result(b, <<>>, <<"DataRejected">>)
    BY <1>2, <1>7
  <2> HIDE DEF b
  <2>3. Handled(e, Result(b, <<>>, <<"none">>))
    BY <2>1, Quiet, NoneSent
  <2>4. Handled(e, [Result(b, <<>>, <<"none">>) EXCEPT !.deliver = f.content])
    BY <2>3 DEF Handled, Legal, Delivers, Result
  <2>5. Handled(e, Result(b, <<>>, <<"DataRejected">>))
    BY <2>1, Quiet, NoneSent
  <2>6. Handled(b, terminate(b, "ProtocolError", "ProtocolError"))
    BY <2>1, Terminate DEF EngineOK, Held
  <2>7. Handled(e, terminate(b, "ProtocolError", "ProtocolError"))
    BY <2>1, <2>6, HandsOver
  <2> QED BY <2>2, <2>4, <2>5, <2>7
<1> QED BY <1>6, <1>7

\* on_close_frame: a CLOSE of the current session ends the connection, one of the
\* draining session ends the draining with its deadline, any other is ignored.
LEMMA CloseFrame ==
  ASSUME NEW e, EngineOK(e), NEW f
  PROVE  Handled(e, on_close_frame(e, f))
<1> DEFINE w == [e EXCEPT !.draining = NoSession]
           x == cancel(w, {"Drain"})
<1>1. /\ DOMAIN w = EngineFields /\ w.draining = NoSession
      /\ \A g \in EngineFields \ {"draining"} : w[g] = e[g]
  BY DEF EngineOK, Held, EngineFields
<1>2. \/ \E why, notify : on_close_frame(e, f) = terminate(e, why, notify)
      \/ on_close_frame(e, f) = Result(e, <<>>, <<"none">>)
      \/ on_close_frame(e, f) = Result(x, <<>>, <<"none">>)
  BY DEF on_close_frame
<1> HIDE DEF w
<1>3. /\ DOMAIN x = EngineFields /\ \A g \in Others : x[g] = w[g]
      /\ x.deadlines = w.deadlines \ {"Drain"}
      /\ x.touched = w.touched \cup ({"Drain"} \cap w.deadlines)
  BY <1>1, Cancels
<1> HIDE DEF x
<1>4. /\ x.role = e.role /\ x.phase = e.phase /\ x.active = e.active /\ x.run = e.run
      /\ x.draining = NoSession /\ x.rekey_blocked = e.rekey_blocked
      /\ x.deadlines = e.deadlines \ {"Drain"}
      /\ x.touched = e.touched \cup ({"Drain"} \cap e.deadlines)
  BY <1>1, <1>3 DEF EngineFields, Others
<1>5. EngineOK(x)
  BY <1>3, <1>4 DEF EngineOK, Held, HasRun, WaitsTimed, RekeyScheduled
<1>6. Reported(e, x) /\ Same(e, x)
  BY <1>4 DEF Reported, Same, StageOf, UnderWay
<1>7. \A why, notify : Handled(e, terminate(e, why, notify))
  BY Terminate DEF EngineOK, Held
<1>8. Handled(e, Result(e, <<>>, <<"none">>)) /\ Handled(e, Result(x, <<>>, <<"none">>))
  BY <1>4, <1>5, <1>6, Quiet, NoneSent DEF Reported, Same
<1> QED BY <1>2, <1>7, <1>8

-----------------------------------------------------------------------------
(* The inputs of an engine.                                                *)

\* accept_first_commit: what a responder makes of the first frame.
LEMMA FirstCommit ==
  ASSUME NEW e, EngineOK(e), e.phase = "Handshaking", e.run = NoRun, NEW f
  PROVE  Handled(e, accept_first_commit(e, f))
<1>1. "HandshakeTotal" \in e.deadlines /\ "SasDecision" \notin e.deadlines /\ Held(e)
  BY DEF EngineOK, WaitsTimed, NoRun
<1>2. CASE f.purpose = "Initial"
  <2> DEFINE r == start_responder_run(e, f, TRUE)
  <2>1. /\ Responded(e, r)
        /\ r.event = IF f.purpose = "Rekey" /\ TRUE THEN <<"RekeyStarted">> ELSE <<"none">>
    BY <1>1, <1>2, Responds
  <2>2. accept_first_commit(e, f) \in {r, fail_initial(e, "InvalidHandshake")}
    BY DEF accept_first_commit
  <2> HIDE DEF r
  <2>3. r.event = <<"none">>
    BY <1>2, <2>1
  <2>4. Same(e, r.e)
    BY <2>1 DEF Responded, Same, StageOf, UnderWay, AskedSteps, NoRun
  <2>5. Handled(e, r)
    BY <2>1, <2>3, <2>4 DEF Responded, Handled, Legal, Delivers
  <2>6. Handled(e, fail_initial(e, "InvalidHandshake"))
    BY <1>1, Terminate DEF fail_initial, Held
  <2> QED BY <2>2, <2>5, <2>6
<1>3. CASE f.purpose # "Initial"
  BY <1>1, <1>3, Terminate DEF accept_first_commit, fail_initial, Held
<1> QED BY <1>2, <1>3

\* handle(FrameReceived)
LEMMA Frame ==
  ASSUME NEW e, EngineOK(e), NEW f
  PROVE  Handled(e, on_frame(e, f))
<1>1. \A why, notify : Handled(e, terminate(e, why, notify))
  BY Terminate DEF EngineOK, Held
<1>2. CASE e.phase \in {"Idle", "Closed"}
  BY <1>1, <1>2 DEF on_frame
<1>3. CASE e.phase = "Handshaking"
  BY <1>3, CloseFrame, FirstCommit, Stepped DEF on_frame
<1>4. CASE e.phase = "Established"
  <2>1. MessageType(f) \in {"Data", "Close", "SessionConfirm", "Rekey", "Handshake"}
    BY DEF MessageType
  <2> QED BY <1>1, <1>4, <2>1, Data, CloseFrame, RekeyFrame DEF on_frame
<1> QED BY <1>2, <1>3, <1>4 DEF EngineOK

\* handle(SasDecision)
LEMMA Answers ==
  ASSUME NEW e, EngineOK(e), NEW approved
  PROVE  Handled(e, on_sas(e, approved))
<1>1. CASE e.phase # "Handshaking" \/ e.run.step # "Sas"
  BY <1>1, Quiet, NoneSent DEF on_sas, Reported, Same
<1>2. CASE e.phase = "Handshaking" /\ e.run.step = "Sas"
  <2> DEFINE x == cancel(e, {"SasDecision"})
  <2>1. /\ DOMAIN x = EngineFields /\ \A g \in Others : x[g] = e[g]
        /\ x.deadlines = e.deadlines \ {"SasDecision"}
        /\ x.touched = e.touched \cup ({"SasDecision"} \cap e.deadlines)
    BY Cancels DEF EngineOK, Held
  <2>2. \/ on_sas(e, approved) = terminate(x, "SasRejected", "AuthenticationFailure")
        \/ on_sas(e, approved) = after_approval(x)
    BY <1>2 DEF on_sas
  <2> HIDE DEF x
  <2>3. /\ x.role = e.role /\ x.phase = e.phase /\ x.active = e.active /\ x.run = e.run
        /\ x.draining = e.draining /\ x.rekey_blocked = e.rekey_blocked
    BY <2>1 DEF EngineFields, Others
  <2>4. e.run # NoRun /\ e.run.step \in AskedSteps
    BY <1>2 DEF NoRun, AskedSteps
  <2>5. Running(x) /\ Reported(e, x) /\ Same(e, x)
    BY <1>2, <2>1, <2>3, <2>4 DEF EngineOK, Running, Held, HasRun, WaitsTimed, Reported, Same,
       StageOf, UnderWay
  <2>6. Handled(x, terminate(x, "SasRejected", "AuthenticationFailure"))
    BY <2>5, Terminate DEF Running, Held
  <2>7. Handled(x, after_approval(x))
    BY <1>2, <2>3, <2>4, <2>5, Approved
  <2> QED BY <2>2, <2>3, <2>5, <2>6, <2>7, HandsOver
<1> QED BY <1>1, <1>2

\* handle(Timeout) for a deadline that is armed: the driver has taken it from
\* its table by itself, so no effect tells of that.
Fired(e, kind) == [e EXCEPT !.deadlines = @ \ {kind}]

\* on_timeout, once the deadline that fired is off the list: each kind leaves its
\* wait ended or armed anew.
LEMMA Fires ==
  ASSUME NEW e, EngineOK(e), NEW kind \in e.deadlines
  PROVE  Same(e, Fired(e, kind)) /\ Handled(Fired(e, kind), on_timeout(e, kind))
<1> DEFINE fired == Fired(e, kind)
<1>1. /\ DOMAIN fired = EngineFields /\ fired.deadlines = e.deadlines \ {kind}
      /\ \A g \in EngineFields \ {"deadlines"} : fired[g] = e[g]
  BY DEF Fired, EngineOK, Held, EngineFields
<1>2. on_timeout(e, kind) =
        CASE kind \in {"HandshakeFrame", "HandshakeTotal"} ->
                IF e.phase = "Handshaking"
                THEN terminate(fired, "Timeout", "ResourceLimit")
                ELSE IF e.run # NoRun THEN fail_rekey(fired, "TransportTimeout")
                ELSE Result(fired, <<>>, <<"none">>)
           [] kind = "SasDecision" ->
                terminate(fired, "Timeout", "AuthenticationFailure")
           [] kind = "RekeyDue" ->
                begin_rekey([fired EXCEPT !.rekey_blocked = FALSE,
                                          !.late_rekey_frames = 0])
           [] kind = "Drain" ->
                Result([fired EXCEPT !.draining = NoSession], <<>>, <<"none">>)
  BY DEF on_timeout, Fired
<1> HIDE DEF fired
<1>3. /\ fired.role = e.role /\ fired.phase = e.phase /\ fired.active = e.active
      /\ fired.run = e.run /\ fired.draining = e.draining
      /\ fired.rekey_blocked = e.rekey_blocked /\ fired.touched = e.touched
  BY <1>1 DEF EngineFields
<1>4. Same(e, fired)
  BY <1>3 DEF Same, StageOf, UnderWay
<1> SUFFICES Handled(fired, on_timeout(e, kind))
  BY <1>4 DEF fired
<1>5. kind \in DeadlineKind /\ e.phase \in {"Handshaking", "Established"}
  BY DEF EngineOK, Held
<1>6. \A why, notify : Handled(fired, terminate(fired, why, notify))
  BY <1>1, Terminate DEF EngineOK, Held
<1>7. CASE kind \in {"HandshakeFrame", "HandshakeTotal"}
  <2>1. CASE e.phase = "Handshaking"
    BY <1>2, <1>6, <1>7, <2>1
  <2>2. CASE e.phase = "Established"
    <3>1. e.run # NoRun /\ "SasDecision" \notin fired.deadlines
      BY <1>1, <1>7, <2>2 DEF EngineOK, WaitsTimed
    <3>2. Held(fired) /\ HasRun(fired)
      BY <1>1, <1>3, <1>7, <2>2, <3>1 DEF EngineOK, Held, HasRun
    <3>3. Handled(fired, fail_rekey(fired, "TransportTimeout"))
      BY <1>3, <2>2, <3>1, <3>2, FailRekey
    <3> QED BY <1>2, <1>7, <2>2, <3>1, <3>3
  <2> QED BY <1>5, <2>1, <2>2
<1>8. CASE kind = "SasDecision"
  BY <1>2, <1>6, <1>8
<1>9. CASE kind = "RekeyDue"
  <2> DEFINE x == [fired EXCEPT !.rekey_blocked = FALSE, !.late_rekey_frames = 0]
  <2>1. /\ DOMAIN x = EngineFields /\ x.rekey_blocked = FALSE
        /\ \A g \in EngineFields \ {"rekey_blocked", "late_rekey_frames"} : x[g] = fired[g]
    BY <1>1 DEF EngineFields
  <2>2. on_timeout(e, kind) = begin_rekey(x)
    BY <1>2, <1>9
  <2> HIDE DEF x
  <2>3. /\ x.role = e.role /\ x.phase = e.phase /\ x.active = e.active /\ x.run = e.run
        /\ x.draining = e.draining /\ x.deadlines = e.deadlines \ {"RekeyDue"}
        /\ x.touched = fired.touched
    BY <1>1, <1>3, <1>9, <2>1 DEF EngineFields
  <2>4. Held(x) /\ Reported(fired, x) /\ Same(fired, x)
    BY <1>1, <1>3, <1>9, <2>1, <2>3 DEF EngineOK, Held, Reported, Same, StageOf, UnderWay
  <2>5. \/ EngineOK(x)
        \/ "SasDecision" \notin x.deadlines /\ x.phase = "Established" /\ x.run = NoRun
    BY <1>5, <2>1, <2>3, <2>4 DEF EngineOK, HasRun, WaitsTimed, RekeyScheduled
  <2>6. Handled(x, begin_rekey(x))
    BY <2>4, <2>5, Begins
  <2>7. Handled(fired, begin_rekey(x))
    BY <1>3, <2>3, <2>4, <2>6, HandsOver
  <2> QED BY <2>2, <2>7
<1>10. CASE kind = "Drain"
  <2> DEFINE x == [fired EXCEPT !.draining = NoSession]
  <2>1. /\ DOMAIN x = EngineFields /\ x.draining = NoSession
        /\ \A g \in EngineFields \ {"draining"} : x[g] = fired[g]
    BY <1>1 DEF EngineFields
  <2>2. on_timeout(e, kind) = Result(x, <<>>, <<"none">>)
    BY <1>2, <1>10
  <2> HIDE DEF x
  <2>3. /\ x.role = e.role /\ x.phase = e.phase /\ x.active = e.active /\ x.run = e.run
        /\ x.rekey_blocked = e.rekey_blocked /\ x.deadlines = e.deadlines \ {"Drain"}
        /\ x.touched = fired.touched
    BY <1>1, <1>3, <1>10, <2>1 DEF EngineFields
  <2>4. EngineOK(x)
    BY <1>5, <2>1, <2>3 DEF EngineOK, Held, HasRun, WaitsTimed, RekeyScheduled
  <2>5. Reported(fired, x) /\ Same(fired, x)
    BY <1>1, <1>3, <1>10, <2>3 DEF Reported, Same, StageOf, UnderWay
  <2>6. Handled(fired, Result(x, <<>>, <<"none">>))
    BY <1>3, <2>3, <2>4, <2>5, Quiet, NoneSent
  <2> QED BY <2>2, <2>6
<1> QED BY <1>5, <1>7, <1>8, <1>9, <1>10 DEF DeadlineKind

\* handle(LocalClose), handle(TransportClosed) and handle(Malformed)
LEMMA Ends ==
  ASSUME NEW e, EngineOK(e), NEW respond
  PROVE  /\ Handled(e, local_close(e))
         /\ Handled(e, transport_closed(e))
         /\ Handled(e, malformed(e, respond))
BY Terminate DEF local_close, transport_closed, malformed, EngineOK, Held

\* Effects that have been handed out are told of no more.
LEMMA Settles ==
  ASSUME NEW e, EngineOK(e)
  PROVE  /\ EngineOK(Settled(e)) /\ Settled(e).role = e.role
         /\ Settled(e).phase = e.phase /\ Settled(e).run = e.run
         /\ Settled(e).deadlines = e.deadlines /\ Settled(e).touched = {}
         /\ Settled(e).rekey_blocked = e.rekey_blocked
<1>1. /\ DOMAIN Settled(e) = EngineFields /\ Settled(e).touched = {}
      /\ \A g \in EngineFields \ {"touched"} : Settled(e)[g] = e[g]
  BY DEF Settled, EngineOK, Held, EngineFields
<1>2. /\ Settled(e).role = e.role /\ Settled(e).phase = e.phase /\ Settled(e).run = e.run
      /\ Settled(e).active = e.active /\ Settled(e).draining = e.draining
      /\ Settled(e).rekey_blocked = e.rekey_blocked /\ Settled(e).deadlines = e.deadlines
  BY <1>1 DEF EngineFields
<1> QED BY <1>1, <1>2 DEF EngineOK, Held, HasRun, WaitsTimed, RekeyScheduled

\* A new engine waits for nothing.
LEMMA Fresh ==
  ASSUME NEW role, NEW identity
  PROVE  EngineOK(NewEngine(role, identity))
BY DEF NewEngine, EngineOK, Held, WaitsTimed, RekeyScheduled, EngineFields, NoSession, DeadlineKind

-----------------------------------------------------------------------------
(* Runs, sessions and what is sent: which ephemeral key a run and a session *)
(* are made of, when a run may become a session, and what a frame says of   *)
(* its sender.  The proofs that two ends of a connection agree rest on this.*)

Roles == {"Initiator", "Responder"}

\* The ephemeral keys of a session id: the one of a role, and the one of the
\* other role.
Mine(role, id)   == IF role = "Initiator" THEN id[1] ELSE id[2]
Theirs(role, id) == IF role = "Initiator" THEN id[2] ELSE id[1]

\* The ephemeral keys whose runs are over are those numbered below this.
Ended(e) == IF e.run = NoRun THEN e.entropy ELSE e.entropy - 1

\* The key that role contributed to id is one of an earlier run of e.
Past(e, role, id) == \E k \in 0..(Ended(e) - 1) : Mine(role, id) = <<e.identity, k>>

\* e awaits the responder's confirmation of id.
Confirming(e, id) == e.run.step = "ConfirmResp" /\ SessionKeys(e.run.transcript) = id

\* e has had a run with id in that role, or is about to end one.
Known(e, role, id) == Past(e, role, id) \/ (role = "Initiator" /\ Confirming(e, id))

\* The transcript of the run binds its own key and one of p.
Binds(e, p) ==
    /\ Mine(e.run.role, SessionKeys(e.run.transcript)) = e.run.local_hello.ephemeral
    /\ Theirs(e.run.role, SessionKeys(e.run.transcript))[1] = p

\* A run with a peer whose identity is p: its key is the last one drawn, and
\* once there is a transcript, it binds that key and one of the peer.
RunSane(e, p) ==
    e.run # NoRun =>
        /\ e.entropy > 0
        /\ e.run.role \in Roles
        /\ e.run.local_hello =
              HelloPayload(e.run.purpose, e.run.role, e.identity,
                           <<e.identity, e.entropy - 1>>, e.run.previous)
        /\ e.run.step \in {"Hello", "AuthResp", "ConfirmResp"} => e.run.role = "Initiator"
        /\ e.run.step \in {"Reveal", "AuthInit", "ConfirmInit"} => e.run.role = "Responder"
        /\ e.run.step \in AskedSteps => Binds(e, p)

SessionSet(e) == {e.active, e.draining} \ {NoSession}

Sound(e, p) ==
    /\ DOMAIN e = EngineFields
    /\ e.entropy \in Nat
    /\ RunSane(e, p)
    /\ e.phase # "Established" => SessionSet(e) = {}
    /\ e.phase = "Established" => e.active.id \notin {NoId, e.draining.id}

\* What a frame says of the engine that sent it.
FrameSane(f, e) ==
    /\ {"kind", "intact"} \subseteq DOMAIN f
    /\ f.kind = "HELLO" => "ephemeral" \in DOMAIN f /\ f.ephemeral[1] = e.identity
    /\ f.kind = "CONFIRM" =>
          /\ {"role", "id"} \subseteq DOMAIN f
          /\ f.role \in Roles
          /\ Known(e, f.role, f.id)
    /\ f.kind = "DATA" =>
          /\ {"id", "direction", "counter", "key", "content"} \subseteq DOMAIN f
          /\ f.direction \in Roles
          /\ Past(e, f.direction, f.id)
          /\ f.counter \in 0..(COUNTER_MAX - 1)
          /\ f.key \in {f.counter, NoKey}

\* out is what an engine, now e, has just sent, other than DATA.
Writes(e, out) ==
    /\ IsSequence(out)
    /\ \A i \in 1..Len(out) :
          FrameSane(out[i], e) /\ out[i].intact /\ out[i].kind # "DATA"

HasConfirm(q) == \E i \in 1..Len(q) : q[i].kind = "CONFIRM"

\* The user's approval, and nothing at all, as the input of a handler.
Approval == [kind |-> "Approval"]
NoInput  == NoFrame

\* The user of e has approved the SAS.
Passed(e) ==
    \/ e.phase = "Established"
    \/ e.phase = "Handshaking" /\ e.run.step \in AskedSteps \ {"Sas"}

\* e, given f, makes a session s of its run; x is e afterwards and out what it
\* sends.
Promotes(e, f, x, out, s) ==
    /\ e.run # NoRun /\ x.run = NoRun
    /\ s.id = SessionKeys(e.run.transcript) /\ s.role = e.run.role
    /\ s.counter = 0 /\ s.receiver = NewReceiver
    /\ f.kind = "CONFIRM" /\ f.id = s.id
    /\ \/ e.run.step = "ConfirmResp" /\ f.role = "Responder"
       \/ /\ e.run.step = "ConfirmInit" /\ f.role = "Initiator"
          /\ HasConfirm(out)

\* The engine e of a peer p becomes x, given f, and sends out.  A session it
\* holds then it held before, or it has made it of its run.
Plays(e, p, f, x, out) ==
    /\ Sound(x, p)
    /\ x.identity = e.identity
    /\ e.entropy <= x.entropy /\ Ended(e) <= Ended(x)
    /\ \A s \in SessionSet(x) : s \in SessionSet(e) \/ Promotes(e, f, x, out, s)
    /\ e.run.step = "ConfirmResp" =>
          /\ x.run = e.run \/ e.entropy <= Ended(x)
          /\ f.kind = "CONFIRM" => x.run # e.run
    /\ x.run.step = "ConfirmResp" =>
          x.run = e.run \/ (e.run # NoRun /\ e.run.step # "ConfirmResp" /\ x.entropy = e.entropy)
    /\ Writes(x, out)
    /\ HasConfirm(out) => Passed(e)
    /\ Passed(x) => Passed(e) \/ f = Approval
    /\ x.phase = "Established" => e.phase = "Established" \/ f.kind = "CONFIRM"

-----------------------------------------------------------------------------
(* Handlers that share what they do.                                       *)

\* x is e, but for deadlines and counts.
Alike(e, x) ==
    /\ DOMAIN x = EngineFields
    /\ x.identity = e.identity /\ x.entropy = e.entropy /\ x.phase = e.phase
    /\ x.run = e.run /\ x.active = e.active /\ x.draining = e.draining

\* Sending nothing.
LEMMA WritesNone == ASSUME NEW e PROVE Writes(e, <<>>) /\ ~HasConfirm(<<>>)
BY NoneSent DEF Writes, HasConfirm

\* Sending one frame.
LEMMA WritesOne ==
  ASSUME NEW e, NEW f, FrameSane(f, e), f.intact, f.kind # "DATA"
  PROVE  Writes(e, <<f>>) /\ (HasConfirm(<<f>>) <=> f.kind = "CONFIRM")
<1>1. Len(<<f>>) = 1 /\ <<f>>[1] = f
  OBVIOUS
<1> QED BY <1>1, OneSent DEF Writes, HasConfirm

\* A frame that is neither HELLO, CONFIRM nor DATA says nothing of its sender.
LEMMA WritesOther ==
  ASSUME NEW e, NEW f, {"kind", "intact"} \subseteq DOMAIN f, f.intact,
         f.kind \notin {"HELLO", "CONFIRM", "DATA"}
  PROVE  Writes(e, <<f>>) /\ ~HasConfirm(<<f>>)
<1>1. FrameSane(f, e)
  BY DEF FrameSane
<1> QED BY <1>1, WritesOne

\* What a frame says of an engine, it says of one that differs in deadlines.
LEMMA AlikeWrites ==
  ASSUME NEW e, NEW x, Alike(e, x), NEW out, Writes(e, out)
  PROVE  Writes(x, out)
<1>1. \A f : FrameSane(f, e) => FrameSane(f, x)
  BY DEF Alike, FrameSane, Known, Past, Ended, Confirming
<1> QED BY <1>1 DEF Writes

\* An engine that differs in deadlines is as sound.
LEMMA AlikeSound ==
  ASSUME NEW e, NEW x, NEW p, Alike(e, x), Sound(e, p)
  PROVE  Sound(x, p)
BY DEF Alike, Sound, RunSane, Binds, SessionSet

\* Nothing is lost by a change of deadlines after a step.
LEMMA AlikeAfter ==
  ASSUME NEW e, NEW p, NEW f, NEW x, NEW out, Plays(e, p, f, x, out), NEW y, Alike(x, y)
  PROVE  Plays(e, p, f, y, out)
<1>1. Sound(y, p) /\ Writes(y, out)
  BY AlikeSound, AlikeWrites DEF Plays
<1>2. /\ y.identity = x.identity /\ y.entropy = x.entropy /\ y.run = x.run
      /\ y.phase = x.phase /\ Ended(y) = Ended(x) /\ SessionSet(y) = SessionSet(x)
      /\ Passed(y) <=> Passed(x)
  BY DEF Alike, Ended, SessionSet, Passed
<1>3. ASSUME NEW s, Promotes(e, f, x, out, s)
      PROVE  Promotes(e, f, y, out, s)
  BY <1>2, <1>3 DEF Promotes
<1> QED BY <1>1, <1>2, <1>3 DEF Plays

\* Nor by one before it.
LEMMA AlikeBefore ==
  ASSUME NEW e, NEW x, Alike(e, x), NEW p, NEW f, NEW y, NEW out, Plays(x, p, f, y, out)
  PROVE  Plays(e, p, f, y, out)
<1>2. /\ x.identity = e.identity /\ x.entropy = e.entropy /\ x.run = e.run
      /\ x.phase = e.phase /\ Ended(x) = Ended(e) /\ SessionSet(x) = SessionSet(e)
      /\ Passed(x) <=> Passed(e)
  BY DEF Alike, Ended, SessionSet, Passed
<1>3. ASSUME NEW s, Promotes(x, f, y, out, s)
      PROVE  Promotes(e, f, y, out, s)
  BY <1>2, <1>3 DEF Promotes
<1> QED BY <1>2, <1>3 DEF Plays

\* A step that changes deadlines only.
LEMMA PlaysOn ==
  ASSUME NEW e, NEW p, Sound(e, p), NEW f, NEW x, Alike(e, x),
         NEW out, Writes(e, out), ~HasConfirm(out),
         f.kind = "CONFIRM" => e.run.step # "ConfirmResp"
  PROVE  Plays(e, p, f, x, out)
<1>1. Sound(x, p) /\ Writes(x, out)
  BY AlikeSound, AlikeWrites
<1>2. /\ x.identity = e.identity /\ x.entropy = e.entropy /\ x.run = e.run
      /\ x.phase = e.phase /\ Ended(x) = Ended(e) /\ SessionSet(x) = SessionSet(e)
      /\ Ended(e) \in Int
      /\ Passed(x) <=> Passed(e)
  BY DEF Alike, Ended, SessionSet, Passed, Sound
<1>0. e.entropy <= x.entropy
  BY <1>2 DEF Sound
<1> QED BY <1>0, <1>1, <1>2 DEF Plays

\* A step that only ends the run, if there was one, and lets go of a session.
LEMMA PlaysOut ==
  ASSUME NEW e, NEW p, Sound(e, p), NEW f, NEW x, DOMAIN x = EngineFields,
         x.identity = e.identity, x.entropy = e.entropy, x.run = NoRun,
         x.phase = e.phase, x.active = e.active, x.draining \in {e.draining, NoSession}
  PROVE  Plays(e, p, f, x, <<>>)
<1>1. SessionSet(x) \subseteq SessionSet(e)
  BY DEF SessionSet
<1>2. x.phase # "Established" => SessionSet(x) = {}
  BY <1>1 DEF Sound
<1>3. Sound(x, p)
  BY <1>2 DEF Sound, RunSane, NoSession
<1>4. Ended(e) <= Ended(x) /\ e.entropy <= Ended(x)
  BY DEF Sound, Ended
<1>5. x.run.step = "None"
  BY DEF NoRun
<1>6. Passed(x) => Passed(e)
  BY <1>5 DEF Passed, AskedSteps
<1>7. e.run.step = "ConfirmResp" => x.run # e.run
  BY <1>5
<1>0. e.entropy <= x.entropy
  BY DEF Sound
<1> QED BY <1>0, <1>1, <1>3, <1>4, <1>5, <1>6, <1>7, WritesNone DEF Plays

\* terminate ends the run and every session.
LEMMA PlaysEnd ==
  ASSUME NEW e, NEW p, Sound(e, p), NEW f, NEW why, NEW notify
  PROVE  LET r == terminate(e, why, notify) IN Plays(e, p, f, r.e, r.out) /\ ~HasConfirm(r.out)
<1> DEFINE r == terminate(e, why, notify)
           x == r.e
           out == r.out
<1>1. /\ DOMAIN x = EngineFields /\ x.identity = e.identity /\ x.entropy = e.entropy
      /\ x.run = NoRun /\ x.active = NoSession /\ x.draining = NoSession /\ x.phase = "Closed"
  BY DEF Sound, terminate, Result, cancel_all, cancel, EngineFields
<1>2. \/ out = <<>>
      \/ out = <<ClosePayload(e.active.id, notify)>>
  BY DEF terminate, Result
<1> HIDE DEF r
<1>3. Writes(x, out) /\ ~HasConfirm(out)
  BY <1>2, WritesNone, WritesOther DEF ClosePayload
<1>4. SessionSet(x) = {}
  BY <1>1 DEF SessionSet
<1>5. Sound(x, p)
  BY <1>1, <1>4 DEF Sound, RunSane
<1>6. Ended(e) <= Ended(x) /\ e.entropy <= Ended(x)
  BY <1>1 DEF Sound, Ended
<1>7. x.run.step = "None"
  BY <1>1 DEF NoRun
<1>8. ~Passed(x) /\ x.phase # "Established"
  BY <1>1 DEF Passed
<1>9. e.run.step = "ConfirmResp" => x.run # e.run
  BY <1>7
<1>0. e.entropy <= x.entropy
  BY <1>1 DEF Sound
<1>10. Plays(e, p, f, x, out)
  BY <1>1, <1>3, <1>4, <1>5, <1>6, <1>7, <1>8, <1>9, <1>0 DEF Plays
<1> QED BY <1>3, <1>10 DEF r

\* A step that prepares the run for another one, or drops it, is one with it.
LEMMA PlaysVia ==
  ASSUME NEW e, NEW p, NEW f, NEW k, NEW x, NEW out, Plays(k, p, f, x, out),
         k.identity = e.identity, k.entropy = e.entropy, k.phase = e.phase,
         k.active = e.active, k.draining = e.draining, Ended(e) <= Ended(k),
         Ended(e) \in Int, Ended(k) \in Int,
         e.run # NoRun, e.run.step # "ConfirmResp", k.run.step # "ConfirmResp",
         f.kind # "CONFIRM",
         Passed(k) => Passed(e) \/ f = Approval,
         HasConfirm(out) => Passed(e)
  PROVE  Plays(e, p, f, x, out)
<1>1. Sound(x, p)
  BY DEF Plays
<1>2. x.entropy \in Nat /\ Ended(x) \in Int
  BY <1>1 DEF Sound, Ended
<1>3. SessionSet(k) = SessionSet(e)
  BY DEF SessionSet
<1>4. \A s : ~Promotes(k, f, x, out, s)
  BY DEF Promotes
<1>5. Ended(e) <= Ended(x)
  BY <1>2 DEF Plays
<1> QED BY <1>1, <1>3, <1>4, <1>5 DEF Plays

\* A step within the run.
LEMMA PlaysStep ==
  ASSUME NEW e, NEW p, Sound(e, p), NEW f, NEW x, NEW out, DOMAIN x = EngineFields,
         x.identity = e.identity, x.entropy = e.entropy, x.phase = e.phase,
         x.active = e.active, x.draining = e.draining,
         e.run # NoRun, e.run.step # "ConfirmResp", x.run # NoRun, RunSane(x, p),
         Writes(x, out), HasConfirm(out) => Passed(e),
         Passed(x) => Passed(e) \/ f = Approval
  PROVE  Plays(e, p, f, x, out)
<1>1. SessionSet(x) = SessionSet(e)
  BY DEF SessionSet
<1>2. Sound(x, p)
  BY <1>1 DEF Sound
<1>3. Ended(x) = Ended(e) /\ Ended(e) \in Int
  BY DEF Ended, Sound
<1>0. e.entropy <= x.entropy
  BY DEF Sound
<1> QED BY <1>0, <1>1, <1>2, <1>3 DEF Plays

\* fail_rekey keeps the sessions.
LEMMA PlaysFailedRekey ==
  ASSUME NEW e, NEW p, Sound(e, p), NEW f, NEW error
  PROVE  LET r == fail_rekey(e, error) IN Plays(e, p, f, r.e, r.out) /\ ~HasConfirm(r.out)
<1> DEFINE r == fail_rekey(e, error)
           x == r.e
<1>1. /\ DOMAIN x = EngineFields /\ x.identity = e.identity /\ x.entropy = e.entropy
      /\ x.run = NoRun /\ x.active = e.active /\ x.draining = e.draining /\ x.phase = e.phase
      /\ r.out = <<>>
  BY DEF Sound, fail_rekey, Result, arm, cancel, EngineFields
<1> HIDE DEF r
<1>2. Plays(e, p, f, x, r.out) /\ ~HasConfirm(r.out)
  BY <1>1, PlaysOut, WritesNone
<1> QED BY <1>2 DEF r

\* A failure ends the run, and during the first handshake the connection.
LEMMA PlaysFail ==
  ASSUME NEW e, NEW p, Sound(e, p), NEW f, NEW error
  PROVE  LET r == Fail(e, error) IN Plays(e, p, f, r.e, r.out) /\ ~HasConfirm(r.out)
BY PlaysEnd, PlaysFailedRekey DEF Fail, fail_initial

\* Deadlines are no part of what an engine and its peer agree on.
LEMMA ArmsAlike ==
  ASSUME NEW e, NEW kind, NEW kinds, DOMAIN e = EngineFields
  PROVE  Alike(e, arm(e, kind)) /\ Alike(e, cancel(e, kinds))
BY DEF arm, cancel, Alike, EngineFields

\* Neither is the frame deadline of a run.
LEMMA RearmsAlike ==
  ASSUME NEW e, DOMAIN e = EngineFields
  PROVE  Alike(e, rearm_frame_deadline(e))
BY ArmsAlike DEF rearm_frame_deadline

\* Setting a field of the run keeps the rest of the engine and of the run.
LEMMA RunEdits ==
  ASSUME NEW e, NEW p, Sound(e, p), HasRun(e), NEW step \in Steps
  PROVE  LET x == [e EXCEPT !.run.step = step] IN
         /\ DOMAIN x = EngineFields
         /\ x.identity = e.identity /\ x.entropy = e.entropy /\ x.phase = e.phase
         /\ x.active = e.active /\ x.draining = e.draining
         /\ DOMAIN x.run = RunFields /\ x.run.step = step
         /\ \A field \in RunFields \ {"step"} : x.run[field] = e.run[field]
         /\ x.run # NoRun
<1> DEFINE x == [e EXCEPT !.run.step = step]
<1>1. /\ DOMAIN x = EngineFields
      /\ x.identity = e.identity /\ x.entropy = e.entropy /\ x.phase = e.phase
      /\ x.active = e.active /\ x.draining = e.draining
      /\ DOMAIN x.run = RunFields /\ x.run.step = step
      /\ \A field \in RunFields \ {"step"} : x.run[field] = e.run[field]
  BY DEF Sound, HasRun, EngineFields, RunFields
<1> HIDE DEF x
<1>2. x.run # NoRun
  BY <1>1 DEF NoRun, RunFields
<1> QED BY <1>1, <1>2 DEF x

\* A run that keeps its role, key and transcript stays sane in its next step.
LEMMA StepSane ==
  ASSUME NEW e, NEW p, Sound(e, p), e.run # NoRun, NEW x,
         x.identity = e.identity, x.entropy = e.entropy,
         x.run.purpose = e.run.purpose, x.run.role = e.run.role,
         x.run.previous = e.run.previous, x.run.local_hello = e.run.local_hello,
         x.run.transcript = e.run.transcript,
         Binds(e, p), x.run.step \in AskedSteps,
         x.run.step \in {"AuthResp", "ConfirmResp"} => e.run.role = "Initiator",
         x.run.step \in {"AuthInit", "ConfirmInit"} => e.run.role = "Responder"
  PROVE  RunSane(x, p)
BY DEF Sound, RunSane, Binds, AskedSteps

-----------------------------------------------------------------------------
(* The steps of a run.                                                     *)

\* The run advances to a later step, and the next frame is timed.
LEMMA PlaysAdvance ==
  ASSUME NEW e, NEW p, Sound(e, p), HasRun(e), NEW f, NEW out, NEW step \in AskedSteps \ {"Sas"},
         Binds(e, p), e.run.step # "ConfirmResp",
         step \in {"AuthResp", "ConfirmResp"} => e.run.role = "Initiator",
         step \in {"AuthInit", "ConfirmInit"} => e.run.role = "Responder",
         Writes([e EXCEPT !.run.step = step], out),
         HasConfirm(out) => Passed(e), Passed(e) \/ f = Approval
  PROVE  Plays(e, p, f, rearm_frame_deadline([e EXCEPT !.run.step = step]), out)
<1> DEFINE x == [e EXCEPT !.run.step = step]
<1>1. /\ DOMAIN x = EngineFields
      /\ x.identity = e.identity /\ x.entropy = e.entropy /\ x.phase = e.phase
      /\ x.active = e.active /\ x.draining = e.draining
      /\ DOMAIN x.run = RunFields /\ x.run.step = step
      /\ \A field \in RunFields \ {"step"} : x.run[field] = e.run[field]
      /\ x.run # NoRun
  BY RunEdits DEF Steps
<1>2. Writes(x, out)
  OBVIOUS
<1> HIDE DEF x
<1>3. e.run # NoRun
  BY DEF HasRun, NoRun, RunFields
<1>4. /\ x.run.purpose = e.run.purpose /\ x.run.role = e.run.role
      /\ x.run.previous = e.run.previous /\ x.run.local_hello = e.run.local_hello
      /\ x.run.transcript = e.run.transcript
  BY <1>1 DEF RunFields
<1>5. RunSane(x, p)
  BY <1>1, <1>3, <1>4, StepSane
<1>6. Plays(e, p, f, x, out)
  BY <1>1, <1>2, <1>3, <1>5, PlaysStep
<1>7. Plays(e, p, f, rearm_frame_deadline(x), out)
  BY <1>1, <1>6, RearmsAlike, AlikeAfter
<1> QED BY <1>7 DEF x

\* step_AuthInit, whichever frame it is given: the one just received or the one
\* kept while the user decided.
LEMMA PlaysAuthInit ==
  ASSUME NEW e, NEW p, Sound(e, p), HasRun(e), NEW f, NEW g,
         Binds(e, p), e.run.step = "AuthInit", Passed(e) \/ f = Approval
  PROVE  LET r == step_AuthInit(e, g) IN Plays(e, p, f, r.e, r.out) /\ ~HasConfirm(r.out)
<1> DEFINE x == [e EXCEPT !.run.step = "ConfirmInit"]
           out == <<HandshakePayload(1, e.run.transcript)>>
<1>1. Writes(x, out) /\ ~HasConfirm(out)
  BY WritesOther DEF HandshakePayload
<1>2. e.run.role = "Responder"
  BY DEF Sound, RunSane, HasRun, NoRun, RunFields
<1> HIDE DEF out
<1>3. Plays(e, p, f, rearm_frame_deadline(x), out)
  BY <1>1, <1>2, PlaysAdvance DEF AskedSteps
<1> HIDE DEF x
<1>4. CASE ~verify_auth(e, g, 0)
  BY <1>4, PlaysFail DEF step_AuthInit
<1>5. CASE verify_auth(e, g, 0)
  BY <1>1, <1>3, <1>5 DEF step_AuthInit, Result, x, out
<1> QED BY <1>4, <1>5

\* step_AuthResp: the initiator confirms the session it awaits.
LEMMA PlaysAuthResp ==
  ASSUME NEW e, NEW p, Sound(e, p), HasRun(e), NEW f,
         e.run.step = "AuthResp"
  PROVE  LET r == step_AuthResp(e, f) IN Plays(e, p, f, r.e, r.out)
<1> DEFINE x == [e EXCEPT !.run.step = "ConfirmResp"]
           c == SessionConfirmPayload(SessionKeys(e.run.transcript), "Initiator")
<1>1. e.run.role = "Initiator"
  BY DEF Sound, RunSane, HasRun, NoRun, RunFields
<1>2. x.run.step = "ConfirmResp" /\ x.run.transcript = e.run.transcript
  BY DEF Sound, HasRun, EngineFields, RunFields
<1>3. FrameSane(c, x)
  BY <1>2 DEF FrameSane, SessionConfirmPayload, Roles, Known, Confirming
<1>4. c.intact /\ c.kind # "DATA"
  BY DEF SessionConfirmPayload
<1> HIDE DEF c
<1>5. Writes(x, <<c>>)
  BY <1>3, <1>4, WritesOne
<1>6. Passed(e) /\ Binds(e, p)
  BY DEF Passed, HasRun, AskedSteps, Sound, RunSane, NoRun, RunFields
<1>7. Plays(e, p, f, rearm_frame_deadline(x), <<c>>)
  BY <1>1, <1>5, <1>6, PlaysAdvance DEF AskedSteps
<1> HIDE DEF x
<1>8. CASE ~verify_auth(e, f, 1)
  BY <1>8, PlaysFail DEF step_AuthResp
<1>9. CASE verify_auth(e, f, 1)
  BY <1>7, <1>9 DEF step_AuthResp, Result, x, c
<1> QED BY <1>8, <1>9

\* What the peer must have sent for a run to become a session, and what is sent
\* when it does.
Agrees(e, f, out) ==
    /\ f.kind = "CONFIRM" /\ f.id = SessionKeys(e.run.transcript)
    /\ \/ e.run.step = "ConfirmResp" /\ f.role = "Responder" /\ out = <<>>
       \/ /\ e.run.step = "ConfirmInit" /\ f.role = "Initiator"
          /\ out = <<SessionConfirmPayload(SessionKeys(e.run.transcript), "Responder")>>

\* The end of a run that became a session, or should have.
LEMMA PlaysPromotion ==
  ASSUME NEW e, NEW p, Sound(e, p), HasRun(e), NEW f, NEW out, Agrees(e, f, out),
         NEW x, DOMAIN x = EngineFields, x.identity = e.identity, x.entropy = e.entropy,
         x.run = NoRun, x.phase = "Established",
         x.active.id \notin {NoId, x.draining.id},
         NEW peer,
         SessionSet(x) \subseteq
            SessionSet(e) \cup {Session(SessionKeys(e.run.transcript), e.run.role, peer)}
  PROVE  Plays(e, p, f, x, out)
<1> DEFINE id == SessionKeys(e.run.transcript)
<1>1. e.run # NoRun
  BY DEF HasRun, NoRun, RunFields
<1>2. /\ Passed(e)
      /\ Mine(e.run.role, id) = <<e.identity, e.entropy - 1>>
      /\ e.run.step = "ConfirmInit" => e.run.role = "Responder"
  BY <1>1 DEF Agrees, Sound, RunSane, Binds, HelloPayload, AskedSteps, Passed, HasRun
<1>3. Sound(x, p)
  BY DEF Sound, RunSane
<1>4. Ended(x) = e.entropy /\ Ended(e) = e.entropy - 1 /\ e.entropy \in Nat
  BY <1>1 DEF Ended, Sound
<1>5. e.run.step = "ConfirmInit" => Past(x, "Responder", id)
  BY <1>1, <1>2, <1>4 DEF Past, Sound, RunSane
<1>6. Writes(x, out) /\ (e.run.step = "ConfirmInit" => HasConfirm(out))
  <2>1. CASE e.run.step = "ConfirmResp"
    BY <2>1, WritesNone DEF Agrees
  <2>2. CASE e.run.step = "ConfirmInit"
    <3> DEFINE c == SessionConfirmPayload(id, "Responder")
    <3>1. FrameSane(c, x) /\ c.intact /\ c.kind = "CONFIRM"
      BY <1>5, <2>2 DEF FrameSane, SessionConfirmPayload, Roles, Known
    <3>2. out = <<c>>
      BY <2>2 DEF Agrees
    <3> HIDE DEF c
    <3> QED BY <3>1, <3>2, WritesOne
  <2> QED BY <2>1, <2>2 DEF Agrees
<1>7. ASSUME NEW s \in SessionSet(x) \ SessionSet(e)
      PROVE  Promotes(e, f, x, out, s)
  <2>1. s = Session(id, e.run.role, peer)
    BY <1>7
  <2>2. s.id = id /\ s.role = e.run.role /\ s.counter = 0 /\ s.receiver = NewReceiver
    BY <2>1 DEF Session
  <2> HIDE DEF id
  <2> QED BY <1>1, <1>6, <2>2 DEF Promotes, Agrees, id
<1>8. x.run.step = "None"
  BY DEF NoRun
<1>9. e.run.step = "ConfirmResp" => x.run # e.run
  BY <1>8
<1>10. Ended(e) <= Ended(x) /\ e.entropy <= Ended(x)
  BY <1>4
<1>11. Passed(e) /\ Writes(x, out)
  BY <1>2, <1>6
<1>12. \A s \in SessionSet(x) : s \in SessionSet(e) \/ Promotes(e, f, x, out, s)
  BY <1>7
<1>13. f.kind = "CONFIRM"
  BY DEF Agrees
<1>0. e.entropy <= x.entropy
  BY DEF Sound
<1> QED BY <1>0, <1>3, <1>8, <1>9, <1>10, <1>11, <1>12, <1>13 DEF Plays

\* complete_initial and complete_rekey.
LEMMA PlaysComplete ==
  ASSUME NEW e, NEW p, Sound(e, p), HasRun(e), NEW f, NEW out, Agrees(e, f, out)
  PROVE  LET r == Complete(e, out) IN Plays(e, p, f, r.e, r.out)
<1> DEFINE id == SessionKeys(e.run.transcript)
<1>1. id # NoId
  BY KeysAreAnId
<1>2. CASE e.phase = "Handshaking"
  <2> DEFINE r == complete_initial(e, out)
             x == r.e
             s == Session(id, e.run.role, remote_identity(e.run))
  <2>1. /\ DOMAIN x = EngineFields /\ x.identity = e.identity /\ x.entropy = e.entropy
        /\ x.run = NoRun /\ x.phase = "Established"
        /\ x.active = s /\ x.draining = e.draining /\ r.out = out
    BY DEF Sound, complete_initial, Result, arm, cancel, EngineFields
  <2>2. e.draining = NoSession
    BY <1>2 DEF Sound, SessionSet
  <2>3. s.id = id
    BY DEF Session
  <2>4. x.active.id \notin {NoId, x.draining.id}
    BY <1>1, <2>1, <2>2, <2>3 DEF NoSession
  <2>5. SessionSet(x) \subseteq SessionSet(e) \cup {s}
    BY <2>1 DEF SessionSet
  <2> HIDE DEF r
  <2>6. Plays(e, p, f, x, out)
    BY <2>1, <2>4, <2>5, PlaysPromotion
  <2> QED BY <1>2, <2>1, <2>6 DEF r, Complete
<1>3. CASE e.phase # "Handshaking" /\ (e.active.peer # remote_identity(e.run) \/ e.active.id = id)
  <2> DEFINE r == [fail_rekey(e, "IdentityMismatch") EXCEPT !.out = out]
             x == r.e
  <2>1. /\ DOMAIN x = EngineFields /\ x.identity = e.identity /\ x.entropy = e.entropy
        /\ x.run = NoRun /\ x.phase = e.phase
        /\ x.active = e.active /\ x.draining = e.draining /\ r.out = out
    BY DEF Sound, fail_rekey, Result, arm, cancel, EngineFields
  <2> HIDE DEF r
  <2>2. e.phase = "Established"
    BY <1>3 DEF HasRun
  <2>3. SessionSet(x) = SessionSet(e)
    BY <2>1 DEF SessionSet
  <2>4. x.active.id \notin {NoId, x.draining.id}
    BY <2>1, <2>2 DEF Sound
  <2>5. Plays(e, p, f, x, out)
    BY <2>1, <2>2, <2>3, <2>4, PlaysPromotion
  <2>6. Complete(e, out) = r
    BY <1>3 DEF r, Complete, complete_rekey
  <2> QED BY <2>1, <2>5, <2>6
<1>4. CASE e.phase # "Handshaking" /\ ~(e.active.peer # remote_identity(e.run) \/ e.active.id = id)
  <2> DEFINE r == complete_rekey(e, out)
             x == r.e
             s == Session(id, e.run.role, e.active.peer)
  <2>1. /\ DOMAIN x = EngineFields /\ x.identity = e.identity /\ x.entropy = e.entropy
        /\ x.run = NoRun /\ x.phase = e.phase
        /\ x.active = s /\ x.draining = e.active /\ r.out = out
    <3> DEFINE a == [e EXCEPT !.draining = e.active, !.active = s, !.run = NoRun, !.messages = 0,
                              !.rekey_blocked = FALSE, !.late_rekey_frames = 0,
                              !.consecutive_rekey_rejections = 0]
               b == cancel(a, {"HandshakeFrame", "HandshakeTotal"})
               c == arm(b, "Drain")
    <3>1. /\ DOMAIN a = EngineFields /\ a.identity = e.identity /\ a.entropy = e.entropy
          /\ a.run = NoRun /\ a.phase = e.phase /\ a.active = s /\ a.draining = e.active
      BY DEF Sound, EngineFields
    <3>2. x = arm(c, "RekeyDue") /\ r.out = out
      BY <1>4 DEF complete_rekey, Result
    <3> HIDE DEF a, r
    <3>3. Alike(a, b)
      BY <3>1, ArmsAlike
    <3> HIDE DEF b
    <3>4. Alike(b, c)
      BY <3>3, ArmsAlike DEF Alike
    <3> HIDE DEF c
    <3>5. Alike(c, x)
      BY <3>2, <3>4, ArmsAlike DEF Alike
    <3> QED BY <3>1, <3>2, <3>3, <3>4, <3>5 DEF Alike
  <2>2. e.phase = "Established"
    BY <1>4 DEF HasRun
  <2>3. s.id = id
    BY DEF Session
  <2>4. x.active.id \notin {NoId, x.draining.id}
    BY <1>1, <1>4, <2>1, <2>3
  <2>5. SessionSet(x) \subseteq SessionSet(e) \cup {s}
    BY <2>1 DEF SessionSet
  <2> HIDE DEF r
  <2>6. Plays(e, p, f, x, out)
    BY <2>1, <2>2, <2>4, <2>5, PlaysPromotion
  <2>7. Complete(e, out) = r
    BY <1>4 DEF r, Complete
  <2> QED BY <2>1, <2>6, <2>7
<1> QED BY <1>2, <1>3, <1>4

\* step_ConfirmResp and step_ConfirmInit: the peer's confirmation of this very
\* session is what makes the run one.
LEMMA PlaysConfirm ==
  ASSUME NEW e, NEW p, Sound(e, p), HasRun(e), NEW f
  PROVE  /\ e.run.step = "ConfirmResp" =>
              LET r == step_ConfirmResp(e, f) IN Plays(e, p, f, r.e, r.out)
         /\ e.run.step = "ConfirmInit" =>
              LET r == step_ConfirmInit(e, f) IN Plays(e, p, f, r.e, r.out)
<1> DEFINE c == SessionConfirmPayload(SessionKeys(e.run.transcript), "Responder")
<1>1. ASSUME e.run.step = "ConfirmResp", verify_from(e, f, "Responder")
      PROVE  Agrees(e, f, <<>>)
  BY <1>1 DEF Agrees, verify_from, Decodes
<1>2. ASSUME e.run.step = "ConfirmInit", verify_from(e, f, "Initiator")
      PROVE  Agrees(e, f, <<c>>)
  BY <1>2 DEF Agrees, verify_from, Decodes
<1> HIDE DEF c
<1>3. ASSUME e.run.step = "ConfirmResp"
      PROVE  LET r == step_ConfirmResp(e, f) IN Plays(e, p, f, r.e, r.out)
  BY <1>1, <1>3, PlaysFail, PlaysComplete DEF step_ConfirmResp
<1>4. ASSUME e.run.step = "ConfirmInit"
      PROVE  LET r == step_ConfirmInit(e, f) IN Plays(e, p, f, r.e, r.out)
  <2>1. CASE verify_from(e, f, "Initiator")
    <3>1. step_ConfirmInit(e, f) = Complete(e, <<c>>)
      BY <2>1 DEF step_ConfirmInit, c
    <3> QED BY <1>2, <1>4, <2>1, <3>1, PlaysComplete
  <2>2. CASE ~verify_from(e, f, "Initiator")
    BY <2>2, PlaysFail DEF step_ConfirmInit
  <2> QED BY <2>1, <2>2
<1> QED BY <1>3, <1>4

\* after_approval, also of an AUTH that was kept while the user decided.
LEMMA PlaysApproved ==
  ASSUME NEW e, NEW p, Sound(e, p), HasRun(e), Binds(e, p), NEW f, f.kind # "CONFIRM",
         e.run.step \notin {"ConfirmResp", "ConfirmInit"}, Passed(e) \/ f = Approval
  PROVE  LET r == after_approval(e) IN Plays(e, p, f, r.e, r.out)
<1>1. e.run # NoRun /\ e.run.role \in Roles
  BY DEF HasRun, NoRun, RunFields, Sound, RunSane
<1>2. CASE e.run.role = "Initiator"
  <2> DEFINE x == [e EXCEPT !.run.step = "AuthResp"]
             out == <<HandshakePayload(0, e.run.transcript)>>
  <2>1. Writes(x, out) /\ ~HasConfirm(out)
    BY WritesOther DEF HandshakePayload
  <2> HIDE DEF out
  <2>2. Plays(e, p, f, rearm_frame_deadline(x), out)
    BY <1>2, <2>1, PlaysAdvance DEF AskedSteps
  <2>3. after_approval(e) = Result(rearm_frame_deadline(x), out, <<"none">>)
    BY <1>2 DEF after_approval, out
  <2> QED BY <2>2, <2>3 DEF Result
<1>3. CASE e.run.role = "Responder" /\ e.run.early = NoFrame
  <2> DEFINE x == [e EXCEPT !.run.step = "AuthInit"]
  <2>1. Plays(e, p, f, rearm_frame_deadline(x), <<>>)
    BY <1>3, WritesNone, PlaysAdvance DEF AskedSteps
  <2>2. after_approval(e) = Result(rearm_frame_deadline(x), <<>>, <<"none">>)
    BY <1>3 DEF after_approval
  <2> QED BY <2>1, <2>2 DEF Result
<1>4. CASE e.run.role = "Responder" /\ e.run.early # NoFrame
  <2> DEFINE x == [e EXCEPT !.run.step = "AuthInit"]
             k == [x EXCEPT !.run.early = NoFrame]
             r == step_AuthInit(k, e.run.early)
  <2>1. /\ DOMAIN x = EngineFields
        /\ x.identity = e.identity /\ x.entropy = e.entropy /\ x.phase = e.phase
        /\ x.active = e.active /\ x.draining = e.draining
        /\ DOMAIN x.run = RunFields /\ x.run.step = "AuthInit"
        /\ \A field \in RunFields \ {"step"} : x.run[field] = e.run[field]
    <3>1. "AuthInit" \in Steps
      BY DEF Steps, AskedSteps
    <3> QED BY <3>1, RunEdits
  <2>2. after_approval(e) = r
    BY <1>4 DEF after_approval
  <2> HIDE DEF x
  <2>3. /\ DOMAIN k = EngineFields
        /\ k.identity = e.identity /\ k.entropy = e.entropy /\ k.phase = e.phase
        /\ k.active = e.active /\ k.draining = e.draining
        /\ DOMAIN k.run = RunFields /\ k.run.step = "AuthInit"
        /\ \A field \in RunFields \ {"step", "early"} : k.run[field] = e.run[field]
    BY <2>1 DEF EngineFields, RunFields
  <2> HIDE DEF k
  <2>4. /\ k.run.purpose = e.run.purpose /\ k.run.role = e.run.role
        /\ k.run.previous = e.run.previous /\ k.run.local_hello = e.run.local_hello
        /\ k.run.transcript = e.run.transcript /\ k.run # NoRun
    BY <2>3 DEF RunFields, NoRun
  <2>5. RunSane(k, p) /\ Binds(k, p)
    BY <1>1, <1>4, <2>3, <2>4, StepSane DEF AskedSteps, Binds
  <2>6. SessionSet(k) = SessionSet(e)
    BY <2>3 DEF SessionSet
  <2>7. Sound(k, p) /\ HasRun(k)
    BY <2>3, <2>4, <2>5, <2>6 DEF Sound, HasRun, Steps, AskedSteps
  <2>8. Passed(k)
    BY <2>3, <2>7 DEF Passed, HasRun, AskedSteps
  <2>9. Plays(k, p, f, r.e, r.out) /\ ~HasConfirm(r.out)
    BY <2>3, <2>5, <2>7, <2>8, PlaysAuthInit
  <2>10. Ended(k) = Ended(e) /\ Ended(e) \in Int
    BY <1>1, <2>3, <2>4 DEF Ended, Sound
  <2> HIDE DEF r
  <2>11. Plays(e, p, f, r.e, r.out)
    BY <1>1, <2>3, <2>9, <2>10, PlaysVia
  <2> QED BY <2>2, <2>11
<1> QED BY <1>1, <1>2, <1>3, <1>4 DEF Roles

\* Frames sent before the others that say nothing of a session.
LEMMA PlaysMore ==
  ASSUME NEW e, NEW p, NEW f, NEW x, NEW out, Plays(e, p, f, x, out),
         NEW pre, Writes(x, pre), ~HasConfirm(pre)
  PROVE  Plays(e, p, f, x, pre \o out)
<1>1. PICK S : pre \in Seq(S)
  BY DEF Writes, IsSequence
<1>2. PICK T : out \in Seq(T)
  BY DEF Plays, Writes, IsSequence
<1>3. pre \in Seq(S \cup T) /\ out \in Seq(S \cup T)
  BY <1>1, <1>2
<1>4. /\ Len(pre \o out) = Len(pre) + Len(out) /\ Len(pre) \in Nat /\ Len(out) \in Nat
      /\ \A i \in 1..Len(pre) : (pre \o out)[i] = pre[i]
      /\ \A i \in 1..Len(out) : (pre \o out)[Len(pre) + i] = out[i]
  BY <1>3
<1>5. \A i \in 1..Len(pre \o out) :
         \/ i \in 1..Len(pre) /\ (pre \o out)[i] = pre[i]
         \/ i - Len(pre) \in 1..Len(out) /\ (pre \o out)[i] = out[i - Len(pre)]
  <2>1. ASSUME NEW i \in 1..Len(pre \o out), i \notin 1..Len(pre)
        PROVE  i - Len(pre) \in 1..Len(out) /\ (pre \o out)[i] = out[i - Len(pre)]
    <3>1. i - Len(pre) \in 1..Len(out) /\ i = Len(pre) + (i - Len(pre))
      BY <1>4, <2>1
    <3> QED BY <1>4, <3>1
  <2> QED BY <1>4, <2>1
<1>6. IsSequence(pre \o out)
  BY <1>1, <1>2, BothSent DEF IsSequence
<1> DEFINE both == pre \o out
<1>7. both = pre \o out
  OBVIOUS
<1> HIDE DEF both
<1>8. Writes(x, both)
  BY <1>5, <1>6, <1>7 DEF Plays, Writes
<1>9. HasConfirm(both) <=> HasConfirm(out)
  <2>1. HasConfirm(both) => HasConfirm(out)
    BY <1>5, <1>7 DEF HasConfirm
  <2>2. ASSUME NEW i \in 1..Len(out), out[i].kind = "CONFIRM"
        PROVE  HasConfirm(both)
    <3>1. Len(pre) + i \in 1..Len(both) /\ both[Len(pre) + i] = out[i]
      BY <1>4, <1>7
    <3> QED BY <2>2, <3>1 DEF HasConfirm
  <2> QED BY <2>1, <2>2 DEF HasConfirm
<1>10. \A s : Promotes(e, f, x, out, s) => Promotes(e, f, x, both, s)
  BY <1>9 DEF Promotes
<1>11. Plays(e, p, f, x, both)
  BY <1>8, <1>9, <1>10 DEF Plays
<1> QED BY <1>7, <1>11

\* after_hellos: the first handshake asks the user, a rekey goes straight on.
LEMMA PlaysHellos ==
  ASSUME NEW e, NEW p, Sound(e, p), HasRun(e), NEW f, f.kind # "CONFIRM",
         e.run.step \in {"Hello", "Reveal"}, NEW t,
         Mine(e.run.role, SessionKeys(t)) = e.run.local_hello.ephemeral,
         Theirs(e.run.role, SessionKeys(t))[1] = p,
         NEW out, out \in {<<>>, <<e.run.local_hello>>}
  PROVE  LET r == after_hellos(e, t, out) IN Plays(e, p, f, r.e, r.out)
<1> DEFINE known == [e EXCEPT !.run.transcript = t]
<1>1. /\ DOMAIN known = EngineFields
      /\ known.identity = e.identity /\ known.entropy = e.entropy /\ known.phase = e.phase
      /\ known.active = e.active /\ known.draining = e.draining
      /\ DOMAIN known.run = RunFields /\ known.run.transcript = t
      /\ \A field \in RunFields \ {"transcript"} : known.run[field] = e.run[field]
  BY DEF Sound, HasRun, EngineFields, RunFields
<1>2. after_hellos(e, t, out) =
        IF e.run.purpose = "Initial"
        THEN Result(arm(cancel([known EXCEPT !.run.step = "Sas"], {"HandshakeFrame"}),
                        "SasDecision"), out, <<"RequestSas">>)
        ELSE [after_approval(known) EXCEPT !.out = out \o @]
  BY DEF after_hellos
<1> HIDE DEF known
<1>3. /\ known.run.purpose = e.run.purpose /\ known.run.role = e.run.role
      /\ known.run.previous = e.run.previous /\ known.run.local_hello = e.run.local_hello
      /\ known.run.step = e.run.step /\ known.run # NoRun /\ e.run # NoRun
  BY <1>1 DEF RunFields, NoRun, HasRun
<1>4. Binds(known, p) /\ known.run.step \notin AskedSteps
  BY <1>1, <1>3 DEF Binds, AskedSteps
<1>5. RunSane(known, p)
  BY <1>1, <1>3, <1>4 DEF Sound, RunSane
<1>6. SessionSet(known) = SessionSet(e)
  BY <1>1 DEF SessionSet
<1>7. Sound(known, p) /\ HasRun(known)
  BY <1>1, <1>3, <1>5, <1>6 DEF Sound, HasRun
<1>8. ASSUME NEW x, x.identity = e.identity
      PROVE  Writes(x, out) /\ ~HasConfirm(out)
  <2>1. CASE out = <<>>
    BY <2>1, WritesNone
  <2>2. CASE out = <<e.run.local_hello>>
    <3>1. e.run.local_hello = HelloPayload(e.run.purpose, e.run.role, e.identity,
                                           <<e.identity, e.entropy - 1>>, e.run.previous)
      BY <1>3 DEF Sound, RunSane
    <3>2. FrameSane(e.run.local_hello, x) /\ e.run.local_hello.intact
          /\ e.run.local_hello.kind = "HELLO"
      BY <1>8, <3>1 DEF FrameSane, HelloPayload
    <3> QED BY <2>2, <3>2, WritesOne
  <2> QED BY <2>1, <2>2
<1>9. CASE e.run.purpose = "Initial"
  <2> DEFINE x == [known EXCEPT !.run.step = "Sas"]
             y == cancel(x, {"HandshakeFrame"})
             z == arm(y, "SasDecision")
  <2>1. /\ DOMAIN x = EngineFields
        /\ x.identity = e.identity /\ x.entropy = e.entropy /\ x.phase = e.phase
        /\ x.active = e.active /\ x.draining = e.draining
        /\ DOMAIN x.run = RunFields /\ x.run.step = "Sas"
        /\ \A field \in RunFields \ {"step"} : x.run[field] = known.run[field]
    BY <1>1 DEF EngineFields, RunFields
  <2> HIDE DEF x
  <2>2. /\ x.run.purpose = known.run.purpose /\ x.run.role = known.run.role
        /\ x.run.previous = known.run.previous /\ x.run.local_hello = known.run.local_hello
        /\ x.run.transcript = known.run.transcript /\ x.run # NoRun
    BY <2>1 DEF RunFields, NoRun
  <2>3. RunSane(x, p)
    BY <1>1, <1>3, <1>4, <1>7, <2>1, <2>2, StepSane DEF AskedSteps
  <2>4. e.phase = "Handshaking"
    BY <1>9 DEF HasRun
  <2>5. ~Passed(x)
    BY <2>1, <2>4 DEF Passed
  <2>6. Plays(e, p, f, x, out)
    BY <1>3, <1>8, <2>1, <2>2, <2>3, <2>5, PlaysStep
  <2>7. Alike(x, y)
    BY <2>1, ArmsAlike
  <2> HIDE DEF y
  <2>8. Alike(y, z)
    BY <2>7, ArmsAlike DEF Alike
  <2>9. Plays(e, p, f, z, out)
    BY <2>6, <2>7, <2>8, AlikeAfter
  <2> QED BY <1>2, <1>9, <2>9 DEF x, y, z, Result
<1>10. CASE e.run.purpose # "Initial"
  <2> DEFINE r == after_approval(known)
  <2>1. e.phase = "Established"
    BY <1>10 DEF HasRun
  <2>2. Passed(e) /\ Passed(known)
    BY <1>1, <2>1 DEF Passed
  <2>3. Plays(known, p, f, r.e, r.out)
    BY <1>3, <1>4, <1>7, <2>2, PlaysApproved
  <2>4. Ended(known) = Ended(e) /\ Ended(e) \in Int
    BY <1>1, <1>3 DEF Ended, Sound
  <2>5. after_hellos(e, t, out) = [r EXCEPT !.out = out \o @]
    BY <1>2, <1>10
  <2>6. DOMAIN r = {"e", "out", "event", "deliver"}
    BY DEF after_approval, step_AuthInit, Fail, fail_initial, fail_rekey, terminate, Result
  <2> HIDE DEF r
  <2>7. Plays(e, p, f, r.e, r.out)
    BY <1>1, <1>3, <2>2, <2>3, <2>4, PlaysVia
  <2>8. r.e.identity = e.identity
    BY <2>7 DEF Plays
  <2>9. Plays(e, p, f, r.e, out \o r.out)
    BY <1>8, <2>7, <2>8, PlaysMore
  <2> QED BY <2>5, <2>6, <2>9
<1> QED BY <1>9, <1>10

\* A HELLO that f may be tells a key of the peer p.
Reveals(f, p) == f.kind = "HELLO" => f.ephemeral[1] = p

\* step_Hello and step_Reveal: a hello that is accepted completes a transcript of
\* this run's key and one of the peer's.
LEMMA PlaysHello ==
  ASSUME NEW e, NEW p, Sound(e, p), HasRun(e), NEW f, Reveals(f, p)
  PROVE  /\ e.run.step = "Hello" =>
              LET r == step_Hello(e, f) IN Plays(e, p, f, r.e, r.out)
         /\ e.run.step = "Reveal" =>
              LET r == step_Reveal(e, f) IN Plays(e, p, f, r.e, r.out)
<1>1. /\ e.run.step = "Hello" => e.run.role = "Initiator"
      /\ e.run.step = "Reveal" => e.run.role = "Responder"
  BY DEF HasRun, NoRun, RunFields, Sound, RunSane
<1>2. \A role : HelloError(e, f, role) = "none" => f.kind = "HELLO"
  BY DEF HelloError, Decodes
<1>3. ASSUME e.run.step = "Hello"
      PROVE  LET r == step_Hello(e, f) IN Plays(e, p, f, r.e, r.out)
  <2> DEFINE t == Transcript(e.run.local_hello, f)
             out == <<e.run.local_hello>>
  <2>1. CASE HelloError(e, f, "Responder") # "none"
    BY <2>1, PlaysFail DEF step_Hello
  <2>2. CASE HelloError(e, f, "Responder") = "none"
    <3>1. f.kind = "HELLO" /\ f.ephemeral[1] = p
      BY <1>2, <2>2 DEF Reveals
    <3>2. /\ Mine(e.run.role, SessionKeys(t)) = e.run.local_hello.ephemeral
          /\ Theirs(e.run.role, SessionKeys(t))[1] = p
      BY <1>1, <1>3, <3>1 DEF Mine, Theirs, SessionKeys, Transcript
    <3>3. step_Hello(e, f) = after_hellos(e, t, out)
      BY <2>2 DEF step_Hello
    <3> HIDE DEF t
    <3>4. LET r == after_hellos(e, t, out) IN Plays(e, p, f, r.e, r.out)
      BY <1>3, <3>1, <3>2, PlaysHellos
    <3> QED BY <3>3, <3>4
  <2> QED BY <2>1, <2>2
<1>4. ASSUME e.run.step = "Reveal"
      PROVE  LET r == step_Reveal(e, f) IN Plays(e, p, f, r.e, r.out)
  <2> DEFINE t == Transcript(f, e.run.local_hello)
  <2>1. CASE HelloError(e, f, "Initiator") # "none" \/ e.run.commit.commitment # f
    BY <2>1, PlaysFail DEF step_Reveal
  <2>2. CASE ~(HelloError(e, f, "Initiator") # "none" \/ e.run.commit.commitment # f)
    <3>1. f.kind = "HELLO" /\ f.ephemeral[1] = p
      BY <1>2, <2>2 DEF Reveals
    <3>2. /\ Mine(e.run.role, SessionKeys(t)) = e.run.local_hello.ephemeral
          /\ Theirs(e.run.role, SessionKeys(t))[1] = p
      BY <1>1, <1>4, <3>1 DEF Mine, Theirs, SessionKeys, Transcript
    <3>3. step_Reveal(e, f) = after_hellos(e, t, <<>>)
      BY <2>2 DEF step_Reveal
    <3> HIDE DEF t
    <3>4. LET r == after_hellos(e, t, <<>>) IN Plays(e, p, f, r.e, r.out)
      BY <1>4, <3>1, <3>2, PlaysHellos
    <3> QED BY <3>3, <3>4
  <2> QED BY <2>1, <2>2
<1> QED BY <1>3, <1>4

\* step_Sas: a frame that comes before the user has decided approves nothing.
LEMMA PlaysSas ==
  ASSUME NEW e, NEW p, Sound(e, p), HasRun(e), NEW f, e.run.step = "Sas"
  PROVE  LET r == step_Sas(e, f) IN Plays(e, p, f, r.e, r.out)
<1> DEFINE x == [e EXCEPT !.run.early = f]
<1>1. /\ DOMAIN x = EngineFields
      /\ x.identity = e.identity /\ x.entropy = e.entropy /\ x.phase = e.phase
      /\ x.active = e.active /\ x.draining = e.draining
      /\ DOMAIN x.run = RunFields
      /\ \A field \in RunFields \ {"early"} : x.run[field] = e.run[field]
  BY DEF Sound, HasRun, EngineFields, RunFields
<1>2. step_Sas(e, f) \in {Result(x, <<>>, <<"none">>), Fail(e, "InvalidStateTransition")}
  BY DEF step_Sas
<1> HIDE DEF x
<1>3. /\ x.run.purpose = e.run.purpose /\ x.run.role = e.run.role
      /\ x.run.previous = e.run.previous /\ x.run.local_hello = e.run.local_hello
      /\ x.run.transcript = e.run.transcript /\ x.run.step = e.run.step
      /\ x.run # NoRun /\ e.run # NoRun
  BY <1>1 DEF RunFields, NoRun, HasRun
<1>4. Binds(e, p)
  BY <1>3 DEF Sound, RunSane, AskedSteps
<1>5. RunSane(x, p)
  BY <1>1, <1>3, <1>4, StepSane DEF AskedSteps
<1>6. Passed(x) => Passed(e)
  BY <1>1, <1>3 DEF Passed
<1>7. Plays(e, p, f, x, <<>>)
  BY <1>1, <1>3, <1>5, <1>6, WritesNone, PlaysStep
<1> QED BY <1>2, <1>7, PlaysFail DEF Result

\* A frame for the step that the run is at.
LEMMA PlaysStepped ==
  ASSUME NEW e, NEW p, Sound(e, p), HasRun(e), NEW f, Reveals(f, p)
  PROVE  LET r == step_run(e, f) IN Plays(e, p, f, r.e, r.out)
<1>1. e.run.step \in {"Hello", "Reveal", "Sas", "AuthResp", "AuthInit", "ConfirmResp", "ConfirmInit"}
  BY DEF HasRun, Steps, AskedSteps
<1>2. CASE e.run.step \in {"Hello", "Reveal"}
  BY <1>2, PlaysHello DEF step_run
<1>3. CASE e.run.step = "Sas"
  BY <1>3, PlaysSas DEF step_run
<1>4. CASE e.run.step \in {"ConfirmResp", "ConfirmInit"}
  BY <1>4, PlaysConfirm DEF step_run
<1>5. CASE e.run.step = "AuthResp"
  BY <1>5, PlaysAuthResp DEF step_run
<1>6. CASE e.run.step = "AuthInit"
  <2>1. Binds(e, p) /\ Passed(e)
    BY <1>6 DEF HasRun, NoRun, RunFields, Sound, RunSane, Passed, AskedSteps
  <2>2. LET r == step_AuthInit(e, f) IN Plays(e, p, f, r.e, r.out)
    BY <1>6, <2>1, PlaysAuthInit
  <2> QED BY <1>6, <2>2 DEF step_run
<1> QED BY <1>1, <1>2, <1>3, <1>4, <1>5, <1>6

-----------------------------------------------------------------------------
(* Starting a run.                                                         *)

\* A new run is made of a key drawn for it; a run that it takes the place of
\* ends without a session.
LEMMA PlaysNewRun ==
  ASSUME NEW e, NEW p, Sound(e, p), e.run.step # "ConfirmResp", NEW f,
         NEW purpose, NEW role, NEW previous, NEW commit, NEW step,
         <<role, step>> \in {<<"Initiator", "Hello">>, <<"Responder", "Reveal">>},
         NEW x, DOMAIN x = EngineFields, x.identity = e.identity, x.entropy = e.entropy + 1,
         x.active = e.active, x.draining = e.draining,
         x.run = Run(e, purpose, role, previous, commit, step),
         x.phase = e.phase \/ (e.phase = "Idle" /\ x.phase = "Handshaking"),
         NEW out, out \in {<<CommitPayload(x.run.local_hello)>>, <<x.run.local_hello>>}
  PROVE  Plays(e, p, f, x, out)
<1>1. /\ x.run.role = role /\ x.run.step = step /\ x.run.purpose = purpose
      /\ x.run.previous = previous
      /\ x.run.local_hello = HelloPayload(purpose, role, e.identity, <<e.identity, e.entropy>>, previous)
      /\ x.run # NoRun
  BY DEF Run, fresh_keys, NoRun
<1>2. role \in Roles /\ step \in {"Hello", "Reveal"}
      /\ (step = "Hello" <=> role = "Initiator")
  BY DEF Roles
<1>3. e.entropy \in Nat /\ Ended(x) = e.entropy /\ Ended(e) \in {e.entropy, e.entropy - 1}
  BY <1>1 DEF Sound, Ended
<1>4. RunSane(x, p)
  BY <1>1, <1>2, <1>3 DEF RunSane, AskedSteps, Roles
<1>5. SessionSet(x) = SessionSet(e)
  BY DEF SessionSet
<1>6. Sound(x, p)
  BY <1>3, <1>4, <1>5 DEF Sound
<1>7. Writes(x, out) /\ ~HasConfirm(out)
  <2>1. CASE out = <<CommitPayload(x.run.local_hello)>>
    BY <2>1, WritesOther DEF CommitPayload
  <2>2. CASE out = <<x.run.local_hello>>
    <3>1. FrameSane(x.run.local_hello, x) /\ x.run.local_hello.intact
          /\ x.run.local_hello.kind = "HELLO"
      BY <1>1 DEF FrameSane, HelloPayload
    <3> QED BY <2>2, <3>1, WritesOne
  <2> QED BY <2>1, <2>2
<1>8. Passed(x) => Passed(e)
  BY <1>1, <1>2 DEF Passed, AskedSteps
<1> QED BY <1>1, <1>2, <1>3, <1>5, <1>6, <1>7, <1>8 DEF Plays

\* start_responder_run.
LEMMA PlaysResponds ==
  ASSUME NEW e, NEW p, Sound(e, p), e.run.step # "ConfirmResp", NEW f, NEW commit, NEW emit
  PROVE  LET r == start_responder_run(e, commit, emit) IN Plays(e, p, f, r.e, r.out)
<1> DEFINE run == Run(e, commit.purpose, "Responder", commit.previous, commit, "Reveal")
           x == WithRun(e, run)
           y == IF commit.purpose = "Rekey" THEN arm(x, "HandshakeTotal") ELSE x
           r == start_responder_run(e, commit, emit)
<1>1. /\ DOMAIN x = EngineFields /\ x.identity = e.identity /\ x.entropy = e.entropy + 1
      /\ x.active = e.active /\ x.draining = e.draining /\ x.run = run /\ x.phase = e.phase
  BY DEF Sound, WithRun, EngineFields
<1>2. r.e = rearm_frame_deadline(y) /\ r.out = <<x.run.local_hello>>
  BY DEF start_responder_run, Result
<1> HIDE DEF x, r
<1>3. Plays(e, p, f, x, r.out)
  BY <1>1, <1>2, PlaysNewRun
<1>4. Alike(x, y)
  BY <1>1, ArmsAlike DEF Alike
<1> HIDE DEF y
<1>5. Alike(y, r.e)
  BY <1>2, <1>4, RearmsAlike DEF Alike
<1>6. Plays(e, p, f, r.e, r.out)
  BY <1>3, <1>4, <1>5, AlikeAfter
<1> QED BY <1>6 DEF r

\* Doing nothing.
LEMMA PlaysNothing ==
  ASSUME NEW e, NEW p, Sound(e, p), NEW f, f.kind = "CONFIRM" => e.run.step # "ConfirmResp"
  PROVE  Plays(e, p, f, e, <<>>)
BY PlaysOn, WritesNone DEF Alike, Sound

\* begin_rekey and Engine::start.
LEMMA PlaysBegin ==
  ASSUME NEW e, NEW p, Sound(e, p), NEW f, f.kind # "CONFIRM"
  PROVE  LET r == begin_rekey(e) IN Plays(e, p, f, r.e, r.out) /\ ~HasConfirm(r.out)
<1> DEFINE run == Run(e, "Rekey", "Initiator", e.active.id, NoFrame, "Hello")
           x == WithRun(e, run)
           y == arm(x, "HandshakeTotal")
           z == rearm_frame_deadline(y)
           out == <<CommitPayload(x.run.local_hello)>>
<1>1. CASE e.phase # "Established" \/ e.run # NoRun
  BY <1>1, PlaysNothing, WritesNone DEF begin_rekey, Result
<1>2. CASE ~(e.phase # "Established" \/ e.run # NoRun)
  <2>1. /\ DOMAIN x = EngineFields /\ x.identity = e.identity /\ x.entropy = e.entropy + 1
        /\ x.active = e.active /\ x.draining = e.draining /\ x.run = run /\ x.phase = e.phase
    BY DEF Sound, WithRun, EngineFields
  <2>2. begin_rekey(e) = Result(z, out, <<"RekeyStarted">>)
    BY <1>2 DEF begin_rekey, start_initiator_run
  <2> HIDE DEF x
  <2>3. e.run.step # "ConfirmResp"
    BY <1>2 DEF NoRun
  <2>4. Plays(e, p, f, x, out)
    BY <2>1, <2>3, PlaysNewRun
  <2>5. Alike(x, y)
    BY <2>1, ArmsAlike
  <2> HIDE DEF y
  <2>6. Alike(y, z)
    BY <2>5, RearmsAlike DEF Alike
  <2>7. Plays(e, p, f, z, out)
    BY <2>4, <2>5, <2>6, AlikeAfter
  <2>8. ~HasConfirm(out)
    BY WritesOther DEF CommitPayload
  <2> QED BY <2>2, <2>7, <2>8 DEF Result
<1> QED BY <1>1, <1>2

\* Engine::start.
LEMMA PlaysStart ==
  ASSUME NEW e, NEW p, Sound(e, p), e.run = NoRun, NEW f, f.kind # "CONFIRM"
  PROVE  LET r == start(e) IN Plays(e, p, f, r.e, r.out)
<1> DEFINE a == [e EXCEPT !.phase = "Handshaking"]
           b == arm(a, "HandshakeTotal")
           run == Run(b, "Initial", "Initiator", NoId, NoFrame, "Hello")
           x == WithRun(b, run)
           z == rearm_frame_deadline(x)
           out == <<CommitPayload(x.run.local_hello)>>
<1>1. CASE e.phase # "Idle"
  BY <1>1, PlaysNothing DEF start, Result
<1>2. CASE e.phase = "Idle"
  <2>1. /\ DOMAIN a = EngineFields /\ a.identity = e.identity /\ a.entropy = e.entropy
        /\ a.run = e.run /\ a.active = e.active /\ a.draining = e.draining
        /\ a.phase = "Handshaking"
    BY DEF Sound, EngineFields
  <2>2. start(e) = IF e.role = "Initiator" THEN Result(z, out, <<"none">>)
                   ELSE Result(arm(b, "HandshakeFrame"), <<>>, <<"none">>)
    BY <1>2 DEF start, start_initiator_run
  <2> HIDE DEF a
  <2>3. Alike(a, b)
    BY <2>1, ArmsAlike
  <2> HIDE DEF b
  <2>4. CASE e.role = "Initiator"
    <3>1. /\ DOMAIN x = EngineFields /\ x.identity = b.identity /\ x.entropy = b.entropy + 1
          /\ x.active = b.active /\ x.draining = b.draining /\ x.run = run /\ x.phase = b.phase
      BY <2>3 DEF Alike, WithRun, EngineFields
    <3>2. run = Run(e, "Initial", "Initiator", NoId, NoFrame, "Hello")
      BY <2>1, <2>3 DEF Alike, Run, fresh_keys
    <3> HIDE DEF x, run
    <3>3. e.run.step # "ConfirmResp"
      BY DEF NoRun
    <3>4. Plays(e, p, f, x, out)
      BY <1>2, <2>1, <2>3, <3>1, <3>2, <3>3, PlaysNewRun DEF Alike
    <3>5. Plays(e, p, f, z, out)
      BY <3>1, <3>4, RearmsAlike, AlikeAfter
    <3> QED BY <2>2, <2>4, <3>5 DEF Result, x, run
  <2>5. CASE e.role # "Initiator"
    <3> DEFINE c == arm(b, "HandshakeFrame")
    <3>1. Alike(b, c)
      BY <2>3, ArmsAlike DEF Alike
    <3> HIDE DEF c
    <3>2. /\ DOMAIN c = EngineFields /\ c.identity = e.identity /\ c.entropy = e.entropy
          /\ c.run = NoRun /\ c.active = e.active /\ c.draining = e.draining
          /\ c.phase = "Handshaking"
      BY <2>1, <2>3, <3>1 DEF Alike
    <3>3. SessionSet(c) = SessionSet(e) /\ SessionSet(e) = {}
      BY <1>2, <3>2 DEF SessionSet, Sound
    <3>4. Sound(c, p)
      BY <3>2, <3>3 DEF Sound, RunSane
    <3>5. c.run.step = "None" /\ e.run.step = "None"
      BY <3>2 DEF NoRun
    <3>6. ~Passed(c) /\ Ended(e) = Ended(c) /\ Ended(e) \in Int
      BY <3>2, <3>5 DEF Passed, AskedSteps, Ended, Sound
    <3>0. e.entropy <= c.entropy
      BY <3>2 DEF Sound
    <3>7. Plays(e, p, f, c, <<>>)
      BY <3>2, <3>3, <3>4, <3>5, <3>6, <3>0, WritesNone DEF Plays
    <3> QED BY <2>2, <2>5, <3>7 DEF Result, c
  <2> QED BY <2>4, <2>5
<1> QED BY <1>1, <1>2

-----------------------------------------------------------------------------
(* Frames of a rekey.                                                      *)

\* What a handler counts is no part of what an engine and its peer agree on.
LEMMA CountsAlike ==
  ASSUME NEW e, DOMAIN e = EngineFields
  PROVE  /\ Alike(e, Counted(e))
         /\ \A v : /\ Alike(e, [e EXCEPT !.consecutive_rekey_rejections = v])
                   /\ Alike(e, [e EXCEPT !.late_rekey_frames = v])
BY DEF Counted, Alike, EngineFields

\* note_rekey_rejection.
LEMMA PlaysRejection ==
  ASSUME NEW e, NEW p, Sound(e, p), NEW f, f.kind = "CONFIRM" => e.run.step # "ConfirmResp"
  PROVE  LET r == note_rekey_rejection(e) IN Plays(e, p, f, r.e, r.out)
<1> DEFINE x == [e EXCEPT !.consecutive_rekey_rejections = @ + 1]
<1>1. Alike(e, x)
  BY CountsAlike DEF Sound
<1>2. note_rekey_rejection(e).e \in {e, x} /\ note_rekey_rejection(e).out = <<>>
  BY DEF note_rekey_rejection, Result
<1> HIDE DEF x
<1>3. Plays(e, p, f, x, <<>>)
  BY <1>1, PlaysOn, WritesNone
<1> QED BY <1>2, <1>3, PlaysNothing

\* on_incoming_commit, of an engine that has no run.
LEMMA PlaysCommit ==
  ASSUME NEW e, NEW p, Sound(e, p), e.run = NoRun, NEW f, NEW commit, NEW emit
  PROVE  LET r == on_incoming_commit(e, commit, emit) IN Plays(e, p, f, r.e, r.out)
<1> DEFINE x == [e EXCEPT !.consecutive_rekey_rejections = 0]
           r == start_responder_run(x, commit, emit)
<1>1. e.run.step = "None"
  BY DEF NoRun
<1>2. Alike(e, x)
  BY CountsAlike DEF Sound
<1>3. on_incoming_commit(e, commit, emit) =
         IF ~ReferencesActive(e, commit) THEN note_rekey_rejection(e) ELSE r
  BY DEF on_incoming_commit
<1> HIDE DEF x
<1>4. Sound(x, p) /\ x.run.step # "ConfirmResp"
  BY <1>1, <1>2, AlikeSound DEF Alike
<1>5. Plays(x, p, f, r.e, r.out)
  BY <1>4, PlaysResponds
<1>6. Plays(e, p, f, r.e, r.out)
  BY <1>2, <1>5, AlikeBefore
<1> QED BY <1>1, <1>3, <1>6, PlaysRejection

\* resolve_glare: the run that yields ends without a session before the other
\* begins.
LEMMA PlaysGlare ==
  ASSUME NEW e, NEW p, Sound(e, p), e.phase = "Established", e.run # NoRun, e.run.step = "Hello",
         NEW f, f.kind = "COMMIT"
  PROVE  LET r == resolve_glare(e, f) IN Plays(e, p, f, r.e, r.out)
<1> DEFINE a == [e EXCEPT !.run = NoRun]
           k == cancel(a, {"HandshakeFrame", "HandshakeTotal"})
           r == on_incoming_commit(k, f, FALSE)
<1>1. /\ DOMAIN a = EngineFields /\ a.identity = e.identity /\ a.entropy = e.entropy
      /\ a.run = NoRun /\ a.active = e.active /\ a.draining = e.draining
      /\ a.phase = e.phase
  BY DEF Sound, EngineFields
<1>2. \/ resolve_glare(e, f) = note_rekey_rejection(e)
      \/ resolve_glare(e, f) = Result(e, <<>>, <<"none">>)
      \/ resolve_glare(e, f) = r
  BY DEF resolve_glare
<1> HIDE DEF a
<1>3. Alike(a, k)
  BY <1>1, ArmsAlike
<1> HIDE DEF k
<1>4. /\ DOMAIN k = EngineFields /\ k.identity = e.identity /\ k.entropy = e.entropy
      /\ k.run = NoRun /\ k.active = e.active /\ k.draining = e.draining
      /\ k.phase = e.phase
  BY <1>1, <1>3 DEF Alike
<1>5. k.run.step # "ConfirmResp" /\ SessionSet(k) = SessionSet(e)
  BY <1>4 DEF NoRun, SessionSet
<1>6. Sound(k, p)
  BY <1>4 DEF Sound, RunSane
<1>7. Plays(k, p, f, r.e, r.out)
  BY <1>4, <1>6, PlaysCommit
<1>8. Ended(e) <= Ended(k) /\ Ended(e) \in Int /\ Ended(k) \in Int
  BY <1>4 DEF Ended, Sound
<1>9. Passed(e)
  BY DEF Passed
<1> HIDE DEF r
<1>10. Plays(e, p, f, r.e, r.out)
  BY <1>4, <1>5, <1>7, <1>8, <1>9, PlaysVia
<1>11. Plays(e, p, f, e, <<>>)
  BY PlaysNothing
<1> QED BY <1>2, <1>10, <1>11, PlaysRejection DEF Result

\* on_rekey_frame.
LEMMA PlaysRekeyFrame ==
  ASSUME NEW e, NEW p, Sound(e, p), EngineOK(e), e.phase = "Established", NEW f, Reveals(f, p)
  PROVE  LET r == on_rekey_frame(e, f) IN Plays(e, p, f, r.e, r.out)
<1>1. CASE e.run = NoRun
  <2> DEFINE x == [e EXCEPT !.late_rekey_frames = 0]
             y == [e EXCEPT !.late_rekey_frames = @ - 1]
             r == on_incoming_commit(x, f, TRUE)
  <2>1. e.run.step # "ConfirmResp"
    BY <1>1 DEF NoRun
  <2>2. Alike(e, x) /\ Alike(e, y)
    BY CountsAlike DEF Sound
  <2>3. \/ on_rekey_frame(e, f) = r
        \/ on_rekey_frame(e, f) = Result(y, <<>>, <<"none">>)
        \/ on_rekey_frame(e, f) = terminate(e, "ProtocolError", "ProtocolError")
        \/ on_rekey_frame(e, f) = note_rekey_rejection(e)
    BY <1>1 DEF on_rekey_frame
  <2> HIDE DEF x, y
  <2>4. Sound(x, p) /\ x.run = NoRun
    BY <1>1, <2>2, AlikeSound DEF Alike
  <2>5. Plays(x, p, f, r.e, r.out)
    BY <2>4, PlaysCommit
  <2>6. Plays(e, p, f, r.e, r.out)
    BY <2>2, <2>5, AlikeBefore
  <2>7. Plays(e, p, f, y, <<>>)
    BY <2>1, <2>2, PlaysOn, WritesNone
  <2> HIDE DEF r
  <2>8. CASE on_rekey_frame(e, f) = terminate(e, "ProtocolError", "ProtocolError")
    BY <2>8, PlaysEnd
  <2>9. CASE on_rekey_frame(e, f) = note_rekey_rejection(e)
    BY <2>1, <2>9, PlaysRejection
  <2> QED BY <2>3, <2>6, <2>7, <2>8, <2>9 DEF Result
<1>2. CASE e.run # NoRun
  <2>1. HasRun(e)
    BY <1>2 DEF EngineOK
  <2>2. CASE /\ e.run.role = "Initiator"
             /\ e.run.step = "Hello"
             /\ MessageType(f) = "Rekey"
             /\ Decodes(f, "COMMIT")
    BY <1>2, <2>2, PlaysGlare DEF on_rekey_frame, Decodes
  <2>3. CASE ~(/\ e.run.role = "Initiator"
               /\ e.run.step = "Hello"
               /\ MessageType(f) = "Rekey"
               /\ Decodes(f, "COMMIT"))
    BY <1>2, <2>1, <2>3, PlaysStepped DEF on_rekey_frame
  <2> QED BY <2>2, <2>3
<1> QED BY <1>1, <1>2

\* Letting go of the session that drains.
LEMMA PlaysDrained ==
  ASSUME NEW e, NEW p, Sound(e, p), NEW f, f.kind # "CONFIRM",
         NEW x, DOMAIN x = EngineFields, x.identity = e.identity, x.entropy = e.entropy,
         x.run = e.run, x.phase = e.phase, x.active = e.active, x.draining = NoSession
  PROVE  Plays(e, p, f, x, <<>>)
<1>1. SessionSet(x) \subseteq SessionSet(e)
  BY DEF SessionSet
<1>2. x.phase # "Established" => SessionSet(x) = {}
  BY <1>1 DEF Sound
<1>3. Sound(x, p)
  BY <1>2 DEF Sound, RunSane, Binds, NoSession
<1>4. Ended(e) = Ended(x) /\ Ended(e) \in Int
  BY DEF Ended, Sound
<1>5. Passed(x) <=> Passed(e)
  BY DEF Passed
<1>0. e.entropy <= x.entropy
  BY DEF Sound
<1> QED BY <1>0, <1>1, <1>3, <1>4, <1>5, WritesNone DEF Plays

\* on_close_frame.
LEMMA PlaysClose ==
  ASSUME NEW e, NEW p, Sound(e, p), EngineOK(e), e.phase \in {"Handshaking", "Established"},
         NEW f, f.kind # "CONFIRM"
  PROVE  LET r == on_close_frame(e, f) IN Plays(e, p, f, r.e, r.out)
<1> DEFINE a == [e EXCEPT !.draining = NoSession]
           x == cancel(a, {"Drain"})
           r == on_close_frame(e, f)
<1>1. /\ DOMAIN a = EngineFields /\ a.identity = e.identity /\ a.entropy = e.entropy
      /\ a.run = e.run /\ a.active = e.active /\ a.draining = NoSession
      /\ a.phase = e.phase
  BY DEF Sound, EngineFields
<1>2. \/ \E why, notify : r = terminate(e, why, notify)
      \/ r = Result(e, <<>>, <<"none">>)
      \/ r = Result(x, <<>>, <<"none">>)
  BY DEF on_close_frame
<1> HIDE DEF a
<1>3. Alike(a, x)
  BY <1>1, ArmsAlike
<1> HIDE DEF x, r
<1>4. Plays(e, p, f, x, <<>>)
  BY <1>1, <1>3, PlaysDrained DEF Alike
<1>5. ASSUME NEW why, NEW notify, r = terminate(e, why, notify)
      PROVE  Plays(e, p, f, r.e, r.out)
  BY <1>5, PlaysEnd
<1>6. Plays(e, p, f, e, <<>>)
  BY PlaysNothing
<1>7. Plays(e, p, f, r.e, r.out)
  BY <1>2, <1>4, <1>5, <1>6 DEF Result
<1> QED BY <1>7 DEF r

-----------------------------------------------------------------------------
(* Every other input.                                                      *)

\* A frame, unless it is DATA for an established engine.
LEMMA PlaysFrame ==
  ASSUME NEW e, NEW p, Sound(e, p), EngineOK(e), NEW f, Reveals(f, p),
         e.phase = "Established" => f.kind # "DATA"
  PROVE  LET r == on_frame(e, f) IN Plays(e, p, f, r.e, r.out)
<1>1. MessageType(f) = "Close" => f.kind = "CLOSE"
  BY DEF MessageType
<1>2. MessageType(f) = "Data" => f.kind = "DATA"
  BY DEF MessageType
<1>3. CASE e.phase \in {"Idle", "Closed"}
  BY <1>3, PlaysEnd DEF on_frame
<1>4. CASE e.phase = "Handshaking"
  <2>1. CASE MessageType(f) = "Close"
    BY <1>1, <1>4, <2>1, PlaysClose DEF on_frame
  <2>2. CASE MessageType(f) # "Close" /\ e.run = NoRun
    <3>1. e.run.step # "ConfirmResp"
      BY <2>2 DEF NoRun
    <3>2. on_frame(e, f) \in {start_responder_run(e, f, TRUE), fail_initial(e, "InvalidHandshake")}
      BY <1>4, <2>2 DEF on_frame, accept_first_commit
    <3>3. LET r == start_responder_run(e, f, TRUE) IN Plays(e, p, f, r.e, r.out)
      BY <3>1, PlaysResponds
    <3>4. LET r == fail_initial(e, "InvalidHandshake") IN Plays(e, p, f, r.e, r.out)
      BY PlaysEnd DEF fail_initial
    <3> QED BY <3>2, <3>3, <3>4
  <2>3. CASE MessageType(f) # "Close" /\ e.run # NoRun
    BY <1>4, <2>3, PlaysStepped DEF on_frame, EngineOK
  <2> QED BY <2>1, <2>2, <2>3
<1>5. CASE e.phase = "Established"
  <2>1. CASE MessageType(f) = "Close"
    BY <1>1, <1>5, <2>1, PlaysClose DEF on_frame
  <2>2. CASE MessageType(f) \in {"Rekey", "SessionConfirm"}
    BY <1>5, <2>2, PlaysRekeyFrame DEF on_frame
  <2>3. CASE MessageType(f) = "Handshake"
    BY <1>5, <2>3, PlaysEnd DEF on_frame
  <2>4. MessageType(f) \in {"Close", "Data", "Rekey", "SessionConfirm", "Handshake"}
    BY DEF MessageType
  <2> QED BY <1>2, <1>5, <2>1, <2>2, <2>3, <2>4
<1> QED BY <1>3, <1>4, <1>5 DEF EngineOK

\* on_sas: only an approval that was asked for lets the run go on.
LEMMA PlaysAnswer ==
  ASSUME NEW e, NEW p, Sound(e, p), EngineOK(e), NEW answer \in BOOLEAN
  PROVE  LET r == on_sas(e, answer)
             f == IF answer /\ e.run.step = "Sas" THEN Approval ELSE NoInput
         IN  Plays(e, p, f, r.e, r.out)
<1> DEFINE a == cancel(e, {"SasDecision"})
           r == on_sas(e, answer)
           f == IF answer /\ e.run.step = "Sas" THEN Approval ELSE NoInput
<1>1. Alike(e, a)
  BY ArmsAlike DEF Sound
<1>2. f.kind # "CONFIRM"
  BY DEF Approval, NoInput, NoFrame
<1>3. r = IF e.phase # "Handshaking" \/ e.run.step # "Sas" THEN Result(e, <<>>, <<"none">>)
          ELSE IF ~answer THEN terminate(a, "SasRejected", "AuthenticationFailure")
          ELSE after_approval(a)
  BY DEF on_sas
<1> HIDE DEF a
<1>4. Sound(a, p)
  BY <1>1, AlikeSound
<1>5. CASE e.phase # "Handshaking" \/ e.run.step # "Sas"
  <2> HIDE DEF f
  <2>1. Plays(e, p, f, e, <<>>)
    BY <1>2, PlaysNothing
  <2> USE DEF f
  <2> QED BY <1>3, <1>5, <2>1 DEF Result
<1>6. CASE ~(e.phase # "Handshaking" \/ e.run.step # "Sas") /\ ~answer
  <2> DEFINE t == terminate(a, "SasRejected", "AuthenticationFailure")
  <2> HIDE DEF f
  <2>1. Plays(a, p, f, t.e, t.out)
    BY <1>4, PlaysEnd
  <2>2. Plays(e, p, f, t.e, t.out)
    BY <1>1, <2>1, AlikeBefore
  <2> USE DEF f
  <2> QED BY <1>3, <1>6, <2>2
<1>7. CASE ~(e.phase # "Handshaking" \/ e.run.step # "Sas") /\ answer
  <2> DEFINE t == after_approval(a)
  <2>1. f = Approval
    BY <1>7
  <2>2. e.run # NoRun /\ HasRun(e)
    BY <1>7 DEF NoRun, EngineOK
  <2>3. HasRun(a) /\ a.run.step = "Sas" /\ a.run # NoRun
    BY <1>1, <1>7, <2>2 DEF Alike, HasRun
  <2>4. Binds(a, p)
    BY <1>4, <2>3 DEF Sound, RunSane, AskedSteps
  <2> HIDE DEF f
  <2>5. Plays(a, p, f, t.e, t.out)
    BY <1>2, <1>4, <2>1, <2>3, <2>4, PlaysApproved
  <2>6. Plays(e, p, f, t.e, t.out)
    BY <1>1, <2>5, AlikeBefore
  <2> USE DEF f
  <2> QED BY <1>3, <1>7, <2>6
<1> QED BY <1>5, <1>6, <1>7

\* on_timeout.
LEMMA PlaysTimeout ==
  ASSUME NEW e, NEW p, Sound(e, p), NEW kind \in DeadlineKind, NEW f, f.kind # "CONFIRM"
  PROVE  LET r == on_timeout(e, kind) IN Plays(e, p, f, r.e, r.out)
<1> DEFINE x == [e EXCEPT !.deadlines = @ \ {kind}]
           y == [x EXCEPT !.rekey_blocked = FALSE, !.late_rekey_frames = 0]
           z == [x EXCEPT !.draining = NoSession]
           r == on_timeout(e, kind)
<1>1. /\ Alike(e, x) /\ Alike(e, y)
      /\ DOMAIN z = EngineFields /\ z.identity = e.identity /\ z.entropy = e.entropy
      /\ z.run = e.run /\ z.phase = e.phase /\ z.active = e.active /\ z.draining = NoSession
  BY DEF Alike, Sound, EngineFields
<1>2. \/ r = Result(e, <<>>, <<"none">>)
      \/ \E why, notify : r = terminate(x, why, notify)
      \/ r = fail_rekey(x, "TransportTimeout")
      \/ r = Result(x, <<>>, <<"none">>)
      \/ r = begin_rekey(y)
      \/ r = Result(z, <<>>, <<"none">>)
  BY DEF on_timeout, DeadlineKind
<1> SUFFICES Plays(e, p, f, r.e, r.out)
  OBVIOUS
<1> HIDE DEF x, y, z, r
<1>3. Sound(x, p) /\ Sound(y, p)
  BY <1>1, AlikeSound
<1>4. CASE r = Result(e, <<>>, <<"none">>)
  BY <1>4, PlaysNothing DEF Result
<1>5. ASSUME NEW why, NEW notify, r = terminate(x, why, notify)
      PROVE  Plays(e, p, f, r.e, r.out)
  <2>1. Plays(x, p, f, r.e, r.out)
    BY <1>3, <1>5, PlaysEnd
  <2> QED BY <1>1, <2>1, AlikeBefore
<1>6. CASE r = fail_rekey(x, "TransportTimeout")
  <2>1. Plays(x, p, f, r.e, r.out)
    BY <1>3, <1>6, PlaysFailedRekey
  <2> QED BY <1>1, <2>1, AlikeBefore
<1>7. CASE r = Result(x, <<>>, <<"none">>)
  <2>1. Plays(e, p, f, x, <<>>)
    BY <1>1, PlaysOn, WritesNone
  <2> QED BY <1>7, <2>1 DEF Result
<1>8. CASE r = begin_rekey(y)
  <2>1. Plays(y, p, f, r.e, r.out)
    BY <1>3, <1>8, PlaysBegin
  <2> QED BY <1>1, <2>1, AlikeBefore
<1>9. CASE r = Result(z, <<>>, <<"none">>)
  BY <1>1, <1>9, PlaysDrained DEF Result
<1> QED BY <1>2, <1>4, <1>5, <1>6, <1>7, <1>8, <1>9

-----------------------------------------------------------------------------
(* DATA.  Sealing and opening move the counters of a session; whatever else *)
(* comes of a message is a step without a frame.                            *)

Sealed(e) == [e EXCEPT !.active.counter = @ + 1]

\* The sessions of e have tried to decrypt f.
Opened(e, f) ==
    IF decrypts(e.active, f) \/ e.draining = NoSession
    THEN [e EXCEPT !.active = decrypt(@, f)]
    ELSE [e EXCEPT !.active = decrypt(@, f), !.draining = decrypt(@, f)]

\* x is e, but for the counters and keys of its sessions.
Moved(e, x) ==
    /\ DOMAIN x = EngineFields
    /\ x.identity = e.identity /\ x.entropy = e.entropy /\ x.phase = e.phase /\ x.run = e.run
    /\ x.active.id = e.active.id /\ x.active # NoSession
    /\ x.draining.id = e.draining.id

\* A session whose counters moved is the same session.
LEMMA MovedSound ==
  ASSUME NEW e, NEW p, Sound(e, p), e.phase = "Established", NEW x, Moved(e, x)
  PROVE  Sound(x, p)
BY DEF Moved, Sound, RunSane, Binds

\* A rekey that the message limit triggers, or nothing.
LEMMA PlaysTrigger ==
  ASSUME NEW e, NEW p, Sound(e, p), NEW out
  PROVE  LET r == maybe_trigger_rekey(Counted(e), out) IN
         \E more : r.out = out \o more /\ Plays(e, p, NoInput, r.e, more)
<1> DEFINE x == Counted(e)
           b == IF x.messages >= REKEY_MESSAGE_LIMIT /\ ~x.rekey_blocked
                THEN begin_rekey(x) ELSE Result(x, <<>>, <<"none">>)
           r == maybe_trigger_rekey(x, out)
<1>1. Alike(e, x)
  BY CountsAlike DEF Sound
<1>2. r = [b EXCEPT !.out = out \o @]
  BY DEF maybe_trigger_rekey
<1> HIDE DEF x
<1>3. Sound(x, p) /\ NoInput.kind # "CONFIRM"
  BY <1>1, AlikeSound DEF NoInput, NoFrame
<1>4. Plays(x, p, NoInput, x, <<>>)
  BY <1>3, PlaysNothing
<1>5. LET s == begin_rekey(x) IN Plays(x, p, NoInput, s.e, s.out)
  BY <1>3, PlaysBegin
<1>6. Plays(x, p, NoInput, b.e, b.out)
  BY <1>4, <1>5 DEF Result
<1>7. DOMAIN b = {"e", "out", "event", "deliver"}
  BY DEF begin_rekey, Result
<1> HIDE DEF b, r
<1>8. Plays(e, p, NoInput, b.e, b.out)
  BY <1>1, <1>6, AlikeBefore
<1>9. r.e = b.e /\ r.out = out \o b.out
  BY <1>2, <1>7
<1> QED BY <1>8, <1>9 DEF r, x

\* on_send: the counter of the session that sends moves on by one, as the DATA
\* frame that goes out says, or no DATA goes out.
LEMMA PlaysSend ==
  ASSUME NEW e, NEW p, Sound(e, p), EngineOK(e), NEW content
  PROVE  LET r == on_send(e, content)
             d == DataPayload(e.active.id, e.active.role, e.active.counter, content)
         IN  \/ Plays(e, p, NoInput, r.e, r.out)
             \/ /\ e.phase = "Established" /\ ~(e.active.counter >= COUNTER_MAX)
                /\ Sound(Sealed(e), p)
                /\ \E more : r.out = <<d>> \o more /\ Plays(Sealed(e), p, NoInput, r.e, more)
<1> DEFINE d == DataPayload(e.active.id, e.active.role, e.active.counter, content)
           r == on_send(e, content)
           x == Sealed(e)
<1>1. Plays(e, p, NoInput, e, <<>>)
  BY PlaysNothing DEF NoInput, NoFrame
<1>2. CASE content = TooLarge \/ e.phase # "Established"
  BY <1>1, <1>2 DEF on_send, Result
<1>3. CASE content # TooLarge /\ e.phase = "Established" /\ e.active.counter >= COUNTER_MAX
  BY <1>3, PlaysEnd DEF on_send
<1>4. CASE content # TooLarge /\ e.phase = "Established" /\ ~(e.active.counter >= COUNTER_MAX)
  <2>1. r = maybe_trigger_rekey(Counted(x), <<d>>)
    BY <1>4 DEF on_send, Sealed
  <2>2. DOMAIN e.active = SessionFields
    BY <1>4 DEF EngineOK, Held
  <2>3. /\ DOMAIN x = EngineFields /\ DOMAIN x.active = SessionFields
        /\ x.identity = e.identity /\ x.entropy = e.entropy /\ x.phase = e.phase
        /\ x.run = e.run /\ x.draining = e.draining /\ x.active.id = e.active.id
    BY <2>2 DEF Sealed, Sound, EngineFields, SessionFields
  <2> HIDE DEF x, d
  <2>4. Moved(e, x)
    BY <2>3 DEF Moved, NoSession, SessionFields
  <2>5. Sound(x, p)
    BY <1>4, <2>4, MovedSound
  <2>6. \E more : r.out = <<d>> \o more /\ Plays(x, p, NoInput, r.e, more)
    BY <2>1, <2>5, PlaysTrigger
  <2> QED BY <1>4, <2>5, <2>6 DEF x, d
<1> QED BY <1>2, <1>3, <1>4

\* decrypt moves the receiver of the session a frame is addressed to, and
\* nothing else.
LEMMA DecryptMoves ==
  ASSUME NEW s, DOMAIN s = SessionFields, NEW f
  PROVE  LET t == decrypt(s, f) IN
         /\ DOMAIN t = SessionFields
         /\ t.id = s.id /\ t.role = s.role /\ t.peer = s.peer /\ t.counter = s.counter
         /\ t.receiver = IF Addressed(s, f) THEN Decrypt(s.receiver, f) ELSE s.receiver
BY DEF decrypt, SessionFields

\* on_data: the session that a frame is addressed to tries to open it, and what
\* that delivers is the content of the frame.
LEMMA PlaysData ==
  ASSUME NEW e, NEW p, Sound(e, p), EngineOK(e), e.phase = "Established", NEW f
  PROVE  LET r == on_data(e, f) IN
         /\ Sound(Opened(e, f), p)
         /\ Plays(Opened(e, f), p, NoInput, r.e, r.out)
<1> DEFINE r == on_data(e, f)
           x == Opened(e, f)
<1>1. DOMAIN e.active = SessionFields /\ (e.draining = NoSession \/ DOMAIN e.draining = SessionFields)
  BY DEF EngineOK, Held
<1>2. NoInput.kind # "CONFIRM"
  BY DEF NoInput, NoFrame
<1>3. /\ DOMAIN x = EngineFields
      /\ x.identity = e.identity /\ x.entropy = e.entropy /\ x.phase = e.phase /\ x.run = e.run
      /\ x.active = decrypt(e.active, f)
      /\ x.draining \in {e.draining, decrypt(e.draining, f)}
      /\ e.draining = NoSession => x.draining = NoSession
  BY DEF Opened, Sound, EngineFields
<1>4. x.active.id = e.active.id /\ DOMAIN x.active = SessionFields /\ x.draining.id = e.draining.id
  BY <1>1, <1>3, DecryptMoves
<1>5. \/ r = [maybe_trigger_rekey(Counted(x), <<>>) EXCEPT !.deliver = f.content]
      \/ r = [Result(x, <<>>, <<"none">>) EXCEPT !.deliver = f.content]
      \/ r = terminate(x, "ProtocolError", "ProtocolError")
      \/ r = Result(x, <<>>, <<"DataRejected">>)
  BY DEF on_data, Opened, Sound, EngineFields
<1> HIDE DEF x, r
<1>6. Moved(e, x)
  BY <1>3, <1>4 DEF Moved, NoSession, SessionFields
<1>7. Sound(x, p)
  BY <1>6, MovedSound
<1>8. CASE r = [maybe_trigger_rekey(Counted(x), <<>>) EXCEPT !.deliver = f.content]
  <2> DEFINE s == maybe_trigger_rekey(Counted(x), <<>>)
  <2>1. PICK more : s.out = <<>> \o more /\ Plays(x, p, NoInput, s.e, more)
    BY <1>7, PlaysTrigger
  <2>2. <<>> \o more = more
    <3>1. PICK S : more \in Seq(S)
      BY <2>1 DEF Plays, Writes, IsSequence
    <3> QED BY <3>1
  <2>3. r.e = s.e /\ r.out = s.out
    BY <1>8 DEF maybe_trigger_rekey, begin_rekey, Result
  <2>4. Plays(x, p, NoInput, r.e, r.out)
    BY <2>1, <2>2, <2>3
  <2> QED BY <1>7, <2>4 DEF r, x
<1>9. CASE r \in {[Result(x, <<>>, <<"none">>) EXCEPT !.deliver = f.content],
                  Result(x, <<>>, <<"DataRejected">>)}
  <2>1. r.e = x /\ r.out = <<>>
    BY <1>9 DEF Result
  <2> QED BY <1>2, <1>7, <2>1, PlaysNothing DEF r, x
<1>10. CASE r = terminate(x, "ProtocolError", "ProtocolError")
  BY <1>7, <1>10, PlaysEnd DEF r, x
<1> QED BY <1>5, <1>8, <1>9, <1>10
=============================================================================
