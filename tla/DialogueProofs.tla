--------------------------- MODULE DialogueProofs ---------------------------
(***************************************************************************)
(* Two engines on a calm connection (nothing is damaged, and no deadline   *)
(* but the rekey timer expires): what either has said and the other has    *)
(* not read yet is fixed by where their two runs stand.                    *)
(*                                                                         *)
(* Dialogue names the configurations such a connection goes through, from  *)
(* the first COMMIT to the last confirmation, the crossing of two COMMITs  *)
(* included.  Every input leads from one of them to another, or closes.    *)
(* With that, the DATA in a channel is what its reader still needs and can *)
(* read, in order: no message is lost.                                     *)
(*                                                                         *)
(* On any other connection that is not damaged, deadlines end runs that    *)
(* the peer still talks about.  Converse tells what can then be in flight, *)
(* which is enough to show that neither end ever blames the other.         *)
(***************************************************************************)
EXTENDS ConnectionProofs

-----------------------------------------------------------------------------
(* What is said in a channel.                                              *)

\* A frame of a handshake or a rekey.
Talk(f) == f.kind \notin {"DATA", "CLOSE"}

\* The talk in q: none; f; f and then g.
Silent(q) == \A k \in 1..Len(q) : ~Talk(q[k])

Says(q, f) ==
    \E i \in 1..Len(q) : q[i] = f /\ \A k \in 1..Len(q) : Talk(q[k]) <=> k = i

SaysBoth(q, f, g) ==
    \E i, j \in 1..Len(q) :
        /\ i < j /\ q[i] = f /\ q[j] = g
        /\ \A k \in 1..Len(q) : Talk(q[k]) <=> k \in {i, j}

\* v says what q says.
Hushed(q, v) ==
    /\ Silent(q) => Silent(v)
    /\ \A f : Says(q, f) => Says(v, f)
    /\ \A f, g : SaysBoth(q, f, g) => SaysBoth(v, f, g)

\* w says d after what q says.
Adds(q, w, d) ==
    /\ Silent(q) => Says(w, d)
    /\ \A f : Says(q, f) => SaysBoth(w, f, d)

\* The talk of a channel starts at its head f, and v is the rest.
Hears(q, f, v) ==
    /\ ~Silent(q)
    /\ \A g : Says(q, g) => f = g /\ Silent(v)
    /\ \A g, h : SaysBoth(q, g, h) => f = g /\ Says(v, h)

\* A channel says what it says.
LEMMA HushSame == ASSUME NEW q PROVE Hushed(q, q)
BY DEF Hushed

\* And so on.
LEMMA HushOn ==
  ASSUME NEW q, NEW v, NEW w, Hushed(q, v)
  PROVE  /\ Hushed(v, w) => Hushed(q, w)
         /\ \A d : Adds(v, w, d) => Adds(q, w, d)
BY DEF Hushed, Adds

\* Other frames come and go.
LEMMA HushTail ==
  ASSUME NEW q, IsSequence(q), q # <<>>, ~Talk(Head(q))
  PROVE  Hushed(q, Tail(q))
<1> DEFINE v == Tail(q)
<1>1. /\ Len(q) \in Nat /\ Len(q) > 0 /\ Head(q) = q[1] /\ Len(v) = Len(q) - 1
      /\ \A i \in 1..Len(v) : v[i] = q[i + 1]
  BY SequenceParts
<1> HIDE DEF v
<1>2. \A i \in 1..Len(v) : i + 1 \in 1..Len(q) /\ v[i] = q[i + 1]
  BY <1>1
<1>3. \A i \in 1..Len(q) : Talk(q[i]) => i - 1 \in 1..Len(v) /\ v[i - 1] = q[i]
  <2> SUFFICES ASSUME NEW i \in 1..Len(q), Talk(q[i])
               PROVE  i - 1 \in 1..Len(v) /\ v[i - 1] = q[i]
    OBVIOUS
  <2>1. i # 1
    BY <1>1
  <2>2. i - 1 \in 1..Len(v) /\ (i - 1) + 1 = i
    BY <1>1, <2>1
  <2> QED BY <1>1, <2>2
<1>4. Silent(q) => Silent(v)
  BY <1>2 DEF Silent
<1>5. ASSUME NEW f, Says(q, f) PROVE Says(v, f)
  <2>1. PICK i \in 1..Len(q) : q[i] = f /\ \A k \in 1..Len(q) : Talk(q[k]) <=> k = i
    BY <1>5 DEF Says
  <2>2. i - 1 \in 1..Len(v) /\ v[i - 1] = f
    BY <1>3, <2>1
  <2>3. \A k \in 1..Len(v) : Talk(v[k]) <=> k = i - 1
    BY <1>2, <2>1
  <2> QED BY <2>2, <2>3 DEF Says
<1>6. ASSUME NEW f, NEW g, SaysBoth(q, f, g) PROVE SaysBoth(v, f, g)
  <2>1. PICK i, j \in 1..Len(q) :
           i < j /\ q[i] = f /\ q[j] = g /\ \A k \in 1..Len(q) : Talk(q[k]) <=> k \in {i, j}
    BY <1>6 DEF SaysBoth
  <2>2. i - 1 \in 1..Len(v) /\ v[i - 1] = f /\ j - 1 \in 1..Len(v) /\ v[j - 1] = g /\ i - 1 < j - 1
    BY <1>3, <2>1
  <2>3. \A k \in 1..Len(v) : Talk(v[k]) <=> k \in {i - 1, j - 1}
    BY <1>2, <2>1
  <2> QED BY <2>2, <2>3 DEF SaysBoth
<1> QED BY <1>4, <1>5, <1>6 DEF Hushed, v

\* Frames that are no talk may follow.
LEMMA HushMore ==
  ASSUME NEW q, NEW out, IsSequence(q), IsSequence(out), \A i \in 1..Len(out) : ~Talk(out[i])
  PROVE  Hushed(q, q \o out)
<1> DEFINE v == q \o out
<1>1. /\ Len(v) = Len(q) + Len(out) /\ Len(q) \in Nat /\ Len(out) \in Nat
      /\ \A i \in 1..Len(q) : v[i] = q[i]
      /\ \A i \in 1..Len(v) :
               \/ i \in 1..Len(q) /\ v[i] = q[i]
               \/ i - Len(q) \in 1..Len(out) /\ v[i] = out[i - Len(q)]
  BY ConcatParts, SequenceParts
<1> HIDE DEF v
<1>2. /\ \A i \in 1..Len(v) : Talk(v[i]) => i \in 1..Len(q) /\ v[i] = q[i]
      /\ \A i \in 1..Len(q) : i \in 1..Len(v) /\ v[i] = q[i]
  BY <1>1
<1> QED BY <1>2 DEF Hushed, Silent, Says, SaysBoth, v

\* One more thing is said.
LEMMA Spoken ==
  ASSUME NEW q, IsSequence(q), NEW d, Talk(d)
  PROVE  Adds(q, q \o <<d>>, d)
<1> DEFINE v == q \o <<d>>
<1>1. Len(<<d>>) = 1 /\ <<d>>[1] = d
  OBVIOUS
<1>2. /\ Len(v) = Len(q) + 1 /\ Len(q) \in Nat /\ v[Len(q) + 1] = d
      /\ \A i \in 1..Len(q) : v[i] = q[i]
  BY <1>1, OneSent, ConcatParts, SequenceParts
<1> HIDE DEF v
<1>3. /\ \A i \in 1..Len(v) : i = Len(q) + 1 \/ i \in 1..Len(q)
      /\ \A i \in 1..Len(q) : i \in 1..Len(v) /\ v[i] = q[i] /\ i < Len(q) + 1
      /\ Len(q) + 1 \in 1..Len(v) /\ Talk(v[Len(q) + 1])
  BY <1>2
<1>4. ASSUME Silent(q) PROVE Says(v, d)
  <2>1. \A k \in 1..Len(v) : Talk(v[k]) <=> k = Len(q) + 1
    BY <1>3, <1>4 DEF Silent
  <2> QED BY <1>2, <1>3, <2>1 DEF Says
<1>5. ASSUME NEW f, Says(q, f) PROVE SaysBoth(v, f, d)
  <2>1. PICK i \in 1..Len(q) : q[i] = f /\ \A k \in 1..Len(q) : Talk(q[k]) <=> k = i
    BY <1>5 DEF Says
  <2>2. \A k \in 1..Len(v) : Talk(v[k]) <=> k \in {i, Len(q) + 1}
    BY <1>3, <2>1
  <2>3. i \in 1..Len(v) /\ i < Len(q) + 1 /\ v[i] = f
    BY <1>3, <2>1
  <2> QED BY <1>2, <1>3, <2>2, <2>3 DEF SaysBoth
<1> QED BY <1>4, <1>5 DEF Adds, v

\* Two things are said.
LEMMA SpokenBoth ==
  ASSUME NEW q, IsSequence(q), NEW d, NEW g, Talk(d), Talk(g), Silent(q)
  PROVE  SaysBoth(q \o (<<d>> \o <<g>>), d, g)
<1> DEFINE v == q \o <<d>>
<1>1. IsSequence(<<d>>) /\ IsSequence(<<g>>)
  BY OneSent
<1>2. IsSequence(v) /\ Says(v, d)
  BY <1>1, ConcatParts, Spoken DEF Adds
<1>3. q \o (<<d>> \o <<g>>) = v \o <<g>>
  BY <1>1, Regroup
<1> HIDE DEF v
<1>4. SaysBoth(v \o <<g>>, d, g)
  BY <1>2, Spoken DEF Adds
<1> QED BY <1>3, <1>4

\* One thing is said after a message.
LEMMA SpokenAfter ==
  ASSUME NEW q, IsSequence(q), NEW d, NEW g, ~Talk(d), Talk(g)
  PROVE  Adds(q, q \o (<<d>> \o <<g>>), g)
<1> DEFINE v == q \o <<d>>
<1>1. IsSequence(<<d>>) /\ IsSequence(<<g>>) /\ \A i \in 1..Len(<<d>>) : ~Talk(<<d>>[i])
  BY OneSent
<1>2. IsSequence(v) /\ Hushed(q, v)
  BY <1>1, ConcatParts, HushMore
<1>3. q \o (<<d>> \o <<g>>) = v \o <<g>>
  BY <1>1, Regroup
<1> HIDE DEF v
<1>4. Adds(v, v \o <<g>>, g)
  BY <1>2, Spoken
<1> QED BY <1>2, <1>3, <1>4, HushOn

\* What is said first is heard first.
LEMMA Heard ==
  ASSUME NEW q, IsSequence(q), q # <<>>, Talk(Head(q))
  PROVE  Hears(q, Head(q), Tail(q))
<1> DEFINE v == Tail(q)
<1>1. /\ Len(q) \in Nat /\ Len(q) > 0 /\ Head(q) = q[1] /\ Len(v) = Len(q) - 1
      /\ \A i \in 1..Len(v) : v[i] = q[i + 1]
  BY SequenceParts
<1> HIDE DEF v
<1>2. /\ 1 \in 1..Len(q) /\ Talk(q[1])
      /\ \A i \in 1..Len(v) : i + 1 \in 1..Len(q) /\ i + 1 # 1 /\ v[i] = q[i + 1]
  BY <1>1
<1>3. ~Silent(q)
  BY <1>2 DEF Silent
<1>4. ASSUME NEW g, Says(q, g) PROVE q[1] = g /\ Silent(v)
  <2>1. PICK i \in 1..Len(q) : q[i] = g /\ \A k \in 1..Len(q) : Talk(q[k]) <=> k = i
    BY <1>4 DEF Says
  <2>2. i = 1
    BY <1>2, <2>1
  <2>3. \A k \in 1..Len(v) : ~Talk(v[k])
    BY <1>2, <2>1, <2>2
  <2> QED BY <2>1, <2>2, <2>3 DEF Silent
<1>5. ASSUME NEW g, NEW h, SaysBoth(q, g, h) PROVE q[1] = g /\ Says(v, h)
  <2>1. PICK i, j \in 1..Len(q) :
           i < j /\ q[i] = g /\ q[j] = h /\ \A k \in 1..Len(q) : Talk(q[k]) <=> k \in {i, j}
    BY <1>5 DEF SaysBoth
  <2>2. i = 1
    <3>1. 1 \in {i, j}
      BY <1>2, <2>1
    <3>2. j # 1
      BY <2>1
    <3> QED BY <3>1, <3>2
  <2>3. j - 1 \in 1..Len(v) /\ v[j - 1] = h
    <3>1. j - 1 \in 1..Len(v) /\ (j - 1) + 1 = j
      BY <1>1, <2>1
    <3> QED BY <1>1, <2>1, <3>1
  <2>4. \A k \in 1..Len(v) : Talk(v[k]) <=> k = j - 1
    BY <1>2, <2>1, <2>2
  <2> QED BY <2>1, <2>2, <2>3, <2>4 DEF Says
<1> QED BY <1>1, <1>3, <1>4, <1>5 DEF Hears, v

-----------------------------------------------------------------------------
(* The configurations of a calm connection.                                *)

\* What initiator i and responder r say.
Commit(i)   == CommitPayload(i.run.local_hello)
Deal(i, r)  == Transcript(i.run.local_hello, r.run.local_hello)
Auth(k, i, r) == HandshakePayload(k, Deal(i, r))
Confirm(role, i, r) == SessionConfirmPayload(SessionKeys(Deal(i, r)), role)

\* Both hold the same session, each with the other.
Level(e, p) ==
    /\ e.phase = "Established" /\ p.phase = "Established"
    /\ e.active.id = p.active.id
    /\ e.active.peer = p.identity /\ p.active.peer = e.identity

Footing(e, p) ==
    \/ /\ e.phase = "Handshaking" /\ p.phase = "Handshaking"
       /\ e.run.previous = NoId /\ p.run.previous = NoId
    \/ Level(e, p)

\* r has taken i's COMMIT.
Met(i, r) ==
    /\ Footing(i, r)
    /\ i.run.role = "Initiator" /\ r.run.role = "Responder"
    /\ r.run.commit = Commit(i)

Unopened(i, r, qi, qr) ==
    /\ i.phase = "Idle" /\ i.role = "Initiator"
    /\ r.phase \in {"Idle", "Handshaking"} /\ r.role = "Responder" /\ r.run = NoRun
    /\ Silent(qi) /\ Silent(qr)

Calling(i, r, qi, qr) ==
    /\ i.run.step = "Hello" /\ r.run = NoRun
    /\ \/ /\ i.phase = "Handshaking" /\ i.run.previous = NoId
          /\ r.phase \in {"Idle", "Handshaking"} /\ r.role = "Responder"
       \/ Level(i, r)
    /\ Silent(qi) /\ Says(qr, Commit(i))

Resting(i, r, qi, qr) ==
    /\ Level(i, r) /\ i.run = NoRun /\ r.run = NoRun
    /\ Silent(qi) /\ Silent(qr)

Crossing(i, r, qi, qr) ==
    /\ Level(i, r) /\ i.run.step = "Hello" /\ r.run.step = "Hello"
    /\ Says(qr, Commit(i))
    /\ \/ Says(qi, Commit(r))
       \/ Silent(qi) /\ i.identity > r.identity

Answered(i, r, qi, qr) ==
    /\ i.run.step = "Hello" /\ r.run.step = "Reveal" /\ Met(i, r)
    /\ r.run.early = NoFrame
    /\ Silent(qr)
    /\ \/ Says(qi, r.run.local_hello)
       \/ /\ Level(i, r) /\ i.identity > r.identity
          /\ \E c : /\ Decodes(c, "COMMIT") /\ c.purpose = "Rekey"
                    /\ c.previous = i.run.previous
                    /\ SaysBoth(qi, c, r.run.local_hello)

\* i has r's HELLO.
Revealed(i, r, qi, qr) ==
    /\ i.run.step \in {"Sas", "AuthResp"} /\ r.run.step = "Reveal" /\ Met(i, r)
    /\ r.run.early = NoFrame
    /\ i.run.transcript = Deal(i, r)
    /\ Silent(qi)
    /\ \/ i.run.step = "Sas" /\ i.phase = "Handshaking" /\ Says(qr, i.run.local_hello)
       \/ i.run.step = "AuthResp" /\ SaysBoth(qr, i.run.local_hello, Auth(0, i, r))

\* Both have the transcript.
Signing(i, r, qi, qr) ==
    /\ i.run.step \in {"Sas", "AuthResp"} /\ r.run.step \in {"Sas", "AuthInit"} /\ Met(i, r)
    /\ i.run.transcript = Deal(i, r) /\ r.run.transcript = Deal(i, r)
    /\ i.run.step = "Sas" \/ r.run.step = "Sas" => i.phase = "Handshaking"
    /\ Silent(qi)
    /\ \/ i.run.step = "Sas" /\ Silent(qr) /\ r.run.early = NoFrame
       \/ i.run.step = "AuthResp" /\ Says(qr, Auth(0, i, r)) /\ r.run.early = NoFrame
       \/ /\ i.run.step = "AuthResp" /\ Silent(qr)
          /\ r.run.step = "Sas" /\ r.run.early = Auth(0, i, r)

\* r awaits i's confirmation.
Vouching(i, r, qi, qr) ==
    /\ i.run.step \in {"AuthResp", "ConfirmResp"} /\ r.run.step = "ConfirmInit" /\ Met(i, r)
    /\ i.run.transcript = Deal(i, r) /\ r.run.transcript = Deal(i, r)
    /\ \/ i.run.step = "AuthResp" /\ Says(qi, Auth(1, i, r)) /\ Silent(qr)
       \/ i.run.step = "ConfirmResp" /\ Silent(qi) /\ Says(qr, Confirm("Initiator", i, r))

\* r holds the new session and i is about to.
Finishing(i, r, qi, qr) ==
    /\ i.run.step = "ConfirmResp" /\ i.run.role = "Initiator"
    /\ i.run.transcript.responder.identity = r.identity
    /\ r.phase = "Established" /\ r.active.id = SessionKeys(i.run.transcript)
    /\ r.active.peer = i.identity
    /\ \/ i.phase = "Handshaking"
       \/ i.phase = "Established" /\ i.active.peer = r.identity
    /\ Silent(qr)
    /\ LET f == SessionConfirmPayload(SessionKeys(i.run.transcript), "Responder") IN
       \/ r.run = NoRun /\ Says(qi, f)
       \/ r.run.step = "Hello" /\ SaysBoth(qi, f, Commit(r))

Talks(i, r, qi, qr) ==
    \/ Unopened(i, r, qi, qr)
    \/ Calling(i, r, qi, qr)
    \/ Resting(i, r, qi, qr)
    \/ Crossing(i, r, qi, qr)
    \/ Answered(i, r, qi, qr)
    \/ Revealed(i, r, qi, qr)
    \/ Signing(i, r, qi, qr)
    \/ Vouching(i, r, qi, qr)
    \/ Finishing(i, r, qi, qr)

Dialogue(e, p, q, u) ==
    /\ ~e.rekey_blocked /\ ~p.rekey_blocked
    /\ Talks(e, p, q, u) \/ Talks(p, e, u, q)

\* An engine in its place: its run is sound, and about a session it has not had.
Fit(e, p) ==
    /\ EngineOK(e) /\ Sound(e, p.identity) /\ e.identity # p.identity
    /\ e.run.step \in AskedSteps => e.active.id # SessionKeys(e.run.transcript)

\* x is e, but for deadlines, counts and what the sessions have had.
Steady(e, x) ==
    /\ x.identity = e.identity /\ x.role = e.role /\ x.phase = e.phase /\ x.run = e.run
    /\ x.active.id = e.active.id /\ x.active.peer = e.active.peer
    /\ x.rekey_blocked => e.rekey_blocked

\* What is not talk changes no configuration.
LEMMA TalksOn ==
  ASSUME NEW i, NEW r, NEW qi, NEW qr, Talks(i, r, qi, qr),
         NEW x, NEW y, NEW vi, NEW vr, Steady(i, x), Steady(r, y), Hushed(qi, vi), Hushed(qr, vr)
  PROVE  Talks(x, y, vi, vr)
<1> USE DEF Steady, Hushed
<1>1. Commit(x) = Commit(i) /\ Commit(y) = Commit(r) /\ Deal(x, y) = Deal(i, r)
  BY DEF Commit, Deal
<1>2. \A k : Auth(k, x, y) = Auth(k, i, r) /\ Confirm(k, x, y) = Confirm(k, i, r)
  BY <1>1 DEF Auth, Confirm
<1>3. (Level(i, r) => Level(x, y)) /\ (Met(i, r) => Met(x, y))
  BY <1>1 DEF Level, Met, Footing
<1>4. Unopened(i, r, qi, qr) => Unopened(x, y, vi, vr)
  BY DEF Unopened
<1>5. Calling(i, r, qi, qr) => Calling(x, y, vi, vr)
  BY <1>1, <1>3 DEF Calling
<1>6. Resting(i, r, qi, qr) => Resting(x, y, vi, vr)
  BY <1>3 DEF Resting
<1>7. Crossing(i, r, qi, qr) => Crossing(x, y, vi, vr)
  BY <1>1, <1>3 DEF Crossing
<1>8. Answered(i, r, qi, qr) => Answered(x, y, vi, vr)
  BY <1>3 DEF Answered
<1>9. Revealed(i, r, qi, qr) => Revealed(x, y, vi, vr)
  BY <1>1, <1>2, <1>3 DEF Revealed
<1>10. Signing(i, r, qi, qr) => Signing(x, y, vi, vr)
  BY <1>1, <1>2, <1>3 DEF Signing
<1>11. Vouching(i, r, qi, qr) => Vouching(x, y, vi, vr)
  BY <1>1, <1>2, <1>3 DEF Vouching
<1>12. Finishing(i, r, qi, qr) => Finishing(x, y, vi, vr)
  BY <1>1 DEF Finishing
<1> QED BY <1>4, <1>5, <1>6, <1>7, <1>8, <1>9, <1>10, <1>11, <1>12 DEF Talks

\* What is no talk, and an engine that changes in nothing a dialogue is about, leave it as it is.
LEMMA DialogueOn ==
  ASSUME NEW e, NEW p, NEW q, NEW u, Dialogue(e, p, q, u),
         NEW x, NEW v, NEW w, Steady(e, x), Hushed(q, v), Hushed(u, w)
  PROVE  Dialogue(x, p, v, w)
<1>1. Steady(p, p)
  BY DEF Steady
<1> QED BY <1>1, TalksOn DEF Dialogue, Steady

\* Neither end is the first.
LEMMA DialogueTurned ==
  ASSUME NEW e, NEW p, NEW q, NEW u, Dialogue(e, p, q, u)
  PROVE  Dialogue(p, e, u, q)
BY DEF Dialogue

-----------------------------------------------------------------------------
(* What each handler makes of an engine, field by field.                   *)

\* x differs from e in its run, deadlines, counts and messages at most.
Keeps(e, x) ==
    /\ DOMAIN x = EngineFields
    /\ x.identity = e.identity /\ x.role = e.role /\ x.phase = e.phase
    /\ x.active = e.active /\ x.draining = e.draining
    /\ x.rekey_blocked = e.rekey_blocked /\ x.late_rekey_frames = e.late_rekey_frames

\* The run of x is that of e, in the given step.
OnRun(e, x, step, transcript, early) ==
    /\ Keeps(e, x) /\ x.entropy = e.entropy
    /\ DOMAIN x.run = RunFields
    /\ x.run.purpose = e.run.purpose /\ x.run.role = e.run.role
    /\ x.run.previous = e.run.previous /\ x.run.local_hello = e.run.local_hello
    /\ x.run.commit = e.run.commit
    /\ x.run.step = step /\ x.run.transcript = transcript /\ x.run.early = early

\* x has begun a run.
Ran(e, x, run) == Keeps(e, x) /\ x.entropy = e.entropy + 1 /\ x.run = run

\* x holds the session that the run of e was for.
Promoted(e, x) ==
    /\ DOMAIN x = EngineFields
    /\ x.identity = e.identity /\ x.role = e.role /\ x.entropy = e.entropy
    /\ x.phase = "Established" /\ x.run = NoRun
    /\ x.active = Session(SessionKeys(e.run.transcript), e.run.role, remote_identity(e.run))
    /\ x.draining = IF e.phase = "Handshaking" THEN e.draining ELSE e.active
    /\ x.rekey_blocked => e.rekey_blocked
    /\ x.late_rekey_frames = 0

\* Deadlines.
LEMMA ArmsKeep ==
  ASSUME NEW e, NEW kind, NEW kinds, DOMAIN e = EngineFields
  PROVE  /\ Keeps(e, e)
         /\ Keeps(e, arm(e, kind)) /\ arm(e, kind).run = e.run /\ arm(e, kind).entropy = e.entropy
         /\ Keeps(e, cancel(e, kinds)) /\ cancel(e, kinds).run = e.run
         /\ cancel(e, kinds).entropy = e.entropy
BY DEF arm, cancel, Keeps, EngineFields

\* rearm_frame_deadline touches neither the run nor what the run is about.
LEMMA RearmsKeep ==
  ASSUME NEW e, DOMAIN e = EngineFields
  PROVE  LET x == rearm_frame_deadline(e) IN
         Keeps(e, x) /\ x.run = e.run /\ x.entropy = e.entropy
BY ArmsKeep DEF rearm_frame_deadline

\* Fields of the run.
LEMMA StepEdit ==
  ASSUME NEW e, DOMAIN e = EngineFields, DOMAIN e.run = RunFields, NEW step
  PROVE  OnRun(e, [e EXCEPT !.run.step = step], step, e.run.transcript, e.run.early)
<1> DEFINE x == [e EXCEPT !.run.step = step]
<1>1. Keeps(e, x) /\ x.entropy = e.entropy
  BY DEF Keeps, EngineFields
<1>2. x.run = [e.run EXCEPT !.step = step]
  BY DEF EngineFields
<1>3. /\ DOMAIN x.run = RunFields /\ x.run.step = step
      /\ x.run.purpose = e.run.purpose /\ x.run.role = e.run.role
      /\ x.run.previous = e.run.previous /\ x.run.local_hello = e.run.local_hello
      /\ x.run.commit = e.run.commit /\ x.run.transcript = e.run.transcript
      /\ x.run.early = e.run.early
  BY <1>2 DEF RunFields
<1> QED BY <1>1, <1>3 DEF OnRun

\* The transcript replaced.
LEMMA TranscriptEdit ==
  ASSUME NEW e, DOMAIN e = EngineFields, DOMAIN e.run = RunFields, NEW t
  PROVE  OnRun(e, [e EXCEPT !.run.transcript = t], e.run.step, t, e.run.early)
<1> DEFINE x == [e EXCEPT !.run.transcript = t]
<1>1. Keeps(e, x) /\ x.entropy = e.entropy
  BY DEF Keeps, EngineFields
<1>2. x.run = [e.run EXCEPT !.transcript = t]
  BY DEF EngineFields
<1>3. /\ DOMAIN x.run = RunFields /\ x.run.transcript = t
      /\ x.run.purpose = e.run.purpose /\ x.run.role = e.run.role
      /\ x.run.previous = e.run.previous /\ x.run.local_hello = e.run.local_hello
      /\ x.run.commit = e.run.commit /\ x.run.step = e.run.step
      /\ x.run.early = e.run.early
  BY <1>2 DEF RunFields
<1> QED BY <1>1, <1>3 DEF OnRun

\* The frame that came early replaced.
LEMMA EarlyEdit ==
  ASSUME NEW e, DOMAIN e = EngineFields, DOMAIN e.run = RunFields, NEW f
  PROVE  OnRun(e, [e EXCEPT !.run.early = f], e.run.step, e.run.transcript, f)
<1> DEFINE x == [e EXCEPT !.run.early = f]
<1>1. Keeps(e, x) /\ x.entropy = e.entropy
  BY DEF Keeps, EngineFields
<1>2. x.run = [e.run EXCEPT !.early = f]
  BY DEF EngineFields
<1>3. /\ DOMAIN x.run = RunFields /\ x.run.early = f
      /\ x.run.purpose = e.run.purpose /\ x.run.role = e.run.role
      /\ x.run.previous = e.run.previous /\ x.run.local_hello = e.run.local_hello
      /\ x.run.commit = e.run.commit /\ x.run.step = e.run.step
      /\ x.run.transcript = e.run.transcript
  BY <1>2 DEF RunFields
<1> QED BY <1>1, <1>3 DEF OnRun

\* One edit after another, and deadlines after edits.
LEMMA OnRunOn ==
  ASSUME NEW e, NEW x, NEW y, NEW s, NEW t, NEW a, OnRun(e, x, s, t, a)
  PROVE  /\ \A z, b, c : OnRun(x, y, z, b, c) => OnRun(e, y, z, b, c)
         /\ Keeps(x, y) /\ y.run = x.run /\ y.entropy = x.entropy => OnRun(e, y, s, t, a)
BY DEF OnRun, Keeps

\* The run advances to a later step, and the next frame is timed.
LEMMA Advances ==
  ASSUME NEW e, DOMAIN e = EngineFields, DOMAIN e.run = RunFields, NEW step
  PROVE  OnRun(e, rearm_frame_deadline([e EXCEPT !.run.step = step]), step,
               e.run.transcript, e.run.early)
<1> DEFINE x == [e EXCEPT !.run.step = step]
<1>1. OnRun(e, x, step, e.run.transcript, e.run.early)
  BY StepEdit
<1> HIDE DEF x
<1>2. DOMAIN x = EngineFields
  BY <1>1 DEF OnRun, Keeps
<1> DEFINE y == rearm_frame_deadline(x)
<1>3. Keeps(x, y) /\ y.run = x.run /\ y.entropy = x.entropy
  BY <1>2, RearmsKeep
<1> HIDE DEF y
<1>4. OnRun(e, y, step, e.run.transcript, e.run.early)
  BY <1>1, <1>3, OnRunOn
<1> QED BY <1>4 DEF x, y

\* A signature that verifies.
LEMMA SignatureAccepted ==
  ASSUME NEW e, DOMAIN e = EngineFields, DOMAIN e.run = RunFields, NEW f
  PROVE  /\ verify_auth(e, f, 0) =>
              LET r == step_AuthInit(e, f) IN
              /\ OnRun(e, r.e, "ConfirmInit", e.run.transcript, e.run.early)
              /\ r.out = <<HandshakePayload(1, e.run.transcript)>>
         /\ verify_auth(e, f, 1) =>
              LET r == step_AuthResp(e, f) IN
              /\ OnRun(e, r.e, "ConfirmResp", e.run.transcript, e.run.early)
              /\ r.out = <<SessionConfirmPayload(SessionKeys(e.run.transcript), "Initiator")>>
BY Advances DEF step_AuthInit, step_AuthResp, Result

\* after_approval.
LEMMA GoesOn ==
  ASSUME NEW e, DOMAIN e = EngineFields, DOMAIN e.run = RunFields
  PROVE  LET r == after_approval(e) IN
         /\ e.run.role = "Initiator" =>
              /\ OnRun(e, r.e, "AuthResp", e.run.transcript, e.run.early)
              /\ r.out = <<HandshakePayload(0, e.run.transcript)>>
         /\ e.run.role # "Initiator" /\ e.run.early = NoFrame =>
              OnRun(e, r.e, "AuthInit", e.run.transcript, NoFrame) /\ r.out = <<>>
         /\ /\ e.run.role # "Initiator" /\ e.run.early # NoFrame
            /\ e.run.early = HandshakePayload(0, e.run.transcript)
            => /\ OnRun(e, r.e, "ConfirmInit", e.run.transcript, NoFrame)
               /\ r.out = <<HandshakePayload(1, e.run.transcript)>>
<1> DEFINE r == after_approval(e)
<1>1. CASE e.run.role = "Initiator"
  <2> DEFINE y == rearm_frame_deadline([e EXCEPT !.run.step = "AuthResp"])
  <2>1. OnRun(e, y, "AuthResp", e.run.transcript, e.run.early)
    BY Advances
  <2>2. r = Result(y, <<HandshakePayload(0, e.run.transcript)>>, <<"none">>)
    BY <1>1 DEF after_approval
  <2> QED BY <1>1, <2>1, <2>2 DEF Result
<1>2. CASE e.run.role # "Initiator" /\ e.run.early = NoFrame
  <2> DEFINE y == rearm_frame_deadline([e EXCEPT !.run.step = "AuthInit"])
  <2>1. OnRun(e, y, "AuthInit", e.run.transcript, e.run.early)
    BY Advances
  <2>2. r = Result(y, <<>>, <<"none">>)
    BY <1>2 DEF after_approval
  <2> QED BY <1>2, <2>1, <2>2 DEF Result
<1>3. CASE /\ e.run.role # "Initiator" /\ e.run.early # NoFrame
           /\ e.run.early = HandshakePayload(0, e.run.transcript)
  <2> DEFINE x == [e EXCEPT !.run.step = "AuthInit"]
             y == [x EXCEPT !.run.early = NoFrame]
             s == step_AuthInit(y, e.run.early)
  <2>1. r = s
    BY <1>3 DEF after_approval
  <2>2. OnRun(e, x, "AuthInit", e.run.transcript, e.run.early)
    BY StepEdit
  <2> HIDE DEF x
  <2>3. DOMAIN x = EngineFields /\ DOMAIN x.run = RunFields
        /\ x.run.step = "AuthInit" /\ x.run.transcript = e.run.transcript
    BY <2>2 DEF OnRun, Keeps
  <2>4. OnRun(x, y, "AuthInit", e.run.transcript, NoFrame)
    BY <2>3, EarlyEdit
  <2> HIDE DEF y
  <2>5. OnRun(e, y, "AuthInit", e.run.transcript, NoFrame)
    BY <2>2, <2>4, OnRunOn
  <2>6. DOMAIN y = EngineFields /\ DOMAIN y.run = RunFields
        /\ y.run.transcript = e.run.transcript /\ y.run.early = NoFrame
    BY <2>5 DEF OnRun, Keeps
  <2>7. verify_auth(y, e.run.early, 0)
    BY <1>3, <2>6 DEF verify_auth, Decodes, HandshakePayload
  <2>8. /\ OnRun(y, s.e, "ConfirmInit", e.run.transcript, NoFrame)
        /\ s.out = <<HandshakePayload(1, e.run.transcript)>>
    BY <2>6, <2>7, SignatureAccepted
  <2> HIDE DEF s
  <2>9. OnRun(e, s.e, "ConfirmInit", e.run.transcript, NoFrame)
    BY <2>5, <2>8, OnRunOn
  <2> QED BY <1>3, <2>1, <2>8, <2>9
<1> QED BY <1>1, <1>2, <1>3

\* after_hellos: the user is asked, or the run of a rekey goes on.
Yields(e, r, step, transcript, early, out) ==
    OnRun(e, r.e, step, transcript, early) /\ r.out = out

\* Both HELLOs known in the initial handshake: the user is asked.
LEMMA HelloAsks ==
  ASSUME NEW e, DOMAIN e = EngineFields, DOMAIN e.run = RunFields, NEW t, NEW out,
         e.run.purpose = "Initial"
  PROVE  Yields(e, after_hellos(e, t, out), "Sas", t, e.run.early, out)
<1> DEFINE known == [e EXCEPT !.run.transcript = t]
           got == after_hellos(e, t, out)
           x == [known EXCEPT !.run.step = "Sas"]
           y == cancel(x, {"HandshakeFrame"})
           z == arm(y, "SasDecision")
<1>1. OnRun(e, known, e.run.step, t, e.run.early)
  BY TranscriptEdit
<1>2. got = Result(z, out, <<"RequestSas">>)
  BY DEF after_hellos
<1> HIDE DEF known, got
<1>3. DOMAIN known = EngineFields /\ DOMAIN known.run = RunFields
      /\ known.run.transcript = t /\ known.run.early = e.run.early
  BY <1>1 DEF OnRun, Keeps
<1>4. OnRun(known, x, "Sas", t, e.run.early)
  BY <1>3, StepEdit
<1> HIDE DEF x
<1>5. OnRun(e, x, "Sas", t, e.run.early) /\ DOMAIN x = EngineFields
  BY <1>1, <1>4, OnRunOn DEF OnRun, Keeps
<1>6. Keeps(x, y) /\ y.run = x.run /\ y.entropy = x.entropy
  BY <1>5, ArmsKeep
<1> HIDE DEF y
<1>7. OnRun(e, y, "Sas", t, e.run.early) /\ DOMAIN y = EngineFields
  BY <1>5, <1>6, OnRunOn DEF Keeps
<1>8. Keeps(y, z) /\ z.run = y.run /\ z.entropy = y.entropy
  BY <1>7, ArmsKeep
<1> HIDE DEF z
<1>9. OnRun(e, z, "Sas", t, e.run.early)
  BY <1>7, <1>8, OnRunOn
<1> QED BY <1>2, <1>9 DEF Result, got, Yields

\* Both HELLOs known in a rekey: no user is asked, and the initiator authenticates at once.
LEMMA HelloGoesOn ==
  ASSUME NEW e, DOMAIN e = EngineFields, DOMAIN e.run = RunFields, NEW t, NEW out,
         e.run.purpose # "Initial"
  PROVE  /\ e.run.role = "Initiator" =>
              Yields(e, after_hellos(e, t, out), "AuthResp", t, e.run.early,
                     out \o <<HandshakePayload(0, t)>>)
         /\ e.run.role # "Initiator" /\ e.run.early = NoFrame =>
              Yields(e, after_hellos(e, t, out), "AuthInit", t, NoFrame, out \o <<>>)
<1> DEFINE known == [e EXCEPT !.run.transcript = t]
           got == after_hellos(e, t, out)
           s == after_approval(known)
<1>1. OnRun(e, known, e.run.step, t, e.run.early)
  BY TranscriptEdit
<1>2. got = [s EXCEPT !.out = out \o @]
  BY DEF after_hellos
<1>3. DOMAIN s = {"e", "out", "event", "deliver"}
  BY DEF after_approval, step_AuthInit, Fail, fail_initial, fail_rekey, terminate, Result
<1> HIDE DEF known, got
<1>4. /\ DOMAIN known = EngineFields /\ DOMAIN known.run = RunFields
      /\ known.run.role = e.run.role /\ known.run.transcript = t
      /\ known.run.early = e.run.early
  BY <1>1 DEF OnRun, Keeps
<1>5. /\ e.run.role = "Initiator" =>
            /\ OnRun(known, s.e, "AuthResp", t, e.run.early)
            /\ s.out = <<HandshakePayload(0, t)>>
      /\ e.run.role # "Initiator" /\ e.run.early = NoFrame =>
            OnRun(known, s.e, "AuthInit", t, NoFrame) /\ s.out = <<>>
  BY <1>4, GoesOn
<1> HIDE DEF s
<1>6. got.e = s.e /\ got.out = out \o s.out
  BY <1>2, <1>3
<1>7. ASSUME NEW step, NEW early, OnRun(known, s.e, step, t, early)
      PROVE  OnRun(e, got.e, step, t, early)
  BY <1>1, <1>6, <1>7 DEF OnRun, Keeps
<1>8. ASSUME e.run.role = "Initiator"
      PROVE  Yields(e, got, "AuthResp", t, e.run.early, out \o <<HandshakePayload(0, t)>>)
  BY <1>5, <1>6, <1>7, <1>8 DEF Yields
<1>9. ASSUME e.run.role # "Initiator", e.run.early = NoFrame
      PROVE  Yields(e, got, "AuthInit", t, NoFrame, out \o <<>>)
  BY <1>5, <1>6, <1>7, <1>9 DEF Yields
<1> QED BY <1>8, <1>9 DEF got

-----------------------------------------------------------------------------
(* Which handler a frame of a run reaches, and what it makes of it.        *)

\* A frame of the purpose that e's phase asks for.
Suits(e, f) ==
    /\ f.kind \in {"COMMIT", "HELLO", "AUTH", "CONFIRM"}
    /\ f.kind # "CONFIRM" =>
          f.purpose = IF e.phase = "Established" THEN "Rekey" ELSE "Initial"

\* A frame of the run of e is talk, and its type is the one that phase expects.
LEMMA KindOf ==
  ASSUME NEW e, NEW f, Suits(e, f)
  PROVE  /\ Talk(f)
         /\ e.phase # "Established" =>
              MessageType(f) = IF f.kind = "CONFIRM" THEN "SessionConfirm" ELSE "Handshake"
         /\ e.phase = "Established" =>
              MessageType(f) = IF f.kind = "CONFIRM" THEN "SessionConfirm" ELSE "Rekey"
BY DEF Suits, Talk, MessageType

\* on_frame gives it to step_run, but for a COMMIT that meets a COMMIT.
LEMMA FrameOfRun ==
  ASSUME NEW e, HasRun(e), NEW f, Suits(e, f), f.kind # "COMMIT"
  PROVE  on_frame(e, f) = step_run(e, f)
<1>1. e.run # NoRun
  BY DEF HasRun, NoRun, RunFields, Steps, AskedSteps
<1>2. CASE e.phase = "Handshaking"
  <2>1. MessageType(f) # "Close"
    BY <1>2, KindOf
  <2> QED BY <1>1, <1>2, <2>1 DEF on_frame
<1>3. CASE e.phase = "Established"
  <2>1. MessageType(f) \in {"Rekey", "SessionConfirm"}
    BY <1>3, KindOf
  <2>2. on_frame(e, f) = on_rekey_frame(e, f)
    BY <1>3, <2>1 DEF on_frame
  <2> QED BY <1>1, <2>2 DEF on_rekey_frame, Decodes
<1> QED BY <1>2, <1>3 DEF HasRun

\* step_run dispatches on the step.
LEMMA StepOfRun ==
  ASSUME NEW e, NEW f
  PROVE  /\ e.run.step = "Hello" => step_run(e, f) = step_Hello(e, f)
         /\ e.run.step = "Reveal" => step_run(e, f) = step_Reveal(e, f)
         /\ e.run.step = "Sas" => step_run(e, f) = step_Sas(e, f)
         /\ e.run.step = "AuthResp" => step_run(e, f) = step_AuthResp(e, f)
         /\ e.run.step = "AuthInit" => step_run(e, f) = step_AuthInit(e, f)
         /\ e.run.step = "ConfirmResp" => step_run(e, f) = step_ConfirmResp(e, f)
         /\ e.run.step = "ConfirmInit" => step_run(e, f) = step_ConfirmInit(e, f)
BY DEF step_run

\* Complete: the session of the run replaces the one before.
LEMMA CompleteParts ==
  ASSUME NEW e, DOMAIN e = EngineFields, HasRun(e), NEW out,
         e.phase = "Established" =>
            e.active.peer = remote_identity(e.run) /\ e.active.id # SessionKeys(e.run.transcript)
  PROVE  LET r == Complete(e, out) IN Promoted(e, r.e) /\ r.out = out
<1> DEFINE id == SessionKeys(e.run.transcript)
           peer == remote_identity(e.run)
<1>1. CASE e.phase = "Handshaking"
  <2> HIDE DEF id, peer
  <2> DEFINE x == [e EXCEPT !.active = Session(id, e.run.role, peer),
                            !.run = NoRun, !.phase = "Established",
                            !.messages = 0, !.late_rekey_frames = 0,
                            !.consecutive_rekey_rejections = 0]
             y == cancel(x, {"HandshakeFrame", "SasDecision", "HandshakeTotal"})
             z == arm(y, "RekeyDue")
  <2>1. Complete(e, out) = Result(z, out, <<"Established">>)
    BY <1>1 DEF Complete, complete_initial, id, peer
  <2>2. /\ DOMAIN x = EngineFields /\ x.identity = e.identity /\ x.role = e.role
        /\ x.entropy = e.entropy /\ x.phase = "Established" /\ x.run = NoRun
        /\ x.active = Session(id, e.run.role, peer) /\ x.draining = e.draining
        /\ x.rekey_blocked = e.rekey_blocked /\ x.late_rekey_frames = 0
    BY DEF EngineFields
  <2> HIDE DEF x
  <2>3. Keeps(x, y) /\ y.run = x.run /\ y.entropy = x.entropy
    BY <2>2, ArmsKeep
  <2> HIDE DEF y
  <2>4. Keeps(y, z) /\ z.run = y.run /\ z.entropy = y.entropy
    BY <2>3, ArmsKeep DEF Keeps
  <2> HIDE DEF z
  <2>5. Promoted(e, z)
    BY <1>1, <2>2, <2>3, <2>4 DEF Keeps, Promoted, id, peer
  <2> QED BY <2>1, <2>5 DEF Result
<1>2. CASE e.phase = "Established"
  <2>1. peer = e.active.peer /\ e.active.id # id
    BY <1>2
  <2> HIDE DEF id, peer
  <2> DEFINE x == [e EXCEPT !.draining = e.active,
                            !.active = Session(id, e.run.role, e.active.peer),
                            !.run = NoRun, !.messages = 0,
                            !.rekey_blocked = FALSE,
                            !.late_rekey_frames = 0,
                            !.consecutive_rekey_rejections = 0]
             y == cancel(x, {"HandshakeFrame", "HandshakeTotal"})
             z == arm(y, "Drain")
             t == arm(z, "RekeyDue")
  <2>2. Complete(e, out) = Result(t, out, <<"RekeyCompleted">>)
    BY <1>2, <2>1 DEF Complete, complete_rekey, id, peer
  <2>3. /\ DOMAIN x = EngineFields /\ x.identity = e.identity /\ x.role = e.role
        /\ x.entropy = e.entropy /\ x.phase = "Established" /\ x.run = NoRun
        /\ x.active = Session(id, e.run.role, peer) /\ x.draining = e.active
        /\ x.rekey_blocked = FALSE /\ x.late_rekey_frames = 0
    BY <1>2, <2>1 DEF EngineFields
  <2> HIDE DEF x
  <2>4. Keeps(x, y) /\ y.run = x.run /\ y.entropy = x.entropy
    BY <2>3, ArmsKeep
  <2> HIDE DEF y
  <2>5. Keeps(y, z) /\ z.run = y.run /\ z.entropy = y.entropy
    BY <2>4, ArmsKeep DEF Keeps
  <2> HIDE DEF z
  <2>6. Keeps(z, t) /\ t.run = z.run /\ t.entropy = z.entropy
    BY <2>5, ArmsKeep DEF Keeps
  <2> HIDE DEF t
  <2>7. Promoted(e, t)
    BY <1>2, <2>3, <2>4, <2>5, <2>6 DEF Keeps, Promoted, id, peer
  <2> QED BY <2>2, <2>7 DEF Result
<1> QED BY <1>1, <1>2 DEF HasRun

\* start_responder_run.
LEMMA RunAnswered ==
  ASSUME NEW e, DOMAIN e = EngineFields, NEW commit, NEW emit
  PROVE  LET r == start_responder_run(e, commit, emit)
             run == Run(e, commit.purpose, "Responder", commit.previous, commit, "Reveal")
         IN  Ran(e, r.e, run) /\ r.out = <<run.local_hello>>
<1> DEFINE run == Run(e, commit.purpose, "Responder", commit.previous, commit, "Reveal")
           x == WithRun(e, run)
           y == IF commit.purpose = "Rekey" THEN arm(x, "HandshakeTotal") ELSE x
           z == rearm_frame_deadline(y)
           r == start_responder_run(e, commit, emit)
<1>1. r.e = z /\ r.out = <<x.run.local_hello>>
  BY DEF start_responder_run, Result
<1> HIDE DEF run, r
<1>2. Ran(e, x, run) /\ x.run = run
  BY DEF WithRun, Ran, Keeps, EngineFields
<1> HIDE DEF x
<1>3. Keeps(x, y) /\ y.run = x.run /\ y.entropy = x.entropy
  BY <1>2, ArmsKeep DEF Ran, Keeps
<1> HIDE DEF y
<1>4. Keeps(y, z) /\ z.run = y.run /\ z.entropy = y.entropy
  BY <1>3, RearmsKeep DEF Keeps
<1> HIDE DEF z
<1>5. Ran(e, z, run)
  BY <1>2, <1>3, <1>4 DEF Ran, Keeps
<1> QED BY <1>1, <1>2, <1>5 DEF run, r

\* begin_rekey.
LEMMA RunBegun ==
  ASSUME NEW e, DOMAIN e = EngineFields, e.phase = "Established", e.run = NoRun
  PROVE  LET r == begin_rekey(e) IN
         /\ Ran(e, r.e, Run(e, "Rekey", "Initiator", e.active.id, NoFrame, "Hello"))
         /\ r.out = <<Commit(r.e)>>
<1> DEFINE run == Run(e, "Rekey", "Initiator", e.active.id, NoFrame, "Hello")
           x == WithRun(e, run)
           y == arm(x, "HandshakeTotal")
           z == rearm_frame_deadline(y)
           r == begin_rekey(e)
<1>1. r.e = z /\ r.out = <<CommitPayload(x.run.local_hello)>>
  BY DEF begin_rekey, start_initiator_run, Result
<1> HIDE DEF run, r
<1>2. Ran(e, x, run) /\ x.run = run
  BY DEF WithRun, Ran, Keeps, EngineFields
<1> HIDE DEF x
<1>3. Keeps(x, y) /\ y.run = x.run /\ y.entropy = x.entropy
  BY <1>2, ArmsKeep DEF Ran, Keeps
<1> HIDE DEF y
<1>4. Keeps(y, z) /\ z.run = y.run /\ z.entropy = y.entropy
  BY <1>3, RearmsKeep DEF Keeps
<1> HIDE DEF z
<1>5. Ran(e, z, run) /\ z.run = x.run
  BY <1>2, <1>3, <1>4 DEF Ran, Keeps
<1> QED BY <1>1, <1>5 DEF run, r, Commit

\* start.
LEMMA RunStarted ==
  ASSUME NEW e, DOMAIN e = EngineFields, e.phase = "Idle"
  PROVE  LET r == start(e)
             x == r.e IN
         /\ DOMAIN x = EngineFields /\ x.identity = e.identity /\ x.role = e.role
         /\ x.phase = "Handshaking" /\ x.rekey_blocked = e.rekey_blocked
         /\ e.role = "Initiator" =>
               /\ x.run = Run(e, "Initial", "Initiator", NoId, NoFrame, "Hello")
               /\ r.out = <<Commit(x)>>
         /\ e.role # "Initiator" => x.run = e.run /\ r.out = <<>>
<1> DEFINE o == [e EXCEPT !.phase = "Handshaking"]
           timed == arm(o, "HandshakeTotal")
           run == Run(timed, "Initial", "Initiator", NoId, NoFrame, "Hello")
           begun == WithRun(timed, run)
<1>1. /\ DOMAIN o = EngineFields /\ o.identity = e.identity /\ o.role = e.role
      /\ o.phase = "Handshaking" /\ o.rekey_blocked = e.rekey_blocked /\ o.run = e.run
      /\ o.entropy = e.entropy
  BY DEF EngineFields
<1>2. start(e) = IF e.role = "Initiator"
                 THEN Result(rearm_frame_deadline(begun),
                             <<CommitPayload(begun.run.local_hello)>>, <<"none">>)
                 ELSE Result(arm(timed, "HandshakeFrame"), <<>>, <<"none">>)
  BY DEF start, start_initiator_run
<1> HIDE DEF o
<1>3. Keeps(o, timed) /\ timed.run = o.run /\ timed.entropy = o.entropy
  BY <1>1, ArmsKeep
<1> HIDE DEF timed
<1>4. run = Run(e, "Initial", "Initiator", NoId, NoFrame, "Hello")
  BY <1>1, <1>3 DEF Run, fresh_keys, Keeps
<1> HIDE DEF run
<1>5. Ran(timed, begun, run)
  BY <1>3 DEF WithRun, Ran, Keeps, EngineFields
<1> HIDE DEF begun
<1>6. CASE e.role = "Initiator"
  <2> DEFINE z == rearm_frame_deadline(begun)
  <2>1. Keeps(begun, z) /\ z.run = begun.run
    BY <1>5, RearmsKeep DEF Ran, Keeps
  <2>2. start(e).e = z /\ start(e).out = <<CommitPayload(begun.run.local_hello)>>
    BY <1>2, <1>6 DEF Result
  <2> HIDE DEF z
  <2> QED BY <1>1, <1>3, <1>4, <1>5, <1>6, <2>1, <2>2 DEF Keeps, Ran, Commit
<1>7. CASE e.role # "Initiator"
  <2> DEFINE z == arm(timed, "HandshakeFrame")
  <2>1. Keeps(timed, z) /\ z.run = timed.run
    BY <1>3, ArmsKeep DEF Keeps
  <2>2. start(e).e = z /\ start(e).out = <<>>
    BY <1>2, <1>7 DEF Result
  <2> HIDE DEF z
  <2> QED BY <1>1, <1>3, <1>7, <2>1, <2>2 DEF Keeps
<1> QED BY <1>6, <1>7

-----------------------------------------------------------------------------
(* A frame of the dialogue is heard: i is the engine that called, r the    *)
(* one that answers; v is what is left for the listener, w what the other  *)
(* has then to read.                                                       *)

\* The run of an engine that is fit: of the purpose its phase has, about the session it replaces.
LEMMA RunParts ==
  ASSUME NEW e, NEW p, Fit(e, p)
  PROVE  /\ DOMAIN e = EngineFields
         /\ e.run = NoRun => e.run.step = "None"
         /\ e.run.step # "None" =>
               /\ HasRun(e) /\ e.run # NoRun /\ DOMAIN e.run = RunFields
               /\ e.run.purpose = IF e.phase = "Established" THEN "Rekey" ELSE "Initial"
               /\ e.phase = "Established" => e.run.previous = e.active.id
               /\ e.phase \in {"Handshaking", "Established"}
               /\ e.run.local_hello =
                     HelloPayload(e.run.purpose, e.run.role, e.identity,
                                  <<e.identity, e.entropy - 1>>, e.run.previous)
<1>1. NoRun.step = "None"
  BY DEF NoRun
<1> QED BY <1>1 DEF Fit, EngineOK, Held, Sound, RunSane, HasRun

\* The HELLO of such a run, and the frames that suit it.
LEMMA HelloParts ==
  ASSUME NEW e, NEW p, Fit(e, p), e.run.step # "None"
  PROVE  LET h == e.run.local_hello IN
         /\ Decodes(h, "HELLO") /\ h.kind = "HELLO" /\ h.purpose = e.run.purpose
         /\ h.role = e.run.role /\ h.identity = e.identity /\ h.previous = e.run.previous
         /\ h.ephemeral = <<e.identity, e.entropy - 1>>
         /\ Suits(e, h)
         /\ \A t : t.initiator = h => Suits(e, HandshakePayload(0, t)) /\ Suits(e, HandshakePayload(1, t))
         /\ \A id, role : Suits(e, SessionConfirmPayload(id, role))
<1> DEFINE h == e.run.local_hello
<1>1. /\ h = HelloPayload(e.run.purpose, e.run.role, e.identity,
                          <<e.identity, e.entropy - 1>>, e.run.previous)
      /\ e.run.purpose = IF e.phase = "Established" THEN "Rekey" ELSE "Initial"
  BY RunParts
<1>2. /\ Decodes(h, "HELLO") /\ h.kind = "HELLO" /\ h.purpose = e.run.purpose
      /\ h.role = e.run.role /\ h.identity = e.identity /\ h.previous = e.run.previous
      /\ h.ephemeral = <<e.identity, e.entropy - 1>>
  BY <1>1 DEF HelloPayload, Decodes
<1> HIDE DEF h
<1>3. \A t : t.initiator = h =>
        Suits(e, HandshakePayload(0, t)) /\ Suits(e, HandshakePayload(1, t))
  BY <1>1, <1>2 DEF HandshakePayload, Suits
<1>4. \A id, role : Suits(e, SessionConfirmPayload(id, role))
  BY DEF SessionConfirmPayload, Suits
<1>5. Suits(e, h)
  BY <1>1, <1>2 DEF Suits
<1> QED BY <1>2, <1>3, <1>4, <1>5 DEF h

\* Each takes the HELLO of the other's run.
LEMMA HelloTaken ==
  ASSUME NEW e, NEW p, Fit(e, p), Fit(p, e), Footing(e, p),
         e.run.step # "None", p.run.step # "None", NEW role, p.run.role = role
  PROVE  HelloError(e, p.run.local_hello, role) = "none" /\ Suits(e, p.run.local_hello)
<1> DEFINE h == p.run.local_hello
           g == e.run.local_hello
<1>1. /\ Decodes(h, "HELLO") /\ h.kind = "HELLO" /\ h.purpose = p.run.purpose
      /\ h.role = role /\ h.identity = p.identity /\ h.previous = p.run.previous
      /\ h.ephemeral = <<p.identity, p.entropy - 1>>
  BY HelloParts
<1>2. /\ g.identity = e.identity /\ g.ephemeral = <<e.identity, e.entropy - 1>>
  BY HelloParts
<1>3. /\ p.run.purpose = e.run.purpose /\ p.run.previous = e.run.previous
      /\ e.run.purpose = IF e.phase = "Established" THEN "Rekey" ELSE "Initial"
      /\ e.run.purpose = "Rekey" => e.active.peer = p.identity
  BY RunParts DEF Footing, Level
<1>4. e.identity # p.identity
  BY DEF Fit
<1> HIDE DEF h, g
<1>5. h.ephemeral # g.ephemeral
  <2>1. h.ephemeral[1] = p.identity /\ g.ephemeral[1] = e.identity
    BY <1>1, <1>2
  <2> QED BY <1>4, <2>1
<1>6. HelloError(e, h, role) = "none"
  BY <1>1, <1>2, <1>3, <1>4, <1>5 DEF HelloError, g
<1>7. Suits(e, h)
  BY <1>1, <1>3 DEF Suits
<1> QED BY <1>6, <1>7 DEF h

\* A run goes on: Met holds of the next steps too.
LEMMA MetOn ==
  ASSUME NEW i, NEW r, Met(i, r), NEW x, NEW s, NEW t, NEW a
  PROVE  /\ OnRun(i, x, s, t, a) =>
               /\ Met(x, r) /\ Commit(x) = Commit(i) /\ Deal(x, r) = Deal(i, r)
               /\ \A k : Auth(k, x, r) = Auth(k, i, r)
               /\ \A k : Confirm(k, x, r) = Confirm(k, i, r)
         /\ OnRun(r, x, s, t, a) =>
               /\ Met(i, x) /\ Deal(i, x) = Deal(i, r)
               /\ \A k : Auth(k, i, x) = Auth(k, i, r)
               /\ \A k : Confirm(k, i, x) = Confirm(k, i, r)
<1>1. /\ OnRun(i, x, s, t, a) => Commit(x) = Commit(i) /\ Deal(x, r) = Deal(i, r)
      /\ OnRun(r, x, s, t, a) => Deal(i, x) = Deal(i, r)
  BY DEF OnRun, Commit, Deal
<1>2. /\ OnRun(i, x, s, t, a) => Met(x, r)
      /\ OnRun(r, x, s, t, a) => Met(i, x)
  BY <1>1 DEF Met, Footing, Level, OnRun, Keeps
<1>3. /\ OnRun(i, x, s, t, a) => \A k : /\ Auth(k, x, r) = Auth(k, i, r)
                                        /\ Confirm(k, x, r) = Confirm(k, i, r)
      /\ OnRun(r, x, s, t, a) => \A k : /\ Auth(k, i, x) = Auth(k, i, r)
                                        /\ Confirm(k, i, x) = Confirm(k, i, r)
  BY <1>1 DEF Auth, Confirm
<1> QED BY <1>1, <1>2, <1>3

\* i hears the HELLO of r.
LEMMA HearsHello ==
  ASSUME NEW i, NEW r, NEW qi, NEW qr, Fit(i, r), Fit(r, i),
         Answered(i, r, qi, qr), Says(qi, r.run.local_hello),
         NEW v, Hears(qi, r.run.local_hello, v), IsSequence(qr)
  PROVE  LET s == on_frame(i, r.run.local_hello) IN
         Revealed(s.e, r, v, qr \o s.out) /\ s.e.rekey_blocked = i.rekey_blocked
<1> DEFINE h == r.run.local_hello
           g == i.run.local_hello
           t == Transcript(g, h)
           s == on_frame(i, h)
           A0 == HandshakePayload(0, t)
<1>1. /\ i.run.step = "Hello" /\ r.run.step = "Reveal" /\ Met(i, r) /\ r.run.early = NoFrame
      /\ Silent(qr) /\ Footing(i, r) /\ i.run.role = "Initiator" /\ r.run.role = "Responder"
  BY DEF Answered, Met
<1>2. HelloError(i, h, "Responder") = "none" /\ Suits(i, h)
  BY <1>1, HelloTaken
<1>3. /\ HasRun(i) /\ DOMAIN i = EngineFields /\ DOMAIN i.run = RunFields
      /\ i.phase \in {"Handshaking", "Established"}
      /\ i.phase = "Handshaking" => i.run.purpose = "Initial"
      /\ i.phase = "Established" => i.run.purpose # "Initial"
      /\ h.kind = "HELLO" /\ g.kind = "HELLO"
  <2>1. i.run.step # "None" /\ r.run.step # "None"
    BY <1>1
  <2>2. h.kind = "HELLO" /\ g.kind = "HELLO"
    BY <2>1, HelloParts
  <2> QED BY <2>1, <2>2, RunParts
<1>4. Silent(v)
  BY DEF Hears
<1>5. t = Deal(i, r) /\ A0 = Auth(0, i, r)
  BY DEF Deal, Auth
<1>6. s = after_hellos(i, t, <<g>>)
  <2>1. s = step_run(i, h)
    BY <1>2, <1>3, FrameOfRun
  <2> QED BY <1>1, <1>2, <2>1, StepOfRun DEF step_Hello
<1>7. IsSequence(<<g>>) /\ Talk(g) /\ Talk(A0)
  BY <1>3, OneSent DEF Talk, HandshakePayload
<1> HIDE DEF h, t, A0, s
<1>8. CASE i.phase = "Handshaking"
  <2>1. OnRun(i, s.e, "Sas", t, i.run.early) /\ s.out = <<g>>
    <3>1. i.run.purpose = "Initial"
      BY <1>3, <1>8
    <3> HIDE DEF g
    <3>2. Yields(i, after_hellos(i, t, <<g>>), "Sas", t, i.run.early, <<g>>)
      BY <1>3, <3>1, HelloAsks
    <3> QED BY <1>6, <3>2 DEF Yields
  <2>2. Adds(qr, qr \o <<g>>, g)
    BY <1>7, Spoken
  <2> HIDE DEF g
  <2>3. Says(qr \o s.out, g)
    BY <1>1, <2>1, <2>2 DEF Adds
  <2>4. Met(s.e, r) /\ Deal(s.e, r) = t
    BY <1>1, <1>5, <2>1, MetOn
  <2>5. s.e.run.step = "Sas" /\ s.e.run.local_hello = g /\ s.e.phase = "Handshaking"
        /\ s.e.run.transcript = t /\ s.e.rekey_blocked = i.rekey_blocked
    BY <1>8, <2>1 DEF OnRun, Keeps, g
  <2>6. Revealed(s.e, r, v, qr \o s.out)
    BY <1>1, <1>4, <2>3, <2>4, <2>5 DEF Revealed
  <2> QED BY <2>5, <2>6 DEF s, h
<1>9. CASE i.phase = "Established"
  <2>1. OnRun(i, s.e, "AuthResp", t, i.run.early) /\ s.out = <<g>> \o <<A0>>
    <3>1. i.run.purpose # "Initial"
      BY <1>3, <1>9
    <3> HIDE DEF g
    <3>2. Yields(i, after_hellos(i, t, <<g>>), "AuthResp", t, i.run.early, <<g>> \o <<A0>>)
      BY <1>1, <1>3, <3>1, HelloGoesOn DEF A0
    <3> QED BY <1>6, <3>2 DEF Yields
  <2> HIDE DEF g
  <2>2. SaysBoth(qr \o (<<g>> \o <<A0>>), g, A0)
    BY <1>1, <1>7, SpokenBoth
  <2>3. SaysBoth(qr \o s.out, g, A0)
    BY <2>1, <2>2
  <2>4. Met(s.e, r) /\ Deal(s.e, r) = t /\ Auth(0, s.e, r) = A0
    BY <1>1, <1>5, <2>1, MetOn
  <2>5. s.e.run.step = "AuthResp" /\ s.e.run.local_hello = g
        /\ s.e.run.transcript = t /\ s.e.rekey_blocked = i.rekey_blocked
    BY <2>1 DEF OnRun, Keeps, g
  <2>6. Revealed(s.e, r, v, qr \o s.out)
    BY <1>1, <1>4, <2>3, <2>4, <2>5 DEF Revealed
  <2> QED BY <2>5, <2>6 DEF s, h
<1> QED BY <1>3, <1>8, <1>9 DEF s, h

\* r hears the HELLO of i, which opens the COMMIT it has.
LEMMA HearsReveal ==
  ASSUME NEW i, NEW r, NEW qi, NEW qr, Fit(i, r), Fit(r, i), Revealed(i, r, qi, qr),
         NEW v, Hears(qr, i.run.local_hello, v), IsSequence(qi)
  PROVE  LET s == on_frame(r, i.run.local_hello) IN
         Signing(i, s.e, qi \o s.out, v) /\ s.e.rekey_blocked = r.rekey_blocked
<1> DEFINE h == i.run.local_hello
           t == Transcript(h, r.run.local_hello)
           s == on_frame(r, h)
           w == qi \o s.out
<1>1. /\ i.run.step \in {"Sas", "AuthResp"} /\ r.run.step = "Reveal" /\ Met(i, r)
      /\ r.run.early = NoFrame /\ Silent(qi) /\ Footing(i, r) /\ Footing(r, i)
      /\ i.run.role = "Initiator" /\ r.run.role = "Responder"
      /\ r.run.commit = Commit(i) /\ i.run.transcript = Deal(i, r)
      /\ i.run.step = "Sas" => i.phase = "Handshaking"
      /\ i.phase = r.phase
  BY DEF Revealed, Met, Footing, Level
<1>2. HelloError(r, h, "Initiator") = "none" /\ Suits(r, h)
  BY <1>1, HelloTaken
<1>3. /\ HasRun(r) /\ DOMAIN r = EngineFields /\ DOMAIN r.run = RunFields
      /\ r.phase \in {"Handshaking", "Established"}
      /\ r.phase = "Handshaking" => r.run.purpose = "Initial"
      /\ r.phase = "Established" => r.run.purpose # "Initial"
      /\ h.kind = "HELLO"
  <2>1. i.run.step # "None" /\ r.run.step # "None"
    BY <1>1
  <2>2. h.kind = "HELLO"
    BY <2>1, HelloParts
  <2> QED BY <2>1, <2>2, RunParts
<1>4. /\ i.run.step = "Sas" => Silent(v)
      /\ i.run.step = "AuthResp" => Says(v, Auth(0, i, r))
  BY DEF Revealed, Hears
<1>5. t = Deal(i, r)
  BY DEF Deal
<1>6. s = after_hellos(r, t, <<>>)
  <2>1. s = step_run(r, h)
    BY <1>2, <1>3, FrameOfRun
  <2>2. r.run.commit.commitment = h
    BY <1>1 DEF Commit, CommitPayload
  <2> QED BY <1>1, <1>2, <2>1, <2>2, StepOfRun DEF step_Reveal
<1> HIDE DEF h, t, s
<1>7. \E step \in {"Sas", "AuthInit"} :
         /\ OnRun(r, s.e, step, t, NoFrame) /\ s.out = <<>>
         /\ step = "Sas" => r.phase = "Handshaking"
  <2>1. CASE r.phase = "Handshaking"
    <3>1. OnRun(r, s.e, "Sas", t, r.run.early) /\ s.out = <<>>
      <4>1. r.run.purpose = "Initial"
        BY <1>3, <2>1
      <4>2. Yields(r, after_hellos(r, t, <<>>), "Sas", t, r.run.early, <<>>)
        BY <1>3, <4>1, HelloAsks
      <4> QED BY <1>6, <4>2 DEF Yields
    <3> QED BY <1>1, <2>1, <3>1
  <2>2. CASE r.phase = "Established"
    <3>1. OnRun(r, s.e, "AuthInit", t, NoFrame) /\ s.out = <<>> \o <<>>
      <4>1. r.run.purpose # "Initial" /\ r.run.role # "Initiator"
        BY <1>1, <1>3, <2>2
      <4>2. Yields(r, after_hellos(r, t, <<>>), "AuthInit", t, NoFrame, <<>> \o <<>>)
        BY <1>1, <1>3, <4>1, HelloGoesOn
      <4> QED BY <1>6, <4>2 DEF Yields
    <3>2. <<>> \o <<>> = <<>>
      OBVIOUS
    <3>3. "AuthInit" # "Sas"
      OBVIOUS
    <3> QED BY <3>1, <3>2, <3>3
  <2> QED BY <1>3, <2>1, <2>2
<1>8. PICK step \in {"Sas", "AuthInit"} :
         /\ OnRun(r, s.e, step, t, NoFrame) /\ s.out = <<>>
         /\ step = "Sas" => r.phase = "Handshaking"
  BY <1>7
<1>9. Met(i, s.e) /\ Deal(i, s.e) = t /\ Auth(0, i, s.e) = Auth(0, i, r)
  BY <1>1, <1>5, <1>8, MetOn
<1>10. s.e.run.step = step /\ s.e.run.transcript = t /\ s.e.run.early = NoFrame
       /\ s.e.rekey_blocked = r.rekey_blocked
  BY <1>8 DEF OnRun, Keeps
<1>11. Silent(w)
  <2>1. \A k \in 1..Len(s.out) : ~Talk(s.out[k])
    BY <1>8
  <2>2. IsSequence(s.out)
    BY <1>8, NoneSent
  <2> QED BY <1>1, <2>1, <2>2, HushMore DEF Hushed
<1> HIDE DEF w
<1>12. Signing(i, s.e, w, v)
  BY <1>1, <1>4, <1>5, <1>8, <1>9, <1>10, <1>11 DEF Signing
<1> QED BY <1>10, <1>12 DEF s, h, w

\* The frames of the run that each may have to read suit it.
LEMMA WordsSuit ==
  ASSUME NEW i, NEW r, Fit(i, r), Fit(r, i), Met(i, r),
         i.run.step # "None", r.run.step # "None"
  PROVE  /\ HasRun(i) /\ DOMAIN i = EngineFields /\ DOMAIN i.run = RunFields
         /\ HasRun(r) /\ DOMAIN r = EngineFields /\ DOMAIN r.run = RunFields
         /\ i.phase = r.phase /\ i.phase \in {"Handshaking", "Established"}
         /\ \A k \in {0, 1} : /\ Suits(i, Auth(k, i, r)) /\ Suits(r, Auth(k, i, r))
                              /\ Auth(k, i, r).kind = "AUTH"
                              /\ Auth(k, i, r) # NoFrame
         /\ \A k : /\ Suits(i, Confirm(k, i, r)) /\ Suits(r, Confirm(k, i, r))
                   /\ Confirm(k, i, r).kind = "CONFIRM"
         /\ i.active.peer = r.identity \/ i.phase = "Handshaking"
         /\ r.active.peer = i.identity \/ i.phase = "Handshaking"
         /\ Deal(i, r).initiator = i.run.local_hello
         /\ Deal(i, r).responder = r.run.local_hello
         /\ Deal(i, r).initiator.identity = i.identity
         /\ Deal(i, r).responder.identity = r.identity
<1>1. /\ HasRun(i) /\ DOMAIN i = EngineFields /\ DOMAIN i.run = RunFields
      /\ HasRun(r) /\ DOMAIN r = EngineFields /\ DOMAIN r.run = RunFields
      /\ i.phase \in {"Handshaking", "Established"}
  BY RunParts
<1>2. /\ i.phase = r.phase
      /\ i.active.peer = r.identity \/ i.phase = "Handshaking"
      /\ r.active.peer = i.identity \/ i.phase = "Handshaking"
  BY DEF Met, Footing, Level
<1>3. /\ Deal(i, r).initiator = i.run.local_hello
      /\ Deal(i, r).responder = r.run.local_hello
  BY DEF Deal, Transcript
<1>4. i.run.local_hello.identity = i.identity /\ r.run.local_hello.identity = r.identity
  BY HelloParts
<1>5. Suits(i, Auth(0, i, r)) /\ Suits(i, Auth(1, i, r))
  BY <1>3, HelloParts DEF Auth
<1>6. \A k : Suits(i, Confirm(k, i, r))
  BY HelloParts DEF Confirm
<1>7. \A f : Suits(i, f) => Suits(r, f)
  BY <1>2 DEF Suits
<1>8. /\ \A k : Auth(k, i, r).kind = "AUTH" /\ Auth(k, i, r) # NoFrame
      /\ \A k : Confirm(k, i, r).kind = "CONFIRM"
  BY DEF Auth, Confirm, HandshakePayload, SessionConfirmPayload, NoFrame
<1> QED BY <1>1, <1>2, <1>3, <1>4, <1>5, <1>6, <1>7, <1>8

\* r hears the signature of i, or keeps it for when the user has answered.
LEMMA HearsAuth0 ==
  ASSUME NEW i, NEW r, NEW qi, NEW qr, Fit(i, r), Fit(r, i), Signing(i, r, qi, qr),
         Says(qr, Auth(0, i, r)), NEW v, Hears(qr, Auth(0, i, r), v), IsSequence(qi)
  PROVE  LET s == on_frame(r, Auth(0, i, r)) IN
         Talks(i, s.e, qi \o s.out, v) /\ s.e.rekey_blocked = r.rekey_blocked
<1> DEFINE f == Auth(0, i, r)
           s == on_frame(r, f)
           w == qi \o s.out
<1>1. /\ i.run.step = "AuthResp" /\ r.run.early = NoFrame
      /\ r.run.step \in {"Sas", "AuthInit"} /\ Met(i, r)
      /\ i.run.transcript = Deal(i, r) /\ r.run.transcript = Deal(i, r)
      /\ r.run.step = "Sas" => i.phase = "Handshaking"
      /\ Silent(qi) /\ Silent(v)
      /\ r.run.role = "Responder"
  BY DEF Signing, Hears, Met
<1>2. /\ HasRun(r) /\ DOMAIN r = EngineFields /\ DOMAIN r.run = RunFields
      /\ i.phase = r.phase /\ Suits(r, f) /\ f.kind = "AUTH"
  BY <1>1, WordsSuit
<1>3. s = step_run(r, f)
  BY <1>2, FrameOfRun
<1>4. f = HandshakePayload(0, r.run.transcript)
  BY <1>1 DEF Auth
<1> HIDE DEF f, s
<1>5. CASE r.run.step = "Sas"
  <2>1. s = step_Sas(r, f)
    BY <1>3, <1>5, StepOfRun
  <2>2. MessageType(f) = "Handshake"
    BY <1>1, <1>2, <1>5, KindOf
  <2>3. s.e = [r EXCEPT !.run.early = f] /\ s.out = <<>>
    BY <1>1, <2>1, <2>2 DEF step_Sas, Result
  <2>4. OnRun(r, s.e, "Sas", r.run.transcript, f)
    BY <1>2, <1>5, <2>3, EarlyEdit
  <2>5. /\ Met(i, s.e) /\ Deal(i, s.e) = Deal(i, r) /\ Auth(0, i, s.e) = f
    BY <1>1, <2>4, MetOn DEF f
  <2>6. Silent(w)
    <3>1. \A k \in 1..Len(s.out) : ~Talk(s.out[k])
      BY <2>3
    <3>2. IsSequence(s.out)
      BY <2>3, NoneSent
    <3> QED BY <1>1, <3>1, <3>2, HushMore DEF Hushed
  <2> HIDE DEF w
  <2>7. /\ s.e.run.step = "Sas" /\ s.e.run.transcript = r.run.transcript /\ s.e.run.early = f
        /\ s.e.rekey_blocked = r.rekey_blocked
    BY <2>4 DEF OnRun, Keeps
  <2>8. Signing(i, s.e, w, v)
    BY <1>1, <1>5, <2>5, <2>6, <2>7 DEF Signing
  <2> QED BY <2>7, <2>8 DEF Talks, s, f, w
<1>6. CASE r.run.step = "AuthInit"
  <2> DEFINE g == HandshakePayload(1, r.run.transcript)
  <2>1. s = step_AuthInit(r, f)
    BY <1>3, <1>6, StepOfRun
  <2>2. verify_auth(r, f, 0)
    BY <1>4 DEF verify_auth, Decodes, HandshakePayload
  <2>3. OnRun(r, s.e, "ConfirmInit", r.run.transcript, r.run.early) /\ s.out = <<g>>
    BY <1>2, <2>1, <2>2, SignatureAccepted
  <2>4. g = Auth(1, i, r) /\ Talk(g)
    BY <1>1 DEF Auth, HandshakePayload, Talk
  <2> HIDE DEF g
  <2>5. /\ Met(i, s.e) /\ Deal(i, s.e) = Deal(i, r) /\ Auth(1, i, s.e) = g
    BY <1>1, <2>3, <2>4, MetOn
  <2>6. Says(w, g)
    <3>1. Adds(qi, qi \o <<g>>, g)
      BY <2>4, Spoken
    <3> QED BY <1>1, <2>3, <3>1 DEF Adds
  <2> HIDE DEF w
  <2>7. /\ s.e.run.step = "ConfirmInit" /\ s.e.run.transcript = r.run.transcript
        /\ s.e.rekey_blocked = r.rekey_blocked
    BY <2>3 DEF OnRun, Keeps
  <2>8. Vouching(i, s.e, w, v)
    BY <1>1, <2>5, <2>6, <2>7 DEF Vouching
  <2> QED BY <2>7, <2>8 DEF Talks, s, f, w
<1> QED BY <1>1, <1>5, <1>6

\* i hears the signature of r.
LEMMA HearsAuth1 ==
  ASSUME NEW i, NEW r, NEW qi, NEW qr, Fit(i, r), Fit(r, i), Vouching(i, r, qi, qr),
         Says(qi, Auth(1, i, r)), NEW v, Hears(qi, Auth(1, i, r), v), IsSequence(qr)
  PROVE  LET s == on_frame(i, Auth(1, i, r)) IN
         Vouching(s.e, r, v, qr \o s.out) /\ s.e.rekey_blocked = i.rekey_blocked
<1> DEFINE f == Auth(1, i, r)
           s == on_frame(i, f)
           g == SessionConfirmPayload(SessionKeys(i.run.transcript), "Initiator")
           w == qr \o s.out
<1>1. /\ i.run.step = "AuthResp" /\ r.run.step = "ConfirmInit" /\ Met(i, r)
      /\ i.run.transcript = Deal(i, r) /\ r.run.transcript = Deal(i, r)
      /\ Silent(qr) /\ Silent(v)
  BY DEF Vouching, Hears
<1>2. /\ HasRun(i) /\ DOMAIN i = EngineFields /\ DOMAIN i.run = RunFields
      /\ Suits(i, f) /\ f.kind = "AUTH"
  BY <1>1, WordsSuit
<1>3. s = step_AuthResp(i, f)
  <2>1. s = step_run(i, f)
    BY <1>2, FrameOfRun
  <2> QED BY <1>1, <2>1, StepOfRun
<1>4. f = HandshakePayload(1, i.run.transcript)
  BY <1>1 DEF Auth
<1> HIDE DEF f, s
<1>5. verify_auth(i, f, 1)
  BY <1>4 DEF verify_auth, Decodes, HandshakePayload
<1>6. OnRun(i, s.e, "ConfirmResp", i.run.transcript, i.run.early) /\ s.out = <<g>>
  BY <1>2, <1>3, <1>5, SignatureAccepted
<1>7. g = Confirm("Initiator", i, r) /\ Talk(g)
  BY <1>1 DEF Confirm, SessionConfirmPayload, Talk
<1> HIDE DEF g
<1>8. /\ Met(s.e, r) /\ Deal(s.e, r) = Deal(i, r) /\ Confirm("Initiator", s.e, r) = g
  BY <1>1, <1>6, <1>7, MetOn
<1>9. Says(w, g)
  <2>1. Adds(qr, qr \o <<g>>, g)
    BY <1>7, Spoken
  <2> QED BY <1>1, <1>6, <2>1 DEF Adds
<1> HIDE DEF w
<1>10. /\ s.e.run.step = "ConfirmResp" /\ s.e.run.transcript = i.run.transcript
       /\ s.e.rekey_blocked = i.rekey_blocked
  BY <1>6 DEF OnRun, Keeps
<1>11. Vouching(s.e, r, v, w)
  BY <1>1, <1>8, <1>9, <1>10 DEF Vouching
<1> QED BY <1>10, <1>11 DEF s, f, w

\* r hears the confirmation of i.
LEMMA HearsConfirmI ==
  ASSUME NEW i, NEW r, NEW qi, NEW qr, Fit(i, r), Fit(r, i), Vouching(i, r, qi, qr),
         Says(qr, Confirm("Initiator", i, r)), NEW v, Hears(qr, Confirm("Initiator", i, r), v),
         i.run.step = "ConfirmResp", IsSequence(qi)
  PROVE  LET s == on_frame(r, Confirm("Initiator", i, r)) IN
         Finishing(i, s.e, qi \o s.out, v) /\ (s.e.rekey_blocked => r.rekey_blocked)
<1> DEFINE f == Confirm("Initiator", i, r)
           s == on_frame(r, f)
           g == SessionConfirmPayload(SessionKeys(r.run.transcript), "Responder")
           w == qi \o s.out
<1>1. /\ r.run.step = "ConfirmInit" /\ Met(i, r)
      /\ i.run.transcript = Deal(i, r) /\ r.run.transcript = Deal(i, r)
      /\ Silent(qi) /\ Silent(v) /\ i.run.role = "Initiator" /\ r.run.role = "Responder"
  BY DEF Vouching, Hears, Met
<1>2. /\ HasRun(r) /\ DOMAIN r = EngineFields /\ DOMAIN r.run = RunFields
      /\ Suits(r, f) /\ f.kind = "CONFIRM" /\ i.phase = r.phase
      /\ i.phase \in {"Handshaking", "Established"}
      /\ i.active.peer = r.identity \/ i.phase = "Handshaking"
      /\ r.active.peer = i.identity \/ i.phase = "Handshaking"
      /\ r.run.transcript.initiator.identity = i.identity
      /\ i.run.transcript.responder.identity = r.identity
  BY <1>1, WordsSuit
<1>3. s = step_ConfirmInit(r, f)
  <2>1. s = step_run(r, f)
    BY <1>2, FrameOfRun
  <2> QED BY <1>1, <2>1, StepOfRun
<1>4. f = SessionConfirmPayload(SessionKeys(r.run.transcript), "Initiator")
  BY <1>1 DEF Confirm
<1> HIDE DEF f, s
<1>5. verify_from(r, f, "Initiator")
  BY <1>4 DEF verify_from, Decodes, SessionConfirmPayload
<1>6. s = Complete(r, <<g>>)
  BY <1>3, <1>5 DEF step_ConfirmInit
<1>7. remote_identity(r.run) = i.identity
  BY <1>1, <1>2 DEF remote_identity
<1>8. r.phase = "Established" =>
         r.active.peer = remote_identity(r.run) /\ r.active.id # SessionKeys(r.run.transcript)
  BY <1>1, <1>2, <1>7 DEF Fit, AskedSteps
<1> HIDE DEF g
<1>9. Promoted(r, s.e) /\ s.out = <<g>>
  BY <1>2, <1>6, <1>8, CompleteParts
<1>10. Says(w, g)
  <2>1. Talk(g)
    BY DEF g, SessionConfirmPayload, Talk
  <2>2. Adds(qi, qi \o <<g>>, g)
    BY <2>1, Spoken
  <2> QED BY <1>1, <1>9, <2>2 DEF Adds
<1> HIDE DEF w
<1>11. /\ s.e.run = NoRun /\ s.e.phase = "Established" /\ s.e.identity = r.identity
       /\ s.e.active.id = SessionKeys(i.run.transcript) /\ s.e.active.peer = i.identity
       /\ s.e.rekey_blocked => r.rekey_blocked
  BY <1>1, <1>7, <1>9 DEF Promoted, Session
<1>12. g = SessionConfirmPayload(SessionKeys(i.run.transcript), "Responder")
  BY <1>1 DEF g
<1>13. Finishing(i, s.e, w, v)
  BY <1>1, <1>2, <1>10, <1>11, <1>12 DEF Finishing
<1> QED BY <1>11, <1>13 DEF s, f, w

\* i hears the confirmation of r, and may find its next COMMIT behind it.
LEMMA HearsConfirmR ==
  ASSUME NEW i, NEW r, NEW qi, NEW qr, Fit(i, r), Fit(r, i), Finishing(i, r, qi, qr), NEW f,
         f = SessionConfirmPayload(SessionKeys(i.run.transcript), "Responder"),
         NEW v, Hears(qi, f, v)
  PROVE  LET s == on_frame(i, f) IN
         /\ s.out = <<>> /\ (s.e.rekey_blocked => i.rekey_blocked)
         /\ Resting(s.e, r, v, qr) \/ Calling(r, s.e, qr, v)
<1> DEFINE s == on_frame(i, f)
<1>1. /\ i.run.step = "ConfirmResp" /\ i.run.role = "Initiator"
      /\ i.run.transcript.responder.identity = r.identity
      /\ r.phase = "Established" /\ r.active.id = SessionKeys(i.run.transcript)
      /\ r.active.peer = i.identity
      /\ i.phase = "Handshaking" \/ (i.phase = "Established" /\ i.active.peer = r.identity)
      /\ Silent(qr)
      /\ \/ r.run = NoRun /\ Silent(v)
         \/ r.run.step = "Hello" /\ Says(v, Commit(r))
  BY DEF Finishing, Hears
<1>2. HasRun(i) /\ DOMAIN i = EngineFields /\ DOMAIN i.run = RunFields
  BY <1>1, RunParts
<1>3. Suits(i, f) /\ f.kind = "CONFIRM" /\ verify_from(i, f, "Responder")
  BY DEF SessionConfirmPayload, Suits, verify_from, Decodes
<1>4. s = step_ConfirmResp(i, f)
  <2>1. s = step_run(i, f)
    BY <1>2, <1>3, FrameOfRun
  <2> QED BY <1>1, <2>1, StepOfRun
<1> HIDE DEF s
<1>5. s = Complete(i, <<>>)
  BY <1>3, <1>4 DEF step_ConfirmResp
<1>6. remote_identity(i.run) = r.identity
  BY <1>1 DEF remote_identity
<1>7. i.phase = "Established" =>
         i.active.peer = remote_identity(i.run) /\ i.active.id # SessionKeys(i.run.transcript)
  BY <1>1, <1>6 DEF Fit, AskedSteps
<1>8. Promoted(i, s.e) /\ s.out = <<>>
  BY <1>2, <1>5, <1>7, CompleteParts
<1>9. /\ s.e.run = NoRun /\ s.e.phase = "Established" /\ s.e.identity = i.identity
      /\ s.e.active.id = SessionKeys(i.run.transcript) /\ s.e.active.peer = r.identity
      /\ s.e.rekey_blocked => i.rekey_blocked
  BY <1>6, <1>8 DEF Promoted, Session
<1>10. Level(s.e, r) /\ Level(r, s.e)
  BY <1>1, <1>9 DEF Level
<1>11. Resting(s.e, r, v, qr) \/ Calling(r, s.e, qr, v)
  BY <1>1, <1>9, <1>10 DEF Resting, Calling
<1> QED BY <1>8, <1>9, <1>11 DEF s

\* x is e with a run that answers the COMMIT.
Joins(e, x, commit) ==
    /\ x.identity = e.identity /\ x.role = e.role /\ x.phase = e.phase
    /\ x.active = e.active /\ x.rekey_blocked = e.rekey_blocked
    /\ x.run = Run(e, commit.purpose, "Responder", commit.previous, commit, "Reveal")

\* A peer that is asked joins as the responder.
LEMMA Joined ==
  ASSUME NEW e, NEW k, DOMAIN k = EngineFields, k.identity = e.identity, k.role = e.role,
         k.phase = e.phase, k.active = e.active, k.rekey_blocked = e.rekey_blocked,
         k.entropy = e.entropy, NEW commit, NEW emit
  PROVE  LET r == start_responder_run(k, commit, emit) IN
         Joins(e, r.e, commit) /\ r.out = <<r.e.run.local_hello>>
<1> DEFINE r == start_responder_run(k, commit, emit)
           run == Run(k, commit.purpose, "Responder", commit.previous, commit, "Reveal")
<1>1. Ran(k, r.e, run) /\ r.out = <<run.local_hello>>
  BY RunAnswered
<1>2. run = Run(e, commit.purpose, "Responder", commit.previous, commit, "Reveal")
  BY DEF Run, fresh_keys
<1> HIDE DEF r, run
<1>3. Joins(e, r.e, commit) /\ r.e.run = run
  BY <1>1, <1>2 DEF Ran, Keeps, Joins
<1> QED BY <1>1, <1>3 DEF r

\* on_incoming_commit.
LEMMA JoinsCommit ==
  ASSUME NEW e, NEW k, DOMAIN k = EngineFields, k.identity = e.identity, k.role = e.role,
         k.phase = e.phase, k.active = e.active, k.rekey_blocked = e.rekey_blocked,
         k.entropy = e.entropy, NEW commit, NEW emit, ReferencesActive(e, commit)
  PROVE  LET r == on_incoming_commit(k, commit, emit) IN
         Joins(e, r.e, commit) /\ r.out = <<r.e.run.local_hello>>
<1> DEFINE m == [k EXCEPT !.consecutive_rekey_rejections = 0]
<1>1. /\ DOMAIN m = EngineFields /\ m.identity = e.identity /\ m.role = e.role
      /\ m.phase = e.phase /\ m.active = e.active /\ m.rekey_blocked = e.rekey_blocked
      /\ m.entropy = e.entropy
  BY DEF EngineFields
<1>2. on_incoming_commit(k, commit, emit) = start_responder_run(m, commit, emit)
  BY DEF on_incoming_commit, ReferencesActive
<1> HIDE DEF m
<1> QED BY <1>1, <1>2, Joined

\* The engine that has taken the COMMIT of i answers it.
LEMMA JoinedMeets ==
  ASSUME NEW i, NEW r, NEW x, Joins(r, x, Commit(i)), i.run.step = "Hello",
         i.run.role = "Initiator", Commit(i).previous = i.run.previous,
         \/ /\ i.phase = "Handshaking" /\ i.run.previous = NoId /\ r.phase = "Handshaking"
         \/ Level(i, r)
  PROVE  /\ x.run.step = "Reveal" /\ x.run.early = NoFrame /\ Met(i, x)
         /\ Talk(x.run.local_hello)
         /\ Level(i, r) => Level(i, x)
<1>1. /\ x.run.step = "Reveal" /\ x.run.early = NoFrame /\ x.run.role = "Responder"
      /\ x.run.commit = Commit(i) /\ x.run.previous = Commit(i).previous
      /\ Talk(x.run.local_hello)
  BY DEF Joins, Run, HelloPayload, Talk
<1>2. Level(i, r) => Level(i, x)
  BY DEF Joins, Level
<1> QED BY <1>1, <1>2 DEF Met, Footing, Joins

\* The COMMIT to the HELLO of a run suits the engine that sent it.
LEMMA CommitParts ==
  ASSUME NEW i, NEW p, Fit(i, p), i.run.step # "None"
  PROVE  LET f == Commit(i) IN
         /\ Decodes(f, "COMMIT") /\ f.kind = "COMMIT" /\ Suits(i, f)
         /\ f.previous = i.run.previous
         /\ i.phase = "Established" => f.purpose = "Rekey"
         /\ i.phase = "Handshaking" => f.purpose = "Initial"
         /\ Talk(f)
<1> DEFINE f == Commit(i)
           h == i.run.local_hello
<1>1. /\ h.purpose = i.run.purpose /\ h.previous = i.run.previous
      /\ i.run.purpose = IF i.phase = "Established" THEN "Rekey" ELSE "Initial"
  BY HelloParts, RunParts
<1> HIDE DEF h
<1>2. /\ Decodes(f, "COMMIT") /\ f.kind = "COMMIT" /\ f.purpose = h.purpose
      /\ f.previous = h.previous
  BY DEF Commit, CommitPayload, Decodes, h
<1> HIDE DEF f
<1>3. Suits(i, f) /\ Talk(f)
  BY <1>1, <1>2 DEF Suits, Talk
<1> QED BY <1>1, <1>2, <1>3 DEF f

\* r hears the COMMIT of i.
LEMMA HearsCommit ==
  ASSUME NEW i, NEW r, NEW qi, NEW qr, Fit(i, r), Fit(r, i), Calling(i, r, qi, qr),
         r.phase # "Idle", NEW v, Hears(qr, Commit(i), v), IsSequence(qi)
  PROVE  LET s == on_frame(r, Commit(i)) IN
         Answered(i, s.e, qi \o s.out, v) /\ s.e.rekey_blocked = r.rekey_blocked
<1> DEFINE f == Commit(i)
           s == on_frame(r, f)
           w == qi \o s.out
<1>1. /\ i.run.step = "Hello" /\ r.run = NoRun /\ Silent(qi) /\ Silent(v)
      /\ \/ i.phase = "Handshaking" /\ i.run.previous = NoId /\ r.phase = "Handshaking"
         \/ Level(i, r)
  BY DEF Calling, Hears
<1>2. i.run.role = "Initiator" /\ DOMAIN r = EngineFields
  BY <1>1, RunParts DEF Fit, Sound, RunSane
<1>3. /\ Decodes(f, "COMMIT") /\ f.kind = "COMMIT" /\ Suits(i, f) /\ f.previous = i.run.previous
      /\ i.phase = "Established" => f.purpose = "Rekey"
      /\ i.phase = "Handshaking" => f.purpose = "Initial"
  BY <1>1, CommitParts
<1> HIDE DEF f, s
<1>4. Joins(r, s.e, f) /\ s.out = <<s.e.run.local_hello>>
  <2>1. CASE i.phase = "Handshaking" /\ i.run.previous = NoId /\ r.phase = "Handshaking"
    <3>1. Suits(r, f)
      BY <1>3, <2>1 DEF Suits
    <3>2. MessageType(f) # "Close"
      BY <1>3, <2>1, <3>1, KindOf
    <3>3. s = accept_first_commit(r, f)
      BY <1>1, <2>1, <3>2 DEF on_frame, s
    <3>4. s = start_responder_run(r, f, TRUE)
      BY <1>3, <2>1, <3>3 DEF accept_first_commit
    <3> QED BY <1>2, <3>4, Joined
  <2>2. CASE Level(i, r)
    <3> DEFINE k == [r EXCEPT !.late_rekey_frames = 0]
    <3>1. Suits(r, f) /\ r.phase = "Established"
      BY <1>3, <2>2 DEF Suits, Level
    <3>2. MessageType(f) = "Rekey"
      BY <1>3, <3>1, KindOf
    <3>3. s = on_rekey_frame(r, f)
      BY <3>1, <3>2 DEF on_frame, s
    <3>4. i.run.previous = i.active.id /\ i.active.id = r.active.id /\ i.phase = "Established"
      BY <1>1, <2>2, RunParts DEF Level
    <3>5. r.active.id # NoId
      BY <3>1 DEF Fit, Sound
    <3>6. ReferencesActive(r, f)
      BY <1>3, <3>4, <3>5 DEF ReferencesActive
    <3>7. s = on_incoming_commit(k, f, TRUE)
      BY <1>1, <3>3, <3>6 DEF on_rekey_frame
    <3>8. /\ DOMAIN k = EngineFields /\ k.identity = r.identity /\ k.role = r.role
          /\ k.phase = r.phase /\ k.active = r.active /\ k.rekey_blocked = r.rekey_blocked
          /\ k.entropy = r.entropy
      BY <1>2 DEF EngineFields
    <3> HIDE DEF k
    <3> QED BY <3>6, <3>7, <3>8, JoinsCommit
  <2> QED BY <1>1, <2>1, <2>2
<1> DEFINE h == s.e.run.local_hello
<1>5. /\ s.e.run.step = "Reveal" /\ s.e.run.early = NoFrame /\ Met(i, s.e) /\ Talk(h)
  BY <1>1, <1>2, <1>3, <1>4, JoinedMeets DEF f
<1> HIDE DEF h
<1>6. Says(w, h)
  <2>1. Adds(qi, qi \o <<h>>, h)
    BY <1>5, Spoken
  <2> QED BY <1>1, <1>4, <2>1 DEF Adds, h
<1> HIDE DEF w
<1>7. Answered(i, s.e, w, v)
  BY <1>1, <1>5, <1>6 DEF Answered, h
<1>8. s.e.rekey_blocked = r.rekey_blocked
  BY <1>4 DEF Joins
<1> QED BY <1>7, <1>8 DEF f, s, w

\* r, which has sent a COMMIT itself, hears the COMMIT of i: one of them gives in.
LEMMA HearsCrossing ==
  ASSUME NEW i, NEW r, NEW qi, NEW qr, Fit(i, r), Fit(r, i), Crossing(i, r, qi, qr),
         i.identity \in Nat, r.identity \in Nat,
         NEW v, Hears(qr, Commit(i), v), IsSequence(qi)
  PROVE  LET s == on_frame(r, Commit(i)) IN
         /\ Answered(i, s.e, qi \o s.out, v) \/ Crossing(s.e, i, v, qi \o s.out)
         /\ s.e.rekey_blocked = r.rekey_blocked
<1> DEFINE f == Commit(i)
           s == on_frame(r, f)
           w == qi \o s.out
<1>1. /\ i.run.step = "Hello" /\ r.run.step = "Hello" /\ Level(i, r) /\ Level(r, i) /\ Silent(v)
      /\ Says(qi, Commit(r)) \/ (Silent(qi) /\ i.identity > r.identity)
  BY DEF Crossing, Hears, Level
<1>2. /\ i.run.role = "Initiator" /\ r.run.role = "Initiator" /\ DOMAIN r = EngineFields
      /\ r.run # NoRun /\ i.identity # r.identity
  <2>1. NoRun.step # "Hello"
    BY DEF NoRun
  <2> QED BY <1>1, <2>1, RunParts DEF Fit, Sound, RunSane
<1>3. /\ Decodes(f, "COMMIT") /\ f.kind = "COMMIT" /\ Suits(i, f)
      /\ f.previous = i.run.previous /\ f.purpose = "Rekey"
  BY <1>1, CommitParts DEF Level
<1>4. /\ Decodes(Commit(r), "COMMIT") /\ Commit(r).purpose = "Rekey"
      /\ Commit(r).previous = r.run.previous
  BY <1>1, CommitParts DEF Level
<1>5. /\ i.run.previous = i.active.id /\ r.run.previous = r.active.id /\ i.active.id = r.active.id
      /\ r.active.id # NoId /\ r.active.peer = i.identity /\ r.phase = "Established"
  BY <1>1, RunParts DEF Level, Fit, Sound
<1> HIDE DEF f, s
<1>6. s = resolve_glare(r, f)
  <2>1. Suits(r, f)
    BY <1>3, <1>5 DEF Suits
  <2>2. MessageType(f) = "Rekey"
    BY <1>3, <1>5, <2>1, KindOf
  <2>3. s = on_rekey_frame(r, f)
    BY <1>5, <2>2 DEF on_frame, s
  <2> QED BY <1>1, <1>2, <1>3, <2>2, <2>3 DEF on_rekey_frame
<1>7. CASE r.identity > i.identity
  <2>1. s = Result(r, <<>>, <<"none">>)
    BY <1>3, <1>5, <1>6, <1>7 DEF resolve_glare, local_identity_wins_rekey_glare
  <2>2. s.e = r /\ s.out = <<>>
    BY <2>1 DEF Result
  <2>3. Hushed(qi, w)
    <3>1. \A k \in 1..Len(s.out) : ~Talk(s.out[k])
      BY <2>2
    <3>2. IsSequence(s.out)
      BY <2>2, NoneSent
    <3> QED BY <3>1, <3>2, HushMore
  <2>4. ~(i.identity > r.identity)
    BY <1>7
  <2> HIDE DEF w
  <2>5. Says(w, Commit(r))
    BY <1>1, <2>3, <2>4 DEF Hushed
  <2>6. Crossing(s.e, i, v, w)
    BY <1>1, <1>7, <2>2, <2>5 DEF Crossing
  <2> QED BY <2>2, <2>6 DEF f, s, w
<1>8. CASE ~(r.identity > i.identity)
  <2> DEFINE k == cancel([r EXCEPT !.run = NoRun], {"HandshakeFrame", "HandshakeTotal"})
  <2>1. s = on_incoming_commit(k, f, FALSE)
    BY <1>3, <1>5, <1>6, <1>8 DEF resolve_glare, local_identity_wins_rekey_glare
  <2>2. ReferencesActive(r, f)
    BY <1>3, <1>5 DEF ReferencesActive
  <2>3. /\ DOMAIN k = EngineFields /\ k.identity = r.identity /\ k.role = r.role
        /\ k.phase = r.phase /\ k.active = r.active /\ k.rekey_blocked = r.rekey_blocked
        /\ k.entropy = r.entropy
    BY <1>2 DEF EngineFields, cancel
  <2> HIDE DEF k
  <2>4. Joins(r, s.e, f) /\ s.out = <<s.e.run.local_hello>>
    BY <2>1, <2>2, <2>3, JoinsCommit
  <2> DEFINE h == s.e.run.local_hello
  <2>5. /\ s.e.run.step = "Reveal" /\ s.e.run.early = NoFrame /\ Met(i, s.e) /\ Talk(h)
        /\ Level(i, s.e)
    BY <1>1, <1>2, <1>3, <2>4, JoinedMeets DEF f
  <2>6. s.e.rekey_blocked = r.rekey_blocked /\ s.e.identity = r.identity
    BY <2>4 DEF Joins
  <2> HIDE DEF h
  <2>7. Adds(qi, w, h)
    BY <2>4, <2>5, Spoken DEF h
  <2>8. i.identity > r.identity
    BY <1>2, <1>8
  <2> HIDE DEF w
  <2>9. /\ Says(qi, Commit(r)) => SaysBoth(w, Commit(r), h)
        /\ Silent(qi) => Says(w, h)
    BY <2>7 DEF Adds
  <2>10. Commit(r).previous = i.run.previous
    BY <1>4, <1>5
  <2>11. Answered(i, s.e, w, v)
    BY <1>1, <1>4, <2>5, <2>6, <2>8, <2>9, <2>10 DEF Answered, h
  <2> QED BY <2>6, <2>11 DEF f, s, w
<1> QED BY <1>7, <1>8

\* i hears the COMMIT of the other that has given in.
LEMMA HearsIgnored ==
  ASSUME NEW i, NEW r, NEW qi, NEW qr, Fit(i, r), Fit(r, i), Answered(i, r, qi, qr),
         ~Says(qi, r.run.local_hello), NEW f, NEW v, Hears(qi, f, v), IsSequence(qr)
  PROVE  LET s == on_frame(i, f) IN
         Answered(s.e, r, v, qr \o s.out) /\ s.e.rekey_blocked = i.rekey_blocked
<1> DEFINE s == on_frame(i, f)
           h == r.run.local_hello
<1>1. PICK c : /\ Decodes(c, "COMMIT") /\ c.purpose = "Rekey" /\ c.previous = i.run.previous
               /\ SaysBoth(qi, c, h)
  BY DEF Answered
<1>2. f = c /\ Says(v, h)
  BY <1>1 DEF Hears
<1>3. /\ i.run.step = "Hello" /\ i.run.role = "Initiator" /\ Level(i, r)
      /\ i.identity > r.identity /\ i.active.peer = r.identity
      /\ r.run.step = "Reveal" /\ Met(i, r) /\ r.run.early = NoFrame /\ Silent(qr)
  BY DEF Answered, Met, Level
<1>4. i.phase = "Established" /\ i.run # NoRun /\ f.kind = "COMMIT" /\ f.intact
  BY <1>1, <1>2, <1>3 DEF Level, NoRun, Decodes
<1> HIDE DEF h
<1>5. s = resolve_glare(i, f)
  <2>1. Suits(i, f)
    BY <1>1, <1>2, <1>4 DEF Suits
  <2>2. MessageType(f) = "Rekey"
    BY <1>4, <2>1, KindOf
  <2>3. s = on_rekey_frame(i, f)
    BY <1>4, <2>2 DEF on_frame
  <2> QED BY <1>1, <1>2, <1>3, <1>4, <2>2, <2>3 DEF on_rekey_frame
<1>6. s.e = i /\ s.out = <<>>
  BY <1>1, <1>2, <1>3, <1>5 DEF resolve_glare, local_identity_wins_rekey_glare, Result
<1> HIDE DEF s
<1>7. Silent(qr \o s.out)
  <2>1. \A k \in 1..Len(s.out) : ~Talk(s.out[k])
    BY <1>6
  <2>2. IsSequence(s.out)
    BY <1>6, NoneSent
  <2> QED BY <1>3, <2>1, <2>2, HushMore DEF Hushed
<1>8. Answered(s.e, r, v, qr \o s.out)
  BY <1>2, <1>3, <1>6, <1>7 DEF Answered, h
<1> QED BY <1>6, <1>8 DEF s

\* The first talk a channel holds is the one that the configuration says.
LEMMA HeardByI ==
  ASSUME NEW e, NEW p, NEW q, NEW u, Fit(e, p), Fit(p, e), Talks(e, p, q, u),
         e.identity \in Nat, p.identity \in Nat,
         NEW f, NEW v, Hears(q, f, v), IsSequence(u)
  PROVE  LET s == on_frame(e, f)
             w == u \o s.out
         IN  /\ Talks(s.e, p, v, w) \/ Talks(p, s.e, w, v)
             /\ s.e.rekey_blocked => e.rekey_blocked
<1> DEFINE s == on_frame(e, f)
           w == u \o s.out
<1>0. /\ ~Silent(q) /\ \A g : Says(q, g) => f = g
      /\ \A g, h : SaysBoth(q, g, h) => f = g
  BY DEF Hears
<1>1. CASE Crossing(e, p, q, u)
  <2>1. Crossing(p, e, u, q) /\ f = Commit(p)
    BY <1>0, <1>1 DEF Crossing, Level
  <2>2. Answered(p, s.e, w, v) \/ Crossing(s.e, p, v, w)
    BY <2>1, HearsCrossing
  <2>3. s.e.rekey_blocked = e.rekey_blocked
    BY <2>1, HearsCrossing
  <2> HIDE DEF s, w
  <2> QED BY <2>2, <2>3 DEF Talks, s, w
<1>2. CASE Answered(e, p, q, u)
  <2>1. CASE Says(q, p.run.local_hello)
    <3>1. f = p.run.local_hello
      BY <1>0, <2>1
    <3>2. Revealed(s.e, p, v, w) /\ s.e.rekey_blocked = e.rekey_blocked
      BY <1>2, <2>1, <3>1, HearsHello
    <3> HIDE DEF s, w
    <3> QED BY <3>2 DEF Talks, s, w
  <2>2. CASE ~Says(q, p.run.local_hello)
    <3>1. Answered(s.e, p, v, w) /\ s.e.rekey_blocked = e.rekey_blocked
      BY <1>2, <2>2, HearsIgnored
    <3> HIDE DEF s, w
    <3> QED BY <3>1 DEF Talks, s, w
  <2> QED BY <2>1, <2>2
<1>3. CASE Vouching(e, p, q, u)
  <2>1. Says(q, Auth(1, e, p)) /\ f = Auth(1, e, p)
    BY <1>0, <1>3 DEF Vouching
  <2>2. Vouching(s.e, p, v, w) /\ s.e.rekey_blocked = e.rekey_blocked
    BY <1>3, <2>1, HearsAuth1
  <2> HIDE DEF s, w
  <2> QED BY <2>2 DEF Talks, s, w
<1>4. CASE Finishing(e, p, q, u)
  <2>1. f = SessionConfirmPayload(SessionKeys(e.run.transcript), "Responder")
    BY <1>0, <1>4 DEF Finishing
  <2>2. /\ s.out = <<>> /\ (s.e.rekey_blocked => e.rekey_blocked)
        /\ Resting(s.e, p, v, u) \/ Calling(p, s.e, u, v)
    BY <1>4, <2>1, HearsConfirmR
  <2>3. w = u
    <3>1. PICK S : u \in Seq(S)
      BY DEF IsSequence
    <3>2. u \o <<>> = u
      BY <3>1
    <3> QED BY <2>2, <3>2
  <2> HIDE DEF s, w
  <2> QED BY <2>2, <2>3 DEF Talks, s, w
<1> QED BY <1>0, <1>1, <1>2, <1>3, <1>4
        DEF Talks, Unopened, Calling, Resting, Revealed, Signing

\* A responder, or an end between two runs, takes the talk at the head: a frame of the configuration it is in, which goes on.
LEMMA HeardByR ==
  ASSUME NEW e, NEW p, NEW q, NEW u, Fit(e, p), Fit(p, e), Talks(p, e, u, q),
         e.identity \in Nat, p.identity \in Nat, e.phase # "Idle",
         NEW f, NEW v, Hears(q, f, v), IsSequence(u)
  PROVE  LET s == on_frame(e, f)
             w == u \o s.out
         IN  /\ Talks(s.e, p, v, w) \/ Talks(p, s.e, w, v)
             /\ s.e.rekey_blocked => e.rekey_blocked
<1> DEFINE s == on_frame(e, f)
           w == u \o s.out
<1>0. /\ ~Silent(q) /\ \A g : Says(q, g) => f = g
      /\ \A g, h : SaysBoth(q, g, h) => f = g
  BY DEF Hears
<1>1. CASE Calling(p, e, u, q)
  <2>1. f = Commit(p)
    BY <1>0, <1>1 DEF Calling
  <2>2. Answered(p, s.e, w, v) /\ s.e.rekey_blocked = e.rekey_blocked
    BY <1>1, <2>1, HearsCommit
  <2> HIDE DEF s, w
  <2> QED BY <2>2 DEF Talks, s, w
<1>2. CASE Crossing(p, e, u, q)
  <2>1. f = Commit(p)
    BY <1>0, <1>2 DEF Crossing
  <2>2. Answered(p, s.e, w, v) \/ Crossing(s.e, p, v, w)
    BY <1>2, <2>1, HearsCrossing
  <2>3. s.e.rekey_blocked = e.rekey_blocked
    BY <1>2, <2>1, HearsCrossing
  <2> HIDE DEF s, w
  <2> QED BY <2>2, <2>3 DEF Talks, s, w
<1>3. CASE Revealed(p, e, u, q)
  <2>1. f = p.run.local_hello
    BY <1>0, <1>3 DEF Revealed
  <2>2. Signing(p, s.e, w, v) /\ s.e.rekey_blocked = e.rekey_blocked
    BY <1>3, <2>1, HearsReveal
  <2> HIDE DEF s, w
  <2> QED BY <2>2 DEF Talks, s, w
<1>4. CASE Signing(p, e, u, q)
  <2>1. Says(q, Auth(0, p, e)) /\ f = Auth(0, p, e)
    BY <1>0, <1>4 DEF Signing
  <2>2. Talks(p, s.e, w, v) /\ s.e.rekey_blocked = e.rekey_blocked
    BY <1>4, <2>1, HearsAuth0
  <2> HIDE DEF s, w
  <2> QED BY <2>2 DEF s, w
<1>5. CASE Vouching(p, e, u, q)
  <2>1. /\ Says(q, Confirm("Initiator", p, e)) /\ f = Confirm("Initiator", p, e)
        /\ p.run.step = "ConfirmResp"
    BY <1>0, <1>5 DEF Vouching
  <2>2. Finishing(p, s.e, w, v) /\ (s.e.rekey_blocked => e.rekey_blocked)
    BY <1>5, <2>1, HearsConfirmI
  <2> HIDE DEF s, w
  <2> QED BY <2>2 DEF Talks, s, w
<1> QED BY <1>0, <1>1, <1>2, <1>3, <1>4, <1>5
        DEF Talks, Unopened, Resting, Answered, Finishing

\* The same for either end.
LEMMA HearsTalk ==
  ASSUME NEW e, NEW p, NEW q, NEW u, Fit(e, p), Fit(p, e), Dialogue(e, p, q, u),
         e.identity \in Nat, p.identity \in Nat, e.phase # "Idle",
         IsSequence(q), q # <<>>, Talk(Head(q)), IsSequence(u)
  PROVE  LET s == on_frame(e, Head(q)) IN Dialogue(s.e, p, Tail(q), u \o s.out)
<1> DEFINE f == Head(q)
           v == Tail(q)
           s == on_frame(e, f)
<1>1. Hears(q, f, v)
  BY Heard
<1> HIDE DEF f, v
<1>2. CASE Talks(e, p, q, u)
  <2>1. /\ Talks(s.e, p, v, u \o s.out) \/ Talks(p, s.e, u \o s.out, v)
        /\ s.e.rekey_blocked => e.rekey_blocked
    BY <1>1, <1>2, HeardByI
  <2> HIDE DEF s
  <2> QED BY <2>1 DEF Dialogue, f, v, s
<1>3. CASE Talks(p, e, u, q)
  <2>1. /\ Talks(s.e, p, v, u \o s.out) \/ Talks(p, s.e, u \o s.out, v)
        /\ s.e.rekey_blocked => e.rekey_blocked
    BY <1>1, <1>3, HeardByR
  <2> HIDE DEF s
  <2> QED BY <2>1 DEF Dialogue, f, v, s
<1> QED BY <1>2, <1>3 DEF Dialogue

-----------------------------------------------------------------------------
(* The other inputs: messages, prompts, deadlines, the ends.               *)

\* x is e with a rekey of its own.
Opens(e, x) ==
    /\ e.phase = "Established" /\ e.run = NoRun
    /\ x.identity = e.identity /\ x.role = e.role /\ x.phase = e.phase
    /\ x.active.id = e.active.id /\ x.active.peer = e.active.peer
    /\ x.run.step = "Hello" /\ x.run # NoRun
    /\ x.rekey_blocked => e.rekey_blocked

\* Nothing happens to the dialogue, or a rekey begins.
Goes(e, x, u, w) ==
    \/ Steady(e, x) /\ Hushed(u, w)
    \/ Opens(e, x) /\ Adds(u, w, Commit(x))

\* The connection ends, with no more talk.
Over(e, r) ==
    /\ r.e.phase = "Closed" /\ (r.e.rekey_blocked => e.rekey_blocked)
    /\ IsSequence(r.out) /\ \A k \in 1..Len(r.out) : ~Talk(r.out[k])

\* What an input other than talk makes of a dialogue.
Follows(e, r, u) == Over(e, r) \/ Goes(e, r.e, u, u \o r.out)

\* A run begun by the end in the first place leads from Resting to Calling.
LEMMA BegunByI ==
  ASSUME NEW e, NEW p, NEW q, NEW u, NEW x, NEW w, Opens(e, x), Adds(u, w, Commit(x)),
         Talks(e, p, q, u), e.run.step = "None"
  PROVE  Talks(x, p, q, w)
<1>1. Resting(e, p, q, u)
  BY DEF Opens, Talks, Unopened, Calling, Crossing, Answered, Revealed, Signing, Vouching, Finishing
<1>2. Calling(x, p, q, w)
  BY <1>1 DEF Resting, Calling, Opens, Level, Adds
<1> QED BY <1>2 DEF Talks

\* A run begun by the other end: from Resting or Finishing to Calling, or from Calling to Crossing.
LEMMA BegunByR ==
  ASSUME NEW e, NEW p, NEW q, NEW u, NEW x, NEW w, Opens(e, x), Adds(u, w, Commit(x)),
         Talks(p, e, u, q), e.run.step = "None"
  PROVE  Talks(x, p, q, w) \/ Talks(p, x, w, q)
<1>1. CASE Calling(p, e, u, q)
  <2>1. Crossing(p, x, w, q)
    BY <1>1 DEF Calling, Crossing, Opens, Level, Adds
  <2> QED BY <2>1 DEF Talks
<1>2. CASE Resting(p, e, u, q)
  <2>1. Calling(x, p, q, w)
    BY <1>2 DEF Resting, Calling, Opens, Level, Adds
  <2> QED BY <2>1 DEF Talks
<1>3. CASE Finishing(p, e, u, q)
  <2> DEFINE f == SessionConfirmPayload(SessionKeys(p.run.transcript), "Responder")
  <2>1. Says(u, f) /\ Silent(q)
    BY <1>3 DEF Finishing, Opens
  <2>2. SaysBoth(w, f, Commit(x))
    BY <2>1 DEF Adds
  <2>3. Finishing(p, x, w, q)
    BY <1>3, <2>1, <2>2 DEF Finishing, Opens
  <2> QED BY <2>3 DEF Talks
<1> QED BY <1>1, <1>2, <1>3
        DEF Opens, Talks, Unopened, Crossing, Answered, Revealed, Signing, Vouching

\* Whatever an end does without hearing talk keeps the dialogue.
LEMMA DialogueGoes ==
  ASSUME NEW e, NEW p, NEW q, NEW u, NEW x, NEW v, NEW w, Dialogue(e, p, q, u),
         Goes(e, x, u, w), Hushed(q, v)
  PROVE  Dialogue(x, p, v, w)
<1>1. CASE Steady(e, x) /\ Hushed(u, w)
  BY <1>1, DialogueOn
<1>2. CASE Opens(e, x) /\ Adds(u, w, Commit(x))
  <2>1. Dialogue(e, p, v, u)
    <3>1. Steady(e, e) /\ Hushed(u, u)
      BY HushSame DEF Steady
    <3> QED BY <3>1, DialogueOn
  <2>2. e.run.step = "None"
    BY <1>2 DEF Opens, NoRun
  <2>3. ~x.rekey_blocked /\ ~p.rekey_blocked
    BY <1>2, <2>1 DEF Dialogue, Opens
  <2>4. CASE Talks(e, p, v, u)
    <3>1. Talks(x, p, v, w)
      BY <1>2, <2>2, <2>4, BegunByI
    <3> QED BY <2>3, <3>1 DEF Dialogue
  <2>5. CASE Talks(p, e, u, v)
    <3>1. Talks(x, p, v, w) \/ Talks(p, x, w, v)
      BY <1>2, <2>2, <2>5, BegunByR
    <3> QED BY <2>3, <3>1 DEF Dialogue
  <2> QED BY <2>1, <2>4, <2>5 DEF Dialogue
<1> QED BY <1>1, <1>2 DEF Goes

\* terminate ends the engine, and CLOSE is no talk.
LEMMA TerminateOver ==
  ASSUME NEW e, NEW k, DOMAIN k = EngineFields, k.rekey_blocked => e.rekey_blocked,
         NEW why, NEW notify
  PROVE  Over(e, terminate(k, why, notify))
<1> DEFINE r == terminate(k, why, notify)
<1>1. r.e.phase = "Closed" /\ r.e.rekey_blocked = k.rekey_blocked
  BY DEF terminate, Result, cancel_all, cancel, EngineFields
<1>2. r.out = <<>> \/ r.out = <<ClosePayload(k.active.id, notify)>>
  BY DEF terminate, Result
<1>3. ~Talk(ClosePayload(k.active.id, notify))
  BY DEF ClosePayload, Talk
<1> HIDE DEF r
<1>4. IsSequence(r.out) /\ \A j \in 1..Len(r.out) : ~Talk(r.out[j])
  <2>1. CASE r.out = <<>>
    BY <2>1, NoneSent
  <2>2. CASE r.out = <<ClosePayload(k.active.id, notify)>>
    <3> DEFINE d == ClosePayload(k.active.id, notify)
    <3>1. Len(<<d>>) = 1 /\ <<d>>[1] = d
      OBVIOUS
    <3> HIDE DEF d
    <3> QED BY <1>3, <2>2, <3>1, OneSent DEF d
  <2> QED BY <1>2, <2>1, <2>2
<1> QED BY <1>1, <1>4 DEF Over, r

\* Nothing is sent.
LEMMA GoesQuietly ==
  ASSUME NEW e, NEW r, NEW u, IsSequence(u), Steady(e, r.e), IsSequence(r.out),
         \A k \in 1..Len(r.out) : ~Talk(r.out[k])
  PROVE  Follows(e, r, u)
BY HushMore DEF Follows, Goes

\* A handler that sends nothing and keeps the run.
LEMMA StaysQuiet ==
  ASSUME NEW e, NEW r, NEW u, IsSequence(u), Steady(e, r.e), r.out = <<>>
  PROVE  Follows(e, r, u)
<1>1. IsSequence(r.out) /\ \A k \in 1..Len(r.out) : ~Talk(r.out[k])
  BY NoneSent
<1> QED BY <1>1, GoesQuietly

\* begin_rekey, on an engine that differs from e in counts.
LEMMA BeginFollows ==
  ASSUME NEW e, NEW k, DOMAIN k = EngineFields, Steady(e, k), NEW u, IsSequence(u)
  PROVE  Follows(e, begin_rekey(k), u)
<1> DEFINE r == begin_rekey(k)
<1>1. CASE k.phase = "Established" /\ k.run = NoRun
  <2>1. /\ Ran(k, r.e, Run(k, "Rekey", "Initiator", k.active.id, NoFrame, "Hello"))
        /\ r.out = <<Commit(r.e)>>
    BY <1>1, RunBegun
  <2>2. r.e.run.step = "Hello" /\ r.e.run # NoRun
    BY <2>1 DEF Ran, Run, NoRun
  <2> HIDE DEF r
  <2>3. Opens(e, r.e)
    BY <1>1, <2>1, <2>2 DEF Opens, Steady, Ran, Keeps
  <2>4. Talk(Commit(r.e))
    BY DEF Talk, Commit, CommitPayload
  <2>5. Adds(u, u \o r.out, Commit(r.e))
    BY <2>1, <2>4, Spoken
  <2> QED BY <2>3, <2>5 DEF Follows, Goes, r
<1>2. CASE ~(k.phase = "Established" /\ k.run = NoRun)
  <2>1. r = Result(k, <<>>, <<"none">>)
    BY <1>2 DEF begin_rekey
  <2>2. r.e = k /\ r.out = <<>>
    BY <2>1 DEF Result
  <2> HIDE DEF r
  <2> QED BY <2>2, StaysQuiet DEF r
<1> QED BY <1>1, <1>2

\* maybe_trigger_rekey, after what a message itself sends.
LEMMA TriggerFollows ==
  ASSUME NEW e, NEW k, DOMAIN k = EngineFields, Steady(e, k), NEW u, IsSequence(u),
         NEW d, ~Talk(d), NEW out, out \in {<<>>, <<d>>}
  PROVE  Follows(e, maybe_trigger_rekey(k, out), u)
<1> DEFINE b == IF k.messages >= REKEY_MESSAGE_LIMIT /\ ~k.rekey_blocked
                THEN begin_rekey(k) ELSE Result(k, <<>>, <<"none">>)
           r == maybe_trigger_rekey(k, out)
<1>1. r = [b EXCEPT !.out = out \o @]
  BY DEF maybe_trigger_rekey
<1>2. DOMAIN b = {"e", "out", "event", "deliver"}
  BY DEF begin_rekey, Result
<1>3. IsSequence(out) /\ \A j \in 1..Len(out) : ~Talk(out[j])
  <2>1. CASE out = <<>>
    BY <2>1, NoneSent
  <2>2. CASE out = <<d>>
    <3>1. Len(<<d>>) = 1 /\ <<d>>[1] = d
      OBVIOUS
    <3> QED BY <2>2, <3>1, OneSent
  <2> QED BY <2>1, <2>2
<1>4. CASE /\ k.messages >= REKEY_MESSAGE_LIMIT /\ ~k.rekey_blocked
           /\ k.phase = "Established" /\ k.run = NoRun
  <2>1. b = begin_rekey(k)
    BY <1>4
  <2>2. /\ Ran(k, b.e, Run(k, "Rekey", "Initiator", k.active.id, NoFrame, "Hello"))
        /\ b.out = <<Commit(b.e)>>
    BY <1>4, <2>1, RunBegun
  <2> HIDE DEF b, r
  <2>3. b.e.run.step = "Hello" /\ b.e.run # NoRun
    BY <2>2 DEF Ran, Run, NoRun
  <2>4. Opens(e, b.e)
    BY <1>4, <2>2, <2>3 DEF Opens, Steady, Ran, Keeps
  <2>5. Talk(Commit(b.e))
    BY DEF Talk, Commit, CommitPayload
  <2>6. r.e = b.e /\ r.out = out \o <<Commit(b.e)>>
    BY <1>1, <1>2, <2>2
  <2>7. Adds(u, u \o (out \o <<Commit(b.e)>>), Commit(b.e))
    <3> DEFINE c == Commit(b.e)
    <3> HIDE DEF c
    <3>1. CASE out = <<>>
      <4>1. <<>> \o <<c>> = <<c>>
        OBVIOUS
      <4> QED BY <2>5, <3>1, <4>1, Spoken DEF c
    <3>2. CASE out = <<d>>
      <4>1. Adds(u, u \o (<<d>> \o <<c>>), c)
        BY <2>5, SpokenAfter DEF c
      <4> QED BY <3>2, <4>1 DEF c
    <3> QED BY <3>1, <3>2
  <2> QED BY <2>4, <2>6, <2>7 DEF Follows, Goes, r
<1>5. CASE ~(/\ k.messages >= REKEY_MESSAGE_LIMIT /\ ~k.rekey_blocked
             /\ k.phase = "Established" /\ k.run = NoRun)
  <2>1. b = Result(k, <<>>, <<"none">>)
    BY <1>5 DEF begin_rekey
  <2>2. b.e = k /\ b.out = <<>>
    BY <2>1 DEF Result
  <2> HIDE DEF b, r
  <2>3. r.e = k /\ r.out = out \o <<>>
    BY <1>1, <1>2, <2>2
  <2>4. out \o <<>> = out
    <3>1. PICK S : out \in Seq(S)
      BY <1>3 DEF IsSequence
    <3> QED BY <3>1
  <2>5. r.out = out
    BY <2>3, <2>4
  <2> QED BY <1>3, <2>3, <2>5, GoesQuietly DEF r
<1> QED BY <1>4, <1>5

\* Counting a frame is steady.
LEMMA CountsSteady ==
  ASSUME NEW e, NEW k, DOMAIN k = EngineFields, Steady(e, k)
  PROVE  DOMAIN Counted(k) = EngineFields /\ Steady(e, Counted(k))
<1>1. /\ DOMAIN Counted(k) = EngineFields
      /\ Counted(k).identity = k.identity /\ Counted(k).role = k.role
      /\ Counted(k).phase = k.phase /\ Counted(k).run = k.run /\ Counted(k).active = k.active
      /\ Counted(k).rekey_blocked = k.rekey_blocked
  BY DEF Counted, EngineFields
<1> QED BY <1>1 DEF Steady

\* on_send.
LEMMA SendFollows ==
  ASSUME NEW e, EngineOK(e), NEW content, NEW u, IsSequence(u)
  PROVE  Follows(e, on_send(e, content), u)
<1> DEFINE r == on_send(e, content)
           d == DataPayload(e.active.id, e.active.role, e.active.counter, content)
           x == Sealed(e)
<1>1. \/ r \in {Result(e, <<>>, <<"SendRejected", "TooLarge">>),
                Result(e, <<>>, <<"SendRejected", "NotActive">>)}
      \/ r = terminate(e, "ProtocolError", "ProtocolError")
      \/ r = maybe_trigger_rekey(Counted(x), <<d>>) /\ e.phase = "Established"
  BY DEF on_send, Sealed
<1>2. DOMAIN e = EngineFields
  BY DEF EngineOK, Held
<1>3. ~Talk(d)
  BY DEF Talk, DataPayload
<1> HIDE DEF r, d
<1>4. CASE r \in {Result(e, <<>>, <<"SendRejected", "TooLarge">>),
                  Result(e, <<>>, <<"SendRejected", "NotActive">>)}
  <2>1. r.e = e /\ r.out = <<>>
    BY <1>4 DEF Result
  <2>2. Steady(e, e)
    BY DEF Steady
  <2> QED BY <2>1, <2>2, StaysQuiet DEF r
<1>5. CASE r = terminate(e, "ProtocolError", "ProtocolError")
  BY <1>2, <1>5, TerminateOver DEF Follows, r
<1>6. CASE r = maybe_trigger_rekey(Counted(x), <<d>>) /\ e.phase = "Established"
  <2>1. DOMAIN e.active = SessionFields
    BY <1>6 DEF EngineOK, Held
  <2>2. /\ DOMAIN x = EngineFields /\ x.identity = e.identity /\ x.role = e.role
        /\ x.phase = e.phase /\ x.run = e.run /\ x.rekey_blocked = e.rekey_blocked
        /\ x.active = [e.active EXCEPT !.counter = @ + 1]
    BY <1>2 DEF EngineFields, Sealed
  <2>3. x.active.id = e.active.id /\ x.active.peer = e.active.peer
    BY <2>1, <2>2 DEF SessionFields
  <2> HIDE DEF x
  <2>4. Steady(e, x)
    BY <2>2, <2>3 DEF Steady
  <2>5. DOMAIN Counted(x) = EngineFields /\ Steady(e, Counted(x))
    BY <2>2, <2>4, CountsSteady
  <2> QED BY <1>3, <1>6, <2>5, TriggerFollows DEF r
<1> QED BY <1>1, <1>4, <1>5, <1>6

\* on_frame, given DATA.
LEMMA EarlyDataEnds ==
  ASSUME NEW e, EngineOK(e), e.phase = "Handshaking", NEW f, f.kind = "DATA"
  PROVE  Over(e, on_frame(e, f))
<1>1. MessageType(f) = "Data" /\ ~(\E kind \in {"COMMIT", "HELLO", "AUTH", "CONFIRM"} : Decodes(f, kind))
  BY DEF MessageType, Decodes
<1>2. DOMAIN e = EngineFields
  BY DEF EngineOK, Held
<1>3. \A why, notify : Over(e, terminate(e, why, notify))
  BY <1>2, TerminateOver
<1>4. \A error : Over(e, Fail(e, error)) /\ Over(e, fail_initial(e, error))
  BY <1>3 DEF Fail, fail_initial
<1>5. CASE e.run = NoRun
  <2>1. on_frame(e, f) = fail_initial(e, "InvalidHandshake")
    BY <1>1, <1>5 DEF on_frame, accept_first_commit
  <2> QED BY <1>4, <2>1
<1>6. CASE e.run # NoRun
  <2>1. on_frame(e, f) = step_run(e, f) /\ e.run.step \in Steps
    BY <1>1, <1>6 DEF on_frame, EngineOK, HasRun
  <2>2. \A role : HelloError(e, f, role) = "InvalidHandshake"
    BY <1>1 DEF HelloError
  <2>3. /\ step_Hello(e, f) = Fail(e, "InvalidHandshake")
        /\ step_Reveal(e, f) = Fail(e, "InvalidHandshake")
    BY <2>2 DEF step_Hello, step_Reveal
  <2>4. /\ step_Sas(e, f) = Fail(e, "InvalidStateTransition")
        /\ step_AuthInit(e, f) = Fail(e, "InvalidHandshake")
        /\ step_AuthResp(e, f) = Fail(e, "InvalidHandshake")
        /\ step_ConfirmResp(e, f) = Fail(e, ConfirmError(f))
        /\ step_ConfirmInit(e, f) = Fail(e, ConfirmError(f))
    BY <1>1 DEF step_Sas, step_AuthInit, step_AuthResp, step_ConfirmResp, step_ConfirmInit,
                verify_auth, verify_from
  <2> QED BY <1>4, <2>1, <2>3, <2>4 DEF step_run, Steps, AskedSteps
<1> QED BY <1>5, <1>6

\* A DATA frame: early it ends the connection, otherwise it is opened, and may be what starts a rekey.
LEMMA DataFollows ==
  ASSUME NEW e, EngineOK(e), e.phase \in {"Handshaking", "Established"},
         NEW f, f.kind = "DATA", NEW u, IsSequence(u)
  PROVE  Follows(e, on_frame(e, f), u)
<1>1. CASE e.phase = "Handshaking"
  BY <1>1, EarlyDataEnds DEF Follows
<1>2. CASE e.phase = "Established"
  <2> DEFINE r == on_data(e, f)
             x == Opened(e, f)
  <2>1. on_frame(e, f) = r
    BY <1>2 DEF on_frame, MessageType
  <2>2. /\ DOMAIN e = EngineFields /\ DOMAIN e.active = SessionFields
        /\ e.draining = NoSession \/ DOMAIN e.draining = SessionFields
    BY <1>2 DEF EngineOK, Held
  <2>3. /\ DOMAIN x = EngineFields
        /\ x.identity = e.identity /\ x.role = e.role /\ x.phase = e.phase /\ x.run = e.run
        /\ x.active = decrypt(e.active, f) /\ x.rekey_blocked = e.rekey_blocked
    BY <2>2 DEF Opened, EngineFields
  <2>4. x.active.id = e.active.id /\ x.active.peer = e.active.peer
    BY <2>2, <2>3, DecryptMoves
  <2>5. \/ r = [maybe_trigger_rekey(Counted(x), <<>>) EXCEPT !.deliver = f.content]
        \/ r = [Result(x, <<>>, <<"none">>) EXCEPT !.deliver = f.content]
        \/ r = terminate(x, "ProtocolError", "ProtocolError")
        \/ r = Result(x, <<>>, <<"DataRejected">>)
    BY <2>2 DEF on_data, Opened, EngineFields
  <2> HIDE DEF x, r
  <2>6. Steady(e, x)
    BY <2>3, <2>4 DEF Steady
  <2>7. DOMAIN Counted(x) = EngineFields /\ Steady(e, Counted(x))
    BY <2>3, <2>6, CountsSteady
  <2>8. CASE r = [maybe_trigger_rekey(Counted(x), <<>>) EXCEPT !.deliver = f.content]
    <3> DEFINE s == maybe_trigger_rekey(Counted(x), <<>>)
    <3>1. ~Talk(f)
      BY DEF Talk
    <3>2. Follows(e, s, u)
      BY <2>7, <3>1, TriggerFollows
    <3>3. r.e = s.e /\ r.out = s.out
      BY <2>8 DEF maybe_trigger_rekey, begin_rekey, Result
    <3> HIDE DEF s
    <3> QED BY <2>1, <3>2, <3>3 DEF Follows, Over
  <2>9. CASE r \in {[Result(x, <<>>, <<"none">>) EXCEPT !.deliver = f.content],
                    Result(x, <<>>, <<"DataRejected">>)}
    <3>1. r.e = x /\ r.out = <<>>
      BY <2>9 DEF Result
    <3> QED BY <2>1, <2>6, <3>1, StaysQuiet
  <2>10. CASE r = terminate(x, "ProtocolError", "ProtocolError")
    BY <2>1, <2>3, <2>10, TerminateOver DEF Follows
  <2> QED BY <2>5, <2>8, <2>9, <2>10
<1> QED BY <1>1, <1>2

\* on_close_frame.
LEMMA CloseFollows ==
  ASSUME NEW e, EngineOK(e), e.phase \in {"Handshaking", "Established"},
         NEW f, f.kind = "CLOSE", NEW u, IsSequence(u)
  PROVE  Follows(e, on_frame(e, f), u)
<1> DEFINE r == on_close_frame(e, f)
           o == [e EXCEPT !.draining = NoSession]
           x == cancel(o, {"Drain"})
<1>1. on_frame(e, f) = r
  BY DEF on_frame, MessageType
<1>2. DOMAIN e = EngineFields
  BY DEF EngineOK, Held
<1>3. \/ r \in {terminate(e, "ProtocolError", "ProtocolError"),
                terminate(e, "PeerUnauthenticated", "none")}
      \/ r \in {Result(e, <<>>, <<"none">>), Result(x, <<>>, <<"none">>)}
  BY DEF on_close_frame
<1>4. Steady(e, e)
  BY DEF Steady
<1>5. Steady(e, x)
  BY <1>2 DEF Steady, cancel, EngineFields
<1> HIDE DEF r, x
<1>6. CASE r \in {terminate(e, "ProtocolError", "ProtocolError"),
                  terminate(e, "PeerUnauthenticated", "none")}
  BY <1>1, <1>2, <1>6, TerminateOver DEF Follows
<1>7. CASE r \in {Result(e, <<>>, <<"none">>), Result(x, <<>>, <<"none">>)}
  <2>1. r.e \in {e, x} /\ r.out = <<>>
    BY <1>7 DEF Result
  <2> QED BY <1>1, <1>4, <1>5, <2>1, StaysQuiet
<1> QED BY <1>3, <1>6, <1>7

\* on_timeout: the rekey timer.
LEMMA DueFollows ==
  ASSUME NEW e, EngineOK(e), NEW u, IsSequence(u)
  PROVE  Follows(e, on_timeout(e, "RekeyDue"), u)
<1> DEFINE k == [Fired(e, "RekeyDue") EXCEPT !.rekey_blocked = FALSE, !.late_rekey_frames = 0]
           r == on_timeout(e, "RekeyDue")
<1>1. DOMAIN e = EngineFields
  BY DEF EngineOK, Held
<1>2. CASE "RekeyDue" \in e.deadlines
  <2>1. r = begin_rekey(k)
    BY <1>2 DEF on_timeout, Fired
  <2>2. DOMAIN k = EngineFields /\ Steady(e, k)
    BY <1>1 DEF Fired, Steady, EngineFields
  <2> HIDE DEF k, r
  <2> QED BY <2>1, <2>2, BeginFollows DEF r
<1>3. CASE "RekeyDue" \notin e.deadlines
  <2>1. r.e = e /\ r.out = <<>>
    BY <1>3 DEF on_timeout, Result
  <2>2. Steady(e, e)
    BY DEF Steady
  <2> HIDE DEF r
  <2> QED BY <2>1, <2>2, StaysQuiet DEF r
<1> QED BY <1>2, <1>3

\* The ends.
LEMMA EndsFollow ==
  ASSUME NEW e, EngineOK(e), NEW respond, NEW u
  PROVE  /\ Follows(e, local_close(e), u)
         /\ Follows(e, transport_closed(e), u)
         /\ Follows(e, malformed(e, respond), u)
<1>1. DOMAIN e = EngineFields
  BY DEF EngineOK, Held
<1> QED BY <1>1, TerminateOver DEF Follows, local_close, transport_closed, malformed

\* start: only an engine that has not started is changed by it.
LEMMA StartContinues ==
  ASSUME NEW e, NEW p, NEW q, NEW u, Fit(e, p), Fit(p, e), Dialogue(e, p, q, u),
         e.phase = "Idle", IsSequence(u)
  PROVE  LET s == start(e) IN Dialogue(s.e, p, q, u \o s.out)
<1> DEFINE s == start(e)
           x == s.e
           w == u \o s.out
<1>1. /\ DOMAIN x = EngineFields /\ x.identity = e.identity /\ x.role = e.role
      /\ x.phase = "Handshaking" /\ x.rekey_blocked = e.rekey_blocked
      /\ e.role = "Initiator" =>
            /\ x.run = Run(e, "Initial", "Initiator", NoId, NoFrame, "Hello")
            /\ s.out = <<Commit(x)>>
      /\ e.role # "Initiator" => x.run = e.run /\ s.out = <<>>
  BY RunParts, RunStarted
<1>2. e.run.step = "None"
  <2>1. e.run = NoRun
    BY DEF Fit, EngineOK
  <2> QED BY <2>1 DEF NoRun
<1>3. ~x.rekey_blocked /\ ~p.rekey_blocked
  BY <1>1 DEF Dialogue
<1> HIDE DEF s
<1>4. CASE Talks(e, p, q, u)
  <2>1. Unopened(e, p, q, u)
    BY <1>2, <1>4 DEF Talks, Calling, Resting, Crossing, Answered, Revealed, Signing, Vouching,
                      Finishing, Level
  <2>2. x.run.step = "Hello" /\ x.run.previous = NoId
    BY <1>1, <2>1 DEF Run, Unopened
  <2>3. Talk(Commit(x))
    BY DEF Commit, CommitPayload, Talk
  <2>4. Adds(u, u \o <<Commit(x)>>, Commit(x))
    BY <2>3, Spoken
  <2>5. Says(w, Commit(x))
    BY <1>1, <2>1, <2>4 DEF Adds, Unopened
  <2> HIDE DEF w
  <2>6. Calling(x, p, q, w)
    BY <1>1, <2>1, <2>2, <2>5 DEF Unopened, Calling
  <2> HIDE DEF x
  <2> QED BY <1>3, <2>6 DEF Dialogue, Talks, x, w, s
<1>5. CASE Talks(p, e, u, q)
  <2>1. Unopened(p, e, u, q) \/ Calling(p, e, u, q)
    BY <1>2, <1>5 DEF Talks, Resting, Crossing, Answered, Revealed, Signing, Vouching,
                      Finishing, Level
  <2>2. e.role = "Responder" /\ e.run = NoRun
    BY <2>1 DEF Unopened, Calling, Level
  <2>3. x.run = NoRun /\ s.out = <<>>
    BY <1>1, <2>2
  <2>4. w = u
    <3>1. PICK S : u \in Seq(S)
      BY DEF IsSequence
    <3>2. u \o <<>> = u
      BY <3>1
    <3> QED BY <2>3, <3>2
  <2> HIDE DEF w
  <2>5. Unopened(p, x, w, q) \/ Calling(p, x, w, q)
    BY <1>1, <2>1, <2>2, <2>3, <2>4 DEF Unopened, Calling, Level
  <2> HIDE DEF x
  <2> QED BY <1>3, <2>5 DEF Dialogue, Talks, x, w, s
<1> QED BY <1>4, <1>5 DEF Dialogue

\* The user approves: what after_approval makes of e.
LEMMA ApprovedParts ==
  ASSUME NEW e, DOMAIN e = EngineFields, DOMAIN e.run = RunFields,
         e.phase = "Handshaking", e.run.step = "Sas"
  PROVE  LET s == on_sas(e, TRUE) IN
         /\ e.run.role = "Initiator" =>
              /\ OnRun(e, s.e, "AuthResp", e.run.transcript, e.run.early)
              /\ s.out = <<HandshakePayload(0, e.run.transcript)>>
         /\ e.run.role # "Initiator" /\ e.run.early = NoFrame =>
              OnRun(e, s.e, "AuthInit", e.run.transcript, NoFrame) /\ s.out = <<>>
         /\ /\ e.run.role # "Initiator" /\ e.run.early # NoFrame
            /\ e.run.early = HandshakePayload(0, e.run.transcript)
            => /\ OnRun(e, s.e, "ConfirmInit", e.run.transcript, NoFrame)
               /\ s.out = <<HandshakePayload(1, e.run.transcript)>>
<1> DEFINE k == cancel(e, {"SasDecision"})
           s == on_sas(e, TRUE)
<1>1. s = after_approval(k)
  BY DEF on_sas
<1>2. Keeps(e, k) /\ k.run = e.run /\ k.entropy = e.entropy
  BY ArmsKeep
<1> HIDE DEF k, s
<1>3. DOMAIN k = EngineFields /\ DOMAIN k.run = RunFields
  BY <1>2 DEF Keeps
<1>4. \A x, z, t, a : OnRun(k, x, z, t, a) => OnRun(e, x, z, t, a)
  BY <1>2 DEF OnRun, Keeps
<1>5. /\ e.run.role = "Initiator" =>
              /\ OnRun(k, s.e, "AuthResp", e.run.transcript, e.run.early)
              /\ s.out = <<HandshakePayload(0, e.run.transcript)>>
      /\ e.run.role # "Initiator" /\ e.run.early = NoFrame =>
              OnRun(k, s.e, "AuthInit", e.run.transcript, NoFrame) /\ s.out = <<>>
      /\ /\ e.run.role # "Initiator" /\ e.run.early # NoFrame
         /\ e.run.early = HandshakePayload(0, e.run.transcript)
         => /\ OnRun(k, s.e, "ConfirmInit", e.run.transcript, NoFrame)
            /\ s.out = <<HandshakePayload(1, e.run.transcript)>>
  BY <1>1, <1>2, <1>3, GoesOn
<1> QED BY <1>4, <1>5 DEF s

\* The initiator's user approves: the signature is sent.
LEMMA ApprovedByI ==
  ASSUME NEW i, NEW r, NEW qi, NEW qr, Fit(i, r), Fit(r, i), Talks(i, r, qi, qr),
         i.phase = "Handshaking", i.run.step = "Sas", IsSequence(qr)
  PROVE  LET s == on_sas(i, TRUE) IN
         /\ Talks(s.e, r, qi, qr \o s.out)
         /\ s.e.rekey_blocked = i.rekey_blocked
<1> DEFINE s == on_sas(i, TRUE)
           w == qr \o s.out
           f == HandshakePayload(0, i.run.transcript)
<1>1. Revealed(i, r, qi, qr) \/ Signing(i, r, qi, qr)
  BY DEF Talks, Unopened, Calling, Resting, Crossing, Answered, Vouching, Finishing, Level, NoRun
<1>2. /\ Met(i, r) /\ i.run.role = "Initiator" /\ i.run.transcript = Deal(i, r)
      /\ f = Auth(0, i, r)
  BY <1>1 DEF Revealed, Signing, Met, Auth
<1>3. DOMAIN i = EngineFields /\ DOMAIN i.run = RunFields
  BY RunParts
<1>4. OnRun(i, s.e, "AuthResp", i.run.transcript, i.run.early) /\ s.out = <<f>>
  BY <1>2, <1>3, ApprovedParts
<1>5. Talk(f)
  BY DEF Talk, HandshakePayload
<1> HIDE DEF s, f
<1>6. Adds(qr, w, f)
  BY <1>4, <1>5, Spoken
<1> HIDE DEF w
<1>7. Met(s.e, r) /\ Deal(s.e, r) = Deal(i, r) /\ Auth(0, s.e, r) = f
  BY <1>2, <1>4, MetOn
<1>8. /\ s.e.run.step = "AuthResp" /\ s.e.run.transcript = i.run.transcript
      /\ s.e.run.local_hello = i.run.local_hello /\ s.e.phase = "Handshaking"
      /\ s.e.rekey_blocked = i.rekey_blocked
  BY <1>4 DEF OnRun, Keeps
<1>9. CASE Revealed(i, r, qi, qr)
  <2>1. SaysBoth(w, i.run.local_hello, f)
    BY <1>6, <1>9 DEF Revealed, Adds
  <2>2. Revealed(s.e, r, qi, w)
    BY <1>2, <1>7, <1>8, <1>9, <2>1 DEF Revealed
  <2> QED BY <1>8, <2>2 DEF Talks, s, w
<1>10. CASE Signing(i, r, qi, qr)
  <2>1. Says(w, f) /\ r.run.early = NoFrame
    BY <1>6, <1>10 DEF Signing, Adds
  <2>2. Signing(s.e, r, qi, w)
    BY <1>2, <1>7, <1>8, <1>10, <2>1 DEF Signing
  <2> QED BY <1>8, <2>2 DEF Talks, s, w
<1> QED BY <1>1, <1>9, <1>10

\* The responder's user approves: the initiator's signature is awaited, or the
\* one that was kept is answered.
LEMMA ApprovedByR ==
  ASSUME NEW i, NEW r, NEW qi, NEW qr, Fit(i, r), Fit(r, i), Talks(i, r, qi, qr),
         r.phase = "Handshaking", r.run.step = "Sas", IsSequence(qi)
  PROVE  LET s == on_sas(r, TRUE) IN
         /\ Talks(i, s.e, qi \o s.out, qr)
         /\ s.e.rekey_blocked = r.rekey_blocked
<1> DEFINE s == on_sas(r, TRUE)
           w == qi \o s.out
           t == r.run.transcript
           f == HandshakePayload(0, t)
           g == HandshakePayload(1, t)
<1>1. Signing(i, r, qi, qr)
  BY DEF Talks, Unopened, Calling, Resting, Crossing, Answered, Revealed, Vouching, Finishing,
         Level, NoRun
<1>2. /\ Met(i, r) /\ r.run.role = "Responder" /\ t = Deal(i, r)
      /\ f = Auth(0, i, r) /\ g = Auth(1, i, r) /\ Silent(qi)
      /\ i.run.transcript = Deal(i, r)
      /\ r.run.early = NoFrame \/ (r.run.early = f /\ i.run.step = "AuthResp" /\ Silent(qr))
  BY <1>1 DEF Signing, Met, Auth
<1>3. DOMAIN r = EngineFields /\ DOMAIN r.run = RunFields
  BY RunParts
<1>4. f # NoFrame /\ Talk(g)
  BY DEF Talk, HandshakePayload, NoFrame
<1>5. CASE r.run.early = NoFrame
  <2>1. OnRun(r, s.e, "AuthInit", t, NoFrame) /\ s.out = <<>>
    BY <1>2, <1>3, <1>5, ApprovedParts
  <2> HIDE DEF s, f, g
  <2>2. Silent(w)
    <3>1. IsSequence(s.out) /\ \A k \in 1..Len(s.out) : ~Talk(s.out[k])
      BY <2>1, NoneSent
    <3> QED BY <1>2, <3>1, HushMore DEF Hushed
  <2> HIDE DEF w
  <2>3. Met(i, s.e) /\ Deal(i, s.e) = Deal(i, r) /\ Auth(0, i, s.e) = Auth(0, i, r)
    BY <1>2, <2>1, MetOn
  <2>4. /\ s.e.run.step = "AuthInit" /\ s.e.run.transcript = t /\ s.e.run.early = NoFrame
        /\ s.e.rekey_blocked = r.rekey_blocked
    BY <2>1 DEF OnRun, Keeps
  <2>5. i.run.step = "AuthResp" /\ Silent(qr) /\ r.run.early = f => FALSE
    BY <1>4, <1>5
  <2>6. Signing(i, s.e, w, qr)
    BY <1>1, <1>2, <1>5, <2>2, <2>3, <2>4, <2>5 DEF Signing
  <2> QED BY <2>4, <2>6 DEF Talks, s, w
<1>6. CASE r.run.early # NoFrame
  <2>1. OnRun(r, s.e, "ConfirmInit", t, NoFrame) /\ s.out = <<g>>
    BY <1>2, <1>3, <1>6, ApprovedParts
  <2> HIDE DEF s, f, g
  <2>2. Says(w, g)
    BY <1>2, <1>4, <2>1, Spoken DEF Adds
  <2> HIDE DEF w
  <2>3. Met(i, s.e) /\ Deal(i, s.e) = Deal(i, r) /\ Auth(1, i, s.e) = g
    BY <1>2, <2>1, MetOn
  <2>4. /\ s.e.run.step = "ConfirmInit" /\ s.e.run.transcript = t
        /\ s.e.rekey_blocked = r.rekey_blocked
    BY <2>1 DEF OnRun, Keeps
  <2>5. Vouching(i, s.e, w, qr)
    BY <1>2, <1>6, <2>2, <2>3, <2>4 DEF Vouching
  <2> QED BY <2>4, <2>5 DEF Talks, s, w
<1> QED BY <1>5, <1>6

\* The user answers.
LEMMA SasContinues ==
  ASSUME NEW e, NEW p, NEW q, NEW u, Fit(e, p), Fit(p, e), Dialogue(e, p, q, u),
         IsSequence(u), NEW answer \in BOOLEAN
  PROVE  LET s == on_sas(e, answer) IN Over(e, s) \/ Dialogue(s.e, p, q, u \o s.out)
<1> DEFINE s == on_sas(e, answer)
           k == cancel(e, {"SasDecision"})
<1>1. DOMAIN e = EngineFields
  BY DEF Fit, EngineOK, Held
<1>2. CASE e.phase # "Handshaking" \/ e.run.step # "Sas"
  <2>1. s = Result(e, <<>>, <<"none">>)
    BY <1>2 DEF on_sas
  <2>2. s.e = e /\ s.out = <<>>
    BY <2>1 DEF Result
  <2> HIDE DEF s
  <2>3. u \o s.out = u
    <3>1. PICK S : u \in Seq(S)
      BY DEF IsSequence
    <3>2. u \o <<>> = u
      BY <3>1
    <3> QED BY <2>2, <3>2
  <2> QED BY <2>2, <2>3 DEF s
<1>3. CASE e.phase = "Handshaking" /\ e.run.step = "Sas" /\ ~answer
  <2>1. s = terminate(k, "SasRejected", "AuthenticationFailure")
    BY <1>3 DEF on_sas
  <2>2. DOMAIN k = EngineFields /\ k.rekey_blocked = e.rekey_blocked
    BY <1>1, ArmsKeep DEF Keeps
  <2> HIDE DEF k, s
  <2> QED BY <2>1, <2>2, TerminateOver DEF s
<1>4. CASE e.phase = "Handshaking" /\ e.run.step = "Sas" /\ answer
  <2>1. answer = TRUE
    BY <1>4
  <2>2. CASE Talks(e, p, q, u)
    <3>1. Talks(s.e, p, q, u \o s.out) /\ s.e.rekey_blocked = e.rekey_blocked
      BY <1>4, <2>1, <2>2, ApprovedByI
    <3> HIDE DEF s
    <3> QED BY <3>1 DEF Dialogue, s
  <2>3. CASE Talks(p, e, u, q)
    <3>1. Talks(p, s.e, u \o s.out, q) /\ s.e.rekey_blocked = e.rekey_blocked
      BY <1>4, <2>1, <2>3, ApprovedByR
    <3> HIDE DEF s
    <3> QED BY <3>1 DEF Dialogue, s
  <2> QED BY <2>2, <2>3 DEF Dialogue
<1> QED BY <1>2, <1>3, <1>4

-----------------------------------------------------------------------------
(* A connection that stays calm.                                           *)

\* Only the rekey timer expires, and nothing is damaged or broken.
Calm == EXPIRING \subseteq {"RekeyDue"} /\ MAX_FAULTS = 0

\* p, with u in flight to it, is the other end that e talks with: the engine z of
\* the peer, with the channel c to it, while z is open, and else what z was.
Counterpart(z, c, e, p, u) ==
    /\ z.phase # "Closed" => p = z /\ u = c
    /\ p.identity = z.identity
    /\ Fit(p, e) /\ IsSequence(u)

Linked(n) ==
    engine[n].phase # "Closed" =>
        \E p, u : /\ Counterpart(engine[Peer(n)], channel[Peer(n)], engine[n], p, u)
                  /\ Dialogue(engine[n], p, channel[n], u)

Calmness ==
    /\ Agreement
    /\ \A n \in Node : /\ engine[n].identity \in Nat
                       /\ ~engine[n].rekey_blocked
                       /\ Linked(n)

\* Both ends are what the lemmas on handlers ask for.
LEMMA FitNow ==
  ASSUME NEW e, NEW p, NEW q, NEW u, NEW k, EngineOK(e), Ends2(e, p, q, u, k)
  PROVE  Fit(e, p) /\ IsSequence(q)
<1> DEFINE id == SessionKeys(e.run.transcript)
<1>1. /\ Sound(e, p.identity) /\ e.identity # p.identity /\ IsSequence(q)
  BY DEF Ends2, End, ChannelSane
<1>2. ASSUME e.run.step \in AskedSteps PROVE e.active.id # id
  <2>1. e.run # NoRun
    BY <1>2 DEF NoRun, AskedSteps
  <2>2. Latest(e, p.identity, e.run.role, id)
    BY <1>1, <1>2, <2>1, RunIsLatest
  <2>3. \A s \in SessionSet(e) : s.id # id
    BY <2>2, NothingOfLatest
  <2>4. CASE e.active = NoSession
    <3>1. id # NoId
      BY DEF SessionKeys, NoId
    <3> QED BY <2>4, <3>1 DEF NoSession
  <2>5. CASE e.active # NoSession
    BY <2>3, <2>5 DEF SessionSet
  <2> QED BY <2>4, <2>5
<1> QED BY <1>1, <1>2 DEF Fit

\* And so of both nodes, at any time.
LEMMA BothFit ==
  ASSUME Agreement, NEW n \in Node
  PROVE  Fit(engine[n], engine[Peer(n)]) /\ IsSequence(channel[n])
BY FitNow DEF Agreement, EnginesOK

\* Who is in a dialogue has not closed.
LEMMA NobodyClosed ==
  ASSUME NEW e, EngineOK(e), NEW p, NEW q, NEW u, Dialogue(e, p, q, u)
  PROVE  e.phase # "Closed"
<1>1. e.phase = "Closed" => e.run.step = "None"
  BY DEF EngineOK, NoRun
<1>2. Talks(e, p, q, u) => e.phase # "Closed"
  BY <1>1 DEF Talks, Unopened, Calling, Resting, Crossing, Answered, Revealed, Signing, Vouching,
              Finishing, Level
<1>3. Talks(p, e, u, q) => e.phase # "Closed"
  BY <1>1 DEF Talks, Unopened, Calling, Resting, Crossing, Answered, Revealed, Signing, Vouching,
              Finishing, Level
<1> QED BY <1>2, <1>3 DEF Dialogue

\* Effects handed out change nothing.
LEMMA SettledSteady ==
  ASSUME NEW e, EngineOK(e)
  PROVE  Steady(e, Settled(e)) /\ EngineOK(Settled(e))
BY Settles DEF Steady, Settled, EngineOK, Held, EngineFields

\* What a step of n makes of its dialogue.
Continues(n, r, v) ==
    LET e == engine[n] IN
    /\ EngineOK(r.e) /\ IsSequence(r.out) /\ r.e.identity = e.identity
    /\ \A p, u :
          /\ Fit(e, p) /\ Fit(p, e) /\ p.identity \in Nat /\ IsSequence(u)
          /\ Dialogue(e, p, channel[n], u)
          => Over(e, r) \/ Dialogue(r.e, p, v, u \o r.out)

\* One engine is handed an input: what it does must continue what its peer, or the counterpart it remembers, was about.
LEMMA PerformLinks ==
  ASSUME Calmness, Agreement', NEW n \in Node, engine[n].phase # "Closed",
         NEW r, NEW v, Perform(n, r, v), Continues(n, r, v)
  PROVE  Calmness'
<1> DEFINE m == Peer(n)
           e == engine[n]
           q == channel[n]
           x == Settled(r.e)
<1>1. m \in Node /\ m # n /\ Peer(m) = n /\ \A z \in Node : z = n \/ z = m
  BY Peers
<1>2. /\ engine'[n] = x /\ engine'[m] = engine[m]
      /\ channel'[n] = IF r.e.phase = "Closed" THEN <<>> ELSE v
      /\ channel'[m] = IF engine[m].phase = "Closed" THEN <<>> ELSE channel[m] \o r.out
  BY <1>1 DEF Perform, Calmness, Agreement, EnginesOK
<1>3. /\ EngineOK(r.e) /\ IsSequence(r.out) /\ r.e.identity = e.identity
      /\ Steady(r.e, x) /\ EngineOK(x)
  BY SettledSteady DEF Continues
<1>4. x.identity = e.identity /\ x.phase = r.e.phase /\ (x.rekey_blocked => r.e.rekey_blocked)
  BY <1>3 DEF Steady
<1>5. PICK p, u : Counterpart(engine[m], channel[m], e, p, u) /\ Dialogue(e, p, q, u)
  BY DEF Calmness, Linked
<1>6. /\ Fit(e, p) /\ Fit(p, e) /\ p.identity \in Nat /\ IsSequence(u)
      /\ p.identity = engine[m].identity
      /\ engine[m].phase # "Closed" => p = engine[m] /\ u = channel[m]
  <2>1. Fit(e, engine[m])
    BY BothFit DEF Calmness
  <2> QED BY <1>1, <1>5, <2>1 DEF Counterpart, Calmness, Fit
<1>7. Over(e, r) \/ Dialogue(r.e, p, v, u \o r.out)
  BY <1>5, <1>6 DEF Continues
<1>8. \A z \in Node : engine'[z].identity \in Nat
  BY <1>1, <1>2, <1>4 DEF Calmness
<1> HIDE DEF x
<1>9. CASE Over(e, r)
  <2>1. x.phase = "Closed" /\ ~x.rekey_blocked
    BY <1>4, <1>9 DEF Over, Calmness
  <2>2. Linked(m)'
    <3>1. SUFFICES ASSUME engine[m].phase # "Closed"
                   PROVE  \E z, w : /\ Counterpart(x, channel'[n], engine[m], z, w)
                                    /\ Dialogue(engine[m], z, channel'[m], w)
      BY <1>1, <1>2 DEF Linked
    <3>2. p = engine[m] /\ u = channel[m]
      BY <1>6, <3>1
    <3>3. Dialogue(engine[m], e, channel[m], q)
      BY <1>5, <3>2, DialogueTurned
    <3>4. Steady(engine[m], engine[m]) /\ Hushed(q, q)
      BY HushSame DEF Steady
    <3>5. Hushed(channel[m], channel'[m])
      BY <1>2, <1>3, <1>6, <1>9, <3>1, <3>2, HushMore DEF Over
    <3>6. Dialogue(engine[m], e, channel'[m], q)
      BY <3>3, <3>4, <3>5, DialogueOn
    <3>7. IsSequence(q)
      BY BothFit DEF Calmness
    <3>8. Counterpart(x, channel'[n], engine[m], e, q)
      <4>1. Fit(e, engine[m])
        BY <1>6, <3>2
      <4> QED BY <1>1, <1>2, <1>4, <2>1, <3>7, <4>1 DEF Counterpart
    <3> QED BY <3>6, <3>8
  <2>3. Linked(n)'
    BY <1>2, <2>1 DEF Linked
  <2> QED BY <1>1, <1>2, <1>8, <2>1, <2>2, <2>3 DEF Calmness
<1>10. CASE ~Over(e, r)
  <2> DEFINE w == u \o r.out
  <2>1. Dialogue(r.e, p, v, w)
    BY <1>7, <1>10
  <2>2. IsSequence(w)
    BY <1>3, <1>6, BothSent
  <2>3. engine[m].phase # "Closed" => channel'[m] = w
    BY <1>2, <1>6
  <2> HIDE DEF w
  <2>4. Dialogue(x, p, v, w)
    BY <1>3, <2>1, HushSame, DialogueOn
  <2>5. x.phase # "Closed" /\ channel'[n] = v
    BY <1>2, <1>3, <1>4, <2>4, NobodyClosed
  <2>6. Fit(p, x)
    BY <1>4, <1>6 DEF Fit
  <2>7. Linked(n)'
    <3>1. Counterpart(engine[m], channel'[m], x, p, w)
      BY <1>1, <1>2, <1>6, <2>2, <2>3, <2>6 DEF Counterpart
    <3> QED BY <1>1, <1>2, <2>4, <2>5, <3>1 DEF Linked
  <2>8. Linked(m)'
    <3>1. SUFFICES ASSUME engine[m].phase # "Closed"
                   PROVE  \E z, y : /\ Counterpart(x, v, engine[m], z, y)
                                    /\ Dialogue(engine[m], z, channel'[m], y)
      BY <1>1, <1>2, <2>5 DEF Linked
    <3>2. Dialogue(engine[m], x, channel'[m], v)
      BY <1>6, <2>3, <2>4, <3>1, DialogueTurned
    <3>3. Fit(x, engine[m]) /\ IsSequence(v)
      <4>1. Ends2(x, engine[m], v, channel'[m], faults')
        BY <1>1, <1>2, <2>5 DEF Agreement
      <4> QED BY <1>3, <4>1, FitNow
    <3>4. Counterpart(x, v, engine[m], x, v)
      BY <1>1, <1>2, <2>5, <3>3 DEF Counterpart
    <3> QED BY <3>2, <3>4
  <2>9. ~x.rekey_blocked
    BY <2>4 DEF Dialogue
  <2> QED BY <1>1, <1>2, <1>8, <2>7, <2>8, <2>9 DEF Calmness
<1> QED BY <1>9, <1>10

\* An input that no talk answers.
LEMMA FollowedContinues ==
  ASSUME NEW n \in Node, NEW r, NEW v, EngineOK(r.e), IsSequence(r.out),
         r.e.identity = engine[n].identity, Hushed(channel[n], v),
         \A u : IsSequence(u) => Follows(engine[n], r, u)
  PROVE  Continues(n, r, v)
<1> DEFINE e == engine[n]
<1> SUFFICES ASSUME NEW p, NEW u, IsSequence(u), Dialogue(e, p, channel[n], u), ~Over(e, r)
             PROVE  Dialogue(r.e, p, v, u \o r.out)
  BY DEF Continues
<1>1. Goes(e, r.e, u, u \o r.out)
  BY DEF Follows
<1> QED BY <1>1, DialogueGoes

\* A frame that arrives.
LEMMA ReceiveContinues ==
  ASSUME Calmness, NEW n \in Node, Receive(n)
  PROVE  Continues(n, on_frame(engine[n], Head(channel[n])), Tail(channel[n]))
<1> DEFINE e == engine[n]
           q == channel[n]
           i == engine[Peer(n)].identity
           f == Head(q)
           r == on_frame(e, f)
           v == Tail(q)
<1>1. /\ q # <<>> /\ EngineOK(e) /\ Sound(e, i) /\ ChannelSane(q, engine[Peer(n)])
      /\ IsSequence(q) /\ e.phase \in {"Handshaking", "Established"} /\ e.identity \in Nat
  BY StepParts DEF Calmness, Receive, Open, EngineOK, ChannelSane
<1>2. EngineOK(r.e) /\ IsSequence(r.out)
  BY <1>1, Frame DEF Handled
<1>3. r.e.identity = e.identity
  <2>1. Reveals(f, i)
    BY <1>1, TailParts DEF ChannelSane, FrameSane, Reveals
  <2>2. CASE e.phase = "Established" /\ f.kind = "DATA"
    <3>1. r = on_data(e, f)
      BY <2>2 DEF on_frame, MessageType
    <3>2. Plays(Opened(e, f), i, NoInput, r.e, r.out)
      BY <1>1, <2>2, <3>1, PlaysData
    <3>3. Opened(e, f).identity = e.identity
      BY <1>1 DEF Opened, EngineOK, Held, EngineFields
    <3> QED BY <3>2, <3>3 DEF Plays
  <2>3. CASE ~(e.phase = "Established" /\ f.kind = "DATA")
    <3>1. Plays(e, i, f, r.e, r.out)
      BY <1>1, <2>1, <2>3, PlaysFrame
    <3> QED BY <3>1 DEF Plays
  <2> QED BY <2>2, <2>3
<1>4. CASE Talk(f)
  <2> SUFFICES ASSUME NEW p, NEW u, Fit(e, p), Fit(p, e), p.identity \in Nat, IsSequence(u),
                      Dialogue(e, p, q, u)
               PROVE  Dialogue(r.e, p, v, u \o r.out)
    BY <1>2, <1>3 DEF Continues
  <2>1. e.phase # "Idle"
    BY <1>1
  <2> QED BY <1>1, <1>4, <2>1, HearsTalk
<1>5. CASE ~Talk(f)
  <2>1. f.kind = "DATA" \/ f.kind = "CLOSE"
    BY <1>5 DEF Talk
  <2>2. \A u : IsSequence(u) => Follows(e, r, u)
    BY <1>1, <2>1, DataFollows, CloseFollows
  <2>3. Hushed(q, v)
    BY <1>1, <1>5, HushTail
  <2> HIDE DEF r
  <2> QED BY <1>2, <1>3, <2>2, <2>3, FollowedContinues DEF r
<1> QED BY <1>4, <1>5

\* The user answers.
LEMMA AnswerContinues ==
  ASSUME Calmness, NEW n \in Node, NEW answer \in BOOLEAN
  PROVE  Continues(n, on_sas(engine[n], answer), channel[n])
<1> DEFINE e == engine[n]
           r == on_sas(e, answer)
<1>1. EngineOK(e) /\ Sound(e, engine[Peer(n)].identity)
  BY StepParts DEF Calmness
<1>2. EngineOK(r.e) /\ IsSequence(r.out)
  BY <1>1, Answers DEF Handled
<1>3. r.e.identity = e.identity
  BY <1>1, PlaysAnswer DEF Plays
<1> SUFFICES ASSUME NEW p, NEW u, Fit(e, p), Fit(p, e), IsSequence(u),
                    Dialogue(e, p, channel[n], u)
             PROVE  Over(e, r) \/ Dialogue(r.e, p, channel[n], u \o r.out)
  BY <1>2, <1>3 DEF Continues
<1> QED BY SasContinues

\* The task starts the engine.
LEMMA StartedContinues ==
  ASSUME Calmness, NEW n \in Node, engine[n].phase = "Idle"
  PROVE  Continues(n, start(engine[n]), channel[n])
<1> DEFINE e == engine[n]
           r == start(e)
<1>1. EngineOK(e) /\ Sound(e, engine[Peer(n)].identity) /\ e.run = NoRun
  BY StepParts DEF Calmness, EngineOK
<1>2. EngineOK(r.e) /\ IsSequence(r.out)
  BY <1>1, Starts DEF Handled
<1>3. r.e.identity = e.identity
  <2>1. NoInput.kind # "CONFIRM"
    BY DEF NoInput, NoFrame
  <2> QED BY <1>1, <2>1, PlaysStart DEF Plays
<1> SUFFICES ASSUME NEW p, NEW u, Fit(e, p), Fit(p, e), IsSequence(u),
                    Dialogue(e, p, channel[n], u)
             PROVE  Dialogue(r.e, p, channel[n], u \o r.out)
  BY <1>2, <1>3 DEF Continues
<1> QED BY StartContinues

\* The user sends.
LEMMA SendContinues ==
  ASSUME Calmness, NEW n \in Node, NEW content
  PROVE  Continues(n, on_send(engine[n], content), channel[n])
<1> DEFINE e == engine[n]
           r == on_send(e, content)
<1>1. EngineOK(e) /\ Sound(e, engine[Peer(n)].identity)
  BY StepParts DEF Calmness
<1>2. EngineOK(r.e) /\ IsSequence(r.out)
  BY <1>1, Sends DEF Handled
<1>3. Sealed(e).identity = e.identity
  BY <1>1 DEF Sealed, EngineOK, Held, EngineFields
<1>4. r.e.identity = e.identity
  BY <1>1, <1>3, PlaysSend DEF Plays
<1>5. \A u : IsSequence(u) => Follows(e, r, u)
  BY <1>1, SendFollows
<1> HIDE DEF r
<1> QED BY <1>2, <1>4, <1>5, HushSame, FollowedContinues DEF r

\* A rekey is asked for, or due.
LEMMA RekeyContinues ==
  ASSUME Calmness, NEW n \in Node
  PROVE  /\ Continues(n, begin_rekey(engine[n]), channel[n])
         /\ "RekeyDue" \in engine[n].deadlines
              => Continues(n, on_timeout(engine[n], "RekeyDue"), channel[n])
<1> DEFINE e == engine[n]
           i == engine[Peer(n)].identity
           r == begin_rekey(e)
           s == on_timeout(e, "RekeyDue")
<1>1. EngineOK(e) /\ Sound(e, i) /\ DOMAIN e = EngineFields
  BY StepParts DEF Calmness, EngineOK, Held
<1>2. NoInput.kind # "CONFIRM" /\ "RekeyDue" \in DeadlineKind
  BY DEF NoInput, NoFrame, DeadlineKind
<1>3. EngineOK(r.e) /\ IsSequence(r.out) /\ r.e.identity = e.identity
  BY <1>1, <1>2, Begins, PlaysBegin DEF Handled, Plays
<1>4. ASSUME "RekeyDue" \in e.deadlines
      PROVE  EngineOK(s.e) /\ IsSequence(s.out) /\ s.e.identity = e.identity
  BY <1>1, <1>2, <1>4, Fires, PlaysTimeout DEF Handled, Plays
<1>5. \A u : IsSequence(u) => Follows(e, r, u) /\ Follows(e, s, u)
  <2>1. Steady(e, e)
    BY DEF Steady
  <2> QED BY <1>1, <2>1, BeginFollows, DueFollows
<1> HIDE DEF r, s
<1> QED BY <1>3, <1>4, <1>5, HushSame, FollowedContinues DEF r, s

\* The connection ends.
LEMMA EndContinues ==
  ASSUME Calmness, NEW n \in Node, NEW v, Hushed(channel[n], v)
  PROVE  /\ Continues(n, local_close(engine[n]), v)
         /\ Continues(n, transport_closed(engine[n]), v)
<1> DEFINE e == engine[n]
           r == local_close(e)
           s == transport_closed(e)
<1>1. EngineOK(e) /\ Sound(e, engine[Peer(n)].identity)
  BY StepParts DEF Calmness
<1>2. /\ EngineOK(r.e) /\ IsSequence(r.out)
      /\ EngineOK(s.e) /\ IsSequence(s.out)
  BY <1>1, Ends DEF Handled
<1>3. r.e.identity = e.identity /\ s.e.identity = e.identity
  BY <1>1, PlaysEnd DEF Plays, local_close, transport_closed
<1>4. \A u : Follows(e, r, u) /\ Follows(e, s, u)
  BY <1>1, EndsFollow
<1> HIDE DEF r, s
<1> QED BY <1>2, <1>3, <1>4, FollowedContinues DEF r, s

\* Two engines that have not started.
LEMMA CalmInit == Init => Calmness
<1> SUFFICES ASSUME Init PROVE Calmness
  OBVIOUS
<1>1. Agreement
  BY InitAgreement
<1> DEFINE d == NewEngine("Initiator", DIALER_IDENTITY)
           l == NewEngine("Responder", LISTENER_IDENTITY)
<1>2. /\ engine["dialer"] = d /\ engine["listener"] = l
      /\ channel["dialer"] = <<>> /\ channel["listener"] = <<>>
  BY DEF Init, Node
<1>3. Node = {"dialer", "listener"} /\ Peer("dialer") = "listener" /\ Peer("listener") = "dialer"
  BY DEF Node, Peer
<1>4. /\ d.identity \in Nat /\ l.identity \in Nat /\ ~d.rekey_blocked /\ ~l.rekey_blocked
      /\ d.phase = "Idle" /\ d.role = "Initiator"
      /\ l.phase = "Idle" /\ l.role = "Responder" /\ l.run = NoRun
  BY ConnectionBounds DEF NewEngine
<1>5. Fit(d, l) /\ Fit(l, d) /\ IsSequence(<<>>)
  BY <1>1, <1>2, <1>3, BothFit
<1>6. Silent(<<>>)
  BY NoneSent DEF Silent
<1> HIDE DEF d, l
<1>7. Unopened(d, l, <<>>, <<>>)
  BY <1>4, <1>6 DEF Unopened
<1>8. Dialogue(d, l, <<>>, <<>>) /\ Dialogue(l, d, <<>>, <<>>)
  BY <1>4, <1>7 DEF Dialogue, Talks
<1>9. Counterpart(l, <<>>, d, l, <<>>) /\ Counterpart(d, <<>>, l, d, <<>>)
  BY <1>5 DEF Counterpart
<1>10. Linked("dialer") /\ Linked("listener")
  BY <1>2, <1>3, <1>8, <1>9 DEF Linked
<1> QED BY <1>1, <1>2, <1>3, <1>4, <1>10 DEF Calmness

\* No step disturbs a calm connection.
LEMMA CalmStep ==
  ASSUME Calm, Calmness, [Next]_vars
  PROVE  Calmness'
<1>1. Agreement'
  BY AgreementStep DEF Calmness
<1>2. CASE UNCHANGED vars
  BY <1>1, <1>2 DEF vars, Calmness, Linked
<1>3. CASE Next
  <2>1. PICK n \in Node :
           \/ Start(n)
           \/ Receive(n)
           \/ \E answer \in BOOLEAN : SasDecision(n, answer)
           \/ LocalSend(n) \/ LocalSendTooLarge(n)
           \/ RequestRekey(n)
           \/ \E kind \in DeadlineKind : Timeout(n, kind)
           \/ LocalClose(n) \/ TransportClosed(n)
           \/ TransportLost(n)
           \/ \E respond \in BOOLEAN : ReceiveMalformed(n, respond)
           \/ Damage(n)
    BY <1>3 DEF Next
  <2>2. ~(faults < MAX_FAULTS)
    BY DEF Calm, Calmness, Agreement
  <2>3. /\ \A r, v : /\ engine[n].phase # "Closed" /\ Perform(n, r, v) /\ Continues(n, r, v)
                     => Calmness'
        /\ Open(n) => engine[n].phase # "Closed"
    BY <1>1, PerformLinks DEF Open
  <2>4. CASE Start(n)
    BY <2>3, <2>4, StartedContinues DEF Start
  <2>5. CASE Receive(n)
    BY <2>3, <2>5, ReceiveContinues DEF Receive
  <2>6. CASE \E answer \in BOOLEAN : SasDecision(n, answer)
    BY <2>3, <2>6, AnswerContinues DEF SasDecision
  <2>7. CASE LocalSend(n) \/ LocalSendTooLarge(n)
    BY <2>3, <2>7, SendContinues DEF LocalSend, LocalSendTooLarge
  <2>8. CASE RequestRekey(n)
    BY <2>3, <2>8, RekeyContinues DEF RequestRekey
  <2>9. CASE \E kind \in DeadlineKind : Timeout(n, kind)
    <3>1. Open(n) /\ "RekeyDue" \in engine[n].deadlines
          /\ Perform(n, on_timeout(engine[n], "RekeyDue"), channel[n])
      BY <2>9 DEF Timeout, Calm
    <3> QED BY <2>3, <3>1, RekeyContinues
  <2>10. CASE LocalClose(n)
    BY <2>3, <2>10, EndContinues, HushSame DEF LocalClose
  <2>11. CASE TransportClosed(n)
    <3>1. Open(n) /\ Perform(n, transport_closed(engine[n]), <<>>) /\ channel[n] = <<>>
      BY <2>11 DEF TransportClosed
    <3>2. Continues(n, transport_closed(engine[n]), <<>>)
      BY <3>1, EndContinues, HushSame
    <3> QED BY <2>3, <3>1, <3>2
  <2>12. CASE \/ TransportLost(n)
              \/ \E respond \in BOOLEAN : ReceiveMalformed(n, respond)
              \/ Damage(n)
    BY <2>2, <2>12 DEF TransportLost, ReceiveMalformed, Damage
  <2> QED BY <2>1, <2>4, <2>5, <2>6, <2>7, <2>8, <2>9, <2>10, <2>11, <2>12
<1> QED BY <1>2, <1>3

\* A connection on which only the rekey timer expires, and nothing is damaged,
\* always stands at one of the configurations of Dialogue.
THEOREM ConnectionStaysCalm ==
  ASSUME Calm
  PROVE  Spec => []Calmness
<1>1. Calmness /\ [Next]_vars => Calmness'
  BY CalmStep
<1> QED BY <1>1, CalmInit, PTL DEF Spec

\* On a calm connection no rekey attempt fails, crossing ones included.
THEOREM NoRekeyAttemptFails ==
  ASSUME Calm
  PROVE  Spec => []NoRekeyFails
<1>1. Calmness => NoRekeyFails
  BY DEF Calmness, NoRekeyFails
<1> QED BY <1>1, ConnectionStaysCalm, PTL

\* An empty channel says nothing.
LEMMA EmptySaysNothing ==
  ASSUME NEW e, NEW p, Dialogue(e, p, <<>>, <<>>), e.phase # "Idle", p.phase # "Idle"
  PROVE  \/ e.run.step = "Sas" \/ p.run.step = "Sas"
         \/ Level(e, p) /\ e.run = NoRun /\ p.run = NoRun
<1>1. /\ Silent(<<>>) /\ \A f : ~Says(<<>>, f)
      /\ \A f, g : ~SaysBoth(<<>>, f, g)
  BY NoneSent DEF Silent, Says, SaysBoth
<1>2. ASSUME NEW i, NEW r, Talks(i, r, <<>>, <<>>), i.phase # "Idle"
      PROVE  Resting(i, r, <<>>, <<>>) \/ i.run.step = "Sas" \/ r.run.step = "Sas"
  BY <1>1, <1>2 DEF Talks, Unopened, Calling, Crossing, Answered, Revealed, Signing, Vouching,
                    Finishing
<1> QED BY <1>2 DEF Dialogue, Resting, Level

\* Once nothing is in flight on a calm connection, a user is being asked for the
\* SAS, or both ends hold one session and neither waits for the other: whoever
\* started rekeys, and when.
THEOREM QuietEndsAgree ==
  ASSUME Calm
  PROVE  Spec => []QuietMeansAgreed
<1>1. Calmness => QuietMeansAgreed
  <2> SUFFICES ASSUME Calmness, \A n \in Node : Open(n) /\ channel[n] = <<>>
               PROVE  \/ \E n \in Node : engine[n].run.step = "Sas"
                      \/ /\ \A n \in Node : Established(n) /\ engine[n].run = NoRun
                         /\ engine["dialer"].active.id = engine["listener"].active.id
    BY DEF QuietMeansAgreed
  <2> DEFINE d == engine["dialer"]
             l == engine["listener"]
  <2>1. Node = {"dialer", "listener"} /\ Peer("dialer") = "listener"
    BY DEF Node, Peer
  <2>2. /\ d.phase \notin {"Idle", "Closed"} /\ l.phase \notin {"Idle", "Closed"}
        /\ channel["dialer"] = <<>> /\ channel["listener"] = <<>>
    BY <2>1 DEF Open
  <2>3. PICK p, u : Counterpart(l, <<>>, d, p, u) /\ Dialogue(d, p, <<>>, u)
    BY <2>1, <2>2 DEF Calmness, Linked
  <2>4. Dialogue(d, l, <<>>, <<>>)
    BY <2>2, <2>3 DEF Counterpart
  <2>5. \/ d.run.step = "Sas" \/ l.run.step = "Sas"
        \/ Level(d, l) /\ d.run = NoRun /\ l.run = NoRun
    BY <2>2, <2>4, EmptySaysNothing
  <2> QED BY <2>1, <2>5 DEF Level, Established
<1> QED BY <1>1, ConnectionStaysCalm, PTL

-----------------------------------------------------------------------------
(* DATA in a channel: which session it comes of, and where a new one starts. *)

\* The frames that open a rekey say which session it is about.
Asks(f) == f.kind \in {"COMMIT", "HELLO"}

\* e has answered a rekey, or has had its own answered.
Busy(e) == e.phase = "Established" /\ e.run.step \notin {"None", "Hello"}

\* e can open what comes of id, or will when it comes.
Holds(e, id) == id # NoId /\ id \in {e.active.id, e.draining.id}
Reads(e, id) == Holds(e, id) \/ Confirming(e, id)

\* Every DATA frame in the channel to e is whole, and of a session that e will
\* read when it comes; while a rekey is on, of none that the rekey ends.  Behind
\* a COMMIT or HELLO comes nothing older than the session it is about, and behind
\* CLOSE nothing at all.
Orderly(e, q) ==
    /\ \A i \in 1..Len(q) : q[i].kind = "DATA" =>
          Reads(e, q[i].id) /\ Whole(q[i]) /\ (Busy(e) => q[i].id # e.draining.id)
    /\ \A i, j \in 1..Len(q) :
          i < j /\ Asks(q[i]) /\ q[j].kind = "DATA" => q[j].id = q[i].previous
    /\ \A i \in 1..Len(q) : q[i].kind = "CLOSE" => i = Len(q)

\* Neither DATA nor CLOSE is among what is sent.
Mild(out) == IsSequence(out) /\ \A i \in 1..Len(out) : out[i].kind \notin {"DATA", "CLOSE"}

\* One CLOSE at most, and no more.
Parting(out) ==
    IsSequence(out) /\ \A i \in 1..Len(out) : i = Len(out) /\ out[i].kind # "DATA"

\* CLOSE is in the channel.
HasClose(q) == \E i \in 1..Len(q) : q[i].kind = "CLOSE"

\* The head of the channel is taken, or nothing is.
Fed(q, f, v) ==
    \/ f = NoFrame /\ v = q
    \/ q # <<>> /\ f = Head(q) /\ v = Tail(q)

\* Any change of the reader that keeps what it reads of a channel.
LEMMA OrderlyFor ==
  ASSUME NEW e, NEW x, NEW q, Orderly(e, q),
         \A i \in 1..Len(q) : q[i].kind = "DATA" =>
            Reads(x, q[i].id) /\ (Busy(x) => q[i].id # x.draining.id)
  PROVE  Orderly(x, q)
BY DEF Orderly

\* The head is taken: behind CLOSE is nothing, and DATA behind a COMMIT or HELLO is
\* of the session they are about.
LEMMA OrderlyTail ==
  ASSUME NEW e, NEW q, IsSequence(q), Orderly(e, q), NEW f, NEW v, Fed(q, f, v)
  PROVE  /\ IsSequence(v) /\ Orderly(e, v)
         /\ HasClose(v) => HasClose(q)
         /\ f.kind = "CLOSE" => Len(v) = 0
         /\ Asks(f) => \A i \in 1..Len(v) : v[i].kind = "DATA" => v[i].id = f.previous
         /\ f # NoFrame => 1 \in 1..Len(q) /\ f = q[1] /\ q # <<>>
<1>1. CASE f = NoFrame /\ v = q
  <2>1. f.kind = "None"
    BY <1>1 DEF NoFrame
  <2> QED BY <1>1, <2>1 DEF Asks
<1>2. CASE q # <<>> /\ f = Head(q) /\ v = Tail(q)
  <2>1. /\ Len(q) \in Nat /\ Len(q) > 0 /\ f = q[1] /\ Len(v) = Len(q) - 1 /\ IsSequence(v)
        /\ \A i \in 1..Len(v) : v[i] = q[i + 1]
    BY <1>2, SequenceParts
  <2>2. 1 \in 1..Len(q) /\ \A i \in 1..Len(v) : i + 1 \in 1..Len(q) /\ 1 < i + 1 /\ v[i] = q[i + 1]
    BY <2>1
  <2>3. ASSUME NEW i \in 1..Len(v), NEW j \in 1..Len(v), i < j, Asks(v[i]), v[j].kind = "DATA"
        PROVE  v[j].id = v[i].previous
    <3>1. i + 1 \in 1..Len(q) /\ j + 1 \in 1..Len(q) /\ i + 1 < j + 1
      BY <2>2, <2>3
    <3> QED BY <2>2, <2>3, <3>1 DEF Orderly
  <2>4. ASSUME NEW i \in 1..Len(v), v[i].kind = "CLOSE"
        PROVE  i = Len(v)
    <3>1. i + 1 = Len(q)
      BY <2>2, <2>4 DEF Orderly
    <3> QED BY <2>1, <3>1
  <2>5. Orderly(e, v)
    BY <2>2, <2>3, <2>4 DEF Orderly
  <2>6. f.kind = "CLOSE" => Len(v) = 0
    BY <2>1, <2>2 DEF Orderly
  <2>7. Asks(f) => \A i \in 1..Len(v) : v[i].kind = "DATA" => v[i].id = f.previous
    BY <2>1, <2>2 DEF Orderly
  <2>8. HasClose(v) => HasClose(q)
    BY <2>2 DEF HasClose
  <2> QED BY <1>2, <2>1, <2>2, <2>5, <2>6, <2>7, <2>8
<1> QED BY <1>1, <1>2 DEF Fed

\* What is not DATA joins a channel that nobody has closed.
LEMMA OrderlyMore ==
  ASSUME NEW e, NEW q, IsSequence(q), Orderly(e, q), ~HasClose(q),
         NEW out, Mild(out) \/ Parting(out)
  PROVE  /\ IsSequence(q \o out) /\ Orderly(e, q \o out)
         /\ Mild(out) => ~HasClose(q \o out)
<1> DEFINE u == q \o out
<1>0. IsSequence(out)
  BY DEF Mild, Parting
<1>1. /\ IsSequence(u) /\ Len(u) = Len(q) + Len(out) /\ Len(q) \in Nat /\ Len(out) \in Nat
      /\ \A i \in 1..Len(q) : u[i] = q[i]
      /\ \A i \in 1..Len(u) :
               \/ i \in 1..Len(q) /\ u[i] = q[i]
               \/ i > Len(q) /\ i - Len(q) \in 1..Len(out) /\ u[i] = out[i - Len(q)]
  BY <1>0, ConcatParts, SequenceParts
<1> HIDE DEF u
<1>2. \A i \in 1..Len(u) : u[i].kind = "DATA" => i \in 1..Len(q) /\ u[i] = q[i]
  BY <1>1 DEF Mild, Parting
<1>3. \A i \in 1..Len(u) : u[i].kind = "CLOSE" => ~Mild(out) /\ i - Len(q) = Len(out)
  BY <1>1 DEF Mild, Parting, HasClose
<1>4. ASSUME NEW i \in 1..Len(u), NEW j \in 1..Len(u), i < j, Asks(u[i]), u[j].kind = "DATA"
      PROVE  u[j].id = u[i].previous
  <2>1. j \in 1..Len(q) /\ u[j] = q[j]
    BY <1>2, <1>4
  <2>2. i \in 1..Len(q)
    BY <1>1, <1>4, <2>1
  <2> QED BY <1>1, <1>4, <2>1, <2>2 DEF Orderly
<1>5. \A i \in 1..Len(u) : u[i].kind = "CLOSE" => i = Len(u)
  BY <1>1, <1>3
<1>6. Orderly(e, u)
  BY <1>2, <1>4, <1>5 DEF Orderly
<1>7. Mild(out) => ~HasClose(u)
  BY <1>3 DEF HasClose
<1> QED BY <1>1, <1>6, <1>7 DEF u

\* The next message joins it.
LEMMA OrderlySend ==
  ASSUME NEW e, NEW q, IsSequence(q), Orderly(e, q), ~HasClose(q),
         NEW d, d.kind = "DATA", Whole(d), Reads(e, d.id), Busy(e) => d.id # e.draining.id,
         \A i \in 1..Len(q) : Asks(q[i]) => q[i].previous = d.id
  PROVE  IsSequence(q \o <<d>>) /\ Orderly(e, q \o <<d>>) /\ ~HasClose(q \o <<d>>)
<1> DEFINE u == q \o <<d>>
<1>1. Len(<<d>>) = 1 /\ <<d>>[1] = d /\ IsSequence(<<d>>)
  BY OneSent
<1>2. /\ IsSequence(u) /\ Len(u) = Len(q) + 1 /\ Len(q) \in Nat
      /\ \A i \in 1..Len(q) : u[i] = q[i]
      /\ u[Len(q) + 1] = d
  BY <1>1, ConcatParts, SequenceParts
<1> HIDE DEF u
<1>3. \A i \in 1..Len(u) : (i \in 1..Len(q) /\ u[i] = q[i]) \/ (i = Len(q) + 1 /\ u[i] = d)
  BY <1>2
<1>4. ~Asks(d)
  BY DEF Asks
<1>5. ASSUME NEW i \in 1..Len(u), NEW j \in 1..Len(u), i < j, Asks(u[i]), u[j].kind = "DATA"
      PROVE  u[j].id = u[i].previous
  <2>1. i \in 1..Len(q) /\ u[i] = q[i]
    BY <1>3, <1>4, <1>5
  <2> QED BY <1>3, <1>5, <2>1 DEF Orderly
<1>6. \A i \in 1..Len(u) : u[i].kind # "CLOSE"
  BY <1>3 DEF HasClose
<1>7. Orderly(e, u) /\ ~HasClose(u)
  BY <1>3, <1>5, <1>6 DEF Orderly, HasClose
<1> QED BY <1>2, <1>7 DEF u

-----------------------------------------------------------------------------
(* What the DATA in a channel says: the contents from lo to hi - 1.        *)

\* Of a frame, whether it is DATA and what it says, as though all of it were of one
\* session and numbered by its content.
Bare(f) == [kind |-> f.kind, id |-> NoId, counter |-> f.content]

\* The whole channel, so.
Plain(q) == [i \in 1..Len(q) |-> Bare(q[i])]

\* The DATA in q says lo, lo + 1 .. hi - 1, in this order, each once.
Contents(q, lo, hi) == Stream(Plain(q), NoId, lo, hi)

\* Frame by frame.
LEMMA PlainParts ==
  ASSUME NEW q, IsSequence(q)
  PROVE  /\ IsSequence(Plain(q)) /\ Len(Plain(q)) = Len(q) /\ Len(q) \in Nat
         /\ \A i \in 1..Len(q) :
               /\ Plain(q)[i] = Bare(q[i])
               /\ Carries(Plain(q)[i], NoId) <=> q[i].kind = "DATA"
               /\ Plain(q)[i].counter = q[i].content
<1>1. Len(q) \in Nat
  BY SequenceParts
<1> DEFINE S == {Bare(q[i]) : i \in 1..Len(q)}
<1>2. Plain(q) \in [1..Len(q) -> S]
  BY DEF Plain
<1>3. Plain(q) \in Seq(S)
  BY <1>1, <1>2
<1>4. Len(Plain(q)) = Len(q)
  BY <1>1, <1>2, <1>3
<1>5. \A i \in 1..Len(q) : Plain(q)[i] = Bare(q[i])
  BY DEF Plain
<1>6. \A f : (Carries(Bare(f), NoId) <=> f.kind = "DATA") /\ Bare(f).counter = f.content
  BY DEF Bare, Carries
<1> QED BY <1>1, <1>3, <1>4, <1>5, <1>6 DEF IsSequence

\* A stream is what its frames are.
LEMMA StreamSame ==
  ASSUME NEW a, NEW b, Len(a) = Len(b), \A i \in 1..Len(a) : a[i] = b[i],
         NEW id, NEW lo, NEW hi, Stream(a, id, lo, hi)
  PROVE  Stream(b, id, lo, hi)
BY DEF Stream

\* The head is taken: it says what comes next.
LEMMA ContentsTail ==
  ASSUME NEW q, IsSequence(q), q # <<>>, NEW lo, NEW hi, Contents(q, lo, hi)
  PROVE  /\ Head(q).kind # "DATA" => Contents(Tail(q), lo, hi)
         /\ Head(q).kind = "DATA" =>
               Head(q).content = lo /\ lo < hi /\ Contents(Tail(q), lo + 1, hi)
<1> DEFINE v == Tail(q)
           a == Plain(q)
           b == Plain(v)
<1>1. /\ Len(q) > 0 /\ Head(q) = q[1] /\ IsSequence(v) /\ Len(v) = Len(q) - 1
      /\ \A i \in 1..Len(v) : v[i] = q[i + 1]
  BY SequenceParts
<1>2. /\ IsSequence(a) /\ Len(a) = Len(q) /\ Len(q) \in Nat
      /\ \A i \in 1..Len(q) : /\ a[i] = Bare(q[i])
                              /\ Carries(a[i], NoId) <=> q[i].kind = "DATA"
                              /\ a[i].counter = q[i].content
  BY PlainParts
<1>3. Len(b) = Len(v) /\ \A i \in 1..Len(v) : b[i] = Bare(v[i])
  BY <1>1, PlainParts
<1> HIDE DEF a, b, v
<1>4. a # <<>> /\ Head(a) = a[1] /\ 1 \in 1..Len(q)
      /\ Len(Tail(a)) = Len(a) - 1 /\ \A i \in 1..Len(Tail(a)) : Tail(a)[i] = a[i + 1]
  BY <1>1, <1>2, SequenceParts
<1>5. Len(Tail(a)) = Len(b) /\ \A i \in 1..Len(Tail(a)) : Tail(a)[i] = b[i]
  <2>1. Len(Tail(a)) = Len(b) /\ Len(b) = Len(v)
    BY <1>1, <1>2, <1>3, <1>4
  <2>2. ASSUME NEW i \in 1..Len(v) PROVE Tail(a)[i] = b[i]
    <3>1. i + 1 \in 1..Len(q)
      BY <1>1, <1>2
    <3> QED BY <1>1, <1>2, <1>3, <1>4, <2>1, <3>1
  <2> QED BY <2>1, <2>2
<1>6. Stream(a, NoId, lo, hi)
  BY DEF Contents, a
<1>7. CASE Head(q).kind # "DATA"
  <2>1. Stream(Tail(a), NoId, lo, hi)
    BY <1>1, <1>2, <1>4, <1>6, <1>7, StreamTail
  <2> QED BY <1>5, <1>7, <2>1, StreamSame DEF Contents, b, v
<1>8. CASE Head(q).kind = "DATA"
  <2>1. Head(a).counter = lo /\ lo < hi /\ Stream(Tail(a), NoId, lo + 1, hi)
    BY <1>1, <1>2, <1>4, <1>6, <1>8, StreamTake
  <2>2. Head(q).content = lo
    BY <1>1, <1>2, <1>4, <2>1
  <2> QED BY <1>5, <1>8, <2>1, <2>2, StreamSame DEF Contents, b, v
<1> QED BY <1>7, <1>8

\* Frames join the channel, one by one as they say it.
LEMMA PlainMore ==
  ASSUME NEW q, NEW out, IsSequence(q), IsSequence(out)
  PROVE  LET a == Plain(q) \o Plain(out)
             b == Plain(q \o out)
         IN  Len(a) = Len(b) /\ \A i \in 1..Len(a) : a[i] = b[i]
<1> DEFINE u == q \o out
           p == Plain(q)
           o == Plain(out)
           a == p \o o
           b == Plain(u)
<1>1. /\ IsSequence(u) /\ Len(u) = Len(q) + Len(out)
      /\ \A i \in 1..Len(q) : u[i] = q[i]
      /\ \A i \in 1..Len(out) : u[Len(q) + i] = out[i]
  BY ConcatParts
<1>2. /\ IsSequence(p) /\ Len(p) = Len(q) /\ \A i \in 1..Len(q) : p[i] = Bare(q[i])
      /\ IsSequence(o) /\ Len(o) = Len(out) /\ \A i \in 1..Len(out) : o[i] = Bare(out[i])
      /\ Len(q) \in Nat /\ Len(out) \in Nat
  BY PlainParts
<1>3. Len(b) = Len(u) /\ \A i \in 1..Len(u) : b[i] = Bare(u[i])
  BY <1>1, PlainParts
<1> HIDE DEF u, p, o, b
<1>4. /\ Len(a) = Len(p) + Len(o)
      /\ \A i \in 1..Len(a) : \/ i \in 1..Len(p) /\ a[i] = p[i]
                              \/ i > Len(p) /\ i - Len(p) \in 1..Len(o) /\ a[i] = o[i - Len(p)]
  BY <1>2, ConcatParts
<1> HIDE DEF a
<1>5. ASSUME NEW i \in 1..Len(a) PROVE a[i] = b[i]
  <2>1. i \in 1..Len(u)
    BY <1>1, <1>2, <1>4
  <2>2. CASE i \in 1..Len(p) /\ a[i] = p[i]
    BY <1>1, <1>2, <1>3, <2>1, <2>2
  <2>3. CASE i > Len(p) /\ i - Len(p) \in 1..Len(o) /\ a[i] = o[i - Len(p)]
    <3>1. i = Len(q) + (i - Len(q)) /\ i - Len(q) \in 1..Len(out)
      BY <1>2, <2>3
    <3>2. u[i] = out[i - Len(q)]
      BY <1>1, <3>1
    <3> QED BY <1>2, <1>3, <2>1, <2>3, <3>1, <3>2
  <2> QED BY <1>4, <2>2, <2>3
<1>6. Len(a) = Len(b)
  BY <1>1, <1>2, <1>3, <1>4
<1> QED BY <1>5, <1>6 DEF a, b, p, o, u

\* What is not DATA says nothing.
LEMMA ContentsMore ==
  ASSUME NEW q, IsSequence(q), NEW lo, NEW hi, Contents(q, lo, hi),
         NEW out, Mild(out) \/ Parting(out)
  PROVE  Contents(q \o out, lo, hi)
<1>1. IsSequence(out) /\ \A i \in 1..Len(out) : out[i].kind # "DATA"
  BY DEF Mild, Parting
<1>2. /\ IsSequence(Plain(q)) /\ IsSequence(Plain(out))
      /\ \A i \in 1..Len(Plain(out)) : ~Carries(Plain(out)[i], NoId)
  BY <1>1, PlainParts
<1>3. Stream(Plain(q) \o Plain(out), NoId, lo, hi)
  BY <1>2, StreamMore DEF Contents
<1> QED BY <1>1, <1>3, PlainMore, StreamSame DEF Contents

\* One frame alone.
LEMMA PlainOne == ASSUME NEW d PROVE Plain(<<d>>) = <<Bare(d)>>
<1>1. Plain(<<d>>) = [i \in 1..Len(<<d>>) |-> Bare(<<d>>[i])]
  BY DEF Plain
<1> QED BY <1>1

\* The next message says the next content.
LEMMA ContentsSend ==
  ASSUME NEW q, IsSequence(q), NEW lo, NEW hi, Contents(q, lo, hi),
         NEW d, d.kind = "DATA", d.content = hi
  PROVE  Contents(q \o <<d>>, lo, hi + 1)
<1>1. Carries(Bare(d), NoId) /\ Bare(d).counter = hi
  BY DEF Bare, Carries
<1>2. Stream(Plain(q) \o Plain(<<d>>), NoId, lo, hi + 1)
  BY <1>1, PlainParts, PlainOne, StreamSend DEF Contents
<1>3. IsSequence(<<d>>)
  BY OneSent
<1> QED BY <1>2, <1>3, PlainMore, StreamSame DEF Contents

\* As many messages are in flight as contents.
LEMMA ContentsSize ==
  ASSUME NEW q, IsSequence(q), NEW lo, NEW hi, Contents(q, lo, hi)
  PROVE  Cardinality({i \in DOMAIN q : q[i].kind = "DATA"}) = hi - lo
<1> DEFINE a == Plain(q)
<1>1. /\ IsSequence(a) /\ Len(a) = Len(q)
      /\ \A i \in 1..Len(q) : Carries(a[i], NoId) <=> q[i].kind = "DATA"
  BY PlainParts
<1>2. DOMAIN q = 1..Len(q) /\ DOMAIN a = 1..Len(a)
  BY <1>1, SequenceParts
<1>3. Stream(a, NoId, lo, hi)
  BY DEF Contents
<1> HIDE DEF a
<1>4. Cardinality({i \in DOMAIN a : a[i].kind = "DATA" /\ a[i].id = NoId}) = hi - lo
  BY <1>1, <1>3, StreamSize
<1>5. {i \in DOMAIN a : a[i].kind = "DATA" /\ a[i].id = NoId} = {i \in DOMAIN q : q[i].kind = "DATA"}
  BY <1>1, <1>2 DEF Carries
<1> QED BY <1>4, <1>5

\* Nothing in flight says nothing.
LEMMA ContentsNone == ASSUME NEW k \in Nat PROVE Contents(<<>>, k, k)
<1>1. IsSequence(<<>>) /\ Len(<<>>) = 0
  BY NoneSent
<1>2. Len(Plain(<<>>)) = 0
  BY <1>1, PlainParts
<1> QED BY <1>2, StreamNone DEF Contents

-----------------------------------------------------------------------------
(* How an engine moves on: what of its sessions and its run stays, and what *)
(* it sends.                                                               *)

\* e has become x, given f, and its sessions go on; at most the draining one is
\* dropped, when the peer closes it.
Clings(e, f, x) ==
    /\ x.phase = e.phase \/ (e.phase = "Idle" /\ x.phase = "Handshaking")
    /\ x.active.id = e.active.id
    /\ x.draining.id = e.draining.id \/ (f.kind = "CLOSE" /\ x.draining.id = NoId)
    /\ e.run.step = "ConfirmResp" => x.run = e.run
    /\ Busy(x) => Busy(e) \/ (Asks(f) /\ f.previous = e.active.id)

\* It has sent nothing of them, either.
Sticks(e, f, x) ==
    Clings(e, f, x) /\ (e.phase = "Established" => x.active.counter = e.active.counter)

\* The session ends, or the rekey has failed.
Abort(x, out) == (x.phase = "Closed" /\ Parting(out)) \/ x.rekey_blocked

\* One or the other, or the run has made its session.
Course(e, f, x, out) ==
    \/ Abort(x, out)
    \/ Mild(out) /\ Sticks(e, f, x)
    \/ Mild(out) /\ Promoted(e, x) /\ e.run.step \in {"ConfirmInit", "ConfirmResp"}

\* Nothing is delivered, either.
Proceeds(e, f, r) ==
    /\ DOMAIN r = {"e", "out", "event", "deliver"}
    /\ r.deliver = NoContent
    /\ Course(e, f, r.e, r.out)

\* The engines that differ in counts, keys and deadlines.
Trails(e, x) ==
    /\ x.phase = e.phase /\ x.run = e.run
    /\ x.active.id = e.active.id /\ x.active.counter = e.active.counter
    /\ x.draining.id = e.draining.id

\* Those that differ in the run, too.
Bides(e, x) == x.phase = e.phase /\ x.active = e.active /\ x.draining = e.draining

\* Nothing sent is neither DATA nor CLOSE.
LEMMA NoneMild == Mild(<<>>) /\ Parting(<<>>)
BY NoneSent DEF Mild, Parting

\* One frame sent.
LEMMA OneMild ==
  ASSUME NEW g
  PROVE  /\ IsSequence(<<g>>)
         /\ g.kind \notin {"DATA", "CLOSE"} => Mild(<<g>>)
         /\ g.kind # "DATA" => Parting(<<g>>)
<1>1. IsSequence(<<g>>) /\ Len(<<g>>) = 1 /\ <<g>>[1] = g
  BY OneSent
<1> DEFINE q == <<g>>
<1>2. IsSequence(q) /\ Len(q) = 1 /\ \A i \in 1..Len(q) : i = 1 /\ q[i] = g
  BY <1>1
<1> HIDE DEF q
<1>3. /\ g.kind \notin {"DATA", "CLOSE"} => Mild(q)
      /\ g.kind # "DATA" => Parting(q)
  BY <1>2 DEF Mild, Parting
<1> QED BY <1>2, <1>3 DEF q

\* One after the other.
LEMMA BothMild ==
  ASSUME NEW a, NEW b, Mild(a), Mild(b)
  PROVE  Mild(a \o b)
<1> DEFINE u == a \o b
<1>1. /\ IsSequence(u)
      /\ \A i \in 1..Len(u) : \/ i \in 1..Len(a) /\ u[i] = a[i]
                              \/ i - Len(a) \in 1..Len(b) /\ u[i] = b[i - Len(a)]
  BY ConcatParts DEF Mild
<1> HIDE DEF u
<1>2. Mild(u)
  BY <1>1 DEF Mild
<1> QED BY <1>2 DEF u

\* The shape of a result.
LEMMA ResultParts ==
  ASSUME NEW e, NEW out, NEW event
  PROVE  LET r == Result(e, out, event) IN
         /\ DOMAIN r = {"e", "out", "event", "deliver"}
         /\ r.deliver = NoContent /\ r.e = e /\ r.out = out
BY DEF Result

\* A result that delivers nothing.
LEMMA ResultMoves ==
  ASSUME NEW e, NEW f, NEW x, NEW out, NEW event, Course(e, f, x, out)
  PROVE  Proceeds(e, f, Result(x, out, event))
<1> DEFINE r == Result(x, out, event)
<1>1. /\ DOMAIN r = {"e", "out", "event", "deliver"}
      /\ r.deliver = NoContent /\ r.e = x /\ r.out = out
  BY ResultParts
<1> HIDE DEF r
<1>2. Proceeds(e, f, r)
  BY <1>1 DEF Proceeds
<1> QED BY <1>2 DEF r

\* Counts, keys and deadlines change nothing here.
LEMMA TrailsSticks ==
  ASSUME NEW e, NEW f, NEW x, Trails(e, x)
  PROVE  Sticks(e, f, x) /\ Course(e, f, x, <<>>)
<1>1. Sticks(e, f, x)
  BY DEF Trails, Sticks, Clings, Busy
<1> QED BY <1>1, NoneMild DEF Course

\* A step of the run.
LEMMA OnRunCourse ==
  ASSUME NEW e, NEW f, NEW x, NEW s, NEW t, NEW a, OnRun(e, x, s, t, a),
         e.run.step # "ConfirmResp",
         e.phase = "Established" => Busy(e) \/ (Asks(f) /\ f.previous = e.active.id),
         NEW out, Mild(out)
  PROVE  Course(e, f, x, out)
<1>1. Bides(e, x)
  BY DEF OnRun, Keeps, Bides
<1>2. Sticks(e, f, x)
  BY <1>1 DEF Bides, Sticks, Clings, Busy
<1> QED BY <1>2 DEF Course

\* terminate sends one CLOSE at most.
LEMMA TerminateMoves ==
  ASSUME NEW e, NEW f, NEW k, DOMAIN k = EngineFields, NEW why, NEW notify
  PROVE  Proceeds(e, f, terminate(k, why, notify))
<1> DEFINE r == terminate(k, why, notify)
           d == ClosePayload(k.active.id, notify)
<1>1. r.e.phase = "Closed"
  BY DEF terminate, Result, cancel_all, cancel, EngineFields
<1>2. r.out = <<>> \/ r.out = <<d>>
  BY DEF terminate, Result
<1>3. d.kind # "DATA"
  BY DEF ClosePayload
<1>4. DOMAIN r = {"e", "out", "event", "deliver"} /\ r.deliver = NoContent
  BY DEF terminate, Result
<1> HIDE DEF r, d
<1>5. Parting(r.out)
  BY <1>2, <1>3, NoneMild, OneMild
<1> QED BY <1>1, <1>4, <1>5 DEF Proceeds, Course, Abort, r

\* fail_initial ends the session, and fail_rekey blocks the next rekey.
LEMMA FailMoves ==
  ASSUME NEW e, NEW f, NEW k, DOMAIN k = EngineFields, NEW error
  PROVE  /\ Proceeds(e, f, Fail(k, error)) /\ Proceeds(e, f, fail_initial(k, error))
         /\ LET r == fail_rekey(k, error) IN
            DOMAIN r = {"e", "out", "event", "deliver"} /\ r.deliver = NoContent /\ r.e.rekey_blocked
<1>1. Proceeds(e, f, fail_initial(k, error))
  BY TerminateMoves DEF fail_initial
<1> DEFINE r == fail_rekey(k, error)
<1>2. DOMAIN r = {"e", "out", "event", "deliver"} /\ r.deliver = NoContent
  BY DEF fail_rekey, Result
<1>3. r.e.rekey_blocked
  BY DEF fail_rekey, Result, arm, cancel, EngineFields
<1> HIDE DEF r
<1>4. Proceeds(e, f, r)
  BY <1>2, <1>3 DEF Proceeds, Course, Abort
<1> QED BY <1>1, <1>2, <1>3, <1>4 DEF Fail, r

\* note_rekey_rejection.
LEMMA RejectionMoves ==
  ASSUME NEW e, NEW f, NEW k, DOMAIN k = EngineFields, Trails(e, k)
  PROVE  Proceeds(e, f, note_rekey_rejection(k))
<1> DEFINE x == [k EXCEPT !.consecutive_rekey_rejections = @ + 1]
           r == note_rekey_rejection(k)
<1>1. Trails(e, x)
  BY DEF Trails, EngineFields
<1>2. \A event : Proceeds(e, f, Result(k, <<>>, event)) /\ Proceeds(e, f, Result(x, <<>>, event))
  BY <1>1, TrailsSticks, ResultMoves
<1>3. \E event : r = Result(k, <<>>, event) \/ r = Result(x, <<>>, event)
  BY DEF note_rekey_rejection
<1> HIDE DEF x, r
<1> QED BY <1>2, <1>3 DEF r
-----------------------------------------------------------------------------
(* step_run moves on.                                                      *)

\* A signature: accepted, or the run fails.
LEMMA SignatureMoves ==
  ASSUME NEW e, NEW f, NEW y, DOMAIN y = EngineFields, DOMAIN y.run = RunFields,
         NEW s, NEW t, NEW a, OnRun(e, y, s, t, a), e.run.step # "ConfirmResp",
         e.phase = "Established" => Busy(e) \/ (Asks(f) /\ f.previous = e.active.id),
         NEW g
  PROVE  Proceeds(e, f, step_AuthInit(y, g)) /\ Proceeds(e, f, step_AuthResp(y, g))
<1>1. ASSUME NEW r, DOMAIN r = {"e", "out", "event", "deliver"}, r.deliver = NoContent,
             NEW z, NEW d, OnRun(y, r.e, z, y.run.transcript, y.run.early), r.out = <<d>>,
             d.kind \notin {"DATA", "CLOSE"}
      PROVE  Proceeds(e, f, r)
  <2>1. OnRun(e, r.e, z, y.run.transcript, y.run.early)
    BY <1>1, OnRunOn
  <2>2. Mild(r.out)
    BY <1>1, OneMild
  <2> QED BY <1>1, <2>1, <2>2, OnRunCourse DEF Proceeds
<1>2. Proceeds(e, f, step_AuthInit(y, g))
  <2> DEFINE r == step_AuthInit(y, g)
             d == HandshakePayload(1, y.run.transcript)
  <2>1. CASE verify_auth(y, g, 0)
    <3>1. OnRun(y, r.e, "ConfirmInit", y.run.transcript, y.run.early) /\ r.out = <<d>>
      BY <2>1, SignatureAccepted
    <3>2. DOMAIN r = {"e", "out", "event", "deliver"} /\ r.deliver = NoContent
      BY <2>1 DEF step_AuthInit, Result
    <3>3. d.kind \notin {"DATA", "CLOSE"}
      BY DEF HandshakePayload
    <3> HIDE DEF r, d
    <3> QED BY <1>1, <3>1, <3>2, <3>3 DEF r
  <2>2. CASE ~verify_auth(y, g, 0)
    <3>1. r = Fail(y, "InvalidHandshake")
      BY <2>2 DEF step_AuthInit
    <3> QED BY <3>1, FailMoves
  <2> QED BY <2>1, <2>2
<1>3. Proceeds(e, f, step_AuthResp(y, g))
  <2> DEFINE r == step_AuthResp(y, g)
             d == SessionConfirmPayload(SessionKeys(y.run.transcript), "Initiator")
  <2>1. CASE verify_auth(y, g, 1)
    <3>1. OnRun(y, r.e, "ConfirmResp", y.run.transcript, y.run.early) /\ r.out = <<d>>
      BY <2>1, SignatureAccepted
    <3>2. DOMAIN r = {"e", "out", "event", "deliver"} /\ r.deliver = NoContent
      BY <2>1 DEF step_AuthResp, Result
    <3>3. d.kind \notin {"DATA", "CLOSE"}
      BY DEF SessionConfirmPayload
    <3> HIDE DEF r, d
    <3> QED BY <1>1, <3>1, <3>2, <3>3 DEF r
  <2>2. CASE ~verify_auth(y, g, 1)
    <3>1. r = Fail(y, "InvalidHandshake")
      BY <2>2 DEF step_AuthResp
    <3> QED BY <3>1, FailMoves
  <2> QED BY <2>1, <2>2
<1> QED BY <1>2, <1>3

\* after_approval.
LEMMA ApprovalMoves ==
  ASSUME NEW e, NEW f, NEW y, DOMAIN y = EngineFields, DOMAIN y.run = RunFields,
         NEW s, NEW t, NEW a, OnRun(e, y, s, t, a), e.run.step # "ConfirmResp",
         e.phase = "Established" => Busy(e) \/ (Asks(f) /\ f.previous = e.active.id)
  PROVE  Proceeds(e, f, after_approval(y))
<1> DEFINE r == after_approval(y)
           d == HandshakePayload(0, y.run.transcript)
<1>1. d.kind \notin {"DATA", "CLOSE"}
  BY DEF HandshakePayload
<1>2. CASE y.run.role = "Initiator"
  <2>1. OnRun(y, r.e, "AuthResp", y.run.transcript, y.run.early) /\ r.out = <<d>>
    BY <1>2, GoesOn
  <2>2. DOMAIN r = {"e", "out", "event", "deliver"} /\ r.deliver = NoContent
    BY <1>2 DEF after_approval, Result
  <2> HIDE DEF r, d
  <2>3. OnRun(e, r.e, "AuthResp", y.run.transcript, y.run.early)
    BY <2>1, OnRunOn
  <2>4. Mild(r.out)
    BY <1>1, <2>1, OneMild
  <2> QED BY <2>2, <2>3, <2>4, OnRunCourse DEF Proceeds, r
<1>3. CASE y.run.role # "Initiator" /\ y.run.early = NoFrame
  <2>1. OnRun(y, r.e, "AuthInit", y.run.transcript, NoFrame) /\ r.out = <<>>
    BY <1>3, GoesOn
  <2>2. DOMAIN r = {"e", "out", "event", "deliver"} /\ r.deliver = NoContent
    BY <1>3 DEF after_approval, Result
  <2> HIDE DEF r, d
  <2>3. OnRun(e, r.e, "AuthInit", y.run.transcript, NoFrame)
    BY <2>1, OnRunOn
  <2> QED BY <2>1, <2>2, <2>3, NoneMild, OnRunCourse DEF Proceeds, r
<1>4. CASE y.run.role # "Initiator" /\ y.run.early # NoFrame
  <2> DEFINE x == [y EXCEPT !.run.step = "AuthInit"]
             z == [x EXCEPT !.run.early = NoFrame]
  <2>1. r = step_AuthInit(z, y.run.early)
    BY <1>4 DEF after_approval
  <2>2. OnRun(y, x, "AuthInit", y.run.transcript, y.run.early)
    BY StepEdit
  <2> HIDE DEF x, r
  <2>3. DOMAIN x = EngineFields /\ DOMAIN x.run = RunFields /\ x.run.step = "AuthInit"
        /\ x.run.transcript = y.run.transcript
    BY <2>2 DEF OnRun, Keeps
  <2>4. OnRun(x, z, "AuthInit", y.run.transcript, NoFrame)
    BY <2>3, EarlyEdit
  <2> HIDE DEF z
  <2>5. OnRun(e, z, "AuthInit", y.run.transcript, NoFrame)
    BY <2>2, <2>4, OnRunOn
  <2>6. DOMAIN z = EngineFields /\ DOMAIN z.run = RunFields
    BY <2>5 DEF OnRun, Keeps
  <2> QED BY <2>1, <2>5, <2>6, SignatureMoves DEF r
<1> QED BY <1>2, <1>3, <1>4

\* after_hellos, with or without a reveal before it.
LEMMA HellosMove ==
  ASSUME NEW e, NEW f, HasRun(e), DOMAIN e = EngineFields, e.run.step # "ConfirmResp",
         e.phase = "Established" => Busy(e) \/ (Asks(f) /\ f.previous = e.active.id),
         NEW t, NEW out, Mild(out)
  PROVE  Proceeds(e, f, after_hellos(e, t, out))
<1> DEFINE r == after_hellos(e, t, out)
<1>0. DOMAIN e.run = RunFields
  BY DEF HasRun
<1>1. CASE e.run.purpose = "Initial"
  <2>1. Yields(e, r, "Sas", t, e.run.early, out)
    BY <1>0, <1>1, HelloAsks
  <2>2. DOMAIN r = {"e", "out", "event", "deliver"} /\ r.deliver = NoContent
    BY <1>1 DEF after_hellos, Result
  <2> HIDE DEF r
  <2> QED BY <2>1, <2>2, OnRunCourse DEF Yields, Proceeds, r
<1>2. CASE e.run.purpose # "Initial"
  <2> DEFINE known == [e EXCEPT !.run.transcript = t]
             k == after_approval(known)
  <2>1. r = [k EXCEPT !.out = out \o @]
    BY <1>2 DEF after_hellos
  <2>2. OnRun(e, known, e.run.step, t, e.run.early)
    BY <1>0, TranscriptEdit
  <2>3. e.phase = "Established" /\ known.phase = "Established"
    BY <1>2, <2>2 DEF HasRun, OnRun, Keeps
  <2> HIDE DEF known
  <2>4. DOMAIN known = EngineFields /\ DOMAIN known.run = RunFields
    BY <2>2 DEF OnRun, Keeps
  <2>5. Proceeds(e, f, k)
    BY <2>2, <2>4, ApprovalMoves
  <2>6. k.e.phase = "Closed" => k.e.rekey_blocked
    <3>1. ASSUME NEW y, y.phase = "Established", DOMAIN y = EngineFields, NEW error
          PROVE  Fail(y, error).e.rekey_blocked
      BY <3>1, FailMoves DEF Fail
    <3>2. known.run.role = "Initiator" => k.e.phase = "Established"
      BY <2>3, <2>4, GoesOn DEF OnRun, Keeps
    <3>3. known.run.role # "Initiator" /\ known.run.early = NoFrame => k.e.phase = "Established"
      BY <2>3, <2>4, GoesOn DEF OnRun, Keeps
    <3>4. CASE known.run.role # "Initiator" /\ known.run.early # NoFrame
      <4> DEFINE x == [known EXCEPT !.run.step = "AuthInit"]
                 z == [x EXCEPT !.run.early = NoFrame]
      <4>1. k = step_AuthInit(z, known.run.early)
        BY <3>4 DEF after_approval
      <4>2. OnRun(known, x, "AuthInit", known.run.transcript, known.run.early)
        BY <2>4, StepEdit
      <4> HIDE DEF x, k
      <4>3. DOMAIN x = EngineFields /\ DOMAIN x.run = RunFields
        BY <4>2 DEF OnRun, Keeps
      <4>4. OnRun(x, z, x.run.step, x.run.transcript, NoFrame)
        BY <4>3, EarlyEdit
      <4> HIDE DEF z
      <4>5. DOMAIN z = EngineFields /\ DOMAIN z.run = RunFields /\ z.phase = "Established"
        BY <2>3, <4>2, <4>4 DEF OnRun, Keeps
      <4>6. CASE verify_auth(z, known.run.early, 0)
        <5>1. OnRun(z, k.e, "ConfirmInit", z.run.transcript, z.run.early)
          BY <4>1, <4>5, <4>6, SignatureAccepted
        <5> QED BY <4>5, <5>1 DEF OnRun, Keeps
      <4>7. CASE ~verify_auth(z, known.run.early, 0)
        <5>1. k = Fail(z, "InvalidHandshake")
          BY <4>1, <4>7 DEF step_AuthInit
        <5> QED BY <3>1, <4>5, <5>1
      <4> QED BY <4>6, <4>7
    <3> QED BY <3>2, <3>3, <3>4
  <2> HIDE DEF k, r
  <2>7. /\ DOMAIN r = {"e", "out", "event", "deliver"} /\ r.deliver = NoContent
        /\ r.e = k.e /\ r.out = out \o k.out
    BY <2>1, <2>5 DEF Proceeds
  <2>8. CASE k.e.rekey_blocked
    BY <2>7, <2>8 DEF Proceeds, Course, Abort, r
  <2>9. CASE ~k.e.rekey_blocked
    <3>1. Mild(k.out) /\ Course(e, f, k.e, <<>>)
      BY <2>5, <2>6, <2>9, NoneMild DEF Proceeds, Course, Abort
    <3>2. Mild(r.out)
      BY <2>7, <3>1, BothMild
    <3>3. Course(e, f, r.e, r.out)
      BY <2>6, <2>7, <2>9, <3>1, <3>2 DEF Course, Abort
    <3> QED BY <2>7, <3>3 DEF Proceeds, r
  <2> QED BY <2>8, <2>9
<1> QED BY <1>1, <1>2

\* step_Hello and step_Reveal.
LEMMA HelloMoves ==
  ASSUME NEW e, NEW f, EngineOK(e), e.run # NoRun, NEW i, Sound(e, i)
  PROVE  /\ e.run.step = "Hello" => Proceeds(e, f, step_Hello(e, f))
         /\ e.run.step = "Reveal" => Proceeds(e, f, step_Reveal(e, f))
<1>1. HasRun(e) /\ DOMAIN e = EngineFields
  BY DEF EngineOK, Held
<1>2. \A error : Proceeds(e, f, Fail(e, error))
  BY <1>1, FailMoves
<1>3. \A role : HelloError(e, f, role) = "none" =>
                   f.kind = "HELLO" /\ f.previous = e.run.previous
  BY DEF HelloError, Decodes
<1>4. CASE e.run.step = "Hello"
  <2>1. CASE HelloError(e, f, "Responder") # "none"
    BY <1>2, <1>4, <2>1 DEF step_Hello
  <2>2. CASE HelloError(e, f, "Responder") = "none"
    <3>1. step_Hello(e, f) = after_hellos(e, Transcript(e.run.local_hello, f), <<e.run.local_hello>>)
      BY <2>2 DEF step_Hello
    <3>2. e.phase = "Established" => Asks(f) /\ f.previous = e.active.id
      BY <1>1, <1>3, <2>2 DEF Asks, HasRun
    <3>3. e.run.local_hello.kind = "HELLO"
      BY DEF Sound, RunSane, HelloPayload
    <3>4. Mild(<<e.run.local_hello>>)
      BY <3>3, OneMild
    <3> QED BY <1>1, <1>4, <3>1, <3>2, <3>4, HellosMove
  <2> QED BY <1>4, <2>1, <2>2
<1>5. CASE e.run.step = "Reveal"
  <2>1. CASE HelloError(e, f, "Initiator") # "none"
    BY <1>2, <1>5, <2>1 DEF step_Reveal
  <2>2. CASE HelloError(e, f, "Initiator") = "none" /\ e.run.commit.commitment # f
    BY <1>2, <1>5, <2>2 DEF step_Reveal
  <2>3. CASE HelloError(e, f, "Initiator") = "none" /\ e.run.commit.commitment = f
    <3>1. step_Reveal(e, f) = after_hellos(e, Transcript(f, e.run.local_hello), <<>>)
      BY <2>3 DEF step_Reveal
    <3>2. e.phase = "Established" => Asks(f) /\ f.previous = e.active.id
      BY <1>1, <1>3, <2>3 DEF Asks, HasRun
    <3> QED BY <1>1, <1>5, <3>1, <3>2, NoneMild, HellosMove
  <2> QED BY <1>5, <2>1, <2>2, <2>3
<1> QED BY <1>4, <1>5
\* The run completes, or the peer is not who it was.
LEMMA CompleteMoves ==
  ASSUME NEW e, NEW f, EngineOK(e), e.run # NoRun,
         e.run.step \in {"ConfirmInit", "ConfirmResp"}, NEW out, Mild(out)
  PROVE  Proceeds(e, f, Complete(e, out))
<1> DEFINE r == Complete(e, out)
           k == fail_rekey(e, "IdentityMismatch")
<1>1. HasRun(e) /\ DOMAIN e = EngineFields
  BY DEF EngineOK, Held
<1>2. CASE /\ e.phase = "Established"
           /\ \/ e.active.peer # remote_identity(e.run)
              \/ e.active.id = SessionKeys(e.run.transcript)
  <2>1. r = [k EXCEPT !.out = out]
    BY <1>2 DEF Complete, complete_rekey
  <2>2. DOMAIN k = {"e", "out", "event", "deliver"} /\ k.deliver = NoContent /\ k.e.rekey_blocked
    BY <1>1, FailMoves
  <2> HIDE DEF r, k
  <2>3. DOMAIN r = {"e", "out", "event", "deliver"} /\ r.deliver = NoContent /\ r.e.rekey_blocked
    BY <2>1, <2>2
  <2> QED BY <2>3 DEF Proceeds, Course, Abort, r
<1>3. CASE e.phase = "Established" =>
              e.active.peer = remote_identity(e.run) /\ e.active.id # SessionKeys(e.run.transcript)
  <2>1. Promoted(e, r.e) /\ r.out = out
    BY <1>1, <1>3, CompleteParts
  <2>2. DOMAIN r = {"e", "out", "event", "deliver"} /\ r.deliver = NoContent
    BY <1>1, <1>3 DEF Complete, complete_initial, complete_rekey, Result, HasRun
  <2> HIDE DEF r
  <2> QED BY <2>1, <2>2 DEF Proceeds, Course, r
<1> QED BY <1>2, <1>3

\* The confirmations complete a run.
LEMMA ConfirmMoves ==
  ASSUME NEW e, NEW f, EngineOK(e), e.run # NoRun
  PROVE  /\ e.run.step = "ConfirmResp" => Proceeds(e, f, step_ConfirmResp(e, f))
         /\ e.run.step = "ConfirmInit" => Proceeds(e, f, step_ConfirmInit(e, f))
<1>1. \A error : Proceeds(e, f, Fail(e, error))
  BY FailMoves DEF EngineOK, Held
<1> DEFINE d == SessionConfirmPayload(SessionKeys(e.run.transcript), "Responder")
<1>2. Mild(<<d>>)
  <2>1. d.kind \notin {"DATA", "CLOSE"}
    BY DEF SessionConfirmPayload
  <2> HIDE DEF d
  <2> QED BY <2>1, OneMild
<1>3. step_ConfirmInit(e, f) \in {Fail(e, ConfirmError(f)), Complete(e, <<d>>)}
  BY DEF step_ConfirmInit
<1>4. step_ConfirmResp(e, f) \in {Fail(e, ConfirmError(f)), Complete(e, <<>>)}
  BY DEF step_ConfirmResp
<1> HIDE DEF d
<1>5. ASSUME e.run.step = "ConfirmResp" PROVE Proceeds(e, f, step_ConfirmResp(e, f))
  BY <1>1, <1>4, <1>5, NoneMild, CompleteMoves
<1>6. ASSUME e.run.step = "ConfirmInit" PROVE Proceeds(e, f, step_ConfirmInit(e, f))
  BY <1>1, <1>2, <1>3, <1>6, CompleteMoves
<1> QED BY <1>5, <1>6

\* A frame of the run.
LEMMA StepMoves ==
  ASSUME NEW e, NEW f, EngineOK(e), e.run # NoRun, NEW i, Sound(e, i)
  PROVE  Proceeds(e, f, step_run(e, f))
<1>1. HasRun(e) /\ DOMAIN e = EngineFields /\ DOMAIN e.run = RunFields /\ e.run.step \in Steps
  BY DEF EngineOK, Held, HasRun
<1>2. Proceeds(e, f, Fail(e, "InvalidStateTransition"))
  BY <1>1, FailMoves
<1>3. OnRun(e, e, e.run.step, e.run.transcript, e.run.early)
  BY <1>1 DEF OnRun, Keeps
<1>4. e.run.step \in {"Hello", "Reveal"} => Proceeds(e, f, step_run(e, f))
  BY HelloMoves, StepOfRun
<1>5. ASSUME e.run.step \in {"AuthInit", "AuthResp"} PROVE Proceeds(e, f, step_run(e, f))
  <2>1. Proceeds(e, f, step_AuthInit(e, f)) /\ Proceeds(e, f, step_AuthResp(e, f))
    BY <1>1, <1>3, <1>5, SignatureMoves DEF Busy
  <2> QED BY <1>5, <2>1, StepOfRun
<1>6. e.run.step \in {"ConfirmInit", "ConfirmResp"} => Proceeds(e, f, step_run(e, f))
  BY ConfirmMoves, StepOfRun
<1>7. ASSUME e.run.step = "Sas" PROVE Proceeds(e, f, step_run(e, f))
  <2> DEFINE x == [e EXCEPT !.run.early = f]
  <2>1. step_run(e, f) \in {Result(x, <<>>, <<"none">>), Fail(e, "InvalidStateTransition")}
    BY <1>7, StepOfRun DEF step_Sas
  <2>2. OnRun(e, x, e.run.step, e.run.transcript, f)
    BY <1>1, EarlyEdit
  <2> HIDE DEF x
  <2>3. Course(e, f, x, <<>>)
    BY <1>7, <2>2, NoneMild, OnRunCourse DEF Busy
  <2> QED BY <1>2, <2>1, <2>3, ResultMoves
<1> QED BY <1>1, <1>4, <1>5, <1>6, <1>7 DEF Steps, AskedSteps

-----------------------------------------------------------------------------
(* A rekey is asked for, answered or turned down.                          *)

\* start_responder_run.
LEMMA RespondMoves ==
  ASSUME NEW e, NEW f, NEW k, DOMAIN k = EngineFields, Bides(e, k), e.run.step # "ConfirmResp",
         e.phase = "Established" => Asks(f) /\ f.previous = e.active.id, NEW emit
  PROVE  Proceeds(e, f, start_responder_run(k, f, emit))
<1> DEFINE r == start_responder_run(k, f, emit)
           run == Run(k, f.purpose, "Responder", f.previous, f, "Reveal")
<1>1. Ran(k, r.e, run) /\ r.out = <<run.local_hello>>
  BY RunAnswered
<1>2. DOMAIN r = {"e", "out", "event", "deliver"} /\ r.deliver = NoContent
  BY DEF start_responder_run, Result
<1>3. run.local_hello.kind = "HELLO"
  BY DEF Run, HelloPayload
<1> HIDE DEF r, run
<1>4. Mild(r.out)
  BY <1>1, <1>3, OneMild
<1>5. Bides(e, r.e)
  BY <1>1 DEF Bides, Ran, Keeps
<1>6. Sticks(e, f, r.e)
  BY <1>5 DEF Bides, Sticks, Clings, Busy
<1> QED BY <1>2, <1>4, <1>6 DEF Proceeds, Course, r

\* on_incoming_commit: a COMMIT about another session is rejected.
LEMMA IncomingMoves ==
  ASSUME NEW e, NEW f, NEW k, DOMAIN k = EngineFields, Bides(e, k), k.run = NoRun,
         e.run.step # "ConfirmResp", NEW emit
  PROVE  Proceeds(e, f, on_incoming_commit(k, f, emit))
<1>1. CASE ReferencesActive(k, f)
  <2> DEFINE y == [k EXCEPT !.consecutive_rekey_rejections = 0]
  <2>1. on_incoming_commit(k, f, emit) = start_responder_run(y, f, emit)
    BY <1>1 DEF on_incoming_commit
  <2>2. DOMAIN y = EngineFields /\ Bides(e, y)
    BY DEF EngineFields, Bides
  <2> HIDE DEF y
  <2>3. Asks(f) /\ f.previous = e.active.id
    BY <1>1 DEF Asks, ReferencesActive, Decodes, Bides
  <2> QED BY <2>1, <2>2, <2>3, RespondMoves
<1>2. CASE ~ReferencesActive(k, f)
  <2> DEFINE x == [k EXCEPT !.consecutive_rekey_rejections = @ + 1]
             r == on_incoming_commit(k, f, emit)
  <2>1. \E event : r = Result(k, <<>>, event) \/ r = Result(x, <<>>, event)
    BY <1>2 DEF on_incoming_commit, note_rekey_rejection
  <2>2. Bides(e, x) /\ x.run = NoRun
    BY DEF EngineFields, Bides
  <2> HIDE DEF x, r
  <2>3. NoRun.step = "None"
    BY DEF NoRun
  <2>4. Sticks(e, f, k) /\ Sticks(e, f, x)
    BY <2>2, <2>3 DEF Bides, Sticks, Clings, Busy
  <2>5. Course(e, f, k, <<>>) /\ Course(e, f, x, <<>>)
    BY <2>4, NoneMild DEF Course
  <2> QED BY <2>1, <2>5, ResultMoves DEF r
<1> QED BY <1>1, <1>2

\* resolve_glare.
LEMMA GlareMoves ==
  ASSUME NEW e, NEW f, DOMAIN e = EngineFields, e.run.step = "Hello"
  PROVE  Proceeds(e, f, resolve_glare(e, f))
<1> DEFINE o == [e EXCEPT !.run = NoRun]
           k == cancel(o, {"HandshakeFrame", "HandshakeTotal"})
<1>1. DOMAIN k = EngineFields /\ Bides(e, k) /\ k.run = NoRun
  BY DEF cancel, EngineFields, Bides
<1>2. Trails(e, e)
  BY DEF Trails
<1>3. Proceeds(e, f, note_rekey_rejection(e)) /\ Proceeds(e, f, Result(e, <<>>, <<"none">>))
  BY <1>2, RejectionMoves, TrailsSticks, ResultMoves
<1>4. resolve_glare(e, f) \in {note_rekey_rejection(e), Result(e, <<>>, <<"none">>),
                               on_incoming_commit(k, f, FALSE)}
  BY DEF resolve_glare
<1> HIDE DEF k
<1>5. Proceeds(e, f, on_incoming_commit(k, f, FALSE))
  BY <1>1, IncomingMoves
<1> QED BY <1>3, <1>4, <1>5

\* on_rekey_frame.
LEMMA RekeyFrameMoves ==
  ASSUME NEW e, NEW f, EngineOK(e), NEW i, Sound(e, i)
  PROVE  Proceeds(e, f, on_rekey_frame(e, f))
<1>1. DOMAIN e = EngineFields
  BY DEF EngineOK, Held
<1>2. CASE e.run = NoRun
  <2> DEFINE y == [e EXCEPT !.late_rekey_frames = 0]
             z == [e EXCEPT !.late_rekey_frames = @ - 1]
  <2>1. on_rekey_frame(e, f) \in {on_incoming_commit(y, f, TRUE), Result(z, <<>>, <<"none">>),
                                  terminate(e, "ProtocolError", "ProtocolError"),
                                  note_rekey_rejection(e)}
    BY <1>2 DEF on_rekey_frame
  <2>2. /\ DOMAIN y = EngineFields /\ Bides(e, y) /\ y.run = NoRun
        /\ Trails(e, z) /\ Trails(e, e)
    BY <1>1, <1>2 DEF EngineFields, Bides, Trails
  <2>3. e.run.step # "ConfirmResp"
    BY <1>2 DEF NoRun
  <2> HIDE DEF y, z
  <2>4. Proceeds(e, f, on_incoming_commit(y, f, TRUE))
    BY <2>2, <2>3, IncomingMoves
  <2>5. Proceeds(e, f, Result(z, <<>>, <<"none">>)) /\ Proceeds(e, f, note_rekey_rejection(e))
    BY <1>1, <2>2, RejectionMoves, TrailsSticks, ResultMoves
  <2>6. Proceeds(e, f, terminate(e, "ProtocolError", "ProtocolError"))
    BY <1>1, TerminateMoves
  <2> QED BY <2>1, <2>4, <2>5, <2>6
<1>3. CASE e.run # NoRun
  <2>1. \/ on_rekey_frame(e, f) = step_run(e, f)
        \/ e.run.step = "Hello" /\ on_rekey_frame(e, f) = resolve_glare(e, f)
    BY <1>3 DEF on_rekey_frame
  <2> QED BY <1>1, <1>3, <2>1, StepMoves, GlareMoves
<1> QED BY <1>2, <1>3
-----------------------------------------------------------------------------
(* The other inputs.                                                       *)

\* The shape of a result that delivers nothing.
Shaped(r) == DOMAIN r = {"e", "out", "event", "deliver"} /\ r.deliver = NoContent

\* begin_rekey, on an engine that differs from e in counts.
LEMMA BeginMoves ==
  ASSUME NEW e, NEW f, NEW k, DOMAIN k = EngineFields, Trails(e, k)
  PROVE  LET r == begin_rekey(k) IN
         /\ Shaped(r) /\ Mild(r.out) /\ Sticks(e, f, r.e)
         /\ r.event[1] # "SendRejected" /\ Proceeds(e, f, r)
<1> DEFINE r == begin_rekey(k)
           run == Run(k, "Rekey", "Initiator", k.active.id, NoFrame, "Hello")
<1>1. Shaped(r) /\ r.event[1] # "SendRejected"
  BY DEF begin_rekey, Result, Shaped
<1>2. CASE k.phase = "Established" /\ k.run = NoRun
  <2>1. Ran(k, r.e, run) /\ r.out = <<Commit(r.e)>>
    BY <1>2, RunBegun
  <2>2. run.step = "Hello" /\ Commit(r.e).kind = "COMMIT"
    BY DEF Run, Commit, CommitPayload
  <2>3. e.run.step = "None"
    BY <1>2 DEF Trails, NoRun
  <2> HIDE DEF r, run
  <2>4. Mild(r.out)
    BY <2>1, <2>2, OneMild
  <2>5. Sticks(e, f, r.e)
    BY <2>1, <2>2, <2>3 DEF Trails, Ran, Keeps, Sticks, Clings, Busy
  <2> QED BY <1>1, <2>4, <2>5 DEF Proceeds, Course, Shaped, r
<1>3. CASE ~(k.phase = "Established" /\ k.run = NoRun)
  <2>1. r.e = k /\ r.out = <<>>
    BY <1>3 DEF begin_rekey, Result
  <2> HIDE DEF r
  <2> QED BY <1>1, <2>1, NoneMild, TrailsSticks DEF Proceeds, Course, Shaped, r
<1> QED BY <1>2, <1>3

\* maybe_trigger_rekey, after what a message itself sends.
LEMMA TriggerMoves ==
  ASSUME NEW e, NEW f, NEW k, DOMAIN k = EngineFields, Trails(e, k), NEW out
  PROVE  LET r == maybe_trigger_rekey(k, out) IN
         /\ Shaped(r) /\ r.event[1] # "SendRejected"
         /\ Sticks(e, f, r.e)
         /\ \E more : r.out = out \o more /\ Mild(more)
<1> DEFINE b == IF k.messages >= REKEY_MESSAGE_LIMIT /\ ~k.rekey_blocked
                THEN begin_rekey(k) ELSE Result(k, <<>>, <<"none">>)
           r == maybe_trigger_rekey(k, out)
<1>1. r = [b EXCEPT !.out = out \o @]
  BY DEF maybe_trigger_rekey
<1>2. Shaped(b) /\ Mild(b.out) /\ Sticks(e, f, b.e) /\ b.event[1] # "SendRejected"
  <2>1. CASE b = begin_rekey(k)
    <3> HIDE DEF b
    <3> QED BY <2>1, BeginMoves
  <2>2. CASE b = Result(k, <<>>, <<"none">>)
    <3>1. b.e = k /\ b.out = <<>> /\ Shaped(b) /\ b.event[1] = "none"
      BY <2>2 DEF Result, Shaped
    <3> HIDE DEF b
    <3> QED BY <3>1, NoneMild, TrailsSticks
  <2> QED BY <2>1, <2>2
<1> HIDE DEF b, r
<1>3. Shaped(r) /\ r.e = b.e /\ r.out = out \o b.out /\ r.event = b.event
  BY <1>1, <1>2 DEF Shaped
<1> QED BY <1>2, <1>3 DEF r

\* Counting a message, and opening a frame.
LEMMA CountsTrail ==
  ASSUME NEW e, NEW k, DOMAIN k = EngineFields, Trails(e, k)
  PROVE  DOMAIN Counted(k) = EngineFields /\ Trails(e, Counted(k))
BY DEF Counted, EngineFields, Trails

\* on_data, other than what it delivers.
LEMMA DataMoves ==
  ASSUME NEW e, EngineOK(e), e.phase = "Established", NEW f
  PROVE  LET r == on_data(e, f) IN Course(e, f, r.e, r.out)
<1> DEFINE r == on_data(e, f)
           x == Opened(e, f)
<1>1. /\ DOMAIN e = EngineFields /\ DOMAIN e.active = SessionFields
      /\ e.draining = NoSession \/ DOMAIN e.draining = SessionFields
  BY DEF EngineOK, Held
<1>2. /\ DOMAIN x = EngineFields /\ x.phase = e.phase /\ x.run = e.run
      /\ x.active = decrypt(e.active, f)
      /\ x.draining = e.draining
            \/ (e.draining # NoSession /\ x.draining = decrypt(e.draining, f))
  BY <1>1 DEF Opened, EngineFields
<1>3. \/ r = [maybe_trigger_rekey(Counted(x), <<>>) EXCEPT !.deliver = f.content]
      \/ r = [Result(x, <<>>, <<"none">>) EXCEPT !.deliver = f.content]
      \/ r = terminate(x, "ProtocolError", "ProtocolError")
      \/ r = Result(x, <<>>, <<"DataRejected">>)
  BY <1>1 DEF on_data, Opened, EngineFields
<1> HIDE DEF x, r
<1>4. /\ x.active.id = e.active.id /\ x.active.counter = e.active.counter
      /\ x.draining.id = e.draining.id
  BY <1>1, <1>2, DecryptMoves
<1>5. Trails(e, x)
  BY <1>2, <1>4 DEF Trails
<1>6. CASE r = [maybe_trigger_rekey(Counted(x), <<>>) EXCEPT !.deliver = f.content]
  <2> DEFINE s == maybe_trigger_rekey(Counted(x), <<>>)
  <2>1. Trails(e, Counted(x)) /\ DOMAIN Counted(x) = EngineFields
    BY <1>2, <1>5, CountsTrail
  <2>2. /\ Shaped(s) /\ Sticks(e, f, s.e)
        /\ \E more : s.out = <<>> \o more /\ Mild(more)
    BY <2>1, TriggerMoves
  <2> HIDE DEF s
  <2>3. r.e = s.e /\ r.out = s.out
    BY <1>6, <2>2 DEF s, Shaped
  <2>4. PICK more : s.out = <<>> \o more /\ Mild(more)
    BY <2>2
  <2>5. Mild(r.out)
    BY <2>3, <2>4, NoneMild, BothMild
  <2> QED BY <2>2, <2>3, <2>5 DEF Course, r
<1>7. CASE r \in {[Result(x, <<>>, <<"none">>) EXCEPT !.deliver = f.content],
                  Result(x, <<>>, <<"DataRejected">>)}
  <2>1. r.e = x /\ r.out = <<>>
    BY <1>7 DEF Result
  <2> QED BY <1>5, <2>1, TrailsSticks DEF r
<1>8. CASE r = terminate(x, "ProtocolError", "ProtocolError")
  BY <1>2, <1>8, TerminateMoves DEF Proceeds, r
<1> QED BY <1>3, <1>6, <1>7, <1>8

\* on_close_frame.
LEMMA CloseMoves ==
  ASSUME NEW e, EngineOK(e), NEW f, f.kind = "CLOSE"
  PROVE  Proceeds(e, f, on_close_frame(e, f))
<1> DEFINE r == on_close_frame(e, f)
           o == [e EXCEPT !.draining = NoSession]
           x == cancel(o, {"Drain"})
<1>1. DOMAIN e = EngineFields
  BY DEF EngineOK, Held
<1>2. \/ r \in {terminate(e, "ProtocolError", "ProtocolError"),
                terminate(e, "PeerUnauthenticated", "none")}
      \/ r \in {Result(e, <<>>, <<"none">>), Result(x, <<>>, <<"none">>)}
  BY DEF on_close_frame
<1>3. x.phase = e.phase /\ x.run = e.run /\ x.active = e.active /\ x.draining.id = NoId
  BY <1>1 DEF cancel, EngineFields, NoSession
<1> HIDE DEF x, r
<1>4. Sticks(e, f, x)
  BY <1>3 DEF Sticks, Clings, Busy
<1>5. Trails(e, e)
  BY DEF Trails
<1>6. Course(e, f, e, <<>>) /\ Course(e, f, x, <<>>)
  BY <1>4, <1>5, NoneMild, TrailsSticks DEF Course
<1> QED BY <1>1, <1>2, <1>6, TerminateMoves, ResultMoves DEF r

\* The ends.
LEMMA EndsMove ==
  ASSUME NEW e, EngineOK(e), NEW f
  PROVE  Proceeds(e, f, local_close(e)) /\ Proceeds(e, f, transport_closed(e))
BY TerminateMoves DEF EngineOK, Held, local_close, transport_closed

\* The rekey timer.
LEMMA DueMoves ==
  ASSUME NEW e, EngineOK(e), NEW f
  PROVE  Proceeds(e, f, on_timeout(e, "RekeyDue"))
<1> DEFINE k == [Fired(e, "RekeyDue") EXCEPT !.rekey_blocked = FALSE, !.late_rekey_frames = 0]
           r == on_timeout(e, "RekeyDue")
<1>1. DOMAIN e = EngineFields
  BY DEF EngineOK, Held
<1>2. r = begin_rekey(k) \/ r = Result(e, <<>>, <<"none">>)
  BY DEF on_timeout, Fired
<1>3. DOMAIN k = EngineFields /\ Trails(e, k) /\ Trails(e, e)
  BY <1>1 DEF Fired, Trails, EngineFields
<1> HIDE DEF k, r
<1> QED BY <1>2, <1>3, BeginMoves, TrailsSticks, ResultMoves DEF r

\* The user's answer.
LEMMA AnswerMoves ==
  ASSUME NEW e, EngineOK(e), NEW f, NEW answer
  PROVE  Proceeds(e, f, on_sas(e, answer))
<1> DEFINE k == cancel(e, {"SasDecision"})
           r == on_sas(e, answer)
<1>1. DOMAIN e = EngineFields
  BY DEF EngineOK, Held
<1>2. Keeps(e, k) /\ k.run = e.run /\ k.entropy = e.entropy
  BY <1>1, ArmsKeep
<1>3. \/ r = Result(e, <<>>, <<"none">>)
      \/ r = terminate(k, "SasRejected", "AuthenticationFailure")
      \/ r = after_approval(k) /\ e.phase = "Handshaking" /\ e.run.step = "Sas"
  BY DEF on_sas
<1> HIDE DEF k, r
<1>4. CASE r = Result(e, <<>>, <<"none">>)
  <2>1. Trails(e, e)
    BY DEF Trails
  <2> QED BY <1>4, <2>1, TrailsSticks, ResultMoves DEF r
<1>5. CASE r = terminate(k, "SasRejected", "AuthenticationFailure")
  BY <1>2, <1>5, TerminateMoves DEF Keeps, r
<1>6. CASE r = after_approval(k) /\ e.phase = "Handshaking" /\ e.run.step = "Sas"
  <2>1. DOMAIN e.run = RunFields
    BY <1>6 DEF EngineOK, HasRun, NoRun
  <2>2. OnRun(e, k, e.run.step, e.run.transcript, e.run.early)
    BY <1>2, <2>1 DEF OnRun, Keeps
  <2>3. DOMAIN k = EngineFields /\ DOMAIN k.run = RunFields
    BY <1>2, <2>1 DEF Keeps
  <2> QED BY <1>6, <2>2, <2>3, ApprovalMoves DEF r
<1> QED BY <1>3, <1>4, <1>5, <1>6

\* start, on an engine that has not started.
LEMMA StartMoves ==
  ASSUME NEW e, EngineOK(e), e.phase = "Idle", NEW f
  PROVE  Proceeds(e, f, start(e))
<1> DEFINE o == [e EXCEPT !.phase = "Handshaking"]
           timed == arm(o, "HandshakeTotal")
           run == Run(timed, "Initial", "Initiator", NoId, NoFrame, "Hello")
           begun == WithRun(timed, run)
           z == rearm_frame_deadline(begun)
           t == arm(timed, "HandshakeFrame")
           d == CommitPayload(begun.run.local_hello)
           r == start(e)
<1>0. DOMAIN e = EngineFields /\ e.run = NoRun
  BY DEF EngineOK, Held
<1>1. /\ DOMAIN o = EngineFields /\ o.phase = "Handshaking"
      /\ o.active = e.active /\ o.draining = e.draining
  BY <1>0 DEF EngineFields
<1>2. r = Result(z, <<d>>, <<"none">>) \/ r = Result(t, <<>>, <<"none">>)
  BY DEF start, start_initiator_run
<1>3. d.kind = "COMMIT"
  BY DEF CommitPayload
<1> HIDE DEF o, d
<1>4. Keeps(o, timed)
  BY <1>1, ArmsKeep
<1> HIDE DEF timed, run
<1>5. Keeps(timed, begun)
  BY <1>4 DEF WithRun, Keeps, EngineFields
<1> HIDE DEF begun
<1>6. Keeps(begun, z)
  BY <1>5, RearmsKeep DEF Keeps
<1>7. Keeps(timed, t)
  BY <1>4, ArmsKeep DEF Keeps
<1> HIDE DEF z, t, r
<1>8. ASSUME NEW x, x \in {z, t} PROVE Sticks(e, f, x)
  <2>1. x.phase = "Handshaking" /\ x.active = e.active /\ x.draining = e.draining
    BY <1>1, <1>4, <1>5, <1>6, <1>7, <1>8 DEF Keeps
  <2> QED BY <1>0, <2>1 DEF Sticks, Clings, Busy, NoRun
<1>9. Mild(<<d>>)
  BY <1>3, OneMild
<1>10. Course(e, f, z, <<d>>) /\ Course(e, f, t, <<>>)
  BY <1>8, <1>9, NoneMild DEF Course
<1> QED BY <1>2, <1>10, ResultMoves DEF r

\* A frame that is not DATA.
LEMMA FrameMoves ==
  ASSUME NEW e, EngineOK(e), NEW i, Sound(e, i), e.phase \in {"Handshaking", "Established"},
         NEW f, f.kind # "DATA"
  PROVE  Proceeds(e, f, on_frame(e, f))
<1>1. DOMAIN e = EngineFields
  BY DEF EngineOK, Held
<1>2. MessageType(f) \in {"Close", "SessionConfirm", "Rekey", "Handshake"}
      /\ (MessageType(f) = "Close" => f.kind = "CLOSE")
  BY DEF MessageType
<1>3. Proceeds(e, f, on_rekey_frame(e, f))
  BY RekeyFrameMoves
<1>4. f.kind = "CLOSE" => Proceeds(e, f, on_close_frame(e, f))
  BY CloseMoves
<1>5. Proceeds(e, f, terminate(e, "ProtocolError", "ProtocolError"))
  BY <1>1, TerminateMoves
<1>6. CASE e.phase = "Established"
  BY <1>2, <1>3, <1>4, <1>5, <1>6 DEF on_frame
<1>7. CASE e.phase = "Handshaking" /\ e.run = NoRun
  <2>1. on_frame(e, f) \in {on_close_frame(e, f), start_responder_run(e, f, TRUE),
                            fail_initial(e, "InvalidHandshake")}
        /\ (on_frame(e, f) = on_close_frame(e, f) \/ ~(MessageType(f) = "Close"))
    BY <1>7 DEF on_frame, accept_first_commit
  <2>2. Bides(e, e) /\ e.run.step # "ConfirmResp"
    BY <1>7 DEF Bides, NoRun
  <2>3. Proceeds(e, f, start_responder_run(e, f, TRUE))
    BY <1>1, <1>7, <2>2, RespondMoves
  <2>4. Proceeds(e, f, fail_initial(e, "InvalidHandshake"))
    BY <1>1, FailMoves
  <2>5. MessageType(f) # "Close" =>
           on_frame(e, f) \in {start_responder_run(e, f, TRUE), fail_initial(e, "InvalidHandshake")}
    BY <1>7 DEF on_frame, accept_first_commit
  <2>6. MessageType(f) = "Close" => on_frame(e, f) = on_close_frame(e, f)
    BY <1>7 DEF on_frame
  <2> QED BY <1>2, <1>4, <2>3, <2>4, <2>5, <2>6
<1>8. CASE e.phase = "Handshaking" /\ e.run # NoRun
  <2>1. Proceeds(e, f, step_run(e, f))
    BY <1>8, StepMoves
  <2>2. MessageType(f) # "Close" => on_frame(e, f) = step_run(e, f)
    BY <1>8 DEF on_frame
  <2>3. MessageType(f) = "Close" => on_frame(e, f) = on_close_frame(e, f)
    BY <1>8 DEF on_frame
  <2> QED BY <1>2, <1>4, <2>1, <2>2, <2>3
<1> QED BY <1>6, <1>7, <1>8

\* A message to send: turned down, or, as long as the session can seal, sent as the
\* next DATA frame of the active session.
LEMMA SendMoves ==
  ASSUME NEW e, EngineOK(e), NEW content
  PROVE  LET r == on_send(e, content)
             d == DataPayload(e.active.id, e.active.role, e.active.counter, content)
         IN  \/ r.event[1] = "SendRejected" /\ Proceeds(e, NoFrame, r)
             \/ content # TooLarge /\ e.phase = "Established" /\ e.active.counter >= COUNTER_MAX
             \/ /\ content # TooLarge /\ e.phase = "Established"
                /\ r.event[1] # "SendRejected" /\ Shaped(r)
                /\ Sticks(Sealed(e), NoFrame, r.e)
                /\ \E more : r.out = <<d>> \o more /\ Mild(more)
<1> DEFINE r == on_send(e, content)
           d == DataPayload(e.active.id, e.active.role, e.active.counter, content)
           x == Sealed(e)
<1>1. DOMAIN e = EngineFields
  BY DEF EngineOK, Held
<1>2. \/ r \in {Result(e, <<>>, <<"SendRejected", "TooLarge">>),
                Result(e, <<>>, <<"SendRejected", "NotActive">>)}
      \/ content # TooLarge /\ e.phase = "Established" /\ e.active.counter >= COUNTER_MAX
      \/ content # TooLarge /\ e.phase = "Established" /\ r = maybe_trigger_rekey(Counted(x), <<d>>)
  BY DEF on_send, Sealed
<1> HIDE DEF r, d
<1>3. CASE r \in {Result(e, <<>>, <<"SendRejected", "TooLarge">>),
                  Result(e, <<>>, <<"SendRejected", "NotActive">>)}
  <2>1. Trails(e, e)
    BY DEF Trails
  <2>2. Proceeds(e, NoFrame, r)
    BY <1>3, <2>1, TrailsSticks, ResultMoves
  <2>3. r.event[1] = "SendRejected"
    BY <1>3 DEF Result
  <2> QED BY <2>2, <2>3 DEF r
<1>4. CASE content # TooLarge /\ e.phase = "Established" /\ r = maybe_trigger_rekey(Counted(x), <<d>>)
  <2>1. DOMAIN x = EngineFields
    BY <1>1 DEF EngineFields, Sealed
  <2>2. Trails(x, x)
    BY DEF Trails
  <2> HIDE DEF x
  <2>3. DOMAIN Counted(x) = EngineFields /\ Trails(x, Counted(x))
    BY <2>1, <2>2, CountsTrail
  <2>4. /\ Shaped(r) /\ r.event[1] # "SendRejected" /\ Sticks(x, NoFrame, r.e)
        /\ \E more : r.out = <<d>> \o more /\ Mild(more)
    BY <1>4, <2>3, TriggerMoves
  <2> QED BY <1>4, <2>4 DEF r, d, x
<1> QED BY <1>2, <1>3, <1>4 DEF r
-----------------------------------------------------------------------------
(* What the dialogue says of the sessions that the two ends hold.          *)

\* A COMMIT or HELLO in the channel is what the channel says.
LEMMA WhatIsSaid ==
  ASSUME NEW q, NEW k \in 1..Len(q), Asks(q[k])
  PROVE  /\ ~Silent(q)
         /\ \A f : Says(q, f) => q[k] = f
         /\ \A f, g : SaysBoth(q, f, g) => q[k] = f \/ q[k] = g
<1>1. Talk(q[k])
  BY DEF Asks, Talk
<1>2. ~Silent(q)
  BY <1>1 DEF Silent
<1>3. ASSUME NEW f, Says(q, f) PROVE q[k] = f
  BY <1>1, <1>3 DEF Says
<1>4. ASSUME NEW f, NEW g, SaysBoth(q, f, g) PROVE q[k] = f \/ q[k] = g
  BY <1>1, <1>4 DEF SaysBoth
<1> QED BY <1>2, <1>3, <1>4

\* What an established engine says of its next session, it says of its run.
LEMMA OwnWords ==
  ASSUME NEW p, NEW e, Fit(p, e), p.phase = "Established", p.run.step # "None"
  PROVE  Commit(p).previous = p.active.id /\ p.run.local_hello.previous = p.active.id
BY RunParts, CommitParts, HelloParts

\* COMMIT and HELLO are about the session that their sender has, while it has one.
LEMMA AskedAbout ==
  ASSUME NEW e, NEW p, NEW q, NEW u, Fit(e, p), Fit(p, e), Dialogue(e, p, q, u),
         p.phase = "Established", NEW k \in 1..Len(q), Asks(q[k])
  PROVE  q[k].previous = p.active.id
<1>0. p.run.step # "None" => /\ Commit(p).previous = p.active.id
                             /\ p.run.local_hello.previous = p.active.id
  BY OwnWords
<1>1. /\ ~Silent(q)
      /\ \A f : Says(q, f) => q[k] = f
      /\ \A f, g : SaysBoth(q, f, g) => q[k] = f \/ q[k] = g
  BY WhatIsSaid
<1>2. \A a, b, t : ~Asks(HandshakePayload(a, t)) /\ ~Asks(SessionConfirmPayload(a, b))
  BY DEF Asks, HandshakePayload, SessionConfirmPayload
<1>3. \A a, i, r : ~Asks(Auth(a, i, r)) /\ ~Asks(Confirm(a, i, r))
  BY <1>2 DEF Auth, Confirm
<1>4. CASE Talks(e, p, q, u)
  <2>1. ~Unopened(e, p, q, u) /\ ~Calling(e, p, q, u) /\ ~Resting(e, p, q, u)
        /\ ~Revealed(e, p, q, u) /\ ~Signing(e, p, q, u)
    BY <1>1 DEF Unopened, Calling, Resting, Revealed, Signing
  <2>2. CASE Crossing(e, p, q, u)
    BY <1>0, <1>1, <2>2 DEF Crossing
  <2>3. CASE Answered(e, p, q, u)
    <3>1. p.run.step # "None"
      BY <2>3 DEF Answered
    <3>2. CASE Says(q, p.run.local_hello)
      BY <1>0, <1>1, <3>1, <3>2
    <3>3. CASE ~Says(q, p.run.local_hello)
      <4>1. PICK c : c.previous = e.run.previous /\ SaysBoth(q, c, p.run.local_hello)
        BY <2>3, <3>3 DEF Answered
      <4>2. Level(e, p) /\ e.run.step # "None"
        BY <2>3, <3>3 DEF Answered
      <4>3. c.previous = p.active.id
        BY <4>1, <4>2, RunParts DEF Level
      <4> QED BY <1>0, <1>1, <3>1, <4>1, <4>3
    <3> QED BY <3>2, <3>3
  <2>4. CASE Vouching(e, p, q, u)
    BY <1>1, <1>3, <2>4 DEF Vouching
  <2>5. CASE Finishing(e, p, q, u)
    <3>1. Says(q, SessionConfirmPayload(SessionKeys(e.run.transcript), "Responder"))
          \/ /\ p.run.step = "Hello"
             /\ SaysBoth(q, SessionConfirmPayload(SessionKeys(e.run.transcript), "Responder"), Commit(p))
      BY <2>5 DEF Finishing
    <3> QED BY <1>0, <1>1, <1>2, <3>1
  <2> QED BY <1>4, <2>1, <2>2, <2>3, <2>4, <2>5 DEF Talks
<1>5. CASE Talks(p, e, u, q)
  <2>1. ~Unopened(p, e, u, q) /\ ~Resting(p, e, u, q) /\ ~Answered(p, e, u, q)
        /\ ~Finishing(p, e, u, q)
    BY <1>1 DEF Unopened, Resting, Answered, Finishing
  <2>2. CASE Calling(p, e, u, q)
    BY <1>0, <1>1, <2>2 DEF Calling
  <2>3. CASE Crossing(p, e, u, q)
    BY <1>0, <1>1, <2>3 DEF Crossing
  <2>4. CASE Revealed(p, e, u, q)
    <3>1. p.run.step # "None"
      BY <2>4 DEF Revealed
    <3>2. Says(q, p.run.local_hello) \/ SaysBoth(q, p.run.local_hello, Auth(0, p, e))
      BY <2>4 DEF Revealed
    <3> QED BY <1>0, <1>1, <1>3, <3>1, <3>2
  <2>5. CASE Signing(p, e, u, q)
    BY <1>1, <1>3, <2>5 DEF Signing
  <2>6. CASE Vouching(p, e, u, q)
    BY <1>1, <1>3, <2>6 DEF Vouching
  <2> QED BY <1>5, <2>1, <2>2, <2>3, <2>4, <2>5, <2>6 DEF Talks
<1> QED BY <1>4, <1>5 DEF Dialogue

\* The session that the peer has is one that e will read, and while e changes to a
\* new one, it is not the one that e leaves.
LEMMA PeerIsRead ==
  ASSUME NEW e, NEW p, NEW q, NEW u, Dialogue(e, p, q, u), p.phase = "Established"
  PROVE  /\ e.phase \in {"Handshaking", "Established"}
         /\ Busy(e) \/ e.phase = "Handshaking" =>
               (e.phase = "Established" /\ p.active.id = e.active.id) \/ Confirming(e, p.active.id)
<1>1. CASE Level(e, p) \/ Level(p, e)
  BY <1>1 DEF Level
<1>2. CASE Met(e, p) \/ Met(p, e)
  BY <1>1, <1>2 DEF Met, Footing
<1>3. NoRun.step = "None"
  BY DEF NoRun
<1>4. CASE Talks(e, p, q, u)
  <2>1. CASE Unopened(e, p, q, u)
    BY <2>1 DEF Unopened
  <2>2. CASE Calling(e, p, q, u)
    BY <1>1, <2>2 DEF Calling
  <2>3. CASE Resting(e, p, q, u) \/ Crossing(e, p, q, u)
    BY <1>1, <2>3 DEF Resting, Crossing
  <2>4. CASE Answered(e, p, q, u) \/ Revealed(e, p, q, u) \/ Signing(e, p, q, u) \/ Vouching(e, p, q, u)
    BY <1>2, <2>4 DEF Answered, Revealed, Signing, Vouching
  <2>5. CASE Finishing(e, p, q, u)
    BY <2>5 DEF Finishing, Confirming
  <2> QED BY <1>4, <2>1, <2>2, <2>3, <2>4, <2>5 DEF Talks
<1>5. CASE Talks(p, e, u, q)
  <2>1. CASE Unopened(p, e, u, q)
    BY <2>1 DEF Unopened
  <2>2. CASE Calling(p, e, u, q)
    BY <1>1, <2>2 DEF Calling
  <2>3. CASE Resting(p, e, u, q) \/ Crossing(p, e, u, q)
    BY <1>1, <2>3 DEF Resting, Crossing
  <2>4. CASE Answered(p, e, u, q) \/ Revealed(p, e, u, q) \/ Signing(p, e, u, q) \/ Vouching(p, e, u, q)
    BY <1>2, <2>4 DEF Answered, Revealed, Signing, Vouching
  <2>5. CASE Finishing(p, e, u, q)
    <3>1. e.phase = "Established" /\ e.run.step \in {"None", "Hello"}
      BY <1>3, <2>5 DEF Finishing
    <3> QED BY <3>1 DEF Busy
  <2> QED BY <1>5, <2>1, <2>2, <2>3, <2>4, <2>5 DEF Talks
<1> QED BY <1>4, <1>5 DEF Dialogue

\* An engine that has just made a session is read by its peer.
LEMMA PromotedIsRead ==
  ASSUME NEW e, NEW p, NEW q, NEW u, Dialogue(e, p, q, u), p.phase = "Established",
         e.phase = "Established", e.run = NoRun, e.active.id # NoId
  PROVE  Reads(p, e.active.id)
<1>0. e.run.step = "None"
  BY DEF NoRun
<1>1. CASE Level(e, p) \/ Level(p, e)
  BY <1>1 DEF Level, Reads, Holds
<1>2. CASE Met(e, p) \/ Met(p, e)
  BY <1>1, <1>2 DEF Met, Footing
<1>3. CASE Talks(e, p, q, u)
  <2>1. ~Unopened(e, p, q, u) /\ ~Calling(e, p, q, u) /\ ~Finishing(e, p, q, u)
    BY <1>0 DEF Unopened, Calling, Finishing
  <2>2. CASE Resting(e, p, q, u) \/ Crossing(e, p, q, u)
    BY <1>1, <2>2 DEF Resting, Crossing
  <2>3. CASE Answered(e, p, q, u) \/ Revealed(e, p, q, u) \/ Signing(e, p, q, u) \/ Vouching(e, p, q, u)
    BY <1>2, <2>3 DEF Answered, Revealed, Signing, Vouching
  <2> QED BY <1>3, <2>1, <2>2, <2>3 DEF Talks
<1>4. CASE Talks(p, e, u, q)
  <2>1. CASE Unopened(p, e, u, q)
    BY <2>1 DEF Unopened
  <2>2. CASE Calling(p, e, u, q) \/ Resting(p, e, u, q) \/ Crossing(p, e, u, q)
    BY <1>1, <2>2 DEF Calling, Resting, Crossing
  <2>3. CASE Answered(p, e, u, q) \/ Revealed(p, e, u, q) \/ Signing(p, e, u, q) \/ Vouching(p, e, u, q)
    BY <1>2, <2>3 DEF Answered, Revealed, Signing, Vouching
  <2>4. CASE Finishing(p, e, u, q)
    BY <2>4 DEF Finishing, Confirming, Reads
  <2> QED BY <1>4, <2>1, <2>2, <2>3, <2>4 DEF Talks
<1> QED BY <1>3, <1>4 DEF Dialogue
-----------------------------------------------------------------------------
(* What flows to e of p: q is the channel to e, k how many messages p has   *)
(* handed over, and got what e has delivered.                               *)

\* What has been delivered is 1, 2, .. in this order.
InOrder(got) == IsSequence(got) /\ \A i \in DOMAIN got : got[i] = i

\* What is in the channel is what is still to be delivered, and e will read it.
Flowing(e, p, q, k, got) ==
    e.phase # "Closed" =>
        /\ Orderly(e, q)
        /\ HasClose(q) => p.phase = "Closed"
        /\ Contents(q, Len(got) + 1, k + 1)

\* What p would send next, e will read as well.
Reach(e, p) ==
    e.phase = "Established" /\ p.phase = "Established" => Reads(e, p.active.id)

\* No session has numbered more messages than there were.
Paces(e, k) == e.phase = "Established" => e.active.counter <= k

\* e has become x: its sessions go on, or its run has made another.
Onward(e, f, x) ==
    \/ Clings(e, f, x)
    \/ Promoted(e, x) /\ e.run.step \in {"ConfirmInit", "ConfirmResp"}

\* Outside Established no session is held.
LEMMA HoldsNone ==
  ASSUME NEW e, NEW i, Sound(e, i), e.phase # "Established"
  PROVE  \A id : ~Holds(e, id)
<1>1. SessionSet(e) = {}
  BY DEF Sound
<1>2. e.active = NoSession /\ e.draining = NoSession
  BY <1>1 DEF SessionSet
<1> QED BY <1>2 DEF Holds, NoSession

\* Once the run has made its session, e reads that and the one it had.
LEMMA PromotedReads ==
  ASSUME NEW e, NEW i, Sound(e, i), NEW x, Promoted(e, x),
         e.run.step \in {"ConfirmInit", "ConfirmResp"}
  PROVE  /\ ~Busy(x)
         /\ \A id : Confirming(e, id) => Reads(x, id)
         /\ e.phase = "Established" => Busy(e) /\ Reads(x, e.active.id)
         /\ \A id : Reads(e, id) /\ (Busy(e) => id # e.draining.id) => Reads(x, id)
<1>1. ~Busy(x)
  BY DEF Promoted, Busy, NoRun
<1>2. x.active.id = SessionKeys(e.run.transcript) /\ x.active.id # NoId
  BY KeysAreAnId DEF Promoted, Session
<1>3. \A id : Confirming(e, id) => Reads(x, id)
  BY <1>2 DEF Confirming, Reads, Holds
<1>4. e.phase = "Established" => Busy(e) /\ Reads(x, e.active.id)
  BY DEF Sound, Promoted, Reads, Holds, Busy
<1>5. ASSUME NEW id, Reads(e, id), Busy(e) => id # e.draining.id
      PROVE  Reads(x, id)
  <2>1. CASE Confirming(e, id)
    BY <1>3, <2>1
  <2>2. CASE ~Confirming(e, id)
    <3>1. Holds(e, id)
      BY <1>5, <2>2 DEF Reads
    <3>2. e.phase = "Established"
      BY <3>1, HoldsNone
    <3> QED BY <1>4, <1>5, <3>1, <3>2 DEF Holds
  <2> QED BY <2>1, <2>2
<1> QED BY <1>1, <1>3, <1>4, <1>5

\* The sessions go on, and so does what e reads, unless the peer closes it.
LEMMA ClingsReads ==
  ASSUME NEW e, NEW f, NEW x, Clings(e, f, x), NEW id, Reads(e, id)
  PROVE  Reads(x, id) \/ f.kind = "CLOSE"
BY DEF Clings, Reads, Holds, Confirming

\* The reader moves on: DATA still in the channel stays readable.
LEMMA OrderlyOn ==
  ASSUME NEW e, NEW i, Sound(e, i), e.phase # "Closed", NEW q, IsSequence(q), Orderly(e, q),
         NEW f, NEW v, Fed(q, f, v), NEW x, Onward(e, f, x)
  PROVE  Orderly(x, v)
<1>1. /\ IsSequence(v) /\ Orderly(e, v)
      /\ f.kind = "CLOSE" => Len(v) = 0
      /\ Asks(f) => \A j \in 1..Len(v) : v[j].kind = "DATA" => v[j].id = f.previous
  BY OrderlyTail
<1>2. SUFFICES ASSUME NEW j \in 1..Len(v), v[j].kind = "DATA"
               PROVE  Reads(x, v[j].id) /\ (Busy(x) => v[j].id # x.draining.id)
  BY <1>1, OrderlyFor
<1>3. Reads(e, v[j].id) /\ (Busy(e) => v[j].id # e.draining.id)
  BY <1>1, <1>2 DEF Orderly
<1>4. CASE Clings(e, f, x)
  <2>1. f.kind # "CLOSE"
    BY <1>1
  <2>2. Reads(x, v[j].id) /\ x.draining.id = e.draining.id
    BY <1>3, <1>4, <2>1, ClingsReads DEF Clings
  <2>3. ASSUME Busy(x), ~Busy(e) PROVE v[j].id # e.draining.id
    <3>1. Asks(f) /\ f.previous = e.active.id
      BY <1>4, <2>3 DEF Clings
    <3>2. e.phase = "Established"
      BY <1>4, <2>3 DEF Clings, Busy
    <3>3. v[j].id = e.active.id
      BY <1>1, <1>2, <3>1
    <3> QED BY <3>2, <3>3 DEF Sound
  <2> QED BY <1>3, <2>2, <2>3
<1>5. CASE Promoted(e, x) /\ e.run.step \in {"ConfirmInit", "ConfirmResp"}
  BY <1>3, <1>5, PromotedReads
<1> QED BY <1>4, <1>5 DEF Onward

\* The head is DATA, or it is not, or there is none.
LEMMA FedContents ==
  ASSUME NEW q, IsSequence(q), NEW lo, NEW hi, Contents(q, lo, hi), NEW f, NEW v, Fed(q, f, v)
  PROVE  /\ f.kind # "DATA" => Contents(v, lo, hi)
         /\ f.kind = "DATA" => f.content = lo /\ Contents(v, lo + 1, hi)
<1>1. CASE f = NoFrame /\ v = q
  BY <1>1 DEF NoFrame
<1>2. CASE q # <<>> /\ f = Head(q) /\ v = Tail(q)
  BY <1>2, ContentsTail
<1> QED BY <1>1, <1>2 DEF Fed

\* So what flows goes on flowing, and what is delivered is the next of it.
LEMMA FlowTaken ==
  ASSUME NEW e, NEW i, Sound(e, i), e.phase # "Closed", NEW q, IsSequence(q),
         NEW p, NEW k, NEW got, Flowing(e, p, q, k, got),
         NEW f, NEW v, Fed(q, f, v), NEW x, x.phase # "Closed" => Onward(e, f, x), NEW had,
         f.kind # "DATA" => Len(had) = Len(got),
         f.kind = "DATA" => Len(had) = Len(got) + 1
  PROVE  Flowing(x, p, v, k, had)
<1> SUFFICES ASSUME x.phase # "Closed"
             PROVE  /\ Orderly(x, v)
                    /\ HasClose(v) => p.phase = "Closed"
                    /\ Contents(v, Len(had) + 1, k + 1)
  BY DEF Flowing
<1>1. Orderly(e, q) /\ (HasClose(q) => p.phase = "Closed") /\ Contents(q, Len(got) + 1, k + 1)
  BY DEF Flowing
<1>2. Orderly(x, v)
  BY <1>1, OrderlyOn
<1>3. HasClose(v) => p.phase = "Closed"
  BY <1>1, OrderlyTail
<1>4. Contents(v, Len(had) + 1, k + 1)
  BY <1>1, FedContents
<1> QED BY <1>2, <1>3, <1>4

\* p reads what e would send next, after e has moved on.
LEMMA ReachKept ==
  ASSUME NEW e, NEW i, Sound(e, i), NEW p, NEW q, NEW u, e.phase # "Closed",
         p.phase # "Closed" => Dialogue(e, p, q, u), Reach(e, p),
         NEW f, f.kind = "CLOSE" => p.phase = "Closed",
         NEW x, x.phase # "Closed" => Onward(e, f, x)
  PROVE  Reach(x, p)
<1> SUFFICES ASSUME x.phase = "Established", p.phase = "Established"
             PROVE  Reads(x, p.active.id)
  BY DEF Reach
<1>1. CASE Clings(e, f, x)
  <2>1. e.phase = "Established"
    BY <1>1 DEF Clings
  <2> QED BY <1>1, <2>1, ClingsReads DEF Reach
<1>2. CASE Promoted(e, x) /\ e.run.step \in {"ConfirmInit", "ConfirmResp"}
  <2>1. \/ e.phase = "Established" /\ p.active.id = e.active.id
        \/ Confirming(e, p.active.id)
    <3>1. e.phase \in {"Handshaking", "Established"}
      BY PeerIsRead
    <3>2. Busy(e) \/ e.phase = "Handshaking"
      BY <1>2, <3>1 DEF Busy
    <3> QED BY <3>2, PeerIsRead
  <2> QED BY <1>2, <2>1, PromotedReads
<1> QED BY <1>1, <1>2 DEF Onward

\* And the other way round: when the run has made a session, by what is then said.
LEMMA ReachGained ==
  ASSUME NEW e, NEW p, Reach(p, e), e.phase # "Closed", NEW f,
         NEW x, x.phase # "Closed" => Onward(e, f, x),
         NEW v, NEW w, x.phase # "Closed" /\ p.phase # "Closed" => Dialogue(x, p, v, w)
  PROVE  Reach(p, x)
<1> SUFFICES ASSUME x.phase = "Established", p.phase = "Established"
             PROVE  Reads(p, x.active.id)
  BY DEF Reach
<1>1. CASE Clings(e, f, x)
  BY <1>1 DEF Clings, Reach
<1>2. CASE Promoted(e, x)
  <2>1. x.run = NoRun /\ x.active.id # NoId
    BY <1>2, KeysAreAnId DEF Promoted, Session
  <2> QED BY <2>1, PromotedIsRead
<1> QED BY <1>1, <1>2 DEF Onward

\* What is said that is not DATA leaves the rest as it is.
LEMMA FlowSaid ==
  ASSUME NEW p, NEW e, NEW u, IsSequence(u), NEW k, NEW got, Flowing(p, e, u, k, got),
         e.phase # "Closed", NEW x, NEW out, Mild(out) \/ (Parting(out) /\ x.phase = "Closed")
  PROVE  Flowing(p, x, u \o out, k, got)
<1> DEFINE w == u \o out
<1> SUFFICES ASSUME p.phase # "Closed"
             PROVE  /\ Orderly(p, w)
                    /\ HasClose(w) => x.phase = "Closed"
                    /\ Contents(w, Len(got) + 1, k + 1)
  BY DEF Flowing
<1>1. Orderly(p, u) /\ ~HasClose(u) /\ Contents(u, Len(got) + 1, k + 1)
  BY DEF Flowing
<1>2. Orderly(p, w) /\ (Mild(out) => ~HasClose(w))
  BY <1>1, OrderlyMore
<1>3. Contents(w, Len(got) + 1, k + 1)
  BY <1>1, ContentsMore
<1> QED BY <1>2, <1>3

\* A session that p has a run to make is none of those it holds.
LEMMA DrainsAnother ==
  ASSUME NEW e, NEW p, NEW q, NEW u, NEW k, Ends2(e, p, q, u, k), NEW id, Confirming(e, id)
  PROVE  id # e.draining.id
<1>1. Sound(e, p.identity)
  BY DEF Ends2, End
<1>2. e.run # NoRun /\ e.run.step \in AskedSteps
  BY DEF Confirming, NoRun, AskedSteps
<1> DEFINE role == e.run.role
<1>3. Latest(e, p.identity, role, id)
  BY <1>1, <1>2, RunIsLatest DEF Confirming
<1> HIDE DEF role
<1>4. \A s \in SessionSet(e) : s.id # id
  BY <1>3, NothingOfLatest
<1>5. e.draining = NoSession => e.draining.id = NoId
  BY DEF NoSession
<1>6. id # NoId
  BY KeysAreAnId DEF Confirming
<1> QED BY <1>4, <1>5, <1>6 DEF SessionSet

\* The next message: p will read it when it comes.
LEMMA FlowSent ==
  ASSUME NEW e, NEW p, NEW q, NEW u, NEW k, Ends2(e, p, q, u, k), EngineOK(e),
         e.phase = "Established", e.active.counter \in Nat,
         p.phase # "Closed" => Dialogue(e, p, q, u) /\ Fit(e, p) /\ Fit(p, e),
         Reach(p, e), NEW j, NEW got, Flowing(p, e, u, j, got)
  PROVE  LET d == DataPayload(e.active.id, e.active.role, e.active.counter, j + 1)
         IN  Flowing(p, e, u \o <<d>>, j + 1, got) /\ IsSequence(u \o <<d>>)
<1> DEFINE id == e.active.id
           d == DataPayload(id, e.active.role, e.active.counter, j + 1)
           w == u \o <<d>>
<1>1. d.kind = "DATA" /\ Whole(d) /\ d.id = id /\ d.content = j + 1
  BY DEF DataPayload, Whole, NoKey
<1>2. IsSequence(u) /\ Sound(p, e.identity) /\ Ends2(p, e, u, q, k)
  BY EndsTurned DEF Ends2, End, ChannelSane
<1> HIDE DEF d
<1>3. IsSequence(w)
  BY <1>2, BothSent, OneSent
<1>4. SUFFICES ASSUME p.phase # "Closed"
               PROVE  /\ Orderly(p, w)
                      /\ HasClose(w) => e.phase = "Closed"
                      /\ Contents(w, Len(got) + 1, j + 1 + 1)
  BY <1>3 DEF Flowing, d
<1>5. /\ Orderly(p, u) /\ ~HasClose(u) /\ Contents(u, Len(got) + 1, j + 1)
      /\ Dialogue(p, e, u, q) /\ Fit(e, p) /\ Fit(p, e)
  BY <1>4, DialogueTurned DEF Flowing
<1>6. /\ p.phase \in {"Handshaking", "Established"}
      /\ Busy(p) \/ p.phase = "Handshaking" =>
            (p.phase = "Established" /\ id = p.active.id) \/ Confirming(p, id)
  BY <1>5, PeerIsRead
<1>7. Reads(p, id)
  BY <1>4, <1>6 DEF Reach, Reads
<1>8. Busy(p) => id # p.draining.id
  BY <1>2, <1>6, DrainsAnother DEF Sound
<1>9. \A n \in 1..Len(u) : Asks(u[n]) => u[n].previous = id
  BY <1>5, AskedAbout
<1>10. Orderly(p, w) /\ ~HasClose(w)
  BY <1>1, <1>2, <1>5, <1>7, <1>8, <1>9, OrderlySend
<1>11. Contents(w, Len(got) + 1, j + 1 + 1)
  BY <1>1, <1>2, <1>5, ContentsSend
<1> QED BY <1>10, <1>11

\* DATA at the head is of a session that is held: behind a run's confirmation, the
\* run has ended.
LEMMA HeldAtHead ==
  ASSUME NEW e, NEW p, NEW q, NEW u, NEW k, Ends2(e, p, q, u, k),
         Orderly(e, q), q # <<>>, Head(q).kind = "DATA"
  PROVE  /\ e.phase = "Established" /\ Whole(Head(q))
         /\ \E s \in SessionSet(e) : s.id = Head(q).id
<1> DEFINE f == Head(q)
<1>1. Sound(e, p.identity) /\ ChannelSane(q, p) /\ Awaits(e, p, q)
  BY DEF Ends2, End
<1>2. 1 \in 1..Len(q) /\ f = q[1] /\ Len(q) \in Nat
  BY <1>1, TailParts, SequenceParts DEF ChannelSane
<1>3. Reads(e, f.id) /\ Whole(f)
  BY <1>2 DEF Orderly
<1>4. ~Confirming(e, f.id)
  <2>1. SUFFICES ASSUME Confirming(e, f.id) PROVE FALSE
    OBVIOUS
  <2>2. Announced(q, f.id)
    BY <1>1, <2>1 DEF Awaits, Confirming
  <2>3. PICK j \in 1..Len(q) : j < 1
    BY <1>2, <2>2 DEF Announced, Carries
  <2> QED BY <1>2, <2>3
<1>5. Holds(e, f.id)
  BY <1>3, <1>4 DEF Reads
<1>6. e.phase = "Established"
  BY <1>1, <1>5, HoldsNone
<1>7. \E s \in SessionSet(e) : s.id = f.id
  BY <1>5 DEF Holds, SessionSet, NoSession
<1> QED BY <1>3, <1>6, <1>7

\* Between two inputs the engine forgets which deadlines it touched, and no more.
LEMMA SettledParts ==
  ASSUME NEW x, DOMAIN x = EngineFields
  PROVE  LET y == Settled(x) IN
         /\ y.phase = x.phase /\ y.active = x.active /\ y.rekey_blocked = x.rekey_blocked
         /\ \A e, f : Clings(e, f, x) => Clings(e, f, y)
         /\ \A e : Promoted(e, x) => Promoted(e, y)
<1> DEFINE y == Settled(x)
<1>1. /\ DOMAIN y = EngineFields
      /\ y.phase = x.phase /\ y.active = x.active /\ y.rekey_blocked = x.rekey_blocked
      /\ y.draining = x.draining /\ y.run = x.run
      /\ y.identity = x.identity /\ y.role = x.role /\ y.entropy = x.entropy
      /\ y.late_rekey_frames = x.late_rekey_frames
  BY DEF Settled, EngineFields
<1> HIDE DEF y
<1>2. \A e, f : Clings(e, f, x) => Clings(e, f, y)
  BY <1>1 DEF Clings, Busy
<1>3. \A e : Promoted(e, x) => Promoted(e, y)
  BY <1>1 DEF Promoted
<1> QED BY <1>1, <1>2, <1>3 DEF y

\* One more is delivered, in order.
LEMMA InOrderOn ==
  ASSUME NEW got, InOrder(got)
  PROVE  LET had == Append(got, Len(got) + 1) IN
         InOrder(had) /\ Len(had) = Len(got) + 1
<1> DEFINE had == Append(got, Len(got) + 1)
<1>1. Len(got) \in Nat /\ DOMAIN got = 1..Len(got)
  BY SequenceParts DEF InOrder
<1>2. PICK S : got \in Seq(S)
  BY DEF InOrder, IsSequence
<1> DEFINE T == S \cup {Len(got) + 1}
<1>3. got \in Seq(T)
  <2>1. got \in [1..Len(got) -> S]
    BY <1>2
  <2>2. got \in [1..Len(got) -> T]
    BY <2>1
  <2> QED BY <1>1, <2>2
<1>4. had \in Seq(T) /\ Len(had) = Len(got) + 1
  BY <1>3
<1>5. IsSequence(had)
  BY <1>4 DEF IsSequence
<1>6. \A i \in 1..(Len(got) + 1) : had[i] = IF i = Len(got) + 1 THEN Len(got) + 1 ELSE got[i]
  BY <1>1, <1>3
<1> HIDE DEF had
<1>7. DOMAIN had = 1..(Len(got) + 1)
  BY <1>4, <1>5, SequenceParts
<1>8. InOrder(had)
  BY <1>1, <1>5, <1>6, <1>7 DEF InOrder
<1> QED BY <1>4, <1>8 DEF had

-----------------------------------------------------------------------------
(* Both ends of a calm connection.                                         *)

\* The inductive invariant: in both directions what flows is what is to come.
Smooth ==
    /\ Calmness
    /\ faults = 0
    /\ DOMAIN received = Node /\ sent \in [Node -> 0..MAX_SENDS]
    /\ \A n \in Node :
          LET e == engine[n]
              p == engine[Peer(n)]
          IN  /\ InOrder(received[n])
              /\ Flowing(e, p, channel[n], sent[Peer(n)], received[n])
              /\ Reach(e, p)
              /\ Paces(e, sent[n])

\* While neither end is closed, the two of them are in dialogue.
LEMMA InDialogue ==
  ASSUME Calmness, NEW n \in Node,
         engine[n].phase # "Closed", engine[Peer(n)].phase # "Closed"
  PROVE  Dialogue(engine[n], engine[Peer(n)], channel[n], channel[Peer(n)])
BY DEF Calmness, Linked, Counterpart

\* The same of the next state.
LEMMA InDialogueNext ==
  ASSUME Calmness', NEW n \in Node,
         engine'[n].phase # "Closed", engine'[Peer(n)].phase # "Closed"
  PROVE  Dialogue(engine'[n], engine'[Peer(n)], channel'[n], channel'[Peer(n)])
BY DEF Calmness, Linked, Counterpart

\* One end: what it holds, and what the two have to do with each other.
LEMMA SmoothParts ==
  ASSUME Smooth, NEW n \in Node
  PROVE  LET m == Peer(n)
             e == engine[n]
             p == engine[m]
         IN  /\ m \in Node /\ m # n /\ Peer(m) = n /\ \A z \in Node : z = n \/ z = m
             /\ EngineOK(e) /\ Sound(e, p.identity) /\ IsSequence(channel[n])
             /\ IsSequence(channel[m]) /\ Fit(e, p) /\ Fit(p, e)
             /\ Ends2(e, p, channel[n], channel[m], 0)
             /\ InOrder(received[n]) /\ InOrder(received[m])
             /\ Flowing(e, p, channel[n], sent[m], received[n])
             /\ Flowing(p, e, channel[m], sent[n], received[m])
             /\ Reach(e, p) /\ Reach(p, e) /\ Paces(e, sent[n]) /\ Paces(p, sent[m])
             /\ sent[n] \in 0..MAX_SENDS /\ sent[m] \in 0..MAX_SENDS
<1> DEFINE m == Peer(n)
<1>1. m \in Node /\ m # n /\ Peer(m) = n /\ \A z \in Node : z = n \/ z = m
  BY Peers
<1>2. Agreement /\ faults = 0
  BY DEF Smooth, Calmness
<1>3. /\ EngineOK(engine[n]) /\ Sound(engine[n], engine[m].identity)
      /\ Ends2(engine[n], engine[m], channel[n], channel[m], 0)
  BY <1>2, StepParts
<1>4. /\ Fit(engine[n], engine[m]) /\ IsSequence(channel[n])
      /\ Fit(engine[m], engine[n]) /\ IsSequence(channel[m])
  BY <1>1, <1>2, BothFit
<1> QED BY <1>1, <1>3, <1>4 DEF Smooth

\* It is enough to know how the two of them stand.
LEMMA SmoothOn ==
  ASSUME Smooth, Calmness', NEW n \in Node, NEW v, NEW w,
         engine'[n].phase # "Closed" => channel'[n] = v,
         engine'[Peer(n)].phase # "Closed" => channel'[Peer(n)] = w,
         sent' \in [Node -> 0..MAX_SENDS], DOMAIN received' = Node, faults' = 0,
         InOrder(received'[n]), InOrder(received'[Peer(n)]),
         Flowing(engine'[n], engine'[Peer(n)], v, sent'[Peer(n)], received'[n]),
         Flowing(engine'[Peer(n)], engine'[n], w, sent'[n], received'[Peer(n)]),
         Reach(engine'[n], engine'[Peer(n)]), Reach(engine'[Peer(n)], engine'[n]),
         Paces(engine'[n], sent'[n]), Paces(engine'[Peer(n)], sent'[Peer(n)])
  PROVE  Smooth'
<1> DEFINE m == Peer(n)
<1>1. m \in Node /\ m # n /\ Peer(m) = n /\ \A z \in Node : z = n \/ z = m
  BY Peers
<1>2. /\ Flowing(engine'[n], engine'[m], channel'[n], sent'[m], received'[n])
      /\ Flowing(engine'[m], engine'[n], channel'[m], sent'[n], received'[m])
  BY DEF Flowing
<1>3. \A z \in Node :
         LET c == engine'[z]
             d == engine'[Peer(z)]
         IN  /\ InOrder(received'[z])
             /\ Flowing(c, d, channel'[z], sent'[Peer(z)], received'[z])
             /\ Reach(c, d)
             /\ Paces(c, sent'[z])
  BY <1>1, <1>2
<1> QED BY <1>3 DEF Smooth

\* What carrying out a result does to the two of them.
LEMMA PerformedParts ==
  ASSUME Smooth, Calmness', NEW n \in Node, NEW r, NEW v, Perform(n, r, v)
  PROVE  LET m == Peer(n)
             x == Settled(r.e)
         IN  /\ engine'[n] = x /\ engine'[m] = engine[m]
             /\ x.phase # "Closed" => channel'[n] = v
             /\ engine[m].phase # "Closed" => channel'[m] = channel[m] \o r.out
             /\ DOMAIN received' = Node /\ received'[m] = received[m]
             /\ received'[n] = IF r.deliver = NoContent THEN received[n]
                               ELSE Append(received[n], r.deliver)
             /\ ~x.rekey_blocked /\ DOMAIN r.e = EngineFields
             /\ x.phase = r.e.phase /\ x.active = r.e.active
             /\ ~r.e.rekey_blocked
<1> DEFINE m == Peer(n)
           x == Settled(r.e)
<1>1. m \in Node /\ m # n
  BY Peers
<1>2. /\ engine'[n] = x /\ engine'[m] = engine[m]
      /\ channel'[n] = IF r.e.phase = "Closed" THEN <<>> ELSE v
      /\ channel'[m] = IF engine[m].phase = "Closed" THEN <<>> ELSE channel[m] \o r.out
  BY <1>1 DEF Perform, Smooth, Calmness, Agreement, EnginesOK
<1>3. /\ DOMAIN received' = Node /\ received'[m] = received[m]
      /\ received'[n] = IF r.deliver = NoContent THEN received[n]
                        ELSE Append(received[n], r.deliver)
  BY <1>1 DEF Perform, Smooth
<1>4. EngineOK(x) /\ ~x.rekey_blocked
  BY <1>2 DEF Calmness, Agreement, EnginesOK
<1>5. DOMAIN r.e = EngineFields
  BY <1>4 DEF EngineOK, Held, Settled
<1>6. x.phase = r.e.phase /\ x.active = r.e.active /\ x.rekey_blocked = r.e.rekey_blocked
  BY <1>5, SettledParts
<1> QED BY <1>2, <1>3, <1>4, <1>5, <1>6

\* A step that hands over no message: what is taken from the channel is delivered,
\* when it is DATA.
LEMMA StepFlows ==
  ASSUME Smooth, Calmness', NEW n \in Node, engine[n].phase # "Closed",
         NEW f, NEW v, Fed(channel[n], f, v), NEW r, Perform(n, r, v),
         Course(engine[n], f, r.e, r.out),
         f.kind # "DATA" => r.deliver = NoContent,
         f.kind = "DATA" => r.deliver = Len(received[n]) + 1,
         sent' = sent, faults' = faults
  PROVE  Smooth'
<1> DEFINE m == Peer(n)
           e == engine[n]
           p == engine[m]
           q == channel[n]
           u == channel[m]
           x == Settled(r.e)
           w == u \o r.out
           i == p.identity
           k == sent[n]
           j == sent[m]
           got == received[n]
           had == received'[n]
<1>1. /\ m \in Node /\ m # n /\ Peer(m) = n
      /\ Sound(e, i) /\ IsSequence(q) /\ IsSequence(u)
      /\ InOrder(got) /\ InOrder(received[m])
      /\ Flowing(e, p, q, j, got) /\ Flowing(p, e, u, k, received[m])
      /\ Reach(e, p) /\ Reach(p, e) /\ Paces(e, k) /\ Paces(p, j)
      /\ k \in 0..MAX_SENDS
  BY SmoothParts
<1>2. /\ engine'[n] = x /\ engine'[m] = p
      /\ x.phase # "Closed" => channel'[n] = v
      /\ p.phase # "Closed" => channel'[m] = w
      /\ DOMAIN received' = Node /\ received'[m] = received[m]
      /\ had = IF r.deliver = NoContent THEN got ELSE Append(got, r.deliver)
      /\ DOMAIN r.e = EngineFields
      /\ x.phase = r.e.phase /\ x.active = r.e.active /\ ~r.e.rekey_blocked
  BY PerformedParts
<1>3. sent' \in [Node -> 0..MAX_SENDS] /\ sent'[n] = k /\ sent'[m] = j /\ faults' = 0
  BY DEF Smooth
<1>4. \/ x.phase = "Closed" /\ Parting(r.out)
      \/ Mild(r.out) /\ Onward(e, f, x) /\ (Sticks(e, f, r.e) \/ Promoted(e, r.e))
  BY <1>2, SettledParts DEF Course, Abort, Onward, Sticks
<1>5. InOrder(had) /\ (f.kind # "DATA" => Len(had) = Len(got))
      /\ (f.kind = "DATA" => Len(had) = Len(got) + 1)
  <2>1. CASE f.kind # "DATA"
    BY <1>1, <1>2, <2>1
  <2>2. CASE f.kind = "DATA"
    <3>1. Len(got) \in Nat
      BY <1>1, SequenceParts DEF InOrder
    <3>2. had = Append(got, Len(got) + 1)
      BY <1>2, <2>2, <3>1 DEF NoContent
    <3> QED BY <1>1, <2>2, <3>2, InOrderOn
  <2> QED BY <2>1, <2>2
<1> HIDE DEF x, w, had
<1>6. Flowing(x, p, v, j, had)
  BY <1>1, <1>4, <1>5, FlowTaken
<1>7. Flowing(p, x, w, k, received[m])
  BY <1>1, <1>4, FlowSaid DEF w
<1>8. f.kind = "CLOSE" => p.phase = "Closed"
  <2>1. ASSUME f.kind = "CLOSE" PROVE HasClose(q)
    <3>1. f # NoFrame
      BY <2>1 DEF NoFrame
    <3>2. 1 \in 1..Len(q) /\ f = q[1]
      BY <1>1, <3>1, OrderlyTail DEF Flowing
    <3> QED BY <2>1, <3>2 DEF HasClose
  <2> QED BY <1>1, <2>1 DEF Flowing
<1>9. Reach(x, p)
  <2>1. p.phase # "Closed" => Dialogue(e, p, q, u)
    BY InDialogue DEF Smooth
  <2> QED BY <1>1, <1>4, <1>8, <2>1, ReachKept
<1>10. Reach(p, x)
  <2>1. x.phase # "Closed" /\ p.phase # "Closed" => Dialogue(x, p, v, w)
    BY <1>2, InDialogueNext
  <2> QED BY <1>1, <1>4, <2>1, ReachGained
<1>11. Paces(x, k)
  <2>1. SUFFICES ASSUME x.phase = "Established" PROVE x.active.counter <= k
    BY DEF Paces
  <2>2. CASE Sticks(e, f, r.e)
    <3>1. e.phase = "Established" /\ x.active.counter = e.active.counter
      BY <1>2, <2>1, <2>2 DEF Sticks, Clings
    <3> QED BY <1>1, <3>1 DEF Paces
  <2>3. CASE Promoted(e, r.e)
    <3>1. x.active.counter = 0
      BY <1>2, <2>3 DEF Promoted, Session
    <3> QED BY <1>1, <3>1
  <2> QED BY <1>4, <2>1, <2>2, <2>3
<1>12. /\ Flowing(engine'[n], engine'[m], v, sent'[m], received'[n])
       /\ Flowing(engine'[m], engine'[n], w, sent'[n], received'[m])
       /\ Reach(engine'[n], engine'[m]) /\ Reach(engine'[m], engine'[n])
       /\ Paces(engine'[n], sent'[n]) /\ Paces(engine'[m], sent'[m])
       /\ InOrder(received'[n]) /\ InOrder(received'[m])
  BY <1>1, <1>2, <1>3, <1>5, <1>6, <1>7, <1>9, <1>10, <1>11 DEF had
<1> QED BY <1>2, <1>3, <1>12, SmoothOn

\* The next number of a session is a number.
LEMMA NumbersCount ==
  ASSUME NEW e, NEW p, NEW q, NEW u, NEW k, Ends2(e, p, q, u, k), EngineOK(e),
         e.phase = "Established"
  PROVE  e.active.counter \in Nat
<1>1. e.active \in SessionSet(e)
  BY DEF SessionSet, EngineOK, Held, NoSession
<1> QED BY <1>1 DEF Ends2, End, SessionsSane, SessionSane

\* Sealed, the session is the same but for the count.
LEMMA SealedClings ==
  ASSUME NEW e, EngineOK(e), e.phase = "Established", NEW f, NEW x, Sticks(Sealed(e), f, x)
  PROVE  Clings(e, f, x) /\ x.active.counter = e.active.counter + 1
<1> DEFINE y == Sealed(e)
<1>1. DOMAIN e = EngineFields /\ DOMAIN e.active = SessionFields
  BY DEF EngineOK, Held
<1>2. /\ y.phase = e.phase /\ y.draining = e.draining /\ y.run = e.run
      /\ y.active.id = e.active.id /\ y.active.counter = e.active.counter + 1
  BY <1>1 DEF Sealed, EngineFields, SessionFields
<1> HIDE DEF y
<1>3. Sticks(y, f, x)
  BY DEF y
<1> QED BY <1>2, <1>3 DEF Sticks, Clings, Busy

\* A message is handed over: it joins what flows to the peer.
LEMMA SendFlows ==
  ASSUME Smooth, Calmness', NEW n \in Node, engine[n].phase = "Established",
         NEW r, Perform(n, r, channel[n]), r.deliver = NoContent,
         Sticks(Sealed(engine[n]), NoFrame, r.e), NEW more, Mild(more),
         r.out = <<DataPayload(engine[n].active.id, engine[n].active.role,
                               engine[n].active.counter, sent[n] + 1)>> \o more,
         sent[n] < MAX_SENDS, sent' = [sent EXCEPT ![n] = @ + 1], faults' = faults
  PROVE  Smooth'
<1> DEFINE m == Peer(n)
           e == engine[n]
           p == engine[m]
           q == channel[n]
           u == channel[m]
           x == Settled(r.e)
           d == DataPayload(e.active.id, e.active.role, e.active.counter, sent[n] + 1)
           t == u \o <<d>>
           w == u \o r.out
           i == p.identity
           k == sent[n]
           j == sent[m]
           got == received[n]
<1>1. /\ m \in Node /\ m # n /\ Peer(m) = n
      /\ EngineOK(e) /\ Sound(e, i) /\ IsSequence(q) /\ IsSequence(u) /\ Fit(e, p) /\ Fit(p, e)
      /\ Ends2(e, p, q, u, 0)
      /\ InOrder(got) /\ InOrder(received[m])
      /\ Flowing(e, p, q, j, got) /\ Flowing(p, e, u, k, received[m])
      /\ Reach(e, p) /\ Reach(p, e) /\ Paces(e, k) /\ Paces(p, j)
      /\ k \in 0..MAX_SENDS
  BY SmoothParts
<1>2. /\ engine'[n] = x /\ engine'[m] = p
      /\ x.phase # "Closed" => channel'[n] = q
      /\ p.phase # "Closed" => channel'[m] = w
      /\ DOMAIN received' = Node /\ received'[m] = received[m] /\ received'[n] = got
      /\ DOMAIN r.e = EngineFields
      /\ x.phase = r.e.phase /\ x.active = r.e.active
  BY PerformedParts
<1>3. /\ sent' \in [Node -> 0..MAX_SENDS] /\ sent'[n] = k + 1 /\ sent'[m] = j /\ faults' = 0
  <2>1. sent \in [Node -> 0..MAX_SENDS] /\ faults' = 0
    BY DEF Smooth
  <2>2. k + 1 \in 0..MAX_SENDS
    BY <1>1, ConnectionBounds
  <2> QED BY <1>1, <2>1, <2>2
<1>4. Clings(e, NoFrame, r.e) /\ r.e.active.counter = e.active.counter + 1
  BY <1>1, SealedClings
<1>5. Onward(e, NoFrame, x) /\ e.phase = x.phase
  BY <1>2, <1>4, SettledParts DEF Onward, Clings
<1>6. NoFrame.kind \notin {"DATA", "CLOSE"} /\ Fed(q, NoFrame, q)
  BY DEF NoFrame, Fed
<1>7. e.active.counter \in Nat
  BY <1>1, NumbersCount
<1>8. p.phase # "Closed" => Dialogue(e, p, q, u)
  BY InDialogue DEF Smooth
<1>9. Flowing(p, e, t, k + 1, received[m]) /\ IsSequence(t)
  BY <1>1, <1>7, <1>8, FlowSent
<1>10. w = t \o more
  <2> DEFINE o == <<d>> \o more
  <2>1. IsSequence(more)
    BY DEF Mild
  <2>2. r.out = o
    OBVIOUS
  <2>3. IsSequence(u)
    BY <1>1
  <2> HIDE DEF d, u
  <2>4. (u \o <<d>>) \o more = u \o (<<d>> \o more)
    BY <2>1, <2>3, Regroup
  <2> HIDE DEF o
  <2> QED BY <2>2, <2>4 DEF o
<1> HIDE DEF x, w, t, d
<1>11. Flowing(p, x, w, k + 1, received[m])
  BY <1>9, <1>10, FlowSaid
<1>12. Flowing(x, p, q, j, got)
  BY <1>1, <1>5, <1>6, FlowTaken
<1>13. Reach(x, p)
  BY <1>1, <1>5, <1>6, <1>8, ReachKept
<1>14. Reach(p, x)
  <2>1. x.phase # "Closed" /\ p.phase # "Closed" => Dialogue(x, p, q, w)
    BY <1>2, InDialogueNext
  <2> QED BY <1>1, <1>5, <2>1, ReachGained
<1>15. Paces(x, k + 1)
  BY <1>1, <1>2, <1>4, <1>7 DEF Paces
<1>16. /\ Flowing(engine'[n], engine'[m], q, sent'[m], received'[n])
       /\ Flowing(engine'[m], engine'[n], w, sent'[n], received'[m])
       /\ Reach(engine'[n], engine'[m]) /\ Reach(engine'[m], engine'[n])
       /\ Paces(engine'[n], sent'[n]) /\ Paces(engine'[m], sent'[m])
       /\ InOrder(received'[n]) /\ InOrder(received'[m])
  BY <1>1, <1>2, <1>3, <1>11, <1>12, <1>13, <1>14, <1>15
<1> QED BY <1>2, <1>3, <1>16, SmoothOn

\* A frame is read: DATA is delivered, and it is the next message.
LEMMA ReceiveFlows ==
  ASSUME Smooth, Calmness', NEW n \in Node, Receive(n)
  PROVE  Smooth'
<1> DEFINE e == engine[n]
           p == engine[Peer(n)]
           q == channel[n]
           f == Head(q)
           r == on_frame(e, f)
           got == received[n]
<1>1. /\ q # <<>> /\ e.phase \in {"Handshaking", "Established"} /\ e.phase # "Closed"
      /\ Perform(n, r, Tail(q)) /\ sent' = sent /\ faults' = faults /\ Fed(q, f, Tail(q))
  BY SmoothParts DEF Receive, Open, EngineOK, Fed
<1>2. /\ EngineOK(e) /\ Sound(e, p.identity) /\ Ends2(e, p, q, channel[Peer(n)], 0)
      /\ Flowing(e, p, q, sent[Peer(n)], got) /\ InOrder(got) /\ IsSequence(q)
  BY SmoothParts
<1>3. CASE f.kind # "DATA"
  <2>1. Proceeds(e, f, r)
    BY <1>1, <1>2, <1>3, FrameMoves
  <2>2. Course(e, f, r.e, r.out) /\ r.deliver = NoContent
    BY <2>1 DEF Proceeds
  <2> QED BY <1>1, <1>3, <2>2, StepFlows
<1>4. CASE f.kind = "DATA"
  <2>1. Orderly(e, q) /\ Contents(q, Len(got) + 1, sent[Peer(n)] + 1)
    BY <1>1, <1>2 DEF Flowing
  <2>2. /\ e.phase = "Established" /\ Whole(f)
        /\ \E s \in SessionSet(e) : s.id = f.id
    BY <1>1, <1>2, <1>4, <2>1, HeldAtHead
  <2>3. r = on_data(e, f)
    BY <1>4, <2>2 DEF on_frame, MessageType
  <2>4. f.content = Len(got) + 1
    BY <1>1, <1>2, <1>4, <2>1, ContentsTail
  <2>5. r.deliver = f.content
    <3>1. Agreement /\ faults < MAX_PREPARED_KEYS
      BY RatchetBounds DEF Smooth, Calmness
    <3>2. HeldSessionDelivers
      BY <3>1, HeldNow
    <3> QED BY <1>1, <1>4, <2>2, <2>3, <3>2
            DEF HeldSessionDelivers, Established, Sessions, SessionSet, Whole
  <2>6. Course(e, f, r.e, r.out)
    BY <1>2, <2>2, <2>3, DataMoves
  <2> HIDE DEF r
  <2> QED BY <1>1, <1>4, <2>4, <2>5, <2>6, StepFlows
<1> QED BY <1>3, <1>4

\* A user hands over a message, or one that is too large.
LEMMA LocalSendFlows ==
  ASSUME MAX_SENDS <= COUNTER_MAX, Smooth, Calmness', NEW n \in Node,
         LocalSend(n) \/ LocalSendTooLarge(n)
  PROVE  Smooth'
<1> DEFINE e == engine[n]
           content == IF LocalSend(n) THEN sent[n] + 1 ELSE TooLarge
           r == on_send(e, content)
           q == channel[n]
<1>1. EngineOK(e) /\ Paces(e, sent[n]) /\ sent[n] \in 0..MAX_SENDS /\ COUNTER_MAX \in Nat
  BY SmoothParts, RatchetBounds
<1>2. e.phase # "Closed" /\ faults' = faults /\ Fed(q, NoFrame, q) /\ NoFrame.kind # "DATA"
  BY DEF LocalSend, LocalSendTooLarge, Open, Fed, NoFrame
<1>3. ASSUME r.event[1] = "SendRejected", Proceeds(e, NoFrame, r),
             Perform(n, r, q), sent' = sent
      PROVE  Smooth'
  <2>1. Course(e, NoFrame, r.e, r.out) /\ r.deliver = NoContent
    BY <1>3 DEF Proceeds
  <2> HIDE DEF r
  <2> QED BY <1>2, <1>3, <2>1, StepFlows
<1>4. CASE ~LocalSend(n)
  <2>1. content = TooLarge /\ Perform(n, r, q) /\ sent' = sent
    BY <1>4 DEF LocalSendTooLarge
  <2>2. r.event[1] = "SendRejected" /\ Proceeds(e, NoFrame, r)
    BY <1>1, <2>1, SendMoves
  <2> QED BY <1>3, <2>1, <2>2
<1>5. CASE LocalSend(n)
  <2>1. /\ content = sent[n] + 1 /\ Perform(n, r, q) /\ sent[n] < MAX_SENDS
        /\ sent' = IF r.event[1] = "SendRejected" THEN sent ELSE [sent EXCEPT ![n] = @ + 1]
    BY <1>5 DEF LocalSend
  <2> HIDE DEF r
  <2>2. CASE r.event[1] = "SendRejected" /\ Proceeds(e, NoFrame, r)
    BY <1>3, <2>1, <2>2
  <2>3. CASE ~(r.event[1] = "SendRejected" /\ Proceeds(e, NoFrame, r))
    <3> DEFINE d == DataPayload(e.active.id, e.active.role, e.active.counter, sent[n] + 1)
    <3>1. ~(e.phase = "Established" /\ e.active.counter >= COUNTER_MAX)
      <4>1. e.phase = "Established" => e.active.counter \in Nat
        BY SmoothParts, NumbersCount
      <4> QED BY <1>1, <2>1, <4>1, ConnectionBounds DEF Paces
    <3>2. /\ e.phase = "Established"
          /\ r.event[1] # "SendRejected" /\ Shaped(r)
          /\ Sticks(Sealed(e), NoFrame, r.e)
          /\ \E more : r.out = <<d>> \o more /\ Mild(more)
      BY <1>1, <2>1, <2>3, <3>1, SendMoves DEF r
    <3>3. PICK more : r.out = <<d>> \o more /\ Mild(more)
      BY <3>2
    <3> QED BY <1>2, <2>1, <3>2, <3>3, SendFlows DEF Shaped
  <2> QED BY <2>2, <2>3
<1> QED BY <1>4, <1>5

\* Nothing is sent yet.
LEMMA SmoothInit == MAX_FAULTS = 0 /\ Init => Smooth
<1> SUFFICES ASSUME Init PROVE Smooth
  OBVIOUS
<1>1. Calmness
  BY CalmInit
<1>2. IsSequence(<<>>) /\ Len(<<>>) = 0
  BY NoneSent
<1> DEFINE none == <<>>
<1>3. IsSequence(none) /\ Len(none) = 0
  BY <1>2
<1>4. InOrder(none)
  BY <1>3, SequenceParts DEF InOrder
<1>5. \A e : Orderly(e, none) /\ ~HasClose(none)
  BY <1>3 DEF Orderly, HasClose
<1>6. Contents(none, Len(none) + 1, 0 + 1)
  BY <1>3, ContentsNone
<1>7. \A n \in Node : /\ engine[n].phase = "Idle" /\ channel[n] = none
                      /\ sent[n] = 0 /\ received[n] = none
  BY DEF Init, NewEngine
<1>8. DOMAIN received = Node /\ sent \in [Node -> 0..MAX_SENDS] /\ faults = 0
  BY ConnectionBounds DEF Init
<1> HIDE DEF none
<1>9. ASSUME NEW n \in Node
      PROVE  LET e == engine[n]
                 p == engine[Peer(n)]
             IN  /\ InOrder(received[n])
                 /\ Flowing(e, p, channel[n], sent[Peer(n)], received[n])
                 /\ Reach(e, p)
                 /\ Paces(e, sent[n])
  BY <1>4, <1>5, <1>6, <1>7, Peers DEF Flowing, Reach, Paces
<1> QED BY <1>1, <1>8, <1>9 DEF Smooth

\* Every step of a calm connection keeps it so.
LEMMA SmoothStep ==
  ASSUME Calm, MAX_SENDS <= COUNTER_MAX, Smooth, [Next]_vars
  PROVE  Smooth'
<1>1. Calmness /\ Calmness'
  BY CalmStep DEF Smooth
<1>2. CASE UNCHANGED vars
  BY <1>1, <1>2 DEF vars, Smooth
<1>3. CASE Next
  <2>1. PICK n \in Node :
           \/ Start(n)
           \/ Receive(n)
           \/ \E answer \in BOOLEAN : SasDecision(n, answer)
           \/ LocalSend(n) \/ LocalSendTooLarge(n)
           \/ RequestRekey(n)
           \/ \E kind \in DeadlineKind : Timeout(n, kind)
           \/ LocalClose(n) \/ TransportClosed(n)
           \/ TransportLost(n)
           \/ \E respond \in BOOLEAN : ReceiveMalformed(n, respond)
           \/ Damage(n)
    BY <1>3 DEF Next
  <2>2. ~(faults < MAX_FAULTS)
    BY DEF Calm, Smooth
  <2> DEFINE e == engine[n]
             q == channel[n]
  <2>3. EngineOK(e) /\ Fed(q, NoFrame, q) /\ NoFrame.kind # "DATA"
    BY SmoothParts DEF Fed, NoFrame
  <2>4. ASSUME NEW r, Proceeds(e, NoFrame, r), e.phase # "Closed", Perform(n, r, q),
               sent' = sent, faults' = faults
        PROVE  Smooth'
    BY <1>1, <2>3, <2>4, StepFlows DEF Proceeds
  <2>5. CASE Start(n)
    BY <2>3, <2>4, <2>5, StartMoves DEF Start
  <2>6. CASE Receive(n)
    BY <1>1, <2>6, ReceiveFlows
  <2>7. CASE \E answer \in BOOLEAN : SasDecision(n, answer)
    BY <2>3, <2>4, <2>7, AnswerMoves DEF SasDecision, Open
  <2>8. CASE LocalSend(n) \/ LocalSendTooLarge(n)
    BY <1>1, <2>8, LocalSendFlows
  <2>9. CASE RequestRekey(n)
    <3>1. Proceeds(e, NoFrame, begin_rekey(e))
      BY <2>3, BeginMoves DEF Trails, EngineOK, Held
    <3> QED BY <2>4, <2>9, <3>1 DEF RequestRekey, Open
  <2>10. CASE \E kind \in DeadlineKind : Timeout(n, kind)
    <3>1. /\ Open(n) /\ Perform(n, on_timeout(e, "RekeyDue"), q)
          /\ sent' = sent /\ faults' = faults
      BY <2>10 DEF Timeout, Calm
    <3> QED BY <2>3, <2>4, <3>1, DueMoves DEF Open
  <2>11. CASE LocalClose(n)
    BY <2>3, <2>4, <2>11, EndsMove DEF LocalClose, Open
  <2>12. CASE TransportClosed(n)
    BY <2>3, <2>4, <2>12, EndsMove DEF TransportClosed, Open
  <2>13. CASE \/ TransportLost(n)
              \/ \E respond \in BOOLEAN : ReceiveMalformed(n, respond)
              \/ Damage(n)
    BY <2>2, <2>13 DEF TransportLost, ReceiveMalformed, Damage
  <2> QED BY <2>1, <2>5, <2>6, <2>7, <2>8, <2>9, <2>10, <2>11, <2>12, <2>13
<1> QED BY <1>2, <1>3

\* What has been delivered is what was handed over, in order and without a gap, and
\* the rest is in flight (protocol-spec section 8.5): through rekeys on request and
\* by the timer, crossing ones, and one inside the drain of another.
THEOREM NoMessageLost ==
  ASSUME Calm, MAX_SENDS <= COUNTER_MAX
  PROVE  Spec => []NothingLost
<1>1. Init => Smooth
  BY SmoothInit DEF Calm
<1>2. Smooth /\ [Next]_vars => Smooth'
  BY SmoothStep
<1>3. ASSUME Smooth PROVE NothingLost
  <2> SUFFICES ASSUME NEW n \in Node, Open(n)
               PROVE  /\ Len(received[n]) + Cardinality(InFlight(n)) = sent[Peer(n)]
                      /\ \A i \in DOMAIN received[n] : received[n][i] = i
    BY DEF NothingLost
  <2> DEFINE got == received[n]
             k == sent[Peer(n)]
  <2>1. /\ InOrder(got) /\ Flowing(engine[n], engine[Peer(n)], channel[n], k, got)
        /\ IsSequence(channel[n]) /\ k \in 0..MAX_SENDS
    BY <1>3, SmoothParts
  <2>2. Contents(channel[n], Len(got) + 1, k + 1)
    BY <2>1 DEF Flowing, Open
  <2>3. Cardinality(InFlight(n)) = (k + 1) - (Len(got) + 1)
    BY <2>1, <2>2, ContentsSize DEF InFlight
  <2>4. Len(got) \in Nat /\ k \in Nat
    BY <2>1, SequenceParts, ConnectionBounds DEF InOrder
  <2>5. Len(got) + Cardinality(InFlight(n)) = k
    BY <2>3, <2>4
  <2> QED BY <2>1, <2>5 DEF InOrder
<1> QED BY <1>1, <1>2, <1>3, PTL DEF Spec

-----------------------------------------------------------------------------
(* A connection that is not calm: runs fail on either side, and what one    *)
(* end said of a run may reach the other long after it has given up.  What  *)
(* is in flight is never more than that.                                    *)

\* e will take a confirmation, or count it as a late frame of a rekey.
Ready(e) ==
    \/ e.run.step \in {"Hello", "ConfirmInit", "ConfirmResp"}
    \/ e.run.step = "None" /\ e.late_rekey_frames > 0

\* The latest key of e.
LatestKey(e, key) == key[2] = e.entropy - 1

\* The key is one that e has told the peer: as an initiator, or signed for as a
\* responder.
Told(e, key) ==
    key[2] \in 0..(e.entropy - 1) /\ ~(e.run.step = "Hello" /\ LatestKey(e, key))
Attested(e, key) ==
    /\ key[2] \in 0..(e.entropy - 1)
    /\ ~(e.run.step \in {"Reveal", "AuthInit"} /\ LatestKey(e, key))

\* The run of e is at this step, and for the session of the id.
AtStep(e, step, id) == e.run.step = step /\ SessionKeys(e.run.transcript) = id

\* Of a channel: nothing is said after its frame k, or before.
Last(q, k)  == \A j \in 1..Len(q) : j > k => ~Talk(q[j])
First(q, k) == \A j \in 1..Len(q) : j < k => ~Talk(q[j])

\* The frame j of v is the frame k of q, and no more is said before or after it.
Placed(q, k, v, j) ==
    /\ v[j] = q[k]
    /\ Last(q, k) => Last(v, j)
    /\ First(q, k) => First(v, j)

\* What p may have said to e, with the channel q to e and u to p.
Saying(e, p, q, u, k) ==
    LET f == q[k] IN
    /\ f.kind \in {"COMMIT", "HELLO", "AUTH", "CONFIRM"}
    /\ f.kind # "CONFIRM" => f.purpose = "Rekey"
    /\ f.kind = "HELLO" /\ f.role = "Initiator" => Told(p, f.ephemeral)
    /\ f.kind = "AUTH" =>
         LET id == SessionKeys(f.transcript) IN
         /\ f.stage = 0 => Told(p, id[1]) /\ (AtStep(p, "AuthResp", id) => Last(q, k))
         /\ f.stage = 1 =>
              /\ Attested(p, id[2]) /\ Told(e, id[1])
              /\ AtStep(p, "ConfirmInit", id) => Last(q, k)
              /\ AtStep(e, "AuthResp", id) => Silent(u) /\ Ready(p)
    /\ f.kind = "CONFIRM" =>
         /\ First(q, k) /\ Ready(e)
         /\ f.role = "Initiator" /\ AtStep(e, "ConfirmInit", f.id) => Silent(u) /\ Ready(p)

\* What e has of the peer's key, and that nothing is kept from before.
Grounded(e, p) ==
    /\ e.phase = "Established"
    /\ e.run.step \in {"AuthInit", "ConfirmInit"} => Told(p, SessionKeys(e.run.transcript)[1])
    /\ e.run.step = "Reveal" => e.run.early = NoFrame
    /\ e.run.step = "AuthInit" => e.run.transcript.initiator.purpose = "Rekey"

Half(e, p, q, u) ==
    /\ Grounded(e, p)
    /\ \A k \in 1..Len(q) : Talk(q[k]) => Saying(e, p, q, u, k)

Loosely(e, p, q, u) == Half(e, p, q, u) /\ Half(p, e, u, q)

\* r holds the first session; its confirmation is on the way to i.
Settling(i, r, qi, qr) ==
    /\ i.phase = "Handshaking" /\ i.run.step = "ConfirmResp"
    /\ r.phase = "Established" /\ r.run.step \in {"None", "Hello"}
    /\ Silent(qr)
    /\ \E k \in 1..Len(qi) :
         /\ qi[k] = SessionConfirmPayload(SessionKeys(i.run.transcript), "Responder")
         /\ \A j \in 1..Len(qi) : j < k => qi[j].kind = "CLOSE"
         /\ \A j \in 1..Len(qi) : j > k /\ Talk(qi[j]) => qi[j].kind = "COMMIT" /\ qi[j].purpose = "Rekey"

NoData(q) == \A k \in 1..Len(q) : q[k].kind # "DATA"

Initially(e, p, q, u) ==
    /\ e.phase \in {"Idle", "Handshaking"} /\ p.phase \in {"Idle", "Handshaking"}
    /\ Dialogue(e, p, q, u) /\ NoData(q) /\ NoData(u)

Converse(e, p, q, u) ==
    \/ Initially(e, p, q, u)
    \/ Settling(e, p, q, u)
    \/ Settling(p, e, u, q)
    \/ Loosely(e, p, q, u)

\* What v says is what q says, or what it says without its head.
Fewer(q, v) ==
    \E d \in {0, 1} : \A j \in 1..Len(v) :
        Talk(v[j]) => j + d \in 1..Len(q) /\ v[j] = q[j + d]

\* w says g after what u says.
Adding(u, w, g) ==
    /\ Talk(g) /\ Len(w) \in 1..Len(w) /\ w[Len(w)] = g
    /\ \A j \in 1..Len(w) : j < Len(w) /\ Talk(w[j]) => j \in 1..Len(u) /\ w[j] = u[j]

\* What was told is told, once e has become x.
Grows(e, x) == \A key : (Told(e, key) => Told(x, key)) /\ (Attested(e, key) => Attested(x, key))

\* Nothing of the session that x is about to make is in either channel.
Unspoken(x, q, u) ==
    /\ \A k \in 1..Len(u) : u[k].kind = "AUTH" =>
          LET id == SessionKeys(u[k].transcript) IN
          /\ u[k].stage = 0 => ~AtStep(x, "AuthResp", id)
          /\ u[k].stage = 1 => ~AtStep(x, "ConfirmInit", id)
    /\ \A k \in 1..Len(q) :
          /\ q[k].kind = "AUTH" /\ q[k].stage = 1 => ~AtStep(x, "AuthResp", SessionKeys(q[k].transcript))
          /\ q[k].kind = "CONFIRM" /\ q[k].role = "Initiator" => ~AtStep(x, "ConfirmInit", q[k].id)

\* The same frame in another channel.
LEMMA SayingElsewhere ==
  ASSUME NEW e, NEW p, NEW q, NEW u, NEW k, Saying(e, p, q, u, k),
         NEW v, NEW w, NEW j, Placed(q, k, v, j), Silent(u) => Silent(w)
  PROVE  Saying(e, p, v, w, j)
BY DEF Saying, Placed

\* The reader changes.
LEMMA ReaderChanges ==
  ASSUME NEW e, NEW p, NEW q, NEW u, NEW k, Saying(e, p, q, u, k), NEW x, Grows(e, x),
         q[k].kind = "CONFIRM" => (Ready(e) => Ready(x)),
         \/ x.run = e.run
         \/ /\ q[k].kind = "AUTH" /\ q[k].stage = 1
                => ~AtStep(x, "AuthResp", SessionKeys(q[k].transcript))
            /\ q[k].kind = "CONFIRM" /\ q[k].role = "Initiator" => ~AtStep(x, "ConfirmInit", q[k].id)
  PROVE  Saying(x, p, q, u, k)
<1>1. \A id, step : x.run = e.run => (AtStep(x, step, id) <=> AtStep(e, step, id))
  BY DEF AtStep
<1> QED BY <1>1 DEF Saying, Grows

\* The speaker changes.
LEMMA SpeakerChanges ==
  ASSUME NEW e, NEW p, NEW q, NEW u, NEW k, Saying(p, e, u, q, k), NEW x, Grows(e, x),
         Silent(q) => (Ready(e) => Ready(x)),
         \/ x.run = e.run
         \/ u[k].kind = "AUTH" =>
               /\ u[k].stage = 0 => ~AtStep(x, "AuthResp", SessionKeys(u[k].transcript))
               /\ u[k].stage = 1 => ~AtStep(x, "ConfirmInit", SessionKeys(u[k].transcript))
  PROVE  Saying(p, x, u, q, k)
<1>1. \A id, step : x.run = e.run => (AtStep(x, step, id) <=> AtStep(e, step, id))
  BY DEF AtStep
<1> QED BY <1>1 DEF Saying, Grows

\* A channel that says less has nothing more after a frame, nor before it.
LEMMA FewerParts ==
  ASSUME NEW q, NEW v, IsSequence(q), IsSequence(v), Fewer(q, v)
  PROVE  /\ Silent(q) => Silent(v)
         /\ \A j \in 1..Len(v) : Talk(v[j]) =>
               \E k \in 1..Len(q) : Placed(q, k, v, j)
<1>1. Len(q) \in Nat /\ Len(v) \in Nat
  BY SequenceParts
<1>2. PICK d \in {0, 1} : \A j \in 1..Len(v) :
          Talk(v[j]) => j + d \in 1..Len(q) /\ v[j] = q[j + d]
  BY DEF Fewer
<1>3. Silent(q) => Silent(v)
  BY <1>1, <1>2 DEF Silent
<1>4. ASSUME NEW j \in 1..Len(v), Talk(v[j])
      PROVE  \E k \in 1..Len(q) : Placed(q, k, v, j)
  <2>1. j + d \in 1..Len(q) /\ v[j] = q[j + d]
    BY <1>2, <1>4
  <2>2. Last(q, j + d) => Last(v, j)
    BY <1>1, <1>2, <2>1 DEF Last
  <2>3. First(q, j + d) => First(v, j)
    BY <1>1, <1>2, <2>1 DEF First
  <2> QED BY <2>1, <2>2, <2>3 DEF Placed
<1> QED BY <1>3, <1>4

\* Less is said in both channels.
LEMMA HalfFewer ==
  ASSUME NEW e, NEW p, NEW q, NEW u, Half(e, p, q, u), IsSequence(q), IsSequence(u),
         NEW v, NEW w, IsSequence(v), IsSequence(w), Fewer(q, v), Fewer(u, w)
  PROVE  Half(e, p, v, w)
<1>1. Silent(u) => Silent(w)
  BY FewerParts
<1>2. ASSUME NEW j \in 1..Len(v), Talk(v[j])
      PROVE  Saying(e, p, v, w, j)
  <2>1. PICK k \in 1..Len(q) : Placed(q, k, v, j)
    BY <1>2, FewerParts
  <2>2. Saying(e, p, q, u, k)
    BY <1>2, <2>1 DEF Half, Placed
  <2> QED BY <1>1, <2>1, <2>2, SayingElsewhere
<1> QED BY <1>2 DEF Half

LEMMA LooselyFewer ==
  ASSUME NEW e, NEW p, NEW q, NEW u, Loosely(e, p, q, u), IsSequence(q), IsSequence(u),
         NEW v, NEW w, IsSequence(v), IsSequence(w), Fewer(q, v), Fewer(u, w)
  PROVE  Loosely(e, p, v, w)
BY HalfFewer DEF Loosely

\* e becomes x, and may have taken a frame from its channel.
LEMMA LooselyChanges ==
  ASSUME NEW e, NEW p, NEW q, NEW u, Loosely(e, p, q, u), IsSequence(q), IsSequence(u),
         NEW v, IsSequence(v), Fewer(q, v),
         NEW x, Grows(e, x), Grounded(x, p), x.run = e.run \/ Unspoken(x, v, u),
         Silent(q) \/ HasConfirm(v) => (Ready(e) => Ready(x))
  PROVE  Loosely(x, p, v, u)
<1>1. Half(x, p, v, u)
  <2>1. ASSUME NEW j \in 1..Len(v), Talk(v[j])
        PROVE  Saying(x, p, v, u, j)
    <3>1. PICK k \in 1..Len(q) : Placed(q, k, v, j)
      BY <2>1, FewerParts
    <3>2. Saying(e, p, q, u, k)
      BY <2>1, <3>1 DEF Loosely, Half, Placed
    <3>3. Saying(e, p, v, u, j)
      BY <3>1, <3>2, SayingElsewhere
    <3>4. v[j].kind = "CONFIRM" => (Ready(e) => Ready(x))
      BY DEF HasConfirm
    <3> QED BY <3>3, <3>4, ReaderChanges DEF Unspoken
  <2> QED BY <2>1 DEF Half
<1>2. Half(p, x, u, v)
  <2>1. ASSUME NEW j \in 1..Len(u), Talk(u[j])
        PROVE  Saying(p, x, u, v, j)
    <3>1. Saying(p, e, u, q, j)
      BY <2>1 DEF Loosely, Half
    <3>2. Saying(p, x, u, q, j)
      BY <3>1, SpeakerChanges DEF Unspoken
    <3>3. Silent(q) => Silent(v)
      BY FewerParts
    <3>4. Placed(u, j, u, j)
      BY DEF Placed
    <3> QED BY <3>2, <3>3, <3>4, SayingElsewhere
  <2>2. Grounded(p, x)
    BY DEF Loosely, Half, Grounded, Grows
  <2> QED BY <2>1, <2>2 DEF Half
<1> QED BY <1>1, <1>2 DEF Loosely

\* x may say g to p, after u; v is the channel to x.
Apt(x, p, v, u, g) ==
    /\ g.kind \in {"COMMIT", "HELLO", "AUTH", "CONFIRM"}
    /\ g.kind # "CONFIRM" => g.purpose = "Rekey"
    /\ g.kind = "HELLO" /\ g.role = "Initiator" => Told(x, g.ephemeral)
    /\ g.kind = "AUTH" =>
         LET id == SessionKeys(g.transcript) IN
         /\ g.stage = 0 => Told(x, id[1])
         /\ g.stage = 1 =>
              /\ Attested(x, id[2]) /\ Told(p, id[1])
              /\ AtStep(p, "AuthResp", id) => Silent(v) /\ Ready(x)
    /\ g.kind = "CONFIRM" =>
         /\ Silent(u) /\ Ready(p)
         /\ g.role = "Initiator" /\ AtStep(p, "ConfirmInit", g.id) => Silent(v) /\ Ready(x)

\* What has been said before, when something is added that is not about it.
LEMMA SayingBefore ==
  ASSUME NEW e, NEW p, NEW q, NEW u, NEW k, Saying(e, p, q, u, k),
         NEW v, NEW w, v[k] = q[k], First(q, k) => First(v, k),
         \/ Silent(u) => Silent(w)
         \/ /\ q[k].kind = "AUTH" /\ q[k].stage = 1
                => ~AtStep(e, "AuthResp", SessionKeys(q[k].transcript))
            /\ q[k].kind = "CONFIRM" /\ q[k].role = "Initiator" => ~AtStep(e, "ConfirmInit", q[k].id),
         \/ Last(q, k) => Last(v, k)
         \/ q[k].kind = "AUTH" =>
               /\ q[k].stage = 0 => ~AtStep(p, "AuthResp", SessionKeys(q[k].transcript))
               /\ q[k].stage = 1 => ~AtStep(p, "ConfirmInit", SessionKeys(q[k].transcript))
  PROVE  Saying(e, p, v, w, k)
BY DEF Saying

\* x says g, which ends what it says.
LEMMA LooselySays ==
  ASSUME NEW x, NEW p, NEW v, NEW u, Loosely(x, p, v, u), IsSequence(u),
         NEW w, IsSequence(w), NEW g, Adding(u, w, g), Unspoken(x, v, u), Apt(x, p, v, u, g)
  PROVE  Loosely(x, p, v, w)
<1>1. Len(u) \in Nat /\ Len(w) \in Nat /\ Len(w) \in 1..Len(w) /\ w[Len(w)] = g
  BY SequenceParts DEF Adding
<1>2. Half(p, x, w, v)
  <2>1. ASSUME NEW j \in 1..Len(w), Talk(w[j]), j < Len(w)
        PROVE  Saying(p, x, w, v, j)
    <3>1. j \in 1..Len(u) /\ w[j] = u[j]
      BY <2>1 DEF Adding
    <3>2. Saying(p, x, u, v, j)
      BY <2>1, <3>1 DEF Loosely, Half
    <3>3. First(u, j) => First(w, j)
      BY <1>1, <2>1 DEF First, Adding
    <3> QED BY <3>1, <3>2, <3>3, SayingBefore DEF Unspoken
  <2>2. Saying(p, x, w, v, Len(w))
    <3>1. Last(w, Len(w))
      BY <1>1 DEF Last
    <3>2. Silent(u) => First(w, Len(w))
      BY <1>1 DEF First, Adding, Silent
    <3> QED BY <1>1, <3>1, <3>2 DEF Apt, Saying
  <2>3. Grounded(p, x)
    BY DEF Loosely, Half
  <2> QED BY <1>1, <2>1, <2>2, <2>3 DEF Half
<1>3. Half(x, p, v, w)
  <2>1. ASSUME NEW k \in 1..Len(v), Talk(v[k])
        PROVE  Saying(x, p, v, w, k)
    <3>1. Saying(x, p, v, u, k)
      BY <2>1 DEF Loosely, Half
    <3> QED BY <3>1, SayingBefore DEF Unspoken
  <2> QED BY <2>1 DEF Loosely, Half
<1> QED BY <1>2, <1>3 DEF Loosely

\* Nothing of x's session is said by what is not signed.
LEMMA UnspokenAdds ==
  ASSUME NEW x, NEW v, NEW u, IsSequence(u), NEW w, IsSequence(w), NEW g, Adding(u, w, g),
         Unspoken(x, v, u), g.kind # "AUTH"
  PROVE  Unspoken(x, v, w)
<1>1. Len(w) \in Nat
  BY SequenceParts
<1>2. \A k \in 1..Len(w) : w[k].kind = "AUTH" => k \in 1..Len(u) /\ w[k] = u[k]
  BY <1>1 DEF Adding, Talk
<1> QED BY <1>2 DEF Unspoken

LEMMA UnspokenFewer ==
  ASSUME NEW x, NEW q, NEW u, IsSequence(q), Unspoken(x, q, u), NEW v, IsSequence(v), Fewer(q, v)
  PROVE  Unspoken(x, v, u)
<1>1. \A j \in 1..Len(v) : v[j].kind \in {"AUTH", "CONFIRM"} => \E k \in 1..Len(q) : v[j] = q[k]
  BY FewerParts DEF Placed, Talk
<1> QED BY <1>1 DEF Unspoken

\* A run at another step is for no session yet.
LEMMA UnspokenElse ==
  ASSUME NEW x, x.run.step \notin {"AuthResp", "ConfirmInit"}, NEW q, NEW u
  PROVE  Unspoken(x, q, u)
BY DEF Unspoken, AtStep

\* How channels change.
LEMMA ChannelsFewer ==
  ASSUME NEW q, IsSequence(q)
  PROVE  /\ Fewer(q, q)
         /\ q # <<>> => IsSequence(Tail(q)) /\ Fewer(q, Tail(q))
         /\ \A out : IsSequence(out) /\ (\A i \in 1..Len(out) : ~Talk(out[i]))
               => IsSequence(q \o out) /\ Fewer(q, q \o out)
<1>1. Fewer(q, q)
  BY SequenceParts DEF Fewer
<1>2. q # <<>> => IsSequence(Tail(q)) /\ Fewer(q, Tail(q))
  <2>1. SUFFICES ASSUME q # <<>> PROVE IsSequence(Tail(q)) /\ Fewer(q, Tail(q))
    OBVIOUS
  <2>2. Len(q) \in Nat /\ IsSequence(Tail(q)) /\ Len(Tail(q)) = Len(q) - 1
        /\ \A i \in 1..Len(Tail(q)) : Tail(q)[i] = q[i + 1]
    BY <2>1, SequenceParts
  <2>3. \A i \in 1..Len(Tail(q)) : i + 1 \in 1..Len(q)
    BY <2>2
  <2> QED BY <2>2, <2>3 DEF Fewer
<1>3. ASSUME NEW out, IsSequence(out), \A i \in 1..Len(out) : ~Talk(out[i])
      PROVE  IsSequence(q \o out) /\ Fewer(q, q \o out)
  <2>1. /\ IsSequence(q \o out)
        /\ \A i \in 1..Len(q \o out) :
              \/ i \in 1..Len(q) /\ (q \o out)[i] = q[i]
              \/ i - Len(q) \in 1..Len(out) /\ (q \o out)[i] = out[i - Len(q)]
    BY <1>3, ConcatParts
  <2>2. \A i \in 1..Len(q \o out) : Talk((q \o out)[i]) => i \in 1..Len(q) /\ (q \o out)[i] = q[i]
    BY <1>3, <2>1
  <2>3. \A i \in 1..Len(q) : i + 0 = i
    BY SequenceParts
  <2> QED BY <2>1, <2>2, <2>3 DEF Fewer
<1> QED BY <1>1, <1>2, <1>3

\* A frame behind another that is no talk.
LEMMA AddsBehind ==
  ASSUME NEW u, IsSequence(u), NEW a, IsSequence(a)
  PROVE  Len(a) = 2 /\ ~Talk(a[1]) /\ Talk(a[2]) => IsSequence(u \o a) /\ Adding(u, u \o a, a[2])
<1>1. /\ IsSequence(u \o a) /\ Len(u \o a) = Len(u) + Len(a)
      /\ \A i \in 1..Len(u) : (u \o a)[i] = u[i]
      /\ \A i \in 1..Len(a) : (u \o a)[Len(u) + i] = a[i]
  BY ConcatParts
<1>2. Len(u) \in Nat
  BY SequenceParts
<1>3. Len(a) = 2 => /\ Len(u \o a) = Len(u) + 2
                    /\ (u \o a)[Len(u) + 1] = a[1] /\ (u \o a)[Len(u) + 2] = a[2]
  BY <1>1, <1>2
<1> QED BY <1>1, <1>2, <1>3 DEF Adding

\* A frame is said, at once or behind a message.
LEMMA ChannelsAdding ==
  ASSUME NEW u, IsSequence(u), NEW g, Talk(g)
  PROVE  /\ IsSequence(u \o <<g>>) /\ Adding(u, u \o <<g>>, g)
         /\ \A d : ~Talk(d) => /\ IsSequence(u \o (<<d>> \o <<g>>))
                               /\ Adding(u, u \o (<<d>> \o <<g>>), g)
<1>1. /\ IsSequence(<<g>>) /\ Len(<<g>>) = 1 /\ <<g>>[1] = g /\ Len(u) \in Nat
      /\ Len(u \o <<g>>) \in Nat
  <2>1. IsSequence(<<g>>) /\ Len(<<g>>) = 1 /\ <<g>>[1] = g
    BY OneSent
  <2> QED BY <2>1, SequenceParts, BothSent
<1>2. IsSequence(u \o <<g>>) /\ Adding(u, u \o <<g>>, g)
  <2>1. /\ IsSequence(u \o <<g>>) /\ Len(u \o <<g>>) = Len(u) + 1
        /\ (u \o <<g>>)[Len(u) + 1] = g
        /\ \A i \in 1..Len(u) : (u \o <<g>>)[i] = u[i]
    BY <1>1, ConcatParts
  <2> QED BY <1>1, <2>1 DEF Adding
<1>3. ASSUME NEW d, ~Talk(d)
      PROVE  IsSequence(u \o (<<d>> \o <<g>>)) /\ Adding(u, u \o (<<d>> \o <<g>>), g)
  <2> DEFINE a == <<d>> \o <<g>>
  <2>1. IsSequence(a) /\ Len(a) = 2 /\ a[1] = d /\ a[2] = g
    BY OneSent, BothSent
  <2> HIDE DEF a
  <2>2. IsSequence(u \o a) /\ Adding(u, u \o a, g)
    BY <1>3, <2>1, AddsBehind
  <2> QED BY <2>2 DEF a
<1> QED BY <1>2, <1>3

\* Where the head is talk, it is the only confirmation there may be.
LEMMA TalkAtHead ==
  ASSUME NEW e, NEW p, NEW q, NEW u, Half(e, p, q, u), IsSequence(q), q # <<>>, Talk(Head(q))
  PROVE  /\ 1 \in 1..Len(q) /\ q[1] = Head(q)
         /\ Saying(e, p, q, u, 1)
         /\ ~Silent(q) /\ ~HasConfirm(Tail(q))
         /\ \A k \in 1..Len(q) : q[k].kind = "CONFIRM" => k = 1
         /\ Last(q, 1) => Silent(Tail(q))
<1>1. /\ Len(q) \in Nat /\ 1 \in 1..Len(q) /\ q[1] = Head(q)
      /\ IsSequence(Tail(q)) /\ Len(Tail(q)) = Len(q) - 1
      /\ \A i \in 1..Len(Tail(q)) : Tail(q)[i] = q[i + 1]
  BY SequenceParts
<1>2. Saying(e, p, q, u, 1) /\ ~Silent(q)
  BY <1>1 DEF Half, Silent
<1>3. \A k \in 1..Len(q) : q[k].kind = "CONFIRM" => k = 1
  <2>1. ASSUME NEW k \in 1..Len(q), q[k].kind = "CONFIRM" PROVE k = 1
    <3>1. First(q, k)
      BY <2>1 DEF Half, Saying, Talk
    <3> QED BY <1>1, <3>1 DEF First
  <2> QED BY <2>1
<1>4. \A i \in 1..Len(Tail(q)) : i + 1 \in 1..Len(q) /\ i + 1 # 1 /\ i + 1 > 1
  BY <1>1
<1>5. ~HasConfirm(Tail(q))
  BY <1>1, <1>3, <1>4 DEF HasConfirm
<1>6. Last(q, 1) => Silent(Tail(q))
  BY <1>1, <1>4 DEF Last, Silent
<1> QED BY <1>1, <1>2, <1>3, <1>5, <1>6

-----------------------------------------------------------------------------
(* What an established engine does, as far as the other end can tell: of    *)
(* its own accord, or when it is told something.                            *)

\* Nothing of a run is sent.
Mute(out) == IsSequence(out) /\ \A i \in 1..Len(out) : ~Talk(out[i])

\* A COMMIT is sent, maybe behind a message.
Asking(out) ==
    \E g : /\ g.kind = "COMMIT" /\ g.purpose = "Rekey"
           /\ out = <<g>> \/ \E d : ~Talk(d) /\ out = <<d>> \o <<g>>

\* No key is drawn.
Within(e, x) == x.phase = "Established" /\ x.entropy = e.entropy

\* Of its own accord: nothing of the run changes, or it fails, or one begins.
Rests(e, x, out) == Within(e, x) /\ x.run = e.run /\ (Ready(e) => Ready(x)) /\ Mute(out)
Quits(e, x, out) ==
    Within(e, x) /\ x.run.step = "None" /\ x.late_rekey_frames > 0 /\ Mute(out)
Calls(e, x, out) ==
    /\ x.phase = "Established" /\ x.entropy = e.entropy + 1
    /\ e.run.step = "None" /\ x.run.step = "Hello" /\ Asking(out)

Unprompted(e, x, out) == Rests(e, x, out) \/ Quits(e, x, out) \/ Calls(e, x, out)

\* Told f: it ignores it, or its run is over, or it answers a COMMIT.
Ignores(e, x, out) == Within(e, x) /\ x.run = e.run /\ out = <<>>
Drops(e, x, out)   == Within(e, x) /\ x.run.step = "None" /\ out = <<>>
Replies(e, x, out) ==
    /\ x.phase = "Established" /\ x.entropy = e.entropy + 1
    /\ x.run.step = "Reveal" /\ x.run.early = NoFrame
    /\ \E h : h.kind = "HELLO" /\ h.purpose = "Rekey" /\ h.role = "Responder" /\ out = <<h>>

\* The keys of the run.
Keys(e) == SessionKeys(e.run.transcript)

\* It reveals its key and signs, or learns the key that was revealed to it.
Unveils(e, x, out) ==
    /\ Within(e, x) /\ e.run.step = "Hello" /\ x.run.step = "AuthResp"
    /\ LatestKey(x, Keys(x)[1]) /\ x.entropy > 0
    /\ \E h, a : /\ h.kind = "HELLO" /\ h.purpose = "Rekey" /\ h.ephemeral = Keys(x)[1]
                 /\ a.kind = "AUTH" /\ a.purpose = "Rekey" /\ a.stage = 0
                 /\ SessionKeys(a.transcript) = Keys(x)
                 /\ out = <<h>> \o <<a>>
Learns(e, f, x, out) ==
    /\ Within(e, x) /\ e.run.step = "Reveal" /\ x.run.step = "AuthInit"
    /\ f.kind = "HELLO" /\ f.role = "Initiator" /\ Keys(x)[1] = f.ephemeral
    /\ x.run.transcript.initiator.purpose = "Rekey" /\ out = <<>>

\* It signs, or confirms, in its turn.
Signs(e, f, x, out) ==
    /\ Within(e, x) /\ e.run.step = "AuthInit" /\ x.run.step = "ConfirmInit"
    /\ Keys(x) = Keys(e) /\ LatestKey(e, Keys(e)[2]) /\ e.entropy > 0
    /\ f.kind = "AUTH" /\ f.stage = 0 /\ SessionKeys(f.transcript) = Keys(e)
    /\ \E a : /\ a.kind = "AUTH" /\ a.purpose = "Rekey" /\ a.stage = 1
              /\ SessionKeys(a.transcript) = Keys(e) /\ out = <<a>>
Vouches(e, f, x, out) ==
    /\ Within(e, x) /\ e.run.step = "AuthResp" /\ x.run.step = "ConfirmResp"
    /\ f.kind = "AUTH" /\ f.stage = 1 /\ SessionKeys(f.transcript) = Keys(e)
    /\ out = <<SessionConfirmPayload(Keys(e), "Initiator")>>
Confirms(e, f, x, out) ==
    /\ Within(e, x) /\ e.run.step = "ConfirmInit" /\ x.run.step = "None"
    /\ f.kind = "CONFIRM" /\ f.role = "Initiator" /\ f.id = Keys(e)
    /\ out = <<SessionConfirmPayload(Keys(e), "Responder")>>

Heeds(e, f, x, out) ==
    \/ Ignores(e, x, out) \/ Drops(e, x, out) \/ Replies(e, x, out)
    \/ Unveils(e, x, out) \/ Learns(e, f, x, out)
    \/ Signs(e, f, x, out) \/ Vouches(e, f, x, out) \/ Confirms(e, f, x, out)

\* Keys are told once and for all.
LEMMA GrowsBy ==
  ASSUME NEW e, e.entropy \in Nat, NEW x,
         \/ /\ x.entropy = e.entropy
            /\ x.run.step = "Hello" => e.run.step = "Hello"
            /\ x.run.step \in {"Reveal", "AuthInit"} => e.run.step \in {"Reveal", "AuthInit"}
         \/ x.entropy = e.entropy + 1
  PROVE  Grows(e, x)
<1>1. ASSUME NEW key, key[2] \in 0..(e.entropy - 1)
      PROVE  /\ key[2] \in 0..(x.entropy - 1)
             /\ LatestKey(x, key) => x.entropy = e.entropy /\ LatestKey(e, key)
  BY <1>1 DEF LatestKey
<1> QED BY <1>1 DEF Grows, Told, Attested

\* Of its own accord.
LEMMA LooselyUnprompted ==
  ASSUME NEW e, NEW p, NEW q, NEW u, Loosely(e, p, q, u), IsSequence(q), IsSequence(u),
         e.entropy \in Nat, NEW v, IsSequence(v), Fewer(q, v),
         NEW x, NEW out, Unprompted(e, x, out)
  PROVE  Loosely(x, p, v, u \o out) /\ IsSequence(u \o out)
<1>1. Ready(e) => Ready(x)
  BY DEF Unprompted, Rests, Quits, Calls, Ready
<1>2. Grows(e, x)
  BY GrowsBy DEF Unprompted, Rests, Quits, Calls, Within
<1>3. Grounded(x, p)
  BY DEF Unprompted, Rests, Quits, Calls, Within, Grounded, Loosely, Half
<1>4. x.run = e.run \/ Unspoken(x, v, u)
  BY UnspokenElse DEF Unprompted, Rests, Quits, Calls
<1>5. Loosely(x, p, v, u)
  BY <1>1, <1>2, <1>3, <1>4, LooselyChanges
<1>6. CASE Mute(out)
  <2>1. IsSequence(u \o out) /\ Fewer(u, u \o out) /\ Fewer(v, v)
    BY <1>6, ChannelsFewer DEF Mute
  <2> QED BY <1>5, <2>1, LooselyFewer
<1>7. CASE Calls(e, x, out)
  <2>1. PICK g : /\ g.kind = "COMMIT" /\ g.purpose = "Rekey"
                 /\ out = <<g>> \/ \E d : ~Talk(d) /\ out = <<d>> \o <<g>>
    BY <1>7 DEF Calls, Asking
  <2>2. IsSequence(u \o out) /\ Adding(u, u \o out, g)
    BY <2>1, ChannelsAdding DEF Talk
  <2>3. Unspoken(x, v, u)
    BY <1>7, UnspokenElse DEF Calls
  <2>4. Apt(x, p, v, u, g)
    BY <2>1 DEF Apt
  <2> QED BY <1>5, <2>2, <2>3, <2>4, LooselySays
<1> QED BY <1>6, <1>7 DEF Unprompted, Rests, Quits

\* e has taken what it was told.
LEMMA LooselyTaken ==
  ASSUME NEW e, NEW p, NEW q, NEW u, Loosely(e, p, q, u), IsSequence(q), IsSequence(u),
         q # <<>>, Talk(Head(q)),
         NEW x, Grows(e, x), Grounded(x, p), x.run = e.run \/ Unspoken(x, Tail(q), u)
  PROVE  IsSequence(Tail(q)) /\ Loosely(x, p, Tail(q), u)
<1>1. IsSequence(Tail(q)) /\ Fewer(q, Tail(q))
  BY ChannelsFewer
<1>2. ~(Silent(q) \/ HasConfirm(Tail(q)))
  BY TalkAtHead DEF Loosely
<1> QED BY <1>1, <1>2, LooselyChanges

\* It says nothing in return.
LEMMA LooselyMute ==
  ASSUME NEW x, NEW p, NEW v, NEW u, Loosely(x, p, v, u), IsSequence(v), IsSequence(u),
         NEW out, out = <<>>
  PROVE  IsSequence(u \o out) /\ Loosely(x, p, v, u \o out)
<1>1. IsSequence(out) /\ \A i \in 1..Len(out) : ~Talk(out[i])
  BY DEF IsSequence
<1>2. IsSequence(u \o out) /\ Fewer(u, u \o out) /\ Fewer(v, v)
  BY <1>1, ChannelsFewer
<1> QED BY <1>2, LooselyFewer

\* It says one thing.
LEMMA LooselyOne ==
  ASSUME NEW x, NEW p, NEW v, NEW u, Loosely(x, p, v, u), IsSequence(u), Unspoken(x, v, u),
         NEW g, Apt(x, p, v, u, g)
  PROVE  IsSequence(u \o <<g>>) /\ Loosely(x, p, v, u \o <<g>>)
<1>1. Talk(g)
  BY DEF Apt, Talk
<1>2. IsSequence(u \o <<g>>) /\ Adding(u, u \o <<g>>, g)
  BY <1>1, ChannelsAdding
<1> QED BY <1>2, LooselySays

LEMMA HeedsLittle ==
  ASSUME NEW e, NEW p, NEW q, NEW u, Loosely(e, p, q, u), IsSequence(q), IsSequence(u),
         q # <<>>, Talk(Head(q)), e.entropy \in Nat,
         NEW x, NEW out, Ignores(e, x, out) \/ Drops(e, x, out)
  PROVE  IsSequence(u \o out) /\ Loosely(x, p, Tail(q), u \o out)
<1>1. Grows(e, x)
  BY GrowsBy DEF Ignores, Drops, Within
<1>2. Grounded(x, p)
  BY DEF Ignores, Drops, Within, Grounded, Loosely, Half
<1>3. x.run = e.run \/ Unspoken(x, Tail(q), u)
  BY UnspokenElse DEF Ignores, Drops
<1>4. IsSequence(Tail(q)) /\ Loosely(x, p, Tail(q), u)
  BY <1>1, <1>2, <1>3, LooselyTaken
<1> QED BY <1>4, LooselyMute DEF Ignores, Drops

LEMMA HeedsCommit ==
  ASSUME NEW e, NEW p, NEW q, NEW u, Loosely(e, p, q, u), IsSequence(q), IsSequence(u),
         q # <<>>, Talk(Head(q)), e.entropy \in Nat,
         NEW x, NEW out, Replies(e, x, out)
  PROVE  IsSequence(u \o out) /\ Loosely(x, p, Tail(q), u \o out)
<1>1. Grows(e, x)
  BY GrowsBy DEF Replies
<1>2. Grounded(x, p)
  BY DEF Replies, Grounded
<1>3. Unspoken(x, Tail(q), u)
  BY UnspokenElse DEF Replies
<1>4. Loosely(x, p, Tail(q), u)
  BY <1>1, <1>2, <1>3, LooselyTaken
<1>5. PICK h : h.kind = "HELLO" /\ h.purpose = "Rekey" /\ h.role = "Responder" /\ out = <<h>>
  BY DEF Replies
<1>6. Apt(x, p, Tail(q), u, h)
  BY <1>5 DEF Apt
<1> QED BY <1>3, <1>4, <1>5, <1>6, LooselyOne

\* Its key is new, and nobody has said anything with it.
LEMMA HeedsHello ==
  ASSUME NEW e, NEW p, NEW q, NEW u, Loosely(e, p, q, u), IsSequence(q), IsSequence(u),
         q # <<>>, Talk(Head(q)), e.entropy \in Nat,
         NEW x, NEW out, Unveils(e, x, out)
  PROVE  IsSequence(u \o out) /\ Loosely(x, p, Tail(q), u \o out)
<1>1. Grows(e, x)
  BY GrowsBy DEF Unveils, Within
<1>2. Grounded(x, p)
  BY DEF Unveils, Within, Grounded
<1>3. \A key : LatestKey(x, key) => ~Told(e, key)
  BY DEF Unveils, Within, Told, LatestKey
<1>4. Unspoken(x, q, u)
  <2>1. ASSUME NEW id, AtStep(x, "AuthResp", id)
        PROVE  ~Told(e, id[1])
    BY <2>1, <1>3 DEF AtStep, Unveils, Keys
  <2>2. ASSUME NEW k \in 1..Len(u), u[k].kind = "AUTH"
        PROVE  u[k].stage = 0 => Told(e, SessionKeys(u[k].transcript)[1])
    <3>1. Saying(p, e, u, q, k)
      BY <2>2 DEF Loosely, Half, Talk
    <3> QED BY <3>1, <2>2 DEF Saying
  <2>3. ASSUME NEW k \in 1..Len(q), q[k].kind = "AUTH"
        PROVE  q[k].stage = 1 => Told(e, SessionKeys(q[k].transcript)[1])
    <3>1. Saying(e, p, q, u, k)
      BY <2>3 DEF Loosely, Half, Talk
    <3> QED BY <3>1, <2>3 DEF Saying
  <2>4. \A id : ~AtStep(x, "ConfirmInit", id)
    BY DEF AtStep, Unveils
  <2> QED BY <2>1, <2>2, <2>3, <2>4 DEF Unspoken
<1>5. IsSequence(Tail(q)) /\ Fewer(q, Tail(q))
  BY ChannelsFewer
<1>6. Unspoken(x, Tail(q), u)
  BY <1>4, <1>5, UnspokenFewer
<1>7. Loosely(x, p, Tail(q), u)
  BY <1>1, <1>2, <1>6, LooselyTaken
<1>8. PICK h, a : /\ h.kind = "HELLO" /\ h.purpose = "Rekey" /\ h.ephemeral = Keys(x)[1]
                  /\ a.kind = "AUTH" /\ a.purpose = "Rekey" /\ a.stage = 0
                  /\ SessionKeys(a.transcript) = Keys(x)
                  /\ out = <<h>> \o <<a>>
  BY DEF Unveils
<1>9. Told(x, Keys(x)[1])
  BY DEF Unveils, Within, Told, LatestKey
<1>10. Apt(x, p, Tail(q), u, h)
  BY <1>8, <1>9 DEF Apt
<1>11. IsSequence(u \o <<h>>) /\ Adding(u, u \o <<h>>, h)
  BY <1>8, ChannelsAdding DEF Talk
<1>12. Loosely(x, p, Tail(q), u \o <<h>>)
  BY <1>6, <1>7, <1>10, LooselyOne
<1>13. Unspoken(x, Tail(q), u \o <<h>>)
  BY <1>6, <1>8, <1>11, UnspokenAdds
<1>14. Apt(x, p, Tail(q), u \o <<h>>, a)
  BY <1>8, <1>9 DEF Apt
<1>15. /\ IsSequence((u \o <<h>>) \o <<a>>)
       /\ Loosely(x, p, Tail(q), (u \o <<h>>) \o <<a>>)
  BY <1>11, <1>12, <1>13, <1>14, LooselyOne
<1>16. (u \o <<h>>) \o <<a>> = u \o out
  BY <1>8, Regroup
<1> QED BY <1>15, <1>16

LEMMA HeedsReveal ==
  ASSUME NEW e, NEW p, NEW q, NEW u, Loosely(e, p, q, u), IsSequence(q), IsSequence(u),
         q # <<>>, Talk(Head(q)), e.entropy \in Nat,
         NEW x, NEW out, Learns(e, Head(q), x, out)
  PROVE  IsSequence(u \o out) /\ Loosely(x, p, Tail(q), u \o out)
<1>1. Grows(e, x)
  BY GrowsBy DEF Learns, Within
<1>2. Grounded(x, p)
  <2>1. Saying(e, p, q, u, 1) /\ q[1] = Head(q)
    BY TalkAtHead DEF Loosely
  <2>2. Told(p, Head(q).ephemeral)
    BY <2>1 DEF Saying, Learns
  <2> QED BY <2>2 DEF Learns, Within, Grounded, Keys
<1>3. Unspoken(x, Tail(q), u)
  BY UnspokenElse DEF Learns
<1>4. IsSequence(Tail(q)) /\ Loosely(x, p, Tail(q), u)
  BY <1>1, <1>2, <1>3, LooselyTaken
<1> QED BY <1>4, LooselyMute DEF Learns

\* Nobody has signed with its key, and it is what the initiator has told.
LEMMA HeedsSignature ==
  ASSUME NEW e, NEW p, NEW q, NEW u, Loosely(e, p, q, u), IsSequence(q), IsSequence(u),
         q # <<>>, Talk(Head(q)), e.entropy \in Nat,
         NEW x, NEW out, Signs(e, Head(q), x, out)
  PROVE  IsSequence(u \o out) /\ Loosely(x, p, Tail(q), u \o out)
<1>1. Grows(e, x)
  BY GrowsBy DEF Signs, Within
<1>2. Told(p, Keys(e)[1])
  BY DEF Signs, Loosely, Half, Grounded, Keys
<1>3. Grounded(x, p)
  BY <1>2 DEF Signs, Within, Grounded, Keys
<1>4. Unspoken(x, Tail(q), u)
  <2>1. ASSUME NEW k \in 1..Len(u), u[k].kind = "AUTH", u[k].stage = 1
        PROVE  SessionKeys(u[k].transcript) # Keys(e)
    <3>1. Saying(p, e, u, q, k)
      BY <2>1 DEF Loosely, Half, Talk
    <3>2. Attested(e, SessionKeys(u[k].transcript)[2])
      BY <3>1, <2>1 DEF Saying
    <3> QED BY <3>2 DEF Attested, Signs
  <2>2. ~HasConfirm(Tail(q))
    BY TalkAtHead DEF Loosely
  <2> QED BY <2>1, <2>2 DEF Unspoken, AtStep, Signs, Keys, HasConfirm
<1>5. Loosely(x, p, Tail(q), u)
  BY <1>1, <1>3, <1>4, LooselyTaken
<1>6. PICK a : /\ a.kind = "AUTH" /\ a.purpose = "Rekey" /\ a.stage = 1
               /\ SessionKeys(a.transcript) = Keys(e) /\ out = <<a>>
  BY DEF Signs
<1>7. Saying(e, p, q, u, 1) /\ q[1] = Head(q) /\ (Last(q, 1) => Silent(Tail(q)))
  BY TalkAtHead DEF Loosely
<1>8. AtStep(p, "AuthResp", Keys(e)) => Silent(Tail(q))
  BY <1>7 DEF Saying, Signs
<1>9. Attested(x, Keys(e)[2]) /\ Ready(x)
  BY DEF Attested, LatestKey, Ready, Signs, Within
<1>10. Apt(x, p, Tail(q), u, a)
  BY <1>2, <1>6, <1>8, <1>9 DEF Apt
<1> QED BY <1>4, <1>5, <1>6, <1>10, LooselyOne

\* The responder has signed, and says no more before it is confirmed.
LEMMA HeedsAnswer ==
  ASSUME NEW e, NEW p, NEW q, NEW u, Loosely(e, p, q, u), IsSequence(q), IsSequence(u),
         q # <<>>, Talk(Head(q)), e.entropy \in Nat,
         NEW x, NEW out, Vouches(e, Head(q), x, out)
  PROVE  IsSequence(u \o out) /\ Loosely(x, p, Tail(q), u \o out)
<1>1. Grows(e, x)
  BY GrowsBy DEF Vouches, Within
<1>2. Grounded(x, p)
  BY DEF Vouches, Within, Grounded
<1>3. Unspoken(x, Tail(q), u)
  BY UnspokenElse DEF Vouches
<1>4. Loosely(x, p, Tail(q), u)
  BY <1>1, <1>2, <1>3, LooselyTaken
<1>5. Saying(e, p, q, u, 1) /\ q[1] = Head(q) /\ (Last(q, 1) => Silent(Tail(q)))
  BY TalkAtHead DEF Loosely
<1>6. /\ Silent(u) /\ Ready(p)
      /\ AtStep(p, "ConfirmInit", Keys(e)) => Silent(Tail(q))
  BY <1>5 DEF Saying, Vouches, AtStep, Keys
<1>7. Ready(x)
  BY DEF Ready, Vouches
<1>8. Apt(x, p, Tail(q), u, SessionConfirmPayload(Keys(e), "Initiator"))
  BY <1>6, <1>7 DEF Apt, SessionConfirmPayload
<1> QED BY <1>3, <1>4, <1>8, LooselyOne DEF Vouches

\* The initiator has confirmed, and says no more before it is done.
LEMMA HeedsConfirm ==
  ASSUME NEW e, NEW p, NEW q, NEW u, Loosely(e, p, q, u), IsSequence(q), IsSequence(u),
         q # <<>>, Talk(Head(q)), e.entropy \in Nat,
         NEW x, NEW out, Confirms(e, Head(q), x, out)
  PROVE  IsSequence(u \o out) /\ Loosely(x, p, Tail(q), u \o out)
<1>1. Grows(e, x)
  BY GrowsBy DEF Confirms, Within
<1>2. Grounded(x, p)
  BY DEF Confirms, Within, Grounded
<1>3. Unspoken(x, Tail(q), u)
  BY UnspokenElse DEF Confirms
<1>4. Loosely(x, p, Tail(q), u)
  BY <1>1, <1>2, <1>3, LooselyTaken
<1>5. Saying(e, p, q, u, 1) /\ q[1] = Head(q)
  BY TalkAtHead DEF Loosely
<1>6. Silent(u) /\ Ready(p)
  BY <1>5 DEF Saying, Confirms, AtStep, Keys
<1>7. Apt(x, p, Tail(q), u, SessionConfirmPayload(Keys(e), "Responder"))
  BY <1>6 DEF Apt, SessionConfirmPayload
<1> QED BY <1>3, <1>4, <1>7, LooselyOne DEF Confirms

LEMMA LooselyHeeds ==
  ASSUME NEW e, NEW p, NEW q, NEW u, Loosely(e, p, q, u), IsSequence(q), IsSequence(u),
         q # <<>>, Talk(Head(q)), e.entropy \in Nat,
         NEW x, NEW out, Heeds(e, Head(q), x, out)
  PROVE  IsSequence(u \o out) /\ Loosely(x, p, Tail(q), u \o out)
BY HeedsLittle, HeedsCommit, HeedsHello, HeedsReveal, HeedsSignature, HeedsAnswer,
   HeedsConfirm DEF Heeds

-----------------------------------------------------------------------------
(* An established engine that is not told anything of a run.               *)

\* What an engine holds against its peer when it closes.
Blames == {"ProtocolError", "AuthenticationFailure"}

\* The connection ends without blame.
Departs(r) ==
    /\ r.e.phase = "Closed" /\ Mute(r.out)
    /\ r.event[1] = "Closed" => r.event[2] \notin Blames

\* It ends, or goes on of its own accord.
Unbidden(e, r) == Departs(r) \/ Unprompted(e, r.e, r.out)

\* k is e, but for deadlines, counts and sessions.
Idles(e, k) ==
    /\ DOMAIN k = EngineFields /\ k.phase = "Established" /\ k.entropy = e.entropy
    /\ k.run = e.run /\ (Ready(e) => Ready(k))

\* Nothing, or a frame that is no talk, is mute.
LEMMA MuteParts ==
  ASSUME NEW d, ~Talk(d)
  PROVE  Mute(<<>>) /\ Mute(<<d>>)
<1>1. IsSequence(<<>>) /\ IsSequence(<<d>>)
  BY NoneSent, OneSent
<1>2. Len(<<>>) = 0 /\ Len(<<d>>) = 1 /\ <<d>>[1] = d
  OBVIOUS
<1> QED BY <1>1, <1>2 DEF Mute

LEMMA MuteNone == Mute(<<>>)
<1>1. ~Talk([kind |-> "CLOSE"])
  BY DEF Talk
<1> QED BY <1>1, MuteParts

\* terminate.
LEMMA EndDeparts ==
  ASSUME NEW k, DOMAIN k = EngineFields, NEW why, why \notin Blames, NEW notify
  PROVE  Departs(terminate(k, why, notify))
<1> DEFINE c == ClosePayload(k.active.id, notify)
           r == terminate(k, why, notify)
<1>1. r.out \in {<<>>, <<c>>} /\ r.event = <<"Closed", why>>
  BY DEF terminate, Result
<1>2. r.e.phase = "Closed"
  BY DEF terminate, Result, cancel_all, cancel, EngineFields
<1>3. ~Talk(c)
  BY DEF Talk, ClosePayload
<1> HIDE DEF c, r
<1>4. Mute(r.out)
  BY <1>1, <1>3, MuteParts
<1>5. r.event[2] = why
  BY <1>1
<1> QED BY <1>2, <1>4, <1>5 DEF Departs, r

\* Nothing is sent.
LEMMA IdleUnbidden ==
  ASSUME NEW e, NEW k, Idles(e, k), NEW r, r.e = k, Mute(r.out)
  PROVE  Unbidden(e, r)
BY DEF Idles, Unbidden, Unprompted, Rests, Within

\* A COMMIT that begins a rekey, behind what a message sends.
LEMMA CallUnbidden ==
  ASSUME NEW e, e.run = NoRun, NEW k, DOMAIN k = EngineFields, k.phase = "Established",
         k.entropy = e.entropy, k.run = e.run,
         NEW r, r.e = begin_rekey(k).e,
         \/ r.out = begin_rekey(k).out
         \/ \E d : ~Talk(d) /\ r.out = <<d>> \o begin_rekey(k).out
  PROVE  Unbidden(e, r)
<1> DEFINE b == begin_rekey(k)
<1>1. /\ Ran(k, b.e, Run(k, "Rekey", "Initiator", k.active.id, NoFrame, "Hello"))
      /\ b.out = <<Commit(b.e)>>
  BY RunBegun
<1> HIDE DEF b
<1>2. b.e.phase = "Established" /\ b.e.entropy = e.entropy + 1 /\ b.e.run.step = "Hello"
  BY <1>1 DEF Ran, Keeps, Run
<1>3. b.e.run.local_hello.purpose = "Rekey"
  BY <1>1 DEF Ran, Run, HelloPayload
<1>4. Commit(b.e).kind = "COMMIT" /\ Commit(b.e).purpose = "Rekey"
  BY <1>3 DEF Commit, CommitPayload
<1>5. Asking(r.out)
  <2> DEFINE g == Commit(b.e)
  <2>1. r.out = <<g>> \/ \E d : ~Talk(d) /\ r.out = <<d>> \o <<g>>
    BY <1>1 DEF b
  <2> HIDE DEF g
  <2>2. g.kind = "COMMIT" /\ g.purpose = "Rekey"
    BY <1>4 DEF g
  <2> QED BY <2>1, <2>2 DEF Asking
<1>6. e.run.step = "None"
  BY DEF NoRun
<1> QED BY <1>2, <1>5, <1>6 DEF Unbidden, Unprompted, Calls, b

\* begin_rekey.
LEMMA BeginUnbidden ==
  ASSUME NEW e, NEW k, DOMAIN k = EngineFields, k.phase = "Established",
         k.entropy = e.entropy, k.run = e.run, e.run = NoRun \/ (Ready(e) => Ready(k))
  PROVE  Unbidden(e, begin_rekey(k))
<1>1. CASE e.run = NoRun
  BY <1>1, CallUnbidden
<1>2. CASE e.run # NoRun
  <2>1. begin_rekey(k) = Result(k, <<>>, <<"none">>)
    BY <1>2 DEF begin_rekey
  <2>2. begin_rekey(k).e = k /\ begin_rekey(k).out = <<>>
    BY <2>1 DEF Result
  <2>3. Idles(e, k)
    BY <1>2 DEF Idles
  <2> QED BY <2>2, <2>3, IdleUnbidden, MuteNone
<1> QED BY <1>1, <1>2

\* maybe_trigger_rekey, after what a message itself sends.
LEMMA TriggerUnbidden ==
  ASSUME NEW e, NEW k, Idles(e, k), NEW d, ~Talk(d), NEW out, out \in {<<>>, <<d>>},
         NEW r, r.e = maybe_trigger_rekey(k, out).e, r.out = maybe_trigger_rekey(k, out).out
  PROVE  Unbidden(e, r)
<1> DEFINE b == IF k.messages >= REKEY_MESSAGE_LIMIT /\ ~k.rekey_blocked
                THEN begin_rekey(k) ELSE Result(k, <<>>, <<"none">>)
           m == maybe_trigger_rekey(k, out)
<1>1. m = [b EXCEPT !.out = out \o @]
  BY DEF maybe_trigger_rekey
<1>2. DOMAIN b = {"e", "out", "event", "deliver"}
  BY DEF begin_rekey, Result
<1> HIDE DEF m
<1>3. r.e = b.e /\ r.out = out \o b.out
  BY <1>1, <1>2 DEF m
<1>4. CASE /\ k.messages >= REKEY_MESSAGE_LIMIT /\ ~k.rekey_blocked
           /\ k.run = NoRun
  <2>1. b = begin_rekey(k)
    BY <1>4
  <2> HIDE DEF b
  <2>2. r.out = b.out \/ r.out = <<d>> \o b.out
    <3>1. CASE out = <<>>
      <4>1. b.out = <<Commit(b.e)>>
        BY <1>4, <2>1, RunBegun DEF Idles
      <4>2. \A c : <<>> \o <<c>> = <<c>>
        OBVIOUS
      <4> QED BY <1>3, <3>1, <4>1, <4>2
    <3> QED BY <1>3, <3>1
  <2> QED BY <1>3, <1>4, <2>1, <2>2, CallUnbidden DEF Idles
<1>5. CASE ~(/\ k.messages >= REKEY_MESSAGE_LIMIT /\ ~k.rekey_blocked
             /\ k.run = NoRun)
  <2>1. b = Result(k, <<>>, <<"none">>)
    BY <1>5 DEF begin_rekey, Idles
  <2>2. b.e = k /\ b.out = <<>>
    BY <2>1 DEF Result
  <2> HIDE DEF b
  <2>3. Mute(out)
    BY MuteParts
  <2>4. out \o <<>> = out
    <3>1. PICK S : out \in Seq(S)
      BY <2>3 DEF Mute, IsSequence
    <3> QED BY <3>1
  <2> QED BY <1>3, <2>2, <2>3, <2>4, IdleUnbidden
<1> QED BY <1>4, <1>5

\* Counting a message is idle.
LEMMA CountsIdle ==
  ASSUME NEW e, NEW k, Idles(e, k)
  PROVE  Idles(e, Counted(k))
<1>1. /\ DOMAIN Counted(k) = EngineFields
      /\ Counted(k).phase = k.phase /\ Counted(k).run = k.run /\ Counted(k).entropy = k.entropy
      /\ Counted(k).late_rekey_frames = k.late_rekey_frames
  BY DEF Counted, EngineFields, Idles
<1> QED BY <1>1 DEF Idles, Ready

\* on_send, while the counter has room.
LEMMA SendUnbidden ==
  ASSUME NEW e, EngineOK(e), e.phase = "Established", NEW content,
         ~(e.active.counter >= COUNTER_MAX)
  PROVE  Unbidden(e, on_send(e, content))
<1> DEFINE r == on_send(e, content)
           d == DataPayload(e.active.id, e.active.role, e.active.counter, content)
           x == Sealed(e)
<1>1. \/ r = Result(e, <<>>, <<"SendRejected", "TooLarge">>)
      \/ r = maybe_trigger_rekey(Counted(x), <<d>>)
  BY DEF on_send, Sealed
<1>2. DOMAIN e = EngineFields
  BY DEF EngineOK, Held
<1>3. ~Talk(d)
  BY DEF Talk, DataPayload
<1>4. /\ DOMAIN x = EngineFields /\ x.phase = e.phase /\ x.run = e.run /\ x.entropy = e.entropy
      /\ x.late_rekey_frames = e.late_rekey_frames
  BY <1>2 DEF EngineFields, Sealed
<1> HIDE DEF r, d, x
<1>5. Idles(e, e) /\ Idles(e, x)
  BY <1>2, <1>4 DEF Idles, Ready
<1>6. CASE r = Result(e, <<>>, <<"SendRejected", "TooLarge">>)
  <2>1. r.e = e /\ r.out = <<>>
    BY <1>6 DEF Result
  <2> QED BY <1>5, <2>1, IdleUnbidden, MuteNone DEF r
<1>7. CASE r = maybe_trigger_rekey(Counted(x), <<d>>)
  <2>1. Idles(e, Counted(x))
    BY <1>5, CountsIdle
  <2> QED BY <1>3, <1>7, <2>1, TriggerUnbidden DEF r
<1> QED BY <1>1, <1>6, <1>7 DEF r

\* on_send, of what is too large.
LEMMA TooLargeUnbidden ==
  ASSUME NEW e, EngineOK(e), e.phase = "Established"
  PROVE  Unbidden(e, on_send(e, TooLarge))
<1>1. on_send(e, TooLarge).e = e /\ on_send(e, TooLarge).out = <<>>
  BY DEF on_send, Result
<1>2. Idles(e, e)
  BY DEF Idles, EngineOK, Held
<1> QED BY <1>1, <1>2, IdleUnbidden, MuteNone

\* on_data, given a frame that decodes.
LEMMA DataUnbidden ==
  ASSUME NEW e, EngineOK(e), e.phase = "Established", NEW f, f.kind = "DATA", f.intact
  PROVE  Unbidden(e, on_frame(e, f))
<1> DEFINE r == on_data(e, f)
           x == Opened(e, f)
<1>1. on_frame(e, f) = r
  BY DEF on_frame, MessageType
<1>2. /\ DOMAIN e = EngineFields /\ DOMAIN e.active = SessionFields
      /\ e.draining = NoSession \/ DOMAIN e.draining = SessionFields
  BY DEF EngineOK, Held
<1>3. /\ DOMAIN x = EngineFields /\ x.phase = e.phase /\ x.run = e.run /\ x.entropy = e.entropy
      /\ x.late_rekey_frames = e.late_rekey_frames
  BY <1>2 DEF Opened, EngineFields
<1>4. \/ r = [maybe_trigger_rekey(Counted(x), <<>>) EXCEPT !.deliver = f.content]
      \/ r = [Result(x, <<>>, <<"none">>) EXCEPT !.deliver = f.content]
      \/ r = Result(x, <<>>, <<"DataRejected">>)
  BY <1>2 DEF on_data, Opened, EngineFields
<1> HIDE DEF x, r
<1>5. Idles(e, x)
  BY <1>3 DEF Idles, Ready
<1>6. CASE r = [maybe_trigger_rekey(Counted(x), <<>>) EXCEPT !.deliver = f.content]
  <2> DEFINE s == maybe_trigger_rekey(Counted(x), <<>>)
  <2>1. r.e = s.e /\ r.out = s.out
    BY <1>6 DEF maybe_trigger_rekey, begin_rekey, Result
  <2>2. Idles(e, Counted(x))
    BY <1>5, CountsIdle
  <2>3. ~Talk(f)
    BY DEF Talk
  <2> HIDE DEF s
  <2> QED BY <1>1, <2>1, <2>2, <2>3, TriggerUnbidden DEF s
<1>7. CASE \/ r = [Result(x, <<>>, <<"none">>) EXCEPT !.deliver = f.content]
           \/ r = Result(x, <<>>, <<"DataRejected">>)
  <2>1. r.e = x /\ r.out = <<>>
    BY <1>7 DEF Result
  <2> QED BY <1>1, <1>5, <2>1, IdleUnbidden, MuteNone
<1> QED BY <1>4, <1>6, <1>7

\* on_close_frame, given a frame that decodes.
LEMMA CloseUnbidden ==
  ASSUME NEW e, EngineOK(e), e.phase = "Established", NEW f, f.kind = "CLOSE", f.intact
  PROVE  Unbidden(e, on_frame(e, f))
<1> DEFINE r == on_close_frame(e, f)
           o == [e EXCEPT !.draining = NoSession]
           x == cancel(o, {"Drain"})
<1>1. on_frame(e, f) = r
  BY DEF on_frame, MessageType
<1>2. DOMAIN e = EngineFields
  BY DEF EngineOK, Held
<1>3. \/ r = terminate(e, "PeerUnauthenticated", "none")
      \/ r \in {Result(e, <<>>, <<"none">>), Result(x, <<>>, <<"none">>)}
  BY DEF on_close_frame, Decodes
<1>4. Idles(e, e)
  BY <1>2 DEF Idles
<1>5. Idles(e, x)
  BY <1>2 DEF Idles, cancel, EngineFields, Ready
<1> HIDE DEF r, x
<1>6. CASE r = terminate(e, "PeerUnauthenticated", "none")
  BY <1>1, <1>2, <1>6, EndDeparts DEF Unbidden, Blames
<1>7. CASE r \in {Result(e, <<>>, <<"none">>), Result(x, <<>>, <<"none">>)}
  <2>1. r.e \in {e, x} /\ r.out = <<>>
    BY <1>7 DEF Result
  <2> QED BY <1>1, <1>4, <1>5, <2>1, IdleUnbidden, MuteNone
<1> QED BY <1>3, <1>6, <1>7

\* fail_rekey keeps a grace for what the peer has yet to say.
LEMMA FailQuits ==
  ASSUME LATE_REKEY_FRAME_GRACE > 0, NEW e, NEW k, DOMAIN k = EngineFields,
         k.phase = "Established", k.entropy = e.entropy, NEW error
  PROVE  /\ Quits(e, fail_rekey(k, error).e, fail_rekey(k, error).out)
         /\ fail_rekey(k, error).out = <<>>
<1> DEFINE r == fail_rekey(k, error)
<1>1. r.out = <<>>
  BY DEF fail_rekey, Result
<1>2. /\ r.e.phase = "Established" /\ r.e.entropy = e.entropy /\ r.e.run = NoRun
      /\ r.e.late_rekey_frames = LATE_REKEY_FRAME_GRACE
  BY DEF fail_rekey, Result, arm, cancel, EngineFields
<1> HIDE DEF r
<1>3. r.e.run.step = "None"
  BY <1>2 DEF NoRun
<1> QED BY <1>1, <1>2, <1>3, MuteNone DEF Quits, Within, r

\* on_timeout.
LEMMA TimeoutUnbidden ==
  ASSUME LATE_REKEY_FRAME_GRACE > 0, NEW e, EngineOK(e), e.phase = "Established",
         NEW kind \in DeadlineKind, kind \in e.deadlines
  PROVE  Unbidden(e, on_timeout(e, kind))
<1> DEFINE r == on_timeout(e, kind)
           y == Fired(e, kind)
<1>1. DOMAIN e = EngineFields
  BY DEF EngineOK, Held
<1>2. Idles(e, y)
  BY <1>1 DEF Idles, Fired, EngineFields, Ready
<1>3. CASE kind \in {"HandshakeFrame", "HandshakeTotal"}
  <2>1. r = IF e.run # NoRun THEN fail_rekey(y, "TransportTimeout") ELSE Result(y, <<>>, <<"none">>)
    BY <1>3 DEF on_timeout, Fired
  <2> HIDE DEF r, y
  <2>2. CASE e.run # NoRun
    <3>1. Quits(e, r.e, r.out)
      BY <1>2, <2>1, <2>2, FailQuits DEF Idles
    <3> QED BY <3>1 DEF Unbidden, Unprompted, r
  <2>3. CASE e.run = NoRun
    <3>1. r.e = y /\ r.out = <<>>
      BY <2>1, <2>3 DEF Result
    <3> QED BY <1>2, <3>1, IdleUnbidden, MuteNone DEF r
  <2> QED BY <2>2, <2>3
<1>4. CASE kind = "SasDecision"
  BY <1>4 DEF EngineOK, WaitsTimed
<1>5. CASE kind = "RekeyDue"
  <2> DEFINE k == [y EXCEPT !.rekey_blocked = FALSE, !.late_rekey_frames = 0]
  <2>1. r = begin_rekey(k)
    BY <1>5 DEF on_timeout, Fired
  <2>2. DOMAIN k = EngineFields /\ k.phase = "Established" /\ k.entropy = e.entropy /\ k.run = e.run
    BY <1>1 DEF Fired, EngineFields
  <2>3. e.run = NoRun \/ (Ready(e) => Ready(k))
    <3>1. e.run # NoRun => e.run.step # "None"
      BY DEF EngineOK, HasRun, Steps, AskedSteps
    <3> QED BY <2>2, <3>1 DEF Ready
  <2> HIDE DEF k, r
  <2> QED BY <2>1, <2>2, <2>3, BeginUnbidden DEF r
<1>6. CASE kind = "Drain"
  <2> DEFINE k == [y EXCEPT !.draining = NoSession]
  <2>1. r = Result(k, <<>>, <<"none">>)
    BY <1>6 DEF on_timeout, Fired
  <2>2. Idles(e, k)
    BY <1>1 DEF Idles, Fired, EngineFields, Ready
  <2> HIDE DEF k, r
  <2>3. r.e = k /\ r.out = <<>>
    BY <2>1 DEF Result
  <2> QED BY <2>2, <2>3, IdleUnbidden, MuteNone DEF r
<1> QED BY <1>3, <1>4, <1>5, <1>6 DEF DeadlineKind

\* An answer to a prompt that is gone, a request for a rekey, and the ends.
LEMMA OthersUnbidden ==
  ASSUME NEW e, EngineOK(e), e.phase = "Established", NEW answer
  PROVE  /\ Unbidden(e, on_sas(e, answer))
         /\ Unbidden(e, begin_rekey(e))
<1>1. DOMAIN e = EngineFields
  BY DEF EngineOK, Held
<1>2. Idles(e, e)
  BY <1>1 DEF Idles
<1>3. on_sas(e, answer).e = e /\ on_sas(e, answer).out = <<>>
  BY DEF on_sas, Result
<1>4. Unbidden(e, on_sas(e, answer))
  BY <1>2, <1>3, IdleUnbidden, MuteNone
<1>5. Unbidden(e, begin_rekey(e))
  BY <1>1, BeginUnbidden
<1> QED BY <1>4, <1>5

\* An end that is nobody's fault.
LEMMA LeavesDepart ==
  ASSUME NEW e, EngineOK(e)
  PROVE  Departs(local_close(e)) /\ Departs(transport_closed(e))
<1>1. DOMAIN e = EngineFields
  BY DEF EngineOK, Held
<1> QED BY <1>1, EndDeparts DEF local_close, transport_closed, Blames

-----------------------------------------------------------------------------
(* An established engine that is told something of a run.                  *)

\* What fails in an established session is dropped.
LEMMA FailDrops ==
  ASSUME NEW e, DOMAIN e = EngineFields, e.phase = "Established", NEW error
  PROVE  Drops(e, Fail(e, error).e, Fail(e, error).out)
<1> DEFINE r == fail_rekey(e, error)
<1>1. Fail(e, error) = r
  BY DEF Fail
<1>2. r.out = <<>>
  BY DEF fail_rekey, Result
<1>3. r.e.phase = "Established" /\ r.e.entropy = e.entropy /\ r.e.run = NoRun
  BY DEF fail_rekey, Result, arm, cancel, EngineFields
<1> HIDE DEF r
<1>4. r.e.run.step = "None"
  BY <1>3 DEF NoRun
<1> QED BY <1>1, <1>2, <1>3, <1>4 DEF Drops, Within

\* complete_rekey ends the run, whether it makes a session of it or not.
LEMMA RekeyOver ==
  ASSUME NEW e, DOMAIN e = EngineFields, e.phase = "Established", NEW out
  PROVE  LET r == Complete(e, out) IN
         Within(e, r.e) /\ r.e.run.step = "None" /\ r.out = out
<1> DEFINE r == complete_rekey(e, out)
<1>1. Complete(e, out) = r
  BY DEF Complete
<1>2. r.out = out
  BY DEF complete_rekey, fail_rekey, Result
<1>3. r.e.phase = "Established" /\ r.e.entropy = e.entropy /\ r.e.run = NoRun
  BY DEF complete_rekey, fail_rekey, Result, arm, cancel, EngineFields
<1> HIDE DEF r
<1>4. r.e.run.step = "None"
  BY <1>3 DEF NoRun
<1> QED BY <1>1, <1>2, <1>3, <1>4 DEF Within, r

\* note_rekey_rejection ignores.
LEMMA RejectIgnores ==
  ASSUME NEW e, NEW k, DOMAIN k = EngineFields, k.phase = "Established", k.entropy = e.entropy
  PROVE  LET r == note_rekey_rejection(k) IN
         Within(e, r.e) /\ r.e.run = k.run /\ r.out = <<>>
BY DEF note_rekey_rejection, Result, EngineFields, Within

\* on_incoming_commit, when there is no run, or none any more.
LEMMA CommitHeeded ==
  ASSUME NEW e, NEW k, DOMAIN k = EngineFields, k.phase = "Established", k.entropy = e.entropy,
         k.run = NoRun, NEW f, NEW emit
  PROVE  LET r == on_incoming_commit(k, f, emit) IN
         Drops(e, r.e, r.out) \/ Replies(e, r.e, r.out)
<1> DEFINE r == on_incoming_commit(k, f, emit)
<1>1. CASE ~ReferencesActive(k, f)
  <2>1. r = note_rekey_rejection(k)
    BY <1>1 DEF on_incoming_commit
  <2>2. Within(e, r.e) /\ r.e.run = NoRun /\ r.out = <<>>
    BY <2>1, RejectIgnores
  <2> HIDE DEF r
  <2>3. r.e.run.step = "None"
    BY <2>2 DEF NoRun
  <2> QED BY <2>2, <2>3 DEF Drops, r
<1>2. CASE ReferencesActive(k, f)
  <2> DEFINE y == [k EXCEPT !.consecutive_rekey_rejections = 0]
             run == Run(y, f.purpose, "Responder", f.previous, f, "Reveal")
  <2>1. r = start_responder_run(y, f, emit)
    BY <1>2 DEF on_incoming_commit
  <2>2. DOMAIN y = EngineFields /\ y.phase = "Established" /\ y.entropy = e.entropy
    BY DEF EngineFields
  <2>3. f.purpose = "Rekey"
    BY <1>2 DEF ReferencesActive
  <2> HIDE DEF r, y
  <2>4. Ran(y, r.e, run) /\ r.out = <<run.local_hello>>
    BY <2>1, <2>2, RunAnswered
  <2>5. r.e.phase = "Established" /\ r.e.entropy = e.entropy + 1 /\ r.e.run = run
    BY <2>2, <2>4 DEF Ran, Keeps
  <2>6. /\ run.step = "Reveal" /\ run.early = NoFrame
        /\ run.local_hello.kind = "HELLO" /\ run.local_hello.purpose = "Rekey"
        /\ run.local_hello.role = "Responder"
    BY <2>3 DEF Run, HelloPayload
  <2> HIDE DEF run
  <2> QED BY <2>4, <2>5, <2>6 DEF Replies, r
<1> QED BY <1>1, <1>2

\* resolve_glare.
LEMMA GlareHeeded ==
  ASSUME NEW e, DOMAIN e = EngineFields, e.phase = "Established", NEW f
  PROVE  LET r == resolve_glare(e, f) IN
         Ignores(e, r.e, r.out) \/ Drops(e, r.e, r.out) \/ Replies(e, r.e, r.out)
<1> DEFINE r == resolve_glare(e, f)
           k == cancel([e EXCEPT !.run = NoRun], {"HandshakeFrame", "HandshakeTotal"})
<1>1. \/ r = note_rekey_rejection(e)
      \/ r = Result(e, <<>>, <<"none">>)
      \/ r = on_incoming_commit(k, f, FALSE)
  BY DEF resolve_glare
<1>2. DOMAIN k = EngineFields /\ k.phase = "Established" /\ k.entropy = e.entropy /\ k.run = NoRun
  BY DEF cancel, EngineFields
<1> HIDE DEF r, k
<1>3. CASE r = note_rekey_rejection(e)
  BY <1>3, RejectIgnores DEF Ignores, r
<1>4. CASE r = Result(e, <<>>, <<"none">>)
  <2>1. r.e = e /\ r.out = <<>>
    BY <1>4 DEF Result
  <2> QED BY <2>1 DEF Ignores, Within, r
<1>5. CASE r = on_incoming_commit(k, f, FALSE)
  BY <1>2, <1>5, CommitHeeded DEF r
<1> QED BY <1>1, <1>3, <1>4, <1>5

\* No run: a COMMIT is answered; what is left of an earlier one passes.
LEMMA RestHeeded ==
  ASSUME NEW e, DOMAIN e = EngineFields, e.phase = "Established", e.run = NoRun,
         NEW f, Suits(e, f), f.kind = "CONFIRM" => Ready(e)
  PROVE  LET r == on_rekey_frame(e, f) IN
         Ignores(e, r.e, r.out) \/ Drops(e, r.e, r.out) \/ Replies(e, r.e, r.out)
<1> DEFINE r == on_rekey_frame(e, f)
           k == [e EXCEPT !.late_rekey_frames = 0]
           l == [e EXCEPT !.late_rekey_frames = @ - 1]
<1>0. f.kind = "CONFIRM" <=> MessageType(f) = "SessionConfirm"
  BY KindOf
<1>1. e.run.step = "None"
  BY DEF NoRun
<1>2. \/ r = on_incoming_commit(k, f, TRUE)
      \/ r = Result(l, <<>>, <<"none">>)
      \/ r = note_rekey_rejection(e)
  BY <1>0, <1>1 DEF on_rekey_frame, Ready
<1>3. /\ DOMAIN k = EngineFields /\ k.phase = "Established" /\ k.entropy = e.entropy /\ k.run = NoRun
      /\ l.phase = "Established" /\ l.entropy = e.entropy /\ l.run = e.run
  BY DEF EngineFields
<1> HIDE DEF r, k, l
<1>4. CASE r = on_incoming_commit(k, f, TRUE)
  BY <1>3, <1>4, CommitHeeded DEF r
<1>5. CASE r = Result(l, <<>>, <<"none">>)
  <2>1. r.e = l /\ r.out = <<>>
    BY <1>5 DEF Result
  <2> QED BY <1>3, <2>1 DEF Ignores, Within, r
<1>6. CASE r = note_rekey_rejection(e)
  BY <1>6, RejectIgnores DEF Ignores, r
<1> QED BY <1>2, <1>4, <1>5, <1>6

\* The own key of a run is the latest.
LEMMA OwnKey ==
  ASSUME NEW e, NEW p, Fit(e, p), e.run.step # "None"
  PROVE  /\ e.entropy > 0 /\ LatestKey(e, e.run.local_hello.ephemeral)
         /\ e.run.step \in {"Hello", "AuthResp", "ConfirmResp"} => e.run.role = "Initiator"
         /\ e.run.step \in {"Reveal", "AuthInit", "ConfirmInit"} => e.run.role = "Responder"
         /\ e.run.step \in {"AuthInit", "ConfirmInit"} =>
               Keys(e)[2] = e.run.local_hello.ephemeral
<1>1. e.run # NoRun /\ e.run.local_hello.ephemeral = <<e.identity, e.entropy - 1>>
  BY RunParts, HelloParts
<1>2. RunSane(e, p.identity)
  BY DEF Fit, Sound
<1>3. LatestKey(e, e.run.local_hello.ephemeral)
  BY <1>1 DEF LatestKey
<1>4. e.run.step \in {"AuthInit", "ConfirmInit"} => e.run.role = "Responder" /\ Binds(e, p.identity)
  BY <1>1, <1>2 DEF RunSane, AskedSteps
<1> QED BY <1>1, <1>2, <1>3, <1>4 DEF RunSane, Binds, Mine, Keys

\* step_Hello.
LEMMA HelloUnveils ==
  ASSUME NEW e, NEW p, Fit(e, p), e.phase = "Established", e.run.step = "Hello", NEW f
  PROVE  LET r == step_Hello(e, f) IN Drops(e, r.e, r.out) \/ Unveils(e, r.e, r.out)
<1> DEFINE r == step_Hello(e, f)
           h == e.run.local_hello
           t == Transcript(h, f)
           a == HandshakePayload(0, t)
<1>1. /\ DOMAIN e = EngineFields /\ DOMAIN e.run = RunFields /\ e.run.purpose = "Rekey"
      /\ h.kind = "HELLO" /\ h.purpose = "Rekey"
  BY RunParts, HelloParts
<1>2. e.entropy > 0 /\ LatestKey(e, h.ephemeral) /\ e.run.role = "Initiator"
  BY OwnKey
<1>3. CASE HelloError(e, f, "Responder") # "none"
  BY <1>1, <1>3, FailDrops DEF step_Hello
<1>4. CASE HelloError(e, f, "Responder") = "none"
  <2>1. r = after_hellos(e, t, <<h>>)
    BY <1>4 DEF step_Hello
  <2>2. /\ SessionKeys(t)[1] = h.ephemeral
        /\ a.kind = "AUTH" /\ a.purpose = h.purpose /\ a.stage = 0 /\ a.transcript = t
    BY DEF SessionKeys, Transcript, HandshakePayload
  <2> HIDE DEF r, h, t, a
  <2>3. Yields(e, r, "AuthResp", t, e.run.early, <<h>> \o <<a>>)
    BY <1>1, <1>2, <2>1, HelloGoesOn DEF a
  <2>4. /\ r.e.phase = "Established" /\ r.e.entropy = e.entropy
        /\ r.e.run.step = "AuthResp" /\ r.e.run.transcript = t /\ r.out = <<h>> \o <<a>>
    BY <2>3 DEF Yields, OnRun, Keeps
  <2>5. Keys(r.e) = SessionKeys(t)
    BY <2>4 DEF Keys
  <2>6. Within(e, r.e) /\ LatestKey(r.e, Keys(r.e)[1]) /\ r.e.entropy > 0
    BY <1>2, <2>2, <2>4, <2>5 DEF Within, LatestKey
  <2>7. Unveils(e, r.e, r.out)
    BY <1>1, <2>2, <2>4, <2>5, <2>6 DEF Unveils
  <2> QED BY <2>7 DEF r
<1> QED BY <1>3, <1>4

\* step_Reveal.
LEMMA RevealLearns ==
  ASSUME NEW e, NEW p, Fit(e, p), e.phase = "Established", e.run.step = "Reveal",
         e.run.early = NoFrame, NEW f
  PROVE  LET r == step_Reveal(e, f) IN Drops(e, r.e, r.out) \/ Learns(e, f, r.e, r.out)
<1> DEFINE r == step_Reveal(e, f)
           t == Transcript(f, e.run.local_hello)
<1>1. DOMAIN e = EngineFields /\ DOMAIN e.run = RunFields /\ e.run.purpose = "Rekey"
  BY RunParts
<1>2. e.run.role = "Responder"
  BY OwnKey
<1>3. CASE HelloError(e, f, "Initiator") # "none" \/ e.run.commit.commitment # f
  BY <1>1, <1>3, FailDrops DEF step_Reveal
<1>4. CASE HelloError(e, f, "Initiator") = "none" /\ e.run.commit.commitment = f
  <2>1. r = after_hellos(e, t, <<>>)
    BY <1>4 DEF step_Reveal
  <2>2. f.kind = "HELLO" /\ f.role = "Initiator" /\ f.purpose = "Rekey"
    BY <1>1, <1>4 DEF HelloError, Decodes
  <2>3. SessionKeys(t)[1] = f.ephemeral /\ t.initiator = f
    BY DEF SessionKeys, Transcript
  <2>4. <<>> \o <<>> = <<>>
    OBVIOUS
  <2> HIDE DEF r, t
  <2>5. Yields(e, r, "AuthInit", t, NoFrame, <<>> \o <<>>)
    BY <1>1, <1>2, <2>1, HelloGoesOn
  <2>6. /\ r.e.phase = "Established" /\ r.e.entropy = e.entropy
        /\ r.e.run.step = "AuthInit" /\ r.e.run.transcript = t /\ r.out = <<>>
    BY <2>4, <2>5 DEF Yields, OnRun, Keeps
  <2>7. Learns(e, f, r.e, r.out)
    BY <2>2, <2>3, <2>6 DEF Learns, Within, Keys
  <2> QED BY <2>7 DEF r
<1> QED BY <1>3, <1>4

\* step_AuthInit.
LEMMA AuthInitSigns ==
  ASSUME NEW e, NEW p, Fit(e, p), e.phase = "Established", e.run.step = "AuthInit",
         e.run.transcript.initiator.purpose = "Rekey", NEW f
  PROVE  LET r == step_AuthInit(e, f) IN Drops(e, r.e, r.out) \/ Signs(e, f, r.e, r.out)
<1> DEFINE r == step_AuthInit(e, f)
           t == e.run.transcript
           a == HandshakePayload(1, t)
<1>1. DOMAIN e = EngineFields /\ DOMAIN e.run = RunFields
  BY RunParts
<1>2. e.entropy > 0 /\ LatestKey(e, Keys(e)[2])
  BY OwnKey
<1>3. CASE ~verify_auth(e, f, 0)
  BY <1>1, <1>3, FailDrops DEF step_AuthInit
<1>4. CASE verify_auth(e, f, 0)
  <2>1. f.kind = "AUTH" /\ f.stage = 0 /\ f.transcript = t
    BY <1>4 DEF verify_auth, Decodes
  <2>2. OnRun(e, r.e, "ConfirmInit", t, e.run.early) /\ r.out = <<a>>
    BY <1>1, <1>4, SignatureAccepted
  <2>3. a.kind = "AUTH" /\ a.purpose = "Rekey" /\ a.stage = 1 /\ a.transcript = t
    BY DEF HandshakePayload
  <2> HIDE DEF r, a
  <2>4. /\ r.e.phase = "Established" /\ r.e.entropy = e.entropy
        /\ r.e.run.step = "ConfirmInit" /\ r.e.run.transcript = t
    BY <2>2 DEF OnRun, Keeps
  <2>5. Signs(e, f, r.e, r.out)
    BY <1>2, <2>1, <2>2, <2>3, <2>4 DEF Signs, Within, Keys
  <2> QED BY <2>5 DEF r
<1> QED BY <1>3, <1>4

\* step_AuthResp.
LEMMA AuthRespVouches ==
  ASSUME NEW e, NEW p, Fit(e, p), e.phase = "Established", e.run.step = "AuthResp", NEW f
  PROVE  LET r == step_AuthResp(e, f) IN Drops(e, r.e, r.out) \/ Vouches(e, f, r.e, r.out)
<1> DEFINE r == step_AuthResp(e, f)
           t == e.run.transcript
<1>1. DOMAIN e = EngineFields /\ DOMAIN e.run = RunFields
  BY RunParts
<1>2. CASE ~verify_auth(e, f, 1)
  BY <1>1, <1>2, FailDrops DEF step_AuthResp
<1>3. CASE verify_auth(e, f, 1)
  <2>1. f.kind = "AUTH" /\ f.stage = 1 /\ f.transcript = t
    BY <1>3 DEF verify_auth, Decodes
  <2>2. /\ OnRun(e, r.e, "ConfirmResp", t, e.run.early)
        /\ r.out = <<SessionConfirmPayload(SessionKeys(t), "Initiator")>>
    BY <1>1, <1>3, SignatureAccepted
  <2> HIDE DEF r
  <2>3. /\ r.e.phase = "Established" /\ r.e.entropy = e.entropy
        /\ r.e.run.step = "ConfirmResp" /\ r.e.run.transcript = t
    BY <2>2 DEF OnRun, Keeps
  <2>4. Vouches(e, f, r.e, r.out)
    BY <2>1, <2>2, <2>3 DEF Vouches, Within, Keys
  <2> QED BY <2>4 DEF r
<1> QED BY <1>2, <1>3

\* step_ConfirmInit and step_ConfirmResp.
LEMMA ConfirmsHeeded ==
  ASSUME NEW e, DOMAIN e = EngineFields, e.phase = "Established", NEW f
  PROVE  /\ e.run.step = "ConfirmResp" =>
               Drops(e, step_ConfirmResp(e, f).e, step_ConfirmResp(e, f).out)
         /\ e.run.step = "ConfirmInit" =>
               LET r == step_ConfirmInit(e, f) IN Drops(e, r.e, r.out) \/ Confirms(e, f, r.e, r.out)
<1>1. ASSUME e.run.step = "ConfirmResp"
      PROVE  Drops(e, step_ConfirmResp(e, f).e, step_ConfirmResp(e, f).out)
  <2>1. CASE ~verify_from(e, f, "Responder")
    BY <2>1, FailDrops DEF step_ConfirmResp
  <2>2. CASE verify_from(e, f, "Responder")
    <3>1. step_ConfirmResp(e, f) = Complete(e, <<>>)
      BY <2>2 DEF step_ConfirmResp
    <3> QED BY <3>1, RekeyOver DEF Drops
  <2> QED BY <2>1, <2>2
<1>2. ASSUME e.run.step = "ConfirmInit"
      PROVE  LET r == step_ConfirmInit(e, f) IN Drops(e, r.e, r.out) \/ Confirms(e, f, r.e, r.out)
  <2>1. CASE ~verify_from(e, f, "Initiator")
    BY <2>1, FailDrops DEF step_ConfirmInit
  <2>2. CASE verify_from(e, f, "Initiator")
    <3> DEFINE c == <<SessionConfirmPayload(SessionKeys(e.run.transcript), "Responder")>>
               r == step_ConfirmInit(e, f)
    <3>1. r = Complete(e, c)
      BY <2>2 DEF step_ConfirmInit
    <3>2. f.kind = "CONFIRM" /\ f.role = "Initiator" /\ f.id = Keys(e)
      BY <2>2 DEF verify_from, Decodes, Keys
    <3> HIDE DEF c, r
    <3>3. Within(e, r.e) /\ r.e.run.step = "None" /\ r.out = c
      BY <3>1, RekeyOver
    <3>4. Confirms(e, f, r.e, r.out)
      BY <1>2, <3>2, <3>3 DEF Confirms, c, Keys
    <3> QED BY <3>4 DEF r
  <2> QED BY <2>1, <2>2
<1> QED BY <1>1, <1>2

\* What an established engine makes of a frame of a rekey.
LEMMA TalkHeeded ==
  ASSUME NEW e, NEW p, Fit(e, p), Grounded(e, p), NEW f, Suits(e, f),
         f.kind = "CONFIRM" => Ready(e)
  PROVE  LET r == on_frame(e, f) IN Heeds(e, f, r.e, r.out)
<1> DEFINE r == on_frame(e, f)
<1>0. DOMAIN e = EngineFields /\ e.phase = "Established"
  BY RunParts DEF Grounded
<1>1. r = on_rekey_frame(e, f)
  BY <1>0, KindOf DEF on_frame
<1>2. CASE e.run = NoRun
  BY <1>0, <1>1, <1>2, RestHeeded DEF Heeds
<1>3. CASE e.run # NoRun
  <2>1. e.run.step \in Steps /\ e.run.step # "None"
    BY <1>3 DEF Fit, EngineOK, HasRun, Steps, AskedSteps
  <2>2. r = resolve_glare(e, f) \/ r = step_run(e, f)
    BY <1>1, <1>3 DEF on_rekey_frame
  <2>3. CASE r = resolve_glare(e, f)
    BY <1>0, <2>3, GlareHeeded DEF Heeds
  <2>4. CASE r = step_run(e, f)
    <3>0. e.run.step \in {"Hello", "Reveal", "Sas", "AuthResp", "AuthInit", "ConfirmResp", "ConfirmInit"}
      BY <2>1 DEF Steps, AskedSteps
    <3>1. CASE e.run.step = "Hello"
      BY <1>0, <2>4, <3>1, StepOfRun, HelloUnveils DEF Heeds
    <3>2. CASE e.run.step = "Reveal"
      BY <1>0, <2>4, <3>2, StepOfRun, RevealLearns DEF Heeds, Grounded
    <3>3. CASE e.run.step = "Sas"
      <4>1. MessageType(f) # "Handshake"
        BY <1>0, KindOf
      <4>2. r = Fail(e, "InvalidStateTransition")
        BY <2>4, <3>3, <4>1, StepOfRun DEF step_Sas
      <4> QED BY <1>0, <4>2, FailDrops DEF Heeds
    <3>4. CASE e.run.step = "AuthResp"
      BY <1>0, <2>4, <3>4, StepOfRun, AuthRespVouches DEF Heeds
    <3>5. CASE e.run.step = "AuthInit"
      BY <1>0, <2>4, <3>5, StepOfRun, AuthInitSigns DEF Heeds, Grounded
    <3>6. CASE e.run.step = "ConfirmResp"
      BY <1>0, <2>4, <3>6, StepOfRun, ConfirmsHeeded DEF Heeds
    <3>7. CASE e.run.step = "ConfirmInit"
      BY <1>0, <2>4, <3>7, StepOfRun, ConfirmsHeeded DEF Heeds
    <3> QED BY <3>0, <3>1, <3>2, <3>3, <3>4, <3>5, <3>6, <3>7
  <2> QED BY <2>2, <2>3, <2>4
<1> QED BY <1>2, <1>3

-----------------------------------------------------------------------------
(* A conversation goes on, whatever happens next.                          *)

\* e has done r: it has left without blame, or the conversation goes on, with v
\* in the channel to it.
Resumes(r, p, v, u) == Departs(r) \/ Converse(r.e, p, v, u \o r.out)

\* What an established engine does of its own accord.
LEMMA LooselyResumes ==
  ASSUME NEW e, NEW p, NEW q, NEW u, Fit(e, p), Loosely(e, p, q, u), IsSequence(q), IsSequence(u),
         NEW v, IsSequence(v), Fewer(q, v), NEW r, Unbidden(e, r)
  PROVE  Resumes(r, p, v, u)
<1>1. e.entropy \in Nat
  BY DEF Fit, Sound
<1> QED BY <1>1, LooselyUnprompted DEF Resumes, Unbidden, Converse

\* What it makes of a frame.
LEMMA LooselyReads ==
  ASSUME NEW e, NEW p, NEW q, NEW u, Fit(e, p), Loosely(e, p, q, u), IsSequence(q), IsSequence(u),
         q # <<>>, Head(q).intact
  PROVE  Resumes(on_frame(e, Head(q)), p, Tail(q), u)
<1> DEFINE f == Head(q)
           r == on_frame(e, f)
<1>1. e.entropy \in Nat /\ EngineOK(e) /\ e.phase = "Established" /\ Grounded(e, p)
  BY DEF Fit, Sound, Loosely, Half, Grounded
<1>2. IsSequence(Tail(q)) /\ Fewer(q, Tail(q))
  BY ChannelsFewer
<1>3. CASE Talk(f)
  <2>1. Saying(e, p, q, u, 1) /\ q[1] = f
    BY <1>3, TalkAtHead DEF Loosely
  <2> HIDE DEF f
  <2>2. Suits(e, f) /\ (f.kind = "CONFIRM" => Ready(e))
    BY <1>1, <2>1 DEF Saying, Suits
  <2>3. Heeds(e, f, r.e, r.out)
    BY <1>1, <2>2, TalkHeeded
  <2> HIDE DEF r
  <2>4. Heeds(e, Head(q), r.e, r.out)
    BY <2>3 DEF f
  <2>5. Loosely(r.e, p, Tail(q), u \o r.out)
    BY <1>1, <1>3, <2>4, LooselyHeeds DEF f
  <2> QED BY <2>5 DEF Resumes, Converse, r, f
<1>4. CASE ~Talk(f)
  <2>1. Unbidden(e, r)
    BY <1>1, <1>4, DataUnbidden, CloseUnbidden DEF Talk
  <2> HIDE DEF r, f
  <2>2. Resumes(r, p, Tail(q), u)
    BY <1>2, <2>1, LooselyResumes
  <2> QED BY <2>2 DEF r, f
<1> QED BY <1>3, <1>4

\* Either end.
LEMMA ConverseTurned ==
  ASSUME NEW e, NEW p, NEW q, NEW u, Converse(e, p, q, u)
  PROVE  Converse(p, e, u, q)
<1>1. Dialogue(e, p, q, u) => Dialogue(p, e, u, q)
  BY DialogueTurned
<1> QED BY <1>1 DEF Converse, Initially, Loosely

\* Effects handed out change nothing.
LEMMA ConverseSettled ==
  ASSUME NEW e, NEW p, NEW q, NEW u, EngineOK(e), Converse(e, p, q, u)
  PROVE  Converse(Settled(e), p, q, u)
<1> DEFINE x == Settled(e)
<1>1. DOMAIN e = EngineFields
  BY DEF EngineOK, Held
<1>2. /\ x.identity = e.identity /\ x.phase = e.phase /\ x.run = e.run /\ x.entropy = e.entropy
      /\ x.active = e.active /\ x.late_rekey_frames = e.late_rekey_frames
  BY <1>1 DEF Settled, EngineFields
<1>3. Steady(e, x)
  BY SettledSteady
<1> HIDE DEF x
<1>4. Dialogue(e, p, q, u) => Dialogue(x, p, q, u)
  BY <1>3, DialogueOn, HushSame
<1>5. /\ Ready(x) <=> Ready(e)
      /\ \A key : (Told(x, key) <=> Told(e, key)) /\ (Attested(x, key) <=> Attested(e, key))
      /\ \A step, id : AtStep(x, step, id) <=> AtStep(e, step, id)
  BY <1>2 DEF Ready, Told, Attested, LatestKey, AtStep
<1>6. /\ Grounded(e, p) => Grounded(x, p)
      /\ Grounded(p, e) => Grounded(p, x)
  BY <1>2, <1>5 DEF Grounded
<1>7. \A k : /\ Saying(e, p, q, u, k) => Saying(x, p, q, u, k)
             /\ Saying(p, e, u, q, k) => Saying(p, x, u, q, k)
  BY <1>5 DEF Saying
<1>8. Loosely(e, p, q, u) => Loosely(x, p, q, u)
  BY <1>6, <1>7 DEF Loosely, Half
<1>9. /\ Settling(e, p, q, u) => Settling(x, p, q, u)
      /\ Settling(p, e, u, q) => Settling(p, x, u, q)
  BY <1>2 DEF Settling
<1>10. Initially(e, p, q, u) => Initially(x, p, q, u)
  BY <1>2, <1>4 DEF Initially
<1> QED BY <1>8, <1>9, <1>10 DEF Converse, x

\* All that an established engine says of its own accord is a COMMIT.
LEMMA UnpromptedSays ==
  ASSUME NEW e, NEW x, NEW out, Unprompted(e, x, out)
  PROVE  /\ IsSequence(out)
         /\ \A j \in 1..Len(out) : Talk(out[j]) => out[j].kind = "COMMIT" /\ out[j].purpose = "Rekey"
<1>1. CASE Mute(out)
  BY <1>1 DEF Mute
<1>2. CASE Asking(out)
  <2>1. PICK g : /\ g.kind = "COMMIT" /\ g.purpose = "Rekey"
                 /\ out = <<g>> \/ \E d : ~Talk(d) /\ out = <<d>> \o <<g>>
    BY <1>2 DEF Asking
  <2>2. CASE out = <<g>>
    <3>1. IsSequence(<<g>>) /\ Len(<<g>>) = 1 /\ <<g>>[1] = g
      BY OneSent
    <3> QED BY <2>1, <2>2, <3>1
  <2>3. ASSUME NEW d, ~Talk(d), out = <<d>> \o <<g>>
        PROVE  /\ IsSequence(out)
               /\ \A j \in 1..Len(out) : Talk(out[j]) => out[j] = g
    <3>1. IsSequence(<<d>>) /\ IsSequence(<<g>>)
      BY OneSent
    <3>2. Len(<<d>>) = 1 /\ Len(<<g>>) = 1 /\ <<d>>[1] = d /\ <<g>>[1] = g
      OBVIOUS
    <3> DEFINE a == <<d>>
               b == <<g>>
    <3> HIDE DEF a, b
    <3>3. /\ IsSequence(a \o b)
          /\ \A i \in 1..Len(a \o b) :
                \/ i \in 1..Len(a) /\ (a \o b)[i] = a[i]
                \/ i - Len(a) \in 1..Len(b) /\ (a \o b)[i] = b[i - Len(a)]
      BY <3>1, ConcatParts DEF a, b
    <3>4. Len(a) = 1 /\ Len(b) = 1 /\ a[1] = d /\ b[1] = g
      BY <3>2 DEF a, b
    <3>5. \A i \in 1..Len(a \o b) : (a \o b)[i] \in {d, g}
      BY <3>3, <3>4
    <3>6. out = a \o b
      BY <2>3 DEF a, b
    <3> QED BY <2>3, <3>3, <3>5, <3>6
  <2> QED BY <2>1, <2>2, <2>3
<1> QED BY <1>1, <1>2 DEF Unprompted, Rests, Quits, Calls

\* The responder has its session, and goes on of its own accord.
LEMMA SettlingSpeaks ==
  ASSUME NEW i, NEW r, NEW qi, NEW qr, Settling(i, r, qi, qr), IsSequence(qi),
         NEW v, Silent(v), NEW x, NEW out, Unprompted(r, x, out)
  PROVE  Settling(i, x, qi \o out, v)
<1>1. x.phase = "Established" /\ x.run.step \in {"None", "Hello"}
  BY DEF Unprompted, Rests, Quits, Calls, Within, Settling
<1> DEFINE w == qi \o out
<1>2. /\ IsSequence(out)
      /\ \A j \in 1..Len(out) : Talk(out[j]) => out[j].kind = "COMMIT" /\ out[j].purpose = "Rekey"
  BY UnpromptedSays
<1>3. /\ Len(qi) \in Nat /\ Len(out) \in Nat /\ Len(w) = Len(qi) + Len(out)
      /\ \A j \in 1..Len(qi) : w[j] = qi[j]
      /\ \A j \in 1..Len(w) :
            \/ j \in 1..Len(qi) /\ w[j] = qi[j]
            \/ j - Len(qi) \in 1..Len(out) /\ w[j] = out[j - Len(qi)]
  BY <1>2, ConcatParts, SequenceParts
<1> HIDE DEF w
<1> DEFINE c == SessionConfirmPayload(SessionKeys(i.run.transcript), "Responder")
<1> HIDE DEF c
<1>4. PICK k \in 1..Len(qi) :
         /\ qi[k] = c
         /\ \A j \in 1..Len(qi) : j < k => qi[j].kind = "CLOSE"
         /\ \A j \in 1..Len(qi) : j > k /\ Talk(qi[j]) => qi[j].kind = "COMMIT" /\ qi[j].purpose = "Rekey"
  BY DEF Settling, c
<1>5. k \in 1..Len(w) /\ w[k] = c
  BY <1>3, <1>4
<1>6. \A j \in 1..Len(w) : j < k => w[j].kind = "CLOSE"
  BY <1>3, <1>4
<1>7. \A j \in 1..Len(w) : j > k /\ Talk(w[j]) => w[j].kind = "COMMIT" /\ w[j].purpose = "Rekey"
  BY <1>2, <1>3, <1>4
<1>8. \E l \in 1..Len(w) :
         /\ w[l] = c
         /\ \A j \in 1..Len(w) : j < l => w[j].kind = "CLOSE"
         /\ \A j \in 1..Len(w) : j > l /\ Talk(w[j]) => w[j].kind = "COMMIT" /\ w[j].purpose = "Rekey"
  BY <1>5, <1>6, <1>7
<1> QED BY <1>1, <1>8 DEF Settling, c, w

\* Nothing comes of an input to a handshake, or it ends without blame.
Lingers(e, r) == Departs(r) \/ (Steady(e, r.e) /\ r.out = <<>>)

\* The initiator waits for the confirmation.
LEMMA SettlingLingers ==
  ASSUME NEW i, NEW r, NEW qi, NEW qr, Settling(i, r, qi, qr), IsSequence(qr),
         NEW s, Lingers(i, s)
  PROVE  Departs(s) \/ Settling(s.e, r, qi, qr \o s.out)
<1>1. Steady(i, s.e) => s.e.run = i.run /\ s.e.phase = i.phase
  BY DEF Steady
<1>2. qr \o <<>> = qr
  <2>1. PICK S : qr \in Seq(S)
    BY DEF IsSequence
  <2> QED BY <2>1
<1> QED BY <1>1, <1>2 DEF Lingers, Settling

\* A CLOSE before it is taken off the channel.
LEMMA SettlingLess ==
  ASSUME NEW i, NEW r, NEW qi, NEW qr, Settling(i, r, qi, qr), IsSequence(qi), qi # <<>>,
         Head(qi).kind = "CLOSE"
  PROVE  Settling(i, r, Tail(qi), qr)
<1> DEFINE w == Tail(qi)
           c == SessionConfirmPayload(SessionKeys(i.run.transcript), "Responder")
<1>0. c.kind = "CONFIRM"
  BY DEF SessionConfirmPayload
<1> HIDE DEF c
<1>1. /\ Len(qi) \in Nat /\ Head(qi) = qi[1] /\ Len(w) = Len(qi) - 1
      /\ \A j \in 1..Len(w) : w[j] = qi[j + 1]
  BY SequenceParts
<1> HIDE DEF w
<1>2. PICK k \in 1..Len(qi) :
         /\ qi[k] = c
         /\ \A j \in 1..Len(qi) : j < k => qi[j].kind = "CLOSE"
         /\ \A j \in 1..Len(qi) : j > k /\ Talk(qi[j]) => qi[j].kind = "COMMIT" /\ qi[j].purpose = "Rekey"
  BY DEF Settling, c
<1>3. k # 1
  BY <1>0, <1>1, <1>2
<1>4. k - 1 \in 1..Len(w) /\ w[k - 1] = c
  BY <1>1, <1>2, <1>3
<1>5. \A j \in 1..Len(w) : j < k - 1 => w[j].kind = "CLOSE"
  BY <1>1, <1>2
<1>6. \A j \in 1..Len(w) : j > k - 1 /\ Talk(w[j]) => w[j].kind = "COMMIT" /\ w[j].purpose = "Rekey"
  BY <1>1, <1>2
<1>7. \E l \in 1..Len(w) :
         /\ w[l] = c
         /\ \A j \in 1..Len(w) : j < l => w[j].kind = "CLOSE"
         /\ \A j \in 1..Len(w) : j > l /\ Talk(w[j]) => w[j].kind = "COMMIT" /\ w[j].purpose = "Rekey"
  BY <1>4, <1>5, <1>6
<1> QED BY <1>7 DEF Settling, c, w

\* The confirmation ends the handshake: both ends are established.
LEMMA SettlingTaken ==
  ASSUME NEW i, NEW r, NEW qi, NEW qr, Fit(i, r), Settling(i, r, qi, qr), IsSequence(qi), qi # <<>>,
         Head(qi).kind # "CLOSE", IsSequence(qr)
  PROVE  LET s == on_frame(i, Head(qi)) IN Loosely(s.e, r, Tail(qi), qr \o s.out)
<1> DEFINE w == Tail(qi)
           c == SessionConfirmPayload(SessionKeys(i.run.transcript), "Responder")
           s == on_frame(i, c)
<1>1. /\ Len(qi) \in Nat /\ Len(qi) > 0 /\ Head(qi) = qi[1] /\ Len(w) = Len(qi) - 1 /\ IsSequence(w)
      /\ \A j \in 1..Len(w) : w[j] = qi[j + 1]
  BY SequenceParts
<1>2. PICK k \in 1..Len(qi) :
         /\ qi[k] = c
         /\ \A j \in 1..Len(qi) : j < k => qi[j].kind = "CLOSE"
         /\ \A j \in 1..Len(qi) : j > k /\ Talk(qi[j]) => qi[j].kind = "COMMIT" /\ qi[j].purpose = "Rekey"
  BY DEF Settling
<1>3. /\ i.phase = "Handshaking" /\ i.run.step = "ConfirmResp"
      /\ r.phase = "Established" /\ r.run.step \in {"None", "Hello"} /\ Silent(qr)
  BY DEF Settling
<1>4. DOMAIN i = EngineFields /\ HasRun(i)
  BY <1>3, RunParts
<1>5. Suits(i, c) /\ c.kind = "CONFIRM" /\ verify_from(i, c, "Responder")
  BY DEF Suits, SessionConfirmPayload, verify_from, Decodes
<1>6. s = Complete(i, <<>>)
  <2>1. s = step_run(i, c)
    BY <1>4, <1>5, FrameOfRun
  <2>2. step_run(i, c) = step_ConfirmResp(i, c)
    BY <1>3, StepOfRun
  <2> QED BY <1>5, <2>1, <2>2 DEF step_ConfirmResp
<1> HIDE DEF w, c, s
<1>7. Promoted(i, s.e) /\ s.out = <<>>
  BY <1>3, <1>4, <1>6, CompleteParts
<1>8. s.e.phase = "Established" /\ s.e.run.step = "None"
  BY <1>7 DEF Promoted, NoRun
<1>9. k = 1 /\ Head(qi) = c
  <2>1. k > 1 => 1 \in 1..Len(qi) /\ qi[1].kind = "CLOSE"
    BY <1>1, <1>2
  <2> QED BY <1>1, <1>2, <2>1 DEF c
<1>10. \A j \in 1..Len(w) : Talk(w[j]) => w[j].kind = "COMMIT" /\ w[j].purpose = "Rekey"
  BY <1>1, <1>2, <1>9
<1>11. Half(s.e, r, w, qr)
  <2>1. \A j \in 1..Len(w) : Talk(w[j]) => Saying(s.e, r, w, qr, j)
    BY <1>10 DEF Saying
  <2>2. Grounded(s.e, r)
    BY <1>8 DEF Grounded
  <2> QED BY <2>1, <2>2 DEF Half
<1>12. Half(r, s.e, qr, w)
  <2>1. Grounded(r, s.e)
    BY <1>3 DEF Grounded
  <2> QED BY <1>3, <2>1 DEF Half, Silent
<1>13. qr \o s.out = qr
  <2>1. PICK S : qr \in Seq(S)
    BY DEF IsSequence
  <2> QED BY <1>7, <2>1
<1> QED BY <1>9, <1>11, <1>12, <1>13 DEF Loosely, w, s

\* A CLOSE in a handshake ends it, or is not for it.
LEMMA CloseLingers ==
  ASSUME NEW e, EngineOK(e), e.phase = "Handshaking", NEW f, f.kind = "CLOSE", f.intact
  PROVE  Lingers(e, on_frame(e, f))
<1>1. on_frame(e, f) = on_close_frame(e, f)
  BY DEF on_frame, MessageType
<1>2. DOMAIN e = EngineFields
  BY DEF EngineOK, Held
<1>3. \/ on_close_frame(e, f) = terminate(e, "PeerUnauthenticated", "none")
      \/ on_close_frame(e, f) = Result(e, <<>>, <<"none">>)
  BY DEF on_close_frame, Decodes
<1>4. Departs(terminate(e, "PeerUnauthenticated", "none"))
  BY <1>2, EndDeparts DEF Blames
<1>5. Result(e, <<>>, <<"none">>).e = e /\ Result(e, <<>>, <<"none">>).out = <<>> /\ Steady(e, e)
  BY DEF Result, Steady
<1> QED BY <1>1, <1>3, <1>4, <1>5 DEF Lingers

\* A message, a request for a rekey and an answer that nobody asked for: nothing comes of
\* them in a handshake.
LEMMA OthersLinger ==
  ASSUME NEW e, EngineOK(e), e.phase = "Handshaking"
  PROVE  /\ \A content : Lingers(e, on_send(e, content))
         /\ Lingers(e, begin_rekey(e))
         /\ \A answer : e.run.step # "Sas" => Lingers(e, on_sas(e, answer))
         /\ e.run.step = "Sas" => Lingers(e, on_sas(e, FALSE))
<1>0. DOMAIN e = EngineFields
  BY DEF EngineOK, Held
<1>1. \A event : Lingers(e, Result(e, <<>>, event))
  BY DEF Result, Lingers, Steady
<1>2. \A content : Lingers(e, on_send(e, content))
  BY <1>1 DEF on_send
<1>3. Lingers(e, begin_rekey(e))
  BY <1>1 DEF begin_rekey
<1>4. \A answer : e.run.step # "Sas" => Lingers(e, on_sas(e, answer))
  BY <1>1 DEF on_sas
<1>5. ASSUME e.run.step = "Sas" PROVE Lingers(e, on_sas(e, FALSE))
  <2> DEFINE k == cancel(e, {"SasDecision"})
  <2>1. on_sas(e, FALSE) = terminate(k, "SasRejected", "AuthenticationFailure")
    BY <1>5 DEF on_sas
  <2>2. DOMAIN k = EngineFields
    BY <1>0, Cancels
  <2> HIDE DEF k
  <2> QED BY <2>1, <2>2, EndDeparts DEF Lingers, Blames
<1> QED BY <1>2, <1>3, <1>4, <1>5

\* A deadline of a handshake ends it.
LEMMA TimeoutLingers ==
  ASSUME NEW e, EngineOK(e), e.phase = "Handshaking",
         NEW kind \in DeadlineKind, kind \in e.deadlines
  PROVE  Lingers(e, on_timeout(e, kind))
<1> DEFINE r == on_timeout(e, kind)
           y == Fired(e, kind)
<1>1. DOMAIN e = EngineFields
  BY DEF EngineOK, Held
<1>2. DOMAIN y = EngineFields
  BY <1>1 DEF Fired, EngineFields
<1>3. CASE kind \in {"HandshakeFrame", "HandshakeTotal"}
  <2>1. r = terminate(y, "Timeout", "ResourceLimit")
    BY <1>3 DEF on_timeout, Fired
  <2> HIDE DEF r, y
  <2> QED BY <1>2, <2>1, EndDeparts DEF Lingers, Blames, r
<1>4. CASE kind = "SasDecision"
  <2>1. r = terminate(y, "Timeout", "AuthenticationFailure")
    BY <1>4 DEF on_timeout, Fired
  <2> HIDE DEF r, y
  <2> QED BY <1>2, <2>1, EndDeparts DEF Lingers, Blames, r
<1>5. CASE kind = "RekeyDue"
  <2> DEFINE k == [y EXCEPT !.rekey_blocked = FALSE, !.late_rekey_frames = 0]
  <2>1. r = begin_rekey(k)
    BY <1>5 DEF on_timeout, Fired
  <2>2. k.phase = "Handshaking" /\ Steady(e, k)
    BY <1>1 DEF Fired, EngineFields, Steady
  <2> HIDE DEF k, r
  <2>3. r = Result(k, <<>>, <<"none">>)
    BY <2>1, <2>2 DEF begin_rekey
  <2>4. r.e = k /\ r.out = <<>>
    BY <2>3 DEF Result
  <2> QED BY <2>2, <2>4 DEF Lingers, r
<1>6. CASE kind = "Drain"
  <2> DEFINE k == [y EXCEPT !.draining = NoSession]
  <2>1. r = Result(k, <<>>, <<"none">>)
    BY <1>6 DEF on_timeout, Fired
  <2>2. Steady(e, k)
    BY <1>1 DEF Fired, EngineFields, Steady
  <2> HIDE DEF k, r
  <2>3. r.e = k /\ r.out = <<>>
    BY <2>1 DEF Result
  <2> QED BY <2>2, <2>3 DEF Lingers, r
<1> QED BY <1>3, <1>4, <1>5, <1>6 DEF DeadlineKind

\* A handshake that goes on, or that the responder has brought to its end.
LEMMA HandshakeGoes ==
  ASSUME NEW e, NEW p, NEW v, NEW w, Dialogue(e, p, v, w), NoData(v), NoData(w),
         p.phase \in {"Idle", "Handshaking"},
         \/ e.phase \in {"Idle", "Handshaking"}
         \/ e.phase = "Established" /\ e.run = NoRun
  PROVE  Converse(e, p, v, w)
<1>1. CASE e.phase \in {"Idle", "Handshaking"}
  BY <1>1 DEF Converse, Initially
<1>2. CASE e.phase = "Established" /\ e.run = NoRun
  <2>1. e.run.step = "None"
    BY <1>2 DEF NoRun
  <2>2. Finishing(p, e, w, v) /\ p.phase = "Handshaking"
    BY <1>2, <2>1 DEF Dialogue, Talks, Unopened, Calling, Resting, Crossing, Answered, Revealed,
                      Signing, Vouching, Finishing, Level, Met, Footing
  <2> DEFINE c == SessionConfirmPayload(SessionKeys(p.run.transcript), "Responder")
  <2>3. Says(w, c)
    BY <2>1, <2>2 DEF Finishing
  <2> HIDE DEF c
  <2>4. PICK k \in 1..Len(w) : w[k] = c /\ \A j \in 1..Len(w) : Talk(w[j]) <=> j = k
    BY <2>3 DEF Says
  <2>5. \A j \in 1..Len(w) : j < k => w[j].kind = "CLOSE"
    BY <2>4 DEF NoData, Talk
  <2>6. \A j \in 1..Len(w) : j > k /\ Talk(w[j]) => w[j].kind = "COMMIT" /\ w[j].purpose = "Rekey"
    BY <2>4
  <2>7. \E l \in 1..Len(w) :
           /\ w[l] = c
           /\ \A j \in 1..Len(w) : j < l => w[j].kind = "CLOSE"
           /\ \A j \in 1..Len(w) : j > l /\ Talk(w[j]) => w[j].kind = "COMMIT" /\ w[j].purpose = "Rekey"
    BY <2>4, <2>5, <2>6
  <2>8. Settling(p, e, w, v)
    BY <1>2, <2>1, <2>2, <2>7 DEF Settling, Finishing, c
  <2> QED BY <2>8 DEF Converse
<1> QED BY <1>1, <1>2

\* Nothing but DATA is added to a channel without it.
LEMMA NoDataMore ==
  ASSUME NEW u, NEW out, IsSequence(u), NoData(u), NEW x, Writes(x, out)
  PROVE  NoData(u \o out)
<1> DEFINE w == u \o out
<1>1. IsSequence(out) /\ \A j \in 1..Len(out) : out[j].kind # "DATA"
  BY DEF Writes
<1>2. \A j \in 1..Len(w) :
            \/ j \in 1..Len(u) /\ w[j] = u[j]
            \/ j - Len(u) \in 1..Len(out) /\ w[j] = out[j - Len(u)]
  BY <1>1, ConcatParts
<1> HIDE DEF w
<1>3. NoData(w)
  BY <1>1, <1>2 DEF NoData
<1> QED BY <1>3 DEF w

\* Nor is any in what is left of it.
LEMMA NoDataLess ==
  ASSUME NEW q, IsSequence(q), q # <<>>, NoData(q)
  PROVE  NoData(Tail(q)) /\ Head(q).kind # "DATA"
BY SequenceParts DEF NoData

\* What an engine that is not established makes of an input leaves it between runs if it
\* establishes it.
LEMMA EstablishedRests ==
  ASSUME NEW e, e.phase \in {"Idle", "Handshaking"}, NEW r, Handled(e, r), r.e.phase # "Closed"
  PROVE  \/ r.e.phase \in {"Idle", "Handshaking"}
         \/ r.e.phase = "Established" /\ r.e.run = NoRun
<1>1. r.e.phase \in {"Idle", "Handshaking", "Established"} /\ Legal(e, r)
  BY DEF Handled, EngineOK
<1>2. StageOf(e) \in {"Opened", "Asked"} /\ (r.e.phase = "Established" => StageOf(r.e) = "Established")
  BY DEF StageOf
<1>3. CASE r.e.phase = "Established"
  <2>1. ~Same(e, r.e) /\ StageOf(e) # "Established"
    BY <1>2, <1>3 DEF Same
  <2>2. ~UnderWay(r.e)
    BY <1>1, <1>2, <1>3, <2>1 DEF Legal, Moves
  <2> QED BY <1>3, <2>2 DEF UnderWay
<1> QED BY <1>1, <1>3

\* The handshake goes on by its words.
LEMMA HandshakeResumes ==
  ASSUME NEW e, NEW p, NEW q, NEW u, Initially(e, p, q, u), IsSequence(u),
         NEW r, Handled(e, r), NEW v, NoData(v), Dialogue(r.e, p, v, u \o r.out),
         Writes(r.e, r.out)
  PROVE  Resumes(r, p, v, u)
<1>1. r.e.phase # "Closed"
  BY NobodyClosed DEF Handled
<1>2. /\ e.phase \in {"Idle", "Handshaking"} /\ p.phase \in {"Idle", "Handshaking"} /\ NoData(u)
  BY DEF Initially
<1>3. NoData(u \o r.out)
  BY <1>2, NoDataMore
<1>4. \/ r.e.phase \in {"Idle", "Handshaking"}
      \/ r.e.phase = "Established" /\ r.e.run = NoRun
  BY <1>1, <1>2, EstablishedRests
<1> QED BY <1>2, <1>3, <1>4, HandshakeGoes DEF Resumes

\* Nothing comes of an input.
LEMMA HandshakeLingers ==
  ASSUME NEW e, NEW p, NEW q, NEW u, Initially(e, p, q, u), IsSequence(u), NEW r, Lingers(e, r),
         NEW v, Hushed(q, v), NoData(v)
  PROVE  Resumes(r, p, v, u)
<1>1. CASE Departs(r)
  BY <1>1 DEF Resumes
<1>2. CASE Steady(e, r.e) /\ r.out = <<>>
  <2>1. u \o r.out = u
    <3>1. PICK S : u \in Seq(S)
      BY DEF IsSequence
    <3>2. u \o <<>> = u
      BY <3>1
    <3> QED BY <1>2, <3>2
  <2>2. Dialogue(r.e, p, v, u)
    BY <1>2, DialogueOn, HushSame DEF Initially
  <2>3. Initially(r.e, p, v, u)
    BY <1>2, <2>2 DEF Initially, Steady
  <2> QED BY <2>1, <2>3 DEF Resumes, Converse
<1> QED BY <1>1, <1>2 DEF Lingers

\* e acts, or is disturbed, without being told anything.
LEMMA ConverseActs ==
  ASSUME NEW e, NEW p, NEW q, NEW u, Fit(e, p), Converse(e, p, q, u), IsSequence(q), IsSequence(u),
         NEW r, e.phase = "Established" => Unbidden(e, r), e.phase = "Handshaking" => Lingers(e, r),
         e.phase # "Idle"
  PROVE  Resumes(r, p, q, u)
<1>1. CASE Initially(e, p, q, u)
  <2>1. e.phase = "Handshaking" /\ NoData(q)
    BY <1>1 DEF Initially
  <2> QED BY <1>1, <2>1, HushSame, HandshakeLingers
<1>2. CASE Settling(e, p, q, u)
  <2>1. Lingers(e, r)
    BY <1>2 DEF Settling
  <2> QED BY <1>2, <2>1, SettlingLingers DEF Resumes, Converse
<1>3. CASE Settling(p, e, u, q)
  <2>1. Unbidden(e, r) /\ Silent(q)
    BY <1>3 DEF Settling
  <2> QED BY <1>3, <2>1, SettlingSpeaks DEF Resumes, Converse, Unbidden
<1>4. CASE Loosely(e, p, q, u)
  <2>1. Unbidden(e, r)
    BY <1>4 DEF Loosely, Half, Grounded
  <2>2. Fewer(q, q)
    BY ChannelsFewer
  <2> QED BY <1>4, <2>1, <2>2, LooselyResumes
<1> QED BY <1>1, <1>2, <1>3, <1>4 DEF Converse

\* e reads the next frame.
LEMMA ConverseReads ==
  ASSUME NEW e, NEW p, NEW q, NEW u, Fit(e, p), Fit(p, e), Converse(e, p, q, u),
         IsSequence(q), IsSequence(u), e.identity \in Nat, p.identity \in Nat,
         e.phase # "Idle", q # <<>>, Head(q).intact, Reveals(Head(q), p.identity)
  PROVE  Resumes(on_frame(e, Head(q)), p, Tail(q), u)
<1> DEFINE f == Head(q)
           r == on_frame(e, f)
<1>0. EngineOK(e) /\ Sound(e, p.identity)
  BY DEF Fit
<1>1. CASE Initially(e, p, q, u)
  <2>1. e.phase = "Handshaking" /\ Dialogue(e, p, q, u) /\ NoData(q)
    BY <1>1 DEF Initially
  <2>2. NoData(Tail(q)) /\ f.kind # "DATA"
    BY <2>1, NoDataLess
  <2>3. CASE Talk(f)
    <3>1. Dialogue(r.e, p, Tail(q), u \o r.out)
      BY <2>1, <2>3, HearsTalk
    <3>2. Handled(e, r)
      BY <1>0, Frame
    <3>3. Writes(r.e, r.out)
      <4>1. Plays(e, p.identity, f, r.e, r.out)
        BY <1>0, <2>1, PlaysFrame
      <4> QED BY <4>1 DEF Plays
    <3> HIDE DEF f, r
    <3>4. Resumes(r, p, Tail(q), u)
      BY <1>1, <2>2, <3>1, <3>2, <3>3, HandshakeResumes
    <3> QED BY <3>4 DEF r, f
  <2>4. CASE ~Talk(f)
    <3>1. f.kind = "CLOSE"
      BY <2>2, <2>4 DEF Talk
    <3>2. Lingers(e, r)
      BY <1>0, <2>1, <3>1, CloseLingers
    <3>3. Hushed(q, Tail(q))
      BY <2>4, HushTail
    <3> HIDE DEF f, r
    <3>4. Resumes(r, p, Tail(q), u)
      BY <1>1, <2>2, <3>2, <3>3, HandshakeLingers
    <3> QED BY <3>4 DEF r, f
  <2> QED BY <2>3, <2>4
<1>2. CASE Settling(e, p, q, u)
  <2>1. CASE f.kind = "CLOSE"
    <3>1. Lingers(e, r)
      BY <1>0, <1>2, <2>1, CloseLingers DEF Settling
    <3>2. Settling(e, p, Tail(q), u)
      BY <1>2, <2>1, SettlingLess
    <3> HIDE DEF f, r
    <3>3. Resumes(r, p, Tail(q), u)
      BY <3>1, <3>2, SettlingLingers DEF Resumes, Converse
    <3> QED BY <3>3 DEF r, f
  <2>2. CASE f.kind # "CLOSE"
    BY <1>2, <2>2, SettlingTaken DEF Resumes, Converse
  <2> QED BY <2>1, <2>2
<1>3. CASE Settling(p, e, u, q)
  <2>1. e.phase = "Established" /\ Silent(q)
    BY <1>3 DEF Settling
  <2>2. ~Talk(f) /\ Silent(Tail(q))
    BY <2>1, SequenceParts DEF Silent
  <2>3. Unbidden(e, r)
    BY <1>0, <2>1, <2>2, DataUnbidden, CloseUnbidden DEF Talk
  <2> HIDE DEF f, r
  <2>4. Resumes(r, p, Tail(q), u)
    BY <1>3, <2>2, <2>3, SettlingSpeaks DEF Resumes, Converse, Unbidden
  <2> QED BY <2>4 DEF r, f
<1>4. CASE Loosely(e, p, q, u)
  BY <1>4, LooselyReads
<1> QED BY <1>1, <1>2, <1>3, <1>4 DEF Converse

\* The user answers.
LEMMA ConverseAnswers ==
  ASSUME NEW e, NEW p, NEW q, NEW u, Fit(e, p), Fit(p, e), Converse(e, p, q, u),
         IsSequence(q), IsSequence(u), e.phase # "Idle", NEW answer \in BOOLEAN
  PROVE  Resumes(on_sas(e, answer), p, q, u)
<1> DEFINE r == on_sas(e, answer)
<1>0. EngineOK(e) /\ Sound(e, p.identity)
  BY DEF Fit
<1>1. CASE e.phase = "Handshaking" /\ e.run.step = "Sas" /\ answer = TRUE
  <2>1. Initially(e, p, q, u)
    BY <1>1 DEF Converse, Settling, Loosely, Half, Grounded
  <2>2. Dialogue(e, p, q, u) /\ NoData(q)
    BY <2>1 DEF Initially
  <2>3. Dialogue(r.e, p, q, u \o r.out)
    <3>1. CASE Talks(e, p, q, u)
      <4>1. Talks(r.e, p, q, u \o r.out) /\ r.e.rekey_blocked = e.rekey_blocked
        BY <1>1, <3>1, ApprovedByI
      <4> HIDE DEF r
      <4> QED BY <2>2, <4>1 DEF Dialogue, r
    <3>2. CASE Talks(p, e, u, q)
      <4>1. Talks(p, r.e, u \o r.out, q) /\ r.e.rekey_blocked = e.rekey_blocked
        BY <1>1, <3>2, ApprovedByR
      <4> HIDE DEF r
      <4> QED BY <2>2, <4>1 DEF Dialogue, r
    <3> QED BY <2>2, <3>1, <3>2 DEF Dialogue
  <2>4. Handled(e, r)
    BY <1>0, Answers
  <2>5. Writes(r.e, r.out)
    BY <1>0, PlaysAnswer DEF Plays
  <2> HIDE DEF r
  <2>6. Resumes(r, p, q, u)
    BY <2>1, <2>2, <2>3, <2>4, <2>5, HandshakeResumes
  <2> QED BY <2>6 DEF r
<1>2. CASE ~(e.phase = "Handshaking" /\ e.run.step = "Sas" /\ answer = TRUE)
  <2>1. e.phase = "Established" => Unbidden(e, r)
    BY <1>0, OthersUnbidden
  <2>2. e.phase = "Handshaking" => Lingers(e, r)
    <3>1. e.phase = "Handshaking" /\ e.run.step = "Sas" => answer = FALSE
      BY <1>2
    <3> QED BY <1>0, <3>1, OthersLinger
  <2> HIDE DEF r
  <2>3. Resumes(r, p, q, u)
    BY <2>1, <2>2, ConverseActs
  <2> QED BY <2>3 DEF r
<1> QED BY <1>1, <1>2

\* The task starts the engine.
LEMMA ConverseStarts ==
  ASSUME NEW e, NEW p, NEW q, NEW u, Fit(e, p), Fit(p, e), Converse(e, p, q, u),
         IsSequence(q), IsSequence(u), e.phase = "Idle"
  PROVE  Resumes(start(e), p, q, u)
<1> DEFINE r == start(e)
<1>0. EngineOK(e) /\ Sound(e, p.identity) /\ e.run = NoRun
  BY DEF Fit, EngineOK
<1>1. Initially(e, p, q, u)
  BY DEF Converse, Settling, Loosely, Half, Grounded
<1>2. Dialogue(e, p, q, u) /\ NoData(q)
  BY <1>1 DEF Initially
<1>3. Dialogue(r.e, p, q, u \o r.out)
  BY <1>2, StartContinues
<1>4. Handled(e, r)
  BY <1>0, Starts
<1>5. Writes(r.e, r.out)
  <2>1. NoInput.kind # "CONFIRM"
    BY DEF NoInput, NoFrame
  <2>2. Plays(e, p.identity, NoInput, r.e, r.out)
    BY <1>0, <2>1, PlaysStart
  <2> QED BY <2>2 DEF Plays
<1> HIDE DEF r
<1>6. Resumes(r, p, q, u)
  BY <1>1, <1>2, <1>3, <1>4, <1>5, HandshakeResumes
<1> QED BY <1>6 DEF r

-----------------------------------------------------------------------------
(* What a step of either end sends, and how far its counters come.         *)

\* No session of e has numbered more than k messages.
Tallies(e, k) == \A s \in SessionSet(e) : s.counter \in 0..k

Intact(q) == \A i \in 1..Len(q) : q[i].intact

\* e has done r: it says nothing broken, sends DATA in a session only, ends when
\* it says so, and has numbered d messages at most.
Neat(e, r, d) ==
    /\ EngineOK(r.e) /\ IsSequence(r.out) /\ r.e.identity = e.identity
    /\ Intact(r.out)
    /\ e.phase # "Established" => NoData(r.out)
    /\ r.event[1] = "Closed" => r.e.phase = "Closed"
    /\ \A k \in Nat : Tallies(e, k) => Tallies(r.e, k + d)

\* A session that is made counts from 0.
LEMMA PlaysCounts ==
  ASSUME NEW e, NEW i, NEW f, NEW x, NEW out, Plays(e, i, f, x, out),
         NEW k \in Nat, Tallies(e, k)
  PROVE  Tallies(x, k)
<1> SUFFICES ASSUME NEW s \in SessionSet(x) PROVE s.counter \in 0..k
  BY DEF Tallies
<1>1. s \in SessionSet(e) \/ s.counter = 0
  BY DEF Plays, Promotes
<1> QED BY <1>1 DEF Tallies

\* What does not seal.
LEMMA NeatPlays ==
  ASSUME NEW e, NEW h, NEW r, Handled(h, r), NEW b, b.identity = e.identity,
         \A k \in Nat : Tallies(e, k) => Tallies(b, k),
         NEW i, NEW f, Plays(b, i, f, r.e, r.out)
  PROVE  Neat(e, r, 0)
<1>1. EngineOK(r.e) /\ IsSequence(r.out) /\ r.e.identity = e.identity
  BY DEF Handled, Plays
<1>2. Intact(r.out) /\ NoData(r.out)
  BY DEF Plays, Writes, Intact, NoData
<1>3. r.event[1] = "Closed" => r.e.phase = "Closed"
  BY DEF Handled, Legal
<1>4. ASSUME NEW k \in Nat, Tallies(e, k) PROVE Tallies(r.e, k + 0)
  <2>1. Tallies(r.e, k) /\ k + 0 = k
    BY <1>4, PlaysCounts
  <2> QED BY <2>1
<1> QED BY <1>1, <1>2, <1>3, <1>4 DEF Neat

\* Effects handed out count nothing.
LEMMA SettledCounts ==
  ASSUME NEW e, EngineOK(e), NEW k, Tallies(e, k)
  PROVE  Tallies(Settled(e), k)
<1>1. Settled(e).active = e.active /\ Settled(e).draining = e.draining
  BY DEF Settled, EngineOK, Held, EngineFields
<1> QED BY <1>1 DEF Tallies, SessionSet

\* Decrypting counts nothing sent.
LEMMA OpenedCounts ==
  ASSUME NEW e, EngineOK(e), e.phase = "Established", NEW f, NEW k, Tallies(e, k)
  PROVE  Tallies(Opened(e, f), k) /\ Opened(e, f).identity = e.identity
<1> DEFINE x == Opened(e, f)
<1>1. DOMAIN e = EngineFields /\ DOMAIN e.active = SessionFields
      /\ (e.draining = NoSession \/ DOMAIN e.draining = SessionFields)
  BY DEF EngineOK, Held
<1>2. /\ x.identity = e.identity
      /\ x.active = decrypt(e.active, f)
      /\ x.draining \in {e.draining, decrypt(e.draining, f)}
      /\ e.draining = NoSession => x.draining = NoSession
  BY <1>1 DEF Opened, EngineFields
<1>3. \A s : DOMAIN s = SessionFields => decrypt(s, f).counter = s.counter
  BY DEF decrypt, SessionFields
<1>4. \A s : DOMAIN s = SessionFields => s # NoSession
  BY DEF SessionFields, NoSession
<1>5. e.active \in SessionSet(e)
  BY <1>1, <1>4 DEF SessionSet
<1>6. x.active.counter \in 0..k
  BY <1>1, <1>2, <1>3, <1>5 DEF Tallies
<1>7. x.draining = NoSession \/ x.draining.counter \in 0..k
  <2>1. CASE e.draining = NoSession
    BY <1>2, <2>1
  <2>2. CASE e.draining # NoSession
    <3>1. e.draining \in SessionSet(e)
      BY <2>2 DEF SessionSet
    <3> QED BY <1>1, <1>2, <1>3, <2>2, <3>1 DEF Tallies
  <2> QED BY <2>1, <2>2
<1> HIDE DEF x
<1>8. Tallies(x, k)
  BY <1>6, <1>7 DEF Tallies, SessionSet
<1> QED BY <1>2, <1>8 DEF x

\* Sealing one counts one.
LEMMA SealedCounts ==
  ASSUME NEW e, EngineOK(e), e.phase = "Established", NEW k \in Nat, Tallies(e, k)
  PROVE  Tallies(Sealed(e), k + 1) /\ Sealed(e).identity = e.identity
<1> DEFINE x == Sealed(e)
<1>1. DOMAIN e = EngineFields /\ DOMAIN e.active = SessionFields
  BY DEF EngineOK, Held
<1>2. /\ x.identity = e.identity /\ x.draining = e.draining
      /\ x.active.counter = e.active.counter + 1
  BY <1>1 DEF Sealed, EngineFields, SessionFields
<1>3. e.active \in SessionSet(e)
  <2>1. e.active # NoSession
    BY <1>1 DEF SessionFields, NoSession
  <2> QED BY <2>1 DEF SessionSet
<1>4. e.active.counter \in 0..k
  BY <1>3 DEF Tallies
<1> HIDE DEF x
<1>5. x.active.counter \in 0..(k + 1)
  BY <1>2, <1>4
<1>6. x.draining # NoSession => x.draining.counter \in 0..(k + 1)
  <2>1. x.draining # NoSession => x.draining \in SessionSet(e)
    BY <1>2 DEF SessionSet
  <2>2. x.draining # NoSession => x.draining.counter \in 0..k
    BY <2>1 DEF Tallies
  <2> QED BY <2>2
<1>7. Tallies(x, k + 1)
  BY <1>5, <1>6 DEF Tallies, SessionSet
<1> QED BY <1>2, <1>7 DEF x

\* on_frame.
LEMMA FrameNeat ==
  ASSUME NEW e, NEW i, Sound(e, i), EngineOK(e), NEW f, Reveals(f, i)
  PROVE  Neat(e, on_frame(e, f), 0)
<1> DEFINE r == on_frame(e, f)
<1>1. Handled(e, r)
  BY Frame
<1> HIDE DEF r
<1>2. CASE e.phase = "Established" /\ f.kind = "DATA"
  <2>1. r = on_data(e, f)
    BY <1>2 DEF on_frame, MessageType, r
  <2>2. Plays(Opened(e, f), i, NoInput, r.e, r.out)
    BY <1>2, <2>1, PlaysData
  <2>3. /\ Opened(e, f).identity = e.identity
        /\ \A k \in Nat : Tallies(e, k) => Tallies(Opened(e, f), k)
    <3>1. Opened(e, f).identity = e.identity
      BY DEF Opened, EngineOK, Held, EngineFields
    <3> QED BY <1>2, <3>1, OpenedCounts
  <2> QED BY <1>1, <2>2, <2>3, NeatPlays DEF r
<1>3. CASE ~(e.phase = "Established" /\ f.kind = "DATA")
  <2>1. Plays(e, i, f, r.e, r.out)
    BY <1>3, PlaysFrame DEF r
  <2> QED BY <1>1, <2>1, NeatPlays DEF r
<1> QED BY <1>2, <1>3

\* What the user, the timers and the driver make an engine do, other than send.
LEMMA OthersNeat ==
  ASSUME NEW e, NEW i, Sound(e, i), EngineOK(e)
  PROVE  /\ e.run = NoRun => Neat(e, start(e), 0)
         /\ \A answer \in BOOLEAN : Neat(e, on_sas(e, answer), 0)
         /\ Neat(e, begin_rekey(e), 0)
         /\ \A kind \in DeadlineKind : kind \in e.deadlines => Neat(e, on_timeout(e, kind), 0)
         /\ Neat(e, local_close(e), 0) /\ Neat(e, transport_closed(e), 0)
         /\ \A respond : Neat(e, malformed(e, respond), 0)
<1>1. NoInput.kind # "CONFIRM"
  BY DEF NoInput, NoFrame
<1>2. ASSUME e.run = NoRun PROVE Neat(e, start(e), 0)
  <2>1. Handled(e, start(e)) /\ Plays(e, i, NoInput, start(e).e, start(e).out)
    BY <1>1, <1>2, Starts, PlaysStart
  <2> QED BY <2>1, NeatPlays
<1>3. ASSUME NEW answer \in BOOLEAN PROVE Neat(e, on_sas(e, answer), 0)
  <2> DEFINE r == on_sas(e, answer)
  <2>1. Handled(e, r) /\ \E f : Plays(e, i, f, r.e, r.out)
    BY Answers, PlaysAnswer
  <2> HIDE DEF r
  <2>2. Neat(e, r, 0)
    BY <2>1, NeatPlays
  <2> QED BY <2>2 DEF r
<1>4. Neat(e, begin_rekey(e), 0)
  <2> DEFINE r == begin_rekey(e)
  <2>1. Handled(e, r) /\ Plays(e, i, NoInput, r.e, r.out)
    BY <1>1, Begins, PlaysBegin
  <2> HIDE DEF r
  <2>2. Neat(e, r, 0)
    BY <2>1, NeatPlays
  <2> QED BY <2>2 DEF r
<1>5. ASSUME NEW kind \in DeadlineKind, kind \in e.deadlines PROVE Neat(e, on_timeout(e, kind), 0)
  <2> DEFINE r == on_timeout(e, kind)
  <2>1. Handled(Fired(e, kind), r) /\ Plays(e, i, NoInput, r.e, r.out)
    BY <1>1, <1>5, Fires, PlaysTimeout
  <2> HIDE DEF r
  <2>2. Neat(e, r, 0)
    BY <2>1, NeatPlays
  <2> QED BY <2>2 DEF r
<1>6. /\ Neat(e, local_close(e), 0) /\ Neat(e, transport_closed(e), 0)
      /\ \A respond : Neat(e, malformed(e, respond), 0)
  <2>1. \A why, notify : Plays(e, i, NoInput, terminate(e, why, notify).e, terminate(e, why, notify).out)
    BY PlaysEnd
  <2>2. ASSUME NEW r, Handled(e, r), \E why, notify : r = terminate(e, why, notify)
        PROVE  Neat(e, r, 0)
    BY <2>1, <2>2, NeatPlays
  <2>3. \A respond : Handled(e, local_close(e)) /\ Handled(e, transport_closed(e)) /\ Handled(e, malformed(e, respond))
    BY Ends
  <2>4. /\ \E why, notify : local_close(e) = terminate(e, why, notify)
        /\ \E why, notify : transport_closed(e) = terminate(e, why, notify)
        /\ \A respond : \E why, notify : malformed(e, respond) = terminate(e, why, notify)
    BY DEF local_close, transport_closed, malformed
  <2> QED BY <2>2, <2>3, <2>4
<1> QED BY <1>2, <1>3, <1>4, <1>5, <1>6

\* A frame and what follows it.
LEMMA IntactBehind ==
  ASSUME NEW d, d.intact, NEW out, IsSequence(out), \A j \in 1..Len(out) : out[j].intact
  PROVE  Intact(<<d>> \o out)
<1>1. IsSequence(<<d>>) /\ Len(<<d>>) = 1 /\ <<d>>[1] = d
  BY OneSent
<1>2. \A j \in 1..Len(<<d>> \o out) :
         \/ j \in 1..Len(<<d>>) /\ (<<d>> \o out)[j] = <<d>>[j]
         \/ j - Len(<<d>>) \in 1..Len(out) /\ (<<d>> \o out)[j] = out[j - Len(<<d>>)]
  BY <1>1, ConcatParts
<1> QED BY <1>1, <1>2 DEF Intact

\* on_send: turned down, nothing changes.
LEMMA SendNeat ==
  ASSUME NEW e, NEW i, Sound(e, i), EngineOK(e), NEW content,
         e.phase = "Established" => ~(e.active.counter >= COUNTER_MAX)
  PROVE  LET r == on_send(e, content) IN
         IF r.event[1] = "SendRejected" THEN Neat(e, r, 0) ELSE Neat(e, r, 1)
<1> DEFINE r == on_send(e, content)
           d == DataPayload(e.active.id, e.active.role, e.active.counter, content)
<1>1. Handled(e, r)
  BY Sends
<1>2. /\ \/ Plays(e, i, NoInput, r.e, r.out)
         \/ /\ e.phase = "Established"
            /\ \E more : r.out = <<d>> \o more /\ Plays(Sealed(e), i, NoInput, r.e, more)
  BY PlaysSend
<1>3. r.event[1] = "SendRejected" => r.e = e /\ r.out = <<>>
  <2>1. \/ r.e = e /\ r.out = <<>>
        \/ content # TooLarge /\ e.phase = "Established"
    BY DEF on_send, Result
  <2>2. content # TooLarge /\ e.phase = "Established" => r.event[1] # "SendRejected"
    <3> SUFFICES ASSUME content # TooLarge, e.phase = "Established"
                 PROVE  r.event[1] # "SendRejected"
      OBVIOUS
    <3> DEFINE k == Counted([e EXCEPT !.active.counter = @ + 1])
    <3>1. r = maybe_trigger_rekey(k, <<d>>)
      BY DEF on_send
    <3> HIDE DEF k, d, r
    <3>2. r.event \in {<<"none">>, begin_rekey(k).event}
      <4> DEFINE z == IF k.messages >= REKEY_MESSAGE_LIMIT /\ ~k.rekey_blocked
                      THEN begin_rekey(k) ELSE Result(k, <<>>, <<"none">>)
      <4>1. r = [z EXCEPT !.out = <<d>> \o @]
        BY <3>1 DEF maybe_trigger_rekey
      <4>2. r.event = z.event
        BY <4>1
      <4>3. z.event \in {<<"none">>, begin_rekey(k).event}
        BY DEF Result
      <4> QED BY <4>2, <4>3
    <3>3. begin_rekey(k).event[1] # "SendRejected"
      BY DEF begin_rekey, start_initiator_run, Result
    <3> QED BY <3>2, <3>3
  <2> QED BY <2>1, <2>2
<1> HIDE DEF r, d
<1>4. ASSUME r.event[1] = "SendRejected" PROVE Neat(e, r, 0)
  <2>1. Plays(e, i, NoInput, r.e, r.out)
    BY <1>3, <1>4, PlaysNothing DEF NoInput, NoFrame
  <2> QED BY <1>1, <2>1, NeatPlays
<1>5. ASSUME Plays(e, i, NoInput, r.e, r.out) PROVE Neat(e, r, 1)
  <2>1. Neat(e, r, 0)
    BY <1>1, <1>5, NeatPlays
  <2>2. ASSUME NEW k \in Nat, Tallies(e, k) PROVE Tallies(r.e, k + 1)
    <3>1. Tallies(r.e, k)
      BY <1>5, <2>2, PlaysCounts
    <3> QED BY <3>1 DEF Tallies
  <2> QED BY <2>1, <2>2 DEF Neat
<1>6. ASSUME e.phase = "Established", NEW more, r.out = <<d>> \o more,
             Plays(Sealed(e), i, NoInput, r.e, more)
      PROVE  Neat(e, r, 1)
  <2>1. EngineOK(r.e) /\ IsSequence(r.out) /\ r.e.identity = e.identity
    <3>1. Sealed(e).identity = e.identity
      BY DEF Sealed, EngineOK, Held, EngineFields
    <3> QED BY <1>1, <1>6, <3>1 DEF Handled, Plays
  <2>2. Intact(r.out)
    <3>1. IsSequence(more) /\ \A j \in 1..Len(more) : more[j].intact
      BY <1>6 DEF Plays, Writes
    <3>2. d.intact
      BY DEF DataPayload, d
    <3> QED BY <1>6, <3>1, <3>2, IntactBehind
  <2>3. r.event[1] = "Closed" => r.e.phase = "Closed"
    BY <1>1 DEF Handled, Legal
  <2>4. ASSUME NEW k \in Nat, Tallies(e, k) PROVE Tallies(r.e, k + 1)
    <3>1. Tallies(Sealed(e), k + 1) /\ k + 1 \in Nat
      BY <1>6, <2>4, SealedCounts
    <3> QED BY <1>6, <3>1, PlaysCounts
  <2> QED BY <1>6, <2>1, <2>2, <2>3, <2>4 DEF Neat
<1>7. r.event[1] # "SendRejected" => Neat(e, r, 1)
  BY <1>2, <1>5, <1>6
<1> QED BY <1>4, <1>7 DEF r

-----------------------------------------------------------------------------
(* Both nodes, while nothing is damaged.                                   *)

\* Who talks with e has not closed.
LEMMA ConverseOpen ==
  ASSUME NEW e, NEW p, NEW q, NEW u, Converse(e, p, q, u)
  PROVE  e.phase # "Closed"
BY DEF Converse, Initially, Settling, Loosely, Half, Grounded

\* The other end leaves: what it sends then tells nothing of a run.
LEMMA ConverseMuted ==
  ASSUME NEW e, NEW p, NEW q, NEW u, Converse(e, p, q, u), IsSequence(q), IsSequence(u),
         NEW out, Mute(out), p.phase # "Established" => NoData(out)
  PROVE  Converse(e, p, q \o out, u)
<1> DEFINE v == q \o out
<1>1. /\ IsSequence(out) /\ \A j \in 1..Len(out) : ~Talk(out[j])
      /\ Len(q) \in Nat /\ Len(out) \in Nat
  BY SequenceParts DEF Mute
<1>2. /\ IsSequence(v) /\ Len(v) = Len(q) + Len(out)
      /\ \A j \in 1..Len(q) : v[j] = q[j]
      /\ \A j \in 1..Len(v) :
            \/ j \in 1..Len(q) /\ v[j] = q[j]
            \/ j > Len(q) /\ j - Len(q) \in 1..Len(out) /\ v[j] = out[j - Len(q)]
  BY <1>1, ConcatParts
<1>3. Hushed(q, v) /\ Fewer(q, v)
  BY <1>1, HushMore, ChannelsFewer
<1> HIDE DEF v
<1>4. Silent(q) => Silent(v)
  BY <1>1, <1>2 DEF Silent
<1>5. CASE Initially(e, p, q, u)
  <2>1. Steady(e, e) /\ Hushed(u, u)
    BY HushSame DEF Steady
  <2>2. Dialogue(e, p, v, u)
    BY <1>3, <1>5, <2>1, DialogueOn DEF Initially
  <2>3. NoData(v)
    BY <1>2, <1>5 DEF Initially, NoData
  <2> QED BY <1>5, <2>2, <2>3 DEF Initially, Converse, v
<1>6. CASE Settling(e, p, q, u)
  <2>1. Settling(e, p, v, u)
    <3>1. PICK k \in 1..Len(q) :
             /\ q[k] = SessionConfirmPayload(SessionKeys(e.run.transcript), "Responder")
             /\ \A j \in 1..Len(q) : j < k => q[j].kind = "CLOSE"
             /\ \A j \in 1..Len(q) : j > k /\ Talk(q[j]) => q[j].kind = "COMMIT" /\ q[j].purpose = "Rekey"
      BY <1>6 DEF Settling
    <3>2. k \in 1..Len(v) /\ v[k] = q[k]
      BY <1>1, <1>2
    <3>3. \A j \in 1..Len(v) : j < k => v[j].kind = "CLOSE"
      BY <1>1, <1>2, <3>1
    <3>4. \A j \in 1..Len(v) : j > k /\ Talk(v[j]) => v[j].kind = "COMMIT" /\ v[j].purpose = "Rekey"
      BY <1>1, <1>2, <3>1
    <3> QED BY <1>6, <3>1, <3>2, <3>3, <3>4 DEF Settling
  <2> QED BY <2>1 DEF Converse, v
<1>7. CASE Settling(p, e, u, q)
  BY <1>4, <1>7 DEF Settling, Converse, v
<1>8. CASE Loosely(e, p, q, u)
  <2>1. Fewer(u, u)
    BY ChannelsFewer
  <2>2. Loosely(e, p, v, u)
    BY <1>2, <1>3, <1>8, <2>1, LooselyFewer
  <2> QED BY <2>2 DEF Converse, v
<1> QED BY <1>5, <1>6, <1>7, <1>8 DEF Converse

\* n, as long as it is open, and its peer, or what that was, converse.
Speaks(n) ==
    engine[n].phase # "Closed" =>
        \E p, u : /\ Counterpart(engine[Peer(n)], channel[Peer(n)], engine[n], p, u)
                  /\ Converse(engine[n], p, channel[n], u)

Tallied == sent \in [Node -> 0..MAX_SENDS] /\ \A n \in Node : Tallies(engine[n], sent[n])

Blameless ==
    /\ Agreement
    /\ Tallied
    /\ DOMAIN cause = Node
    /\ faults = 0 =>
         \A n \in Node : /\ engine[n].identity \in Nat
                         /\ Speaks(n)
                         /\ Intact(channel[n])
                         /\ cause[n] \notin Blames

\* What a step of n makes of its conversation, leaving v in the channel to it.
Maintains(n, r, v) ==
    LET e == engine[n] IN
    /\ IsSequence(v) /\ (Intact(channel[n]) => Intact(v))
    /\ \A p, u :
          /\ Fit(e, p) /\ Fit(p, e) /\ p.identity = engine[Peer(n)].identity
          /\ e.identity \in Nat /\ p.identity \in Nat
          /\ IsSequence(u) /\ Converse(e, p, channel[n], u)
          /\ Intact(channel[n])
          => Resumes(r, p, v, u)

\* What is added to a channel, frame by frame.
LEMMA IntactBoth ==
  ASSUME NEW q, NEW out, IsSequence(q), IsSequence(out), Intact(q), Intact(out)
  PROVE  Intact(q \o out)
<1>1. \A j \in 1..Len(q \o out) :
         \/ j \in 1..Len(q) /\ (q \o out)[j] = q[j]
         \/ j - Len(q) \in 1..Len(out) /\ (q \o out)[j] = out[j - Len(q)]
  BY ConcatParts
<1> QED BY <1>1 DEF Intact

\* One engine is handed an input: the conversation goes on, or it leaves without
\* blaming anyone, and its peer may go on with what was left.
LEMMA PerformSpeaks ==
  ASSUME Blameless, Agreement', Tallied', faults = 0, NEW n \in Node, engine[n].phase # "Closed",
         NEW r, NEW v, NEW d, Perform(n, r, v), Neat(engine[n], r, d), Maintains(n, r, v)
  PROVE  Blameless'
<1> DEFINE m == Peer(n)
           e == engine[n]
           q == channel[n]
           x == Settled(r.e)
<1>1. m \in Node /\ m # n /\ Peer(m) = n /\ \A z \in Node : z = n \/ z = m
  BY Peers
<1>2. /\ engine'[n] = x /\ engine'[m] = engine[m]
      /\ channel'[n] = IF r.e.phase = "Closed" THEN <<>> ELSE v
      /\ channel'[m] = IF engine[m].phase = "Closed" THEN <<>> ELSE channel[m] \o r.out
  BY <1>1 DEF Perform, Blameless, Agreement, EnginesOK
<1>3. /\ EngineOK(r.e) /\ IsSequence(r.out) /\ r.e.identity = e.identity
      /\ Steady(r.e, x) /\ EngineOK(x)
  BY SettledSteady DEF Neat
<1>4. x.identity = e.identity /\ x.phase = r.e.phase
  BY <1>3 DEF Steady
<1>5. PICK p, u : Counterpart(engine[m], channel[m], e, p, u) /\ Converse(e, p, q, u)
  BY DEF Blameless, Speaks
<1>6. /\ Fit(e, p) /\ Fit(p, e) /\ e.identity \in Nat /\ p.identity \in Nat /\ IsSequence(u)
      /\ p.identity = engine[m].identity /\ IsSequence(q) /\ Intact(q)
      /\ engine[m].phase # "Closed" => p = engine[m] /\ u = channel[m]
  <2>1. Fit(e, engine[m]) /\ IsSequence(q)
    BY BothFit DEF Blameless
  <2> QED BY <1>1, <1>5, <2>1 DEF Counterpart, Blameless, Fit
<1>7. Resumes(r, p, v, u) /\ IsSequence(v) /\ Intact(v)
  BY <1>5, <1>6 DEF Maintains
<1>8. \A z \in Node : engine'[z].identity \in Nat
  BY <1>1, <1>2, <1>4, <1>6 DEF Blameless
<1>9. \A z \in Node : Intact(channel'[z])
  <2>1. Intact(<<>>)
    BY DEF Intact
  <2>2. Intact(channel[m] \o r.out)
    <3>1. IsSequence(channel[m]) /\ Intact(channel[m])
      BY <1>1, BothFit DEF Blameless
    <3> QED BY <1>3, <3>1, IntactBoth DEF Neat
  <2> QED BY <1>1, <1>2, <1>7, <2>1, <2>2
<1>10. /\ DOMAIN cause' = Node
       /\ \A z \in Node : cause'[z] = IF z = n /\ r.event[1] = "Closed" THEN r.event[2] ELSE cause[z]
  BY DEF Perform, Blameless
<1> HIDE DEF x
<1>11. CASE Departs(r)
  <2>1. x.phase = "Closed"
    BY <1>4, <1>11 DEF Departs
  <2>2. Speaks(m)'
    <3>1. SUFFICES ASSUME engine[m].phase # "Closed"
                   PROVE  \E z, w : /\ Counterpart(x, channel'[n], engine[m], z, w)
                                    /\ Converse(engine[m], z, channel'[m], w)
      BY <1>1, <1>2 DEF Speaks
    <3>2. p = engine[m] /\ u = channel[m]
      BY <1>6, <3>1
    <3>3. Converse(engine[m], e, channel[m], q)
      BY <1>5, <3>2, ConverseTurned
    <3>4. Mute(r.out) /\ (e.phase # "Established" => NoData(r.out))
      BY <1>11 DEF Departs, Neat
    <3>5. Converse(engine[m], e, channel'[m], q)
      BY <1>2, <1>6, <3>1, <3>2, <3>3, <3>4, ConverseMuted
    <3>6. Counterpart(x, channel'[n], engine[m], e, q)
      BY <1>1, <1>2, <1>4, <1>6, <2>1, <3>2 DEF Counterpart
    <3> QED BY <3>5, <3>6
  <2>3. Speaks(n)'
    BY <1>2, <2>1 DEF Speaks
  <2>4. \A z \in Node : cause'[z] \notin Blames
    BY <1>10, <1>11 DEF Departs, Blameless
  <2> QED BY <1>1, <1>8, <1>9, <1>10, <2>2, <2>3, <2>4 DEF Blameless
<1>12. CASE ~Departs(r)
  <2> DEFINE w == u \o r.out
  <2>1. Converse(r.e, p, v, w)
    BY <1>7, <1>12 DEF Resumes
  <2>2. IsSequence(w)
    BY <1>3, <1>6, BothSent
  <2>3. engine[m].phase # "Closed" => channel'[m] = w
    BY <1>2, <1>6
  <2> HIDE DEF w
  <2>4. Converse(x, p, v, w)
    BY <1>3, <2>1, ConverseSettled DEF x
  <2>5. x.phase # "Closed" /\ r.e.phase # "Closed" /\ channel'[n] = v
    BY <1>2, <1>4, <2>4, ConverseOpen
  <2>6. Fit(p, x)
    BY <1>4, <1>6 DEF Fit
  <2>7. Speaks(n)'
    <3>1. Counterpart(engine[m], channel'[m], x, p, w)
      BY <1>6, <2>2, <2>3, <2>6 DEF Counterpart
    <3> QED BY <1>1, <1>2, <2>4, <2>5, <3>1 DEF Speaks
  <2>8. Speaks(m)'
    <3>1. SUFFICES ASSUME engine[m].phase # "Closed"
                   PROVE  \E z, y : /\ Counterpart(x, v, engine[m], z, y)
                                    /\ Converse(engine[m], z, channel'[m], y)
      BY <1>1, <1>2, <2>5 DEF Speaks
    <3>2. Converse(engine[m], x, channel'[m], v)
      BY <1>6, <2>3, <2>4, <3>1, ConverseTurned
    <3>3. Fit(x, engine[m])
      <4>1. Ends2(x, engine[m], v, channel'[m], faults')
        BY <1>1, <1>2, <2>5 DEF Agreement
      <4> QED BY <1>3, <4>1, FitNow
    <3>4. Counterpart(x, v, engine[m], x, v)
      BY <1>7, <2>5, <3>3 DEF Counterpart
    <3> QED BY <3>2, <3>4
  <2>9. r.event[1] # "Closed"
    BY <2>5 DEF Neat
  <2>10. \A z \in Node : cause'[z] \notin Blames
    BY <1>10, <2>9 DEF Blameless
  <2> QED BY <1>1, <1>8, <1>9, <1>10, <2>7, <2>8, <2>10 DEF Blameless
<1> QED BY <1>11, <1>12

\* A step of n that hands its engine an input, and leaves v in the channel to it.
Acts(n, r, v, d) ==
    /\ engine[n].phase # "Closed"
    /\ Perform(n, r, v)
    /\ Neat(engine[n], r, d)
    /\ \/ d = 0 /\ sent' = sent
       \/ d = 1 /\ sent[n] < MAX_SENDS /\ sent' = [sent EXCEPT ![n] = @ + 1]
    /\ faults' = 0 => faults = 0 /\ Maintains(n, r, v)

\* The counters come no further than the messages that were sent.
LEMMA ActTallies ==
  ASSUME Agreement, Tallied, NEW n \in Node, NEW r, NEW v, NEW d, Acts(n, r, v, d)
  PROVE  Tallied'
<1> DEFINE m == Peer(n)
           e == engine[n]
           x == Settled(r.e)
<1>1. m \in Node /\ m # n /\ \A z \in Node : z = n \/ z = m
  BY Peers
<1>2. engine'[n] = x /\ engine'[m] = engine[m]
  BY <1>1 DEF Acts, Perform, Agreement, EnginesOK
<1>3. sent \in [Node -> 0..MAX_SENDS] /\ MAX_SENDS \in Nat /\ sent[n] \in 0..MAX_SENDS
  BY ConnectionBounds DEF Tallied
<1>4. d \in {0, 1} /\ sent'[n] = sent[n] + d /\ sent'[m] = sent[m] /\ sent' \in [Node -> 0..MAX_SENDS]
  <2>1. CASE d = 0 /\ sent' = sent
    BY <1>3, <2>1
  <2>2. CASE d = 1 /\ sent[n] < MAX_SENDS /\ sent' = [sent EXCEPT ![n] = @ + 1]
    <3>1. sent[n] + 1 \in 0..MAX_SENDS
      BY <1>3, <2>2
    <3> QED BY <1>1, <1>3, <2>2, <3>1
  <2> QED BY <2>1, <2>2 DEF Acts
<1>5. Tallies(r.e, sent[n] + d) /\ EngineOK(r.e)
  <2>1. Tallies(e, sent[n]) /\ sent[n] \in Nat
    BY <1>3 DEF Tallied
  <2> QED BY <2>1 DEF Acts, Neat
<1>6. Tallies(x, sent[n] + d)
  BY <1>5, SettledCounts
<1> HIDE DEF x
<1>7. Tallies(engine'[n], sent'[n]) /\ Tallies(engine'[m], sent'[m])
  BY <1>1, <1>2, <1>4, <1>6 DEF Tallied
<1> QED BY <1>1, <1>4, <1>7 DEF Tallied

\* Any such step.
LEMMA ActBlameless ==
  ASSUME Blameless, Agreement', NEW n \in Node, NEW r, NEW v, NEW d, Acts(n, r, v, d)
  PROVE  Blameless'
<1>1. Tallied'
  BY ActTallies DEF Blameless
<1>2. CASE faults' = 0
  BY <1>1, <1>2, PerformSpeaks DEF Acts
<1>3. CASE faults' # 0
  <2>1. DOMAIN cause' = Node
    BY DEF Acts, Perform, Blameless
  <2> QED BY <1>1, <1>3, <2>1 DEF Blameless
<1> QED BY <1>2, <1>3

\* What n does of its own accord.
LEMMA ActMaintains ==
  ASSUME Agreement, NEW n \in Node, NEW r,
         engine[n].phase \in {"Handshaking", "Established"},
         engine[n].phase = "Established" => Unbidden(engine[n], r),
         engine[n].phase = "Handshaking" => Lingers(engine[n], r)
  PROVE  Maintains(n, r, channel[n])
<1> DEFINE e == engine[n]
           q == channel[n]
<1>1. IsSequence(q)
  BY BothFit
<1>2. ASSUME NEW p, NEW u, Fit(e, p), Fit(p, e), IsSequence(u), Converse(e, p, q, u)
      PROVE  Resumes(r, p, q, u)
  BY <1>1, <1>2, ConverseActs
<1> QED BY <1>1, <1>2 DEF Maintains

\* It leaves.
LEMMA LeaveMaintains ==
  ASSUME Agreement, NEW n \in Node, NEW r, Departs(r)
  PROVE  Maintains(n, r, channel[n])
BY BothFit DEF Maintains, Resumes

\* It reads.
LEMMA ReadMaintains ==
  ASSUME Agreement, NEW n \in Node, engine[n].phase # "Idle", channel[n] # <<>>
  PROVE  /\ Reveals(Head(channel[n]), engine[Peer(n)].identity)
         /\ Maintains(n, on_frame(engine[n], Head(channel[n])), Tail(channel[n]))
<1> DEFINE e == engine[n]
           q == channel[n]
           i == engine[Peer(n)].identity
           f == Head(q)
           r == on_frame(e, f)
<1>1. IsSequence(q) /\ ChannelSane(q, engine[Peer(n)])
  BY StepParts, BothFit
<1>2. Reveals(f, i)
  BY <1>1, TailParts DEF ChannelSane, FrameSane, Reveals
<1>3. IsSequence(Tail(q)) /\ (Intact(q) => f.intact /\ Intact(Tail(q)))
  <2>1. /\ IsSequence(Tail(q)) /\ 1 \in 1..Len(q) /\ f = q[1]
        /\ \A j \in 1..Len(Tail(q)) : j + 1 \in 1..Len(q) /\ Tail(q)[j] = q[j + 1]
    BY <1>1, TailParts DEF ChannelSane
  <2> QED BY <2>1 DEF Intact
<1>4. ASSUME NEW p, NEW u, Fit(e, p), Fit(p, e), p.identity = i, e.identity \in Nat,
             p.identity \in Nat, IsSequence(u), Converse(e, p, q, u), Intact(q)
      PROVE  Resumes(r, p, Tail(q), u)
  BY <1>1, <1>2, <1>3, <1>4, ConverseReads
<1> HIDE DEF r
<1> QED BY <1>2, <1>3, <1>4 DEF Maintains, r

\* Every step but Damage is such a step.
LEMMA NextActs ==
  ASSUME LATE_REKEY_FRAME_GRACE > 0, MAX_SENDS <= COUNTER_MAX, Agreement, Tallied,
         NEW n \in Node,
         \/ Start(n)
         \/ Receive(n)
         \/ \E answer \in BOOLEAN : SasDecision(n, answer)
         \/ LocalSend(n) \/ LocalSendTooLarge(n)
         \/ RequestRekey(n)
         \/ \E kind \in DeadlineKind : Timeout(n, kind)
         \/ LocalClose(n) \/ TransportClosed(n)
         \/ TransportLost(n)
         \/ \E respond \in BOOLEAN : ReceiveMalformed(n, respond)
  PROVE  \E r, v, d : Acts(n, r, v, d)
<1> DEFINE e == engine[n]
           q == channel[n]
           i == engine[Peer(n)].identity
<1>1. /\ EngineOK(e) /\ Sound(e, i) /\ IsSequence(q) /\ faults \in Nat
      /\ e.phase \in {"Idle", "Handshaking", "Established", "Closed"}
      /\ e.phase = "Idle" => e.run = NoRun
  BY StepParts, BothFit DEF Agreement, EngineOK
<1>2. Open(n) => e.phase \in {"Handshaking", "Established"}
  BY <1>1 DEF Open
<1> HIDE DEF i
<1>3. ASSUME NEW r, Perform(n, r, q), Neat(e, r, 0), sent' = sent, faults' = faults,
             e.phase # "Closed", Maintains(n, r, q)
      PROVE  Acts(n, r, q, 0)
  BY <1>3 DEF Acts
<1>4. ASSUME NEW r, NEW v, Perform(n, r, v), Neat(e, r, 0), sent' = sent, faults' = faults + 1,
             e.phase # "Closed"
      PROVE  Acts(n, r, v, 0)
  BY <1>1, <1>4 DEF Acts
<1>5. CASE Start(n)
  <2> DEFINE r == start(e)
  <2>1. Perform(n, r, q) /\ sent' = sent /\ faults' = faults /\ e.phase = "Idle"
    BY <1>5 DEF Start
  <2>2. Neat(e, r, 0)
    BY <1>1, <2>1, OthersNeat
  <2>3. Maintains(n, r, q)
    <3>1. ASSUME NEW p, NEW u, Fit(e, p), Fit(p, e), IsSequence(u), Converse(e, p, q, u)
          PROVE  Resumes(r, p, q, u)
      BY <1>1, <2>1, <3>1, ConverseStarts
    <3> HIDE DEF r
    <3> QED BY <1>1, <3>1 DEF Maintains
  <2> QED BY <1>3, <2>1, <2>2, <2>3
<1>6. CASE Receive(n)
  <2> DEFINE r == on_frame(e, Head(q))
  <2>1. /\ Perform(n, r, Tail(q)) /\ sent' = sent /\ faults' = faults
        /\ e.phase \in {"Handshaking", "Established"} /\ q # <<>>
    BY <1>2, <1>6 DEF Receive
  <2>2. Reveals(Head(q), i) /\ Maintains(n, r, Tail(q))
    BY <2>1, ReadMaintains DEF i
  <2>3. Neat(e, r, 0)
    BY <1>1, <2>2, FrameNeat
  <2> HIDE DEF r
  <2>4. Acts(n, r, Tail(q), 0)
    BY <2>1, <2>2, <2>3 DEF Acts
  <2> QED BY <2>4
<1>7. ASSUME NEW answer \in BOOLEAN, SasDecision(n, answer) PROVE \E r, v, d : Acts(n, r, v, d)
  <2> DEFINE r == on_sas(e, answer)
  <2>1. /\ Perform(n, r, q) /\ sent' = sent /\ faults' = faults
        /\ e.phase \in {"Handshaking", "Established"}
    BY <1>2, <1>7 DEF SasDecision
  <2>2. Neat(e, r, 0)
    BY <1>1, OthersNeat
  <2>3. Maintains(n, r, q)
    <3>1. ASSUME NEW p, NEW u, Fit(e, p), Fit(p, e), IsSequence(u), Converse(e, p, q, u)
          PROVE  Resumes(r, p, q, u)
      BY <1>1, <2>1, <3>1, ConverseAnswers
    <3> HIDE DEF r
    <3> QED BY <1>1, <3>1 DEF Maintains
  <2> QED BY <1>3, <2>1, <2>2, <2>3
<1>8. CASE LocalSend(n)
  <2> DEFINE r == on_send(e, sent[n] + 1)
  <2>1. /\ Perform(n, r, q) /\ faults' = faults /\ sent[n] < MAX_SENDS
        /\ sent' = IF r.event[1] = "SendRejected" THEN sent ELSE [sent EXCEPT ![n] = @ + 1]
        /\ e.phase \in {"Handshaking", "Established"}
    BY <1>2, <1>8 DEF LocalSend
  <2>2. e.phase = "Established" => ~(e.active.counter >= COUNTER_MAX)
    <3>1. e.phase = "Established" => e.active \in SessionSet(e)
      BY <1>1 DEF SessionSet, EngineOK, Held, NoSession
    <3>2. e.phase = "Established" => e.active.counter \in 0..sent[n]
      BY <3>1 DEF Tallied, Tallies
    <3>3. sent[n] \in 0..MAX_SENDS /\ MAX_SENDS \in Nat /\ COUNTER_MAX \in Nat
      BY ConnectionBounds, RatchetBounds DEF Tallied
    <3> QED BY <2>1, <3>2, <3>3
  <2>3. IF r.event[1] = "SendRejected" THEN Neat(e, r, 0) ELSE Neat(e, r, 1)
    BY <1>1, <2>2, SendNeat
  <2>4. Maintains(n, r, q)
    <3>1. e.phase = "Established" => Unbidden(e, r)
      BY <1>1, <2>2, SendUnbidden
    <3>2. e.phase = "Handshaking" => Lingers(e, r)
      BY <1>1, OthersLinger
    <3> HIDE DEF r
    <3> QED BY <2>1, <3>1, <3>2, ActMaintains
  <2> HIDE DEF r
  <2>5. CASE r.event[1] = "SendRejected"
    BY <1>3, <2>1, <2>3, <2>4, <2>5
  <2>6. CASE r.event[1] # "SendRejected"
    <3>1. Acts(n, r, q, 1)
      BY <2>1, <2>3, <2>4, <2>6 DEF Acts
    <3> QED BY <3>1
  <2> QED BY <2>5, <2>6
<1>9. CASE LocalSendTooLarge(n)
  <2> DEFINE r == on_send(e, TooLarge)
  <2>1. /\ Perform(n, r, q) /\ faults' = faults /\ sent' = sent
        /\ e.phase \in {"Handshaking", "Established"}
    BY <1>2, <1>9 DEF LocalSendTooLarge
  <2>2. Neat(e, r, 0)
    <3>1. Handled(e, r) /\ r.e = e /\ r.out = <<>>
      BY <1>1, Sends DEF on_send, Result
    <3>2. Plays(e, i, NoInput, r.e, r.out)
      BY <1>1, <3>1, PlaysNothing DEF NoInput, NoFrame
    <3> HIDE DEF r
    <3> QED BY <3>1, <3>2, NeatPlays
  <2>3. Maintains(n, r, q)
    <3>1. e.phase = "Established" => Unbidden(e, r)
      BY <1>1, TooLargeUnbidden
    <3>2. e.phase = "Handshaking" => Lingers(e, r)
      BY <1>1, OthersLinger
    <3> HIDE DEF r
    <3> QED BY <2>1, <3>1, <3>2, ActMaintains
  <2> QED BY <1>3, <2>1, <2>2, <2>3
<1>10. CASE RequestRekey(n)
  <2> DEFINE r == begin_rekey(e)
  <2>1. /\ Perform(n, r, q) /\ faults' = faults /\ sent' = sent
        /\ e.phase \in {"Handshaking", "Established"}
    BY <1>2, <1>10 DEF RequestRekey
  <2>2. Neat(e, r, 0)
    BY <1>1, OthersNeat
  <2>3. Maintains(n, r, q)
    <3>1. e.phase = "Established" => Unbidden(e, r)
      BY <1>1, OthersUnbidden
    <3>2. e.phase = "Handshaking" => Lingers(e, r)
      BY <1>1, OthersLinger
    <3> HIDE DEF r
    <3> QED BY <2>1, <3>1, <3>2, ActMaintains
  <2> QED BY <1>3, <2>1, <2>2, <2>3
<1>11. ASSUME NEW kind \in DeadlineKind, Timeout(n, kind) PROVE \E r, v, d : Acts(n, r, v, d)
  <2> DEFINE r == on_timeout(e, kind)
  <2>1. /\ Perform(n, r, q) /\ faults' = faults /\ sent' = sent /\ kind \in e.deadlines
        /\ e.phase \in {"Handshaking", "Established"}
    BY <1>2, <1>11 DEF Timeout
  <2>2. Neat(e, r, 0)
    BY <1>1, <2>1, OthersNeat
  <2>3. Maintains(n, r, q)
    <3>1. e.phase = "Established" => Unbidden(e, r)
      BY <1>1, <2>1, TimeoutUnbidden
    <3>2. e.phase = "Handshaking" => Lingers(e, r)
      BY <1>1, <2>1, TimeoutLingers
    <3> HIDE DEF r
    <3> QED BY <2>1, <3>1, <3>2, ActMaintains
  <2> QED BY <1>3, <2>1, <2>2, <2>3
<1>12. CASE LocalClose(n)
  <2>1. /\ Perform(n, local_close(e), q) /\ faults' = faults /\ sent' = sent
        /\ e.phase # "Closed"
    BY <1>2, <1>12 DEF LocalClose
  <2>2. Neat(e, local_close(e), 0) /\ Departs(local_close(e))
    BY <1>1, OthersNeat, LeavesDepart
  <2>3. Maintains(n, local_close(e), q)
    BY <2>2, LeaveMaintains
  <2> QED BY <1>3, <2>1, <2>2, <2>3
<1>13. CASE TransportClosed(n)
  <2>1. /\ Perform(n, transport_closed(e), q) /\ faults' = faults /\ sent' = sent
        /\ e.phase # "Closed"
    BY <1>2, <1>13 DEF TransportClosed
  <2>2. Neat(e, transport_closed(e), 0) /\ Departs(transport_closed(e))
    BY <1>1, OthersNeat, LeavesDepart
  <2>3. Maintains(n, transport_closed(e), q)
    BY <2>2, LeaveMaintains
  <2> QED BY <1>3, <2>1, <2>2, <2>3
<1>14. CASE TransportLost(n)
  <2>1. /\ Perform(n, transport_closed(e), <<>>) /\ faults' = faults + 1 /\ sent' = sent
        /\ e.phase # "Closed"
    BY <1>2, <1>14 DEF TransportLost
  <2>2. Neat(e, transport_closed(e), 0)
    BY <1>1, OthersNeat
  <2>3. Acts(n, transport_closed(e), <<>>, 0)
    BY <1>4, <2>1, <2>2
  <2> QED BY <2>3
<1>15. ASSUME NEW respond \in BOOLEAN, ReceiveMalformed(n, respond)
       PROVE  \E r, v, d : Acts(n, r, v, d)
  <2>1. /\ Perform(n, malformed(e, respond), Tail(q)) /\ faults' = faults + 1 /\ sent' = sent
        /\ e.phase # "Closed"
    BY <1>2, <1>15 DEF ReceiveMalformed
  <2>2. Neat(e, malformed(e, respond), 0)
    BY <1>1, OthersNeat
  <2>3. Acts(n, malformed(e, respond), Tail(q), 0)
    BY <1>4, <2>1, <2>2
  <2> QED BY <2>3
<1> QED BY <1>5, <1>6, <1>7, <1>8, <1>9, <1>10, <1>11, <1>12, <1>13, <1>14, <1>15

\* Two engines that have not started have nothing to blame each other for.
LEMMA BlamelessInit == Init => Blameless
<1> SUFFICES ASSUME Init PROVE Blameless
  OBVIOUS
<1>1. Agreement /\ Calmness
  BY InitAgreement, CalmInit
<1>2. \A n \in Node : /\ engine[n].phase = "Idle" /\ SessionSet(engine[n]) = {}
                      /\ channel[n] = <<>> /\ sent[n] = 0 /\ cause[n] = "none"
  BY DEF Init, NewEngine, SessionSet
<1>3. DOMAIN cause = Node /\ sent \in [Node -> 0..MAX_SENDS]
  BY ConnectionBounds DEF Init
<1>4. Tallied
  BY <1>2, <1>3 DEF Tallied, Tallies
<1>5. NoData(<<>>) /\ Intact(<<>>)
  BY DEF NoData, Intact
<1>6. ASSUME NEW n \in Node PROVE Speaks(n)
  <2>1. PICK p, u : /\ Counterpart(engine[Peer(n)], channel[Peer(n)], engine[n], p, u)
                    /\ Dialogue(engine[n], p, channel[n], u)
    BY <1>1, <1>2 DEF Calmness, Linked
  <2>2. p = engine[Peer(n)] /\ u = channel[Peer(n)] /\ Peer(n) \in Node
    BY <1>2, <2>1, Peers DEF Counterpart
  <2>3. Converse(engine[n], p, channel[n], u)
    BY <1>2, <1>5, <2>1, <2>2 DEF Converse, Initially
  <2> QED BY <2>1, <2>3 DEF Speaks
<1>7. "none" \notin Blames
  BY DEF Blames
<1> QED BY <1>1, <1>2, <1>3, <1>4, <1>5, <1>6, <1>7 DEF Blameless, Calmness

\* No step makes an end hold anything against its peer, while nothing is damaged.
LEMMA BlamelessStep ==
  ASSUME LATE_REKEY_FRAME_GRACE > 0, MAX_SENDS <= COUNTER_MAX, Blameless, [Next]_vars
  PROVE  Blameless'
<1>1. Agreement'
  BY AgreementStep DEF Blameless
<1>2. CASE UNCHANGED vars
  BY <1>1, <1>2 DEF vars, Blameless, Speaks, Tallied
<1>3. CASE Next
  <2>1. PICK n \in Node : Damage(n) \/ \E r, v, d : Acts(n, r, v, d)
    BY <1>3, NextActs DEF Next, Blameless
  <2>2. CASE Damage(n)
    <3>1. /\ engine' = engine /\ sent' = sent /\ cause' = cause
          /\ faults' = faults + 1 /\ faults \in Nat
      BY <2>2 DEF Damage, Blameless, Agreement
    <3> QED BY <1>1, <3>1 DEF Blameless, Tallied
  <2>3. CASE \E r, v, d : Acts(n, r, v, d)
    BY <1>1, <2>3, ActBlameless
  <2> QED BY <2>1, <2>2, <2>3
<1> QED BY <1>2, <1>3

\* While nothing is damaged, no end closes with a protocol or authentication error:
\* whichever deadlines expire, and however the users send, ask for rekeys and close.
\* It takes the grace for late frames of an aborted rekey (on_rekey_frame), and that
\* no session runs out of counters (on_send).
THEOREM HonestPeersAreNeverBlamed ==
  ASSUME LATE_REKEY_FRAME_GRACE > 0, MAX_SENDS <= COUNTER_MAX
  PROVE  Spec => []HonestPeerNeverBlamed
<1>1. Blameless /\ [Next]_vars => Blameless'
  BY BlamelessStep
<1>2. Blameless => HonestPeerNeverBlamed
  BY DEF Blameless, HonestPeerNeverBlamed, Blames
<1> QED BY <1>1, <1>2, BlamelessInit, PTL DEF Spec
=============================================================================
