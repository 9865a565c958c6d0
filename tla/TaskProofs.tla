----------------------------- MODULE TaskProofs -----------------------------
(***************************************************************************)
(* The task of one connection, for every application, every peer and every *)
(* length of its queues.                                                   *)
(***************************************************************************)
EXTENDS Task, EngineProofs, SequenceTheorems

Pairs == \A entry \in batch : entry = <<entry[1], entry[2]>>

\* The engine between two inputs, and the two lists of its deadlines.
Engines ==
    /\ EngineOK(engine)
    /\ engine.touched = {}
    /\ DOMAIN armed = engine.deadlines
    /\ DeadlinesAgree

\* Effects that tell nothing of the stage.
Plain == {"Message", "Send", "CloseTransport"}

\* At most one effect of an input tells of a change, and content comes first.
Ordered(effects) ==
    /\ IsSequence(effects)
    /\ \A i, j \in DOMAIN effects :
          effects[i][1] \notin Plain /\ effects[j][1] \notin Plain => i = j
    /\ \A i \in DOMAIN effects : effects[i][1] = "Message" => i = 1

Unauthenticated(e) == e.phase \in {"Idle", "Handshaking"}

\* The loop ends after the engine has closed.
Closing ==
    /\ closing => engine.phase = "Closed"
    /\ \A i \in DOMAIN pending : pending[i][1] = "CloseTransport" => engine.phase = "Closed"

\* While the end of a handshake is still to be told, the permit may be held.
Permits ==
    /\ permit => /\ engine.role = "Responder"
                 /\ \/ Unauthenticated(engine)
                    \/ \E i \in DOMAIN pending : EndsHandshake(pending[i][1])
    /\ pc # "Done" /\ engine.role = "Responder" /\ Unauthenticated(engine) => permit
    /\ \A i \in DOMAIN pending : EndsHandshake(pending[i][1]) => ~Unauthenticated(engine)

\* What the application has been told is what the engine has become, or the
\* effect that tells of the difference is still to be carried out.
Current(t, e) == t.stage = StageOf(e) /\ (t.rekeying <=> UnderWay(e))

Due(t, event, e) ==
    \/ event[1] = "SendRejected" /\ Current(t, e) /\ t.stage \in {"Opened", "Asked", "Established"}
    \/ event[1] = "DataRejected" /\ Current(t, e) /\ t.stage = "Established"
    \/ event = <<"RekeyFailed", "Repeated">> /\ Current(t, e) /\ t.stage = "Established"
    \/ /\ event[1] = "RequestSas" /\ t.stage = "Opened" /\ StageOf(e) = "Asked"
       /\ ~t.rekeying /\ ~UnderWay(e)
    \/ /\ event[1] = "Established" /\ t.stage = "Asked" /\ StageOf(e) = "Established"
       /\ ~t.rekeying /\ ~UnderWay(e)
    \/ /\ event[1] = "RekeyStarted" /\ t.stage = "Established" /\ StageOf(e) = "Established"
       /\ ~t.rekeying /\ UnderWay(e)
    \/ /\ event[1] \in {"RekeyCompleted", "RekeyFailed"}
       /\ event # <<"RekeyFailed", "Repeated">>
       /\ t.stage = "Established" /\ StageOf(e) = "Established"
       /\ t.rekeying /\ ~UnderWay(e)
    \/ /\ event[1] = "Closed" /\ t.stage \in {"Opened", "Asked", "Established"}
       /\ e.phase = "Closed"

InStep(t, effects, e) ==
    /\ (\A i \in DOMAIN effects : effects[i][1] \in Plain) => Current(t, e)
    /\ \A i \in DOMAIN effects : effects[i][1] \notin Plain => Due(t, effects[i], e)
    /\ \A i \in DOMAIN effects : effects[i][1] = "Message" => t.stage = "Established"

Informed ==
    receiver => IF pc = "Announce" THEN told.stage = "Unopened" /\ told.rekeying = FALSE
                ELSE InStep(told, pending, engine)

Flow ==
    /\ pc \in {"Announce", "Run", "Done"}
    /\ pc = "Announce" => pending = <<>> /\ batch = {} /\ engine.phase = "Idle"
    /\ pc = "Done" /\ receiver => closing /\ pending = <<>>
    /\ control \in Seq(Command)

Inv == Engines /\ Pairs /\ Ordered(pending) /\ Closing /\ Permits /\ Informed /\ Flow

-----------------------------------------------------------------------------
(* The effects of an input.                                                *)

Joined(a, b, c) ==
    /\ IsSequence(c)
    /\ \A i \in DOMAIN c : \/ i \in DOMAIN a /\ c[i] = a[i]
                           \/ \E j \in DOMAIN b : i = Len(a) + j /\ c[i] = b[j]
    /\ \A i \in DOMAIN a : i \in DOMAIN c /\ c[i] = a[i]
    /\ \A j \in DOMAIN b : Len(a) + j \in DOMAIN c /\ c[Len(a) + j] = b[j]

\* What stands where in a concatenation.
LEMMA Joins ==
  ASSUME NEW a, NEW b, IsSequence(a), IsSequence(b)
  PROVE  Joined(a, b, a \o b)
<1>1. PICK A : a \in Seq(A)
  BY DEF IsSequence
<1>2. PICK B : b \in Seq(B)
  BY DEF IsSequence
<1> DEFINE T == A \cup B
           c == a \o b
<1>3. a \in Seq(T) /\ b \in Seq(T)
  BY <1>1, <1>2
<1> HIDE DEF T
<1>4. /\ Len(a) \in Nat /\ DOMAIN a = 1..Len(a)
      /\ Len(b) \in Nat /\ DOMAIN b = 1..Len(b)
  BY <1>3, LenProperties
<1>5. /\ c \in Seq(T) /\ Len(c) = Len(a) + Len(b)
      /\ \A i \in 1..Len(a) + Len(b) : c[i] = IF i <= Len(a) THEN a[i] ELSE b[i - Len(a)]
  BY <1>3, ConcatProperties
<1> HIDE DEF c
<1>6. DOMAIN c = 1..(Len(a) + Len(b))
  BY <1>4, <1>5, LenProperties
<1>7. ASSUME NEW i \in DOMAIN c
      PROVE  \/ i \in DOMAIN a /\ c[i] = a[i]
             \/ \E j \in DOMAIN b : i = Len(a) + j /\ c[i] = b[j]
  <2>1. CASE i <= Len(a)
    BY <1>4, <1>5, <1>6, <2>1
  <2>2. CASE ~(i <= Len(a))
    <3>1. i - Len(a) \in DOMAIN b /\ i = Len(a) + (i - Len(a)) /\ c[i] = b[i - Len(a)]
      BY <1>4, <1>5, <1>6, <2>2
    <3> QED BY <3>1
  <2> QED BY <2>1, <2>2
<1>8. \A i \in DOMAIN a : i \in DOMAIN c /\ c[i] = a[i]
  BY <1>4, <1>5, <1>6
<1>9. ASSUME NEW j \in DOMAIN b
      PROVE  Len(a) + j \in DOMAIN c /\ c[Len(a) + j] = b[j]
  <2>1. Len(a) + j \in 1..Len(a) + Len(b) /\ ~(Len(a) + j <= Len(a)) /\ (Len(a) + j) - Len(a) = j
    BY <1>4
  <2> QED BY <1>5, <1>6, <2>1
<1>10. IsSequence(c)
  BY <1>5 DEF IsSequence
<1>11. Joined(a, b, c)
  BY <1>7, <1>8, <1>9, <1>10 DEF Joined
<1> QED BY <1>11 DEF c

\* The effects of an input: its content first, then its frames, then the one
\* event that tells of a change.
LEMMA EffectsAre ==
  ASSUME NEW e, NEW r, Handled(e, r)
  PROVE  /\ Ordered(Effects(r))
         /\ \A i \in DOMAIN Effects(r) :
               \/ Effects(r)[i] = <<"Message">> /\ r.deliver # NoContent
               \/ Effects(r)[i] = <<"Send">>
               \/ Effects(r)[i] = r.event /\ r.event[1] # "none"
               \/ Effects(r)[i] = <<"CloseTransport">> /\ r.e.phase = "Closed"
         /\ r.event[1] # "none" => \E i \in DOMAIN Effects(r) : Effects(r)[i] = r.event
<1> DEFINE M == IF r.deliver = NoContent THEN <<>> ELSE << <<"Message">> >>
           S == [i \in DOMAIN r.out |-> <<"Send">>]
           N == IF r.event[1] = "none" THEN <<>> ELSE <<r.event>>
           C == IF r.e.phase = "Closed" THEN << <<"CloseTransport">> >> ELSE <<>>
           A == M \o S
           B == A \o N
           D == B \o C
<1>1. IsSequence(S) /\ \A i \in DOMAIN S : S[i] = <<"Send">>
  <2>1. PICK T : r.out \in Seq(T)
    BY DEF Handled, IsSequence
  <2>2. DOMAIN r.out = 1..Len(r.out) /\ Len(r.out) \in Nat
    BY <2>1, LenProperties
  <2>3. S = [i \in 1..Len(r.out) |-> <<"Send">>]
    BY <2>2
  <2>4. [i \in 1..Len(r.out) |-> <<"Send">>] \in Seq({<<"Send">>})
    BY <2>2
  <2> QED BY <2>3, <2>4 DEF IsSequence
<1>2. IsSequence(M) /\ \A i \in DOMAIN M : i = 1 /\ M[i] = <<"Message">> /\ r.deliver # NoContent
  BY NoneSent, OneSent
<1>3. /\ IsSequence(N) /\ \A i \in DOMAIN N : i = 1 /\ N[i] = r.event /\ r.event[1] # "none"
      /\ r.event[1] # "none" => 1 \in DOMAIN N /\ N[1] = r.event
  BY NoneSent, OneSent
<1>4. IsSequence(C) /\ \A i \in DOMAIN C : C[i] = <<"CloseTransport">> /\ r.e.phase = "Closed"
  BY NoneSent, OneSent
<1>5. Effects(r) = D
  BY <1>1, <1>2, <1>3, <1>4 DEF Effects
<1> HIDE DEF M, S, N, C
<1>6. Joined(M, S, A)
  BY <1>1, <1>2, Joins
<1> HIDE DEF A
<1>7. Joined(A, N, B)
  BY <1>3, <1>6, Joins, ZenonT(40) DEF Joined
<1> HIDE DEF B
<1>8. Joined(B, C, D)
  <2>1. IsSequence(B) /\ IsSequence(C)
    BY <1>4, <1>7 DEF Joined
  <2> QED BY <2>1, Joins
<1> HIDE DEF D
<1>9. ASSUME NEW i \in DOMAIN D
      PROVE  \/ i = 1 /\ D[i] = <<"Message">> /\ r.deliver # NoContent
             \/ D[i] = <<"Send">>
             \/ i = Len(A) + 1 /\ D[i] = r.event /\ r.event[1] # "none"
             \/ D[i] = <<"CloseTransport">> /\ r.e.phase = "Closed"
  <2>1. CASE i \in DOMAIN B /\ D[i] = B[i]
    <3>1. CASE i \in DOMAIN A /\ B[i] = A[i]
      <4>1. CASE i \in DOMAIN M /\ A[i] = M[i]
        BY <1>2, <2>1, <3>1, <4>1
      <4>2. CASE \E j \in DOMAIN S : A[i] = S[j]
        BY <1>1, <2>1, <3>1, <4>2
      <4> QED BY <1>6, <3>1, <4>1, <4>2 DEF Joined
    <3>2. CASE \E j \in DOMAIN N : i = Len(A) + j /\ B[i] = N[j]
      BY <1>3, <2>1, <3>2
    <3> QED BY <1>7, <2>1, <3>1, <3>2 DEF Joined
  <2>2. CASE \E j \in DOMAIN C : D[i] = C[j]
    BY <1>4, <2>2
  <2> QED BY <1>8, <2>1, <2>2 DEF Joined
<1>10. r.event[1] # "none" => \E i \in DOMAIN D : D[i] = r.event
  <2>1. r.event[1] # "none" => Len(A) + 1 \in DOMAIN B /\ B[Len(A) + 1] = r.event
    BY <1>3, <1>7 DEF Joined
  <2> QED BY <1>8, <2>1 DEF Joined
<1>11. r.event[1] # "Message"
  BY DEF Handled, Legal
<1>12. Ordered(D)
  BY <1>8, <1>9, <1>11 DEF Joined, Ordered, Plain
<1> QED BY <1>5, <1>9, <1>10, <1>12

\* Carrying out the first effect leaves a list of effects.
LEMMA Rest ==
  ASSUME NEW p, Ordered(p), p # <<>>
  PROVE  /\ Ordered(Tail(p)) /\ 1 \in DOMAIN p /\ Head(p) = p[1]
         /\ \A i \in DOMAIN Tail(p) : i + 1 \in DOMAIN p /\ i + 1 # 1 /\ Tail(p)[i] = p[i + 1]
         /\ \A i \in DOMAIN p : i = 1 \/ \E j \in DOMAIN Tail(p) : i = j + 1 /\ Tail(p)[j] = p[i]
<1>1. PICK S : p \in Seq(S)
  BY DEF Ordered, IsSequence
<1>2. /\ Tail(p) \in Seq(S) /\ Len(Tail(p)) = Len(p) - 1
      /\ \A i \in 1..Len(Tail(p)) : Tail(p)[i] = p[i + 1]
  BY <1>1, HeadTailProperties
<1>3. Len(p) \in Nat /\ DOMAIN p = 1..Len(p) /\ Len(p) # 0 /\ Head(p) = p[1]
  BY <1>1, LenProperties, EmptySeq
<1>4. DOMAIN Tail(p) = 1..Len(Tail(p))
  BY <1>2, LenProperties
<1>5. \A i \in DOMAIN Tail(p) : i + 1 \in DOMAIN p /\ i + 1 # 1 /\ Tail(p)[i] = p[i + 1] /\ i \in Nat
  BY <1>2, <1>3, <1>4
<1>6. ASSUME NEW i \in DOMAIN p, i # 1
      PROVE  \E j \in DOMAIN Tail(p) : i = j + 1 /\ Tail(p)[j] = p[i]
  <2>1. i - 1 \in DOMAIN Tail(p) /\ i = (i - 1) + 1
    BY <1>2, <1>3, <1>4, <1>6
  <2> QED BY <1>2, <1>4, <2>1
<1>7. Ordered(Tail(p))
  <2>1. IsSequence(Tail(p))
    BY <1>2 DEF IsSequence
  <2>2. ASSUME NEW i \in DOMAIN Tail(p), NEW j \in DOMAIN Tail(p),
               Tail(p)[i][1] \notin Plain, Tail(p)[j][1] \notin Plain
        PROVE  i = j
    <3>1. i + 1 = j + 1
      BY <1>5, <2>2 DEF Ordered
    <3> QED BY <1>5, <3>1
  <2>3. \A i \in DOMAIN Tail(p) : Tail(p)[i][1] # "Message"
    BY <1>5 DEF Ordered
  <2> QED BY <2>1, <2>2, <2>3 DEF Ordered
<1> QED BY <1>3, <1>5, <1>6, <1>7

-----------------------------------------------------------------------------
(* An input.                                                               *)

\* After an input, both lists hold the same deadlines again: what the effects
\* tell is all that has changed, but for a deadline that had fired.
LEMMA DeadlinesFollow ==
  ASSUME Engines, NEW x, x.deadlines \subseteq DOMAIN armed, NEW r,
         EngineOK(r.e), Reported(x, r.e),
         Deadlines(r, {<<k, armed[k]>> : k \in x.deadlines})
  PROVE  /\ DOMAIN armed' = r.e.deadlines
         /\ table' = {<<kind, armed'[kind]>> : kind \in DOMAIN armed'}
<1> DEFINE now == [k \in r.e.deadlines |-> IF k \in r.e.touched THEN FreshId(k) ELSE armed[k]]
           cancelled == {<<k, armed[k]>> : k \in r.e.touched \cap DOMAIN armed}
           entries == {<<k, armed[k]>> : k \in x.deadlines}
<1>1. /\ armed' = now
      /\ table' = (entries \ cancelled) \cup {<<k, now[k]>> : k \in r.e.touched \cap r.e.deadlines}
  BY DEF Deadlines
<1>2. \A k \in r.e.deadlines \ r.e.touched : k \in x.deadlines /\ now[k] = armed[k]
  BY DEF Reported, EngineOK, Held
<1>3. \A k \in x.deadlines \ r.e.touched : k \in r.e.deadlines
  BY DEF Reported, Engines, EngineOK, Held
<1>4. DOMAIN now = r.e.deadlines
  OBVIOUS
<1> HIDE DEF now
<1>5. ASSUME NEW entry \in table'
      PROVE  \E k \in r.e.deadlines : entry = <<k, now[k]>>
  <2>1. CASE entry \in entries \ cancelled
    <3>1. PICK k \in x.deadlines : entry = <<k, armed[k]>>
      BY <2>1
    <3>2. k \notin r.e.touched
      BY <2>1, <3>1
    <3> QED BY <1>2, <1>3, <3>1, <3>2
  <2>2. CASE entry \in {<<k, now[k]>> : k \in r.e.touched \cap r.e.deadlines}
    BY <2>2
  <2> QED BY <1>1, <1>5, <2>1, <2>2
<1>6. ASSUME NEW k \in r.e.deadlines
      PROVE  <<k, now[k]>> \in table'
  <2>1. CASE k \in r.e.touched
    BY <1>1, <2>1
  <2>2. CASE k \notin r.e.touched
    <3>1. <<k, now[k]>> \in entries
      BY <1>2, <2>2
    <3>2. <<k, now[k]>> \notin cancelled
      BY <2>2
    <3> QED BY <1>1, <3>1, <3>2
  <2> QED BY <2>1, <2>2
<1> QED BY <1>1, <1>4, <1>5, <1>6

\* The effects of an input tell the application of the change they come with.
LEMMA EffectsInform ==
  ASSUME NEW t, NEW e, NEW r, Handled(e, r), Current(t, e), e.phase # "Closed"
  PROVE  InStep(t, Effects(r), r.e)
<1>1. t.stage \in {"Opened", "Asked", "Established"}
  BY DEF Current, StageOf
<1>2. e.phase = "Established" <=> t.stage = "Established"
  BY DEF Current, StageOf
<1>3. r.event[1] = "none" => Current(t, r.e)
  BY DEF Handled, Legal, Current, Same
<1>4. r.event[1] # "none" => r.event[1] \notin Plain /\ Due(t, r.event, r.e)
  <2> SUFFICES ASSUME r.event[1] # "none"
               PROVE  r.event[1] \notin Plain /\ Due(t, r.event, r.e)
    OBVIOUS
  <2>1. Legal(e, r)
    BY DEF Handled
  <2>2. r.event[1] \notin Plain
    BY <2>1 DEF Legal, Plain
  <2>3. Same(e, r.e) => Current(t, r.e)
    BY DEF Current, Same
  <2> QED BY <1>1, <1>2, <2>1, <2>2, <2>3 DEF Legal, Due, Current, Moves
<1>5. r.deliver # NoContent => t.stage = "Established"
  BY <1>2 DEF Handled, Delivers
<1>6. \A i \in DOMAIN Effects(r) :
         \/ Effects(r)[i] = <<"Message">> /\ r.deliver # NoContent
         \/ Effects(r)[i] = <<"Send">>
         \/ Effects(r)[i] = r.event /\ r.event[1] # "none"
         \/ Effects(r)[i] = <<"CloseTransport">> /\ r.e.phase = "Closed"
  BY EffectsAre
<1>7. r.event[1] # "none" => \E i \in DOMAIN Effects(r) : Effects(r)[i] = r.event
  BY EffectsAre
<1>8. (\A i \in DOMAIN Effects(r) : Effects(r)[i][1] \in Plain) => Current(t, r.e)
  BY <1>3, <1>4, <1>7
<1>9. ASSUME NEW i \in DOMAIN Effects(r), Effects(r)[i][1] \notin Plain
      PROVE  Due(t, Effects(r)[i], r.e)
  BY <1>4, <1>6, <1>9 DEF Plain
<1>10. ASSUME NEW i \in DOMAIN Effects(r), Effects(r)[i][1] = "Message"
       PROVE  t.stage = "Established"
  BY <1>4, <1>5, <1>6, <1>10 DEF Plain
<1> QED BY <1>8, <1>9, <1>10 DEF InStep

\* An input is handed over when the last one has been dealt with.  e stands for
\* the engine, without a deadline that has fired.
LEMMA Feeds ==
  ASSUME Inv, pc # "Done", pending = <<>>,
         NEW e, NEW r, NEW entries, Apply(r, entries),
         engine.phase # "Closed" => Handled(e, r),
         e.role = engine.role, e.phase = engine.phase, Same(engine, e),
         e.deadlines \subseteq DOMAIN armed, entries = {<<k, armed[k]>> : k \in e.deadlines},
         pc' = "Run", permit' = permit, closing' = closing, receiver' = receiver,
         receiver => Current(told', engine)
  PROVE  Engines' /\ Ordered(pending)' /\ Closing' /\ Permits' /\ Informed'
<1>1. CASE engine.phase = "Closed"
  <2>1. engine' = engine /\ armed' = armed /\ pending' = <<>> /\ table' = entries
    BY <1>1 DEF Apply
  <2>2. DOMAIN armed = {} /\ entries = {}
    BY <1>1 DEF Inv, Engines, EngineOK
  <2>3. Engines'
    BY <2>1, <2>2 DEF Inv, Engines, DeadlinesAgree
  <2>4. Ordered(pending)' /\ Closing' /\ Permits'
    BY <1>1, <2>1, NoneSent DEF Inv, Ordered, Closing, Permits, Unauthenticated
  <2>5. Informed'
    BY <2>1 DEF Informed, InStep, Current
  <2> QED BY <2>3, <2>4, <2>5
<1>2. CASE engine.phase # "Closed"
  <2>1. engine' = Settled(r.e) /\ pending' = Effects(r) /\ Deadlines(r, entries) /\ Handled(e, r)
    BY <1>2 DEF Apply
  <2>2. /\ EngineOK(engine') /\ engine'.role = r.e.role /\ engine'.phase = r.e.phase
        /\ engine'.run = r.e.run /\ engine'.deadlines = r.e.deadlines /\ engine'.touched = {}
    BY <2>1, Settles DEF Handled
  <2>3. Engines'
    <3>1. DOMAIN armed' = r.e.deadlines /\ table' = {<<kind, armed'[kind]>> : kind \in DOMAIN armed'}
      BY <2>1, DeadlinesFollow DEF Inv, Handled
    <3> QED BY <2>2, <3>1 DEF Engines, DeadlinesAgree
  <2>4. /\ Ordered(pending')
        /\ \A i \in DOMAIN pending' :
              \/ pending'[i] = <<"Message">> /\ r.deliver # NoContent
              \/ pending'[i] = <<"Send">>
              \/ pending'[i] = r.event /\ r.event[1] # "none"
              \/ pending'[i] = <<"CloseTransport">> /\ r.e.phase = "Closed"
        /\ r.event[1] # "none" => \E i \in DOMAIN pending' : pending'[i] = r.event
    BY <2>1, EffectsAre
  <2>5. Closing'
    <3>1. r.event[1] # "CloseTransport"
      BY <2>1 DEF Handled, Legal
    <3>2. ~closing
      BY <1>2 DEF Inv, Closing
    <3> QED BY <2>2, <2>4, <3>1, <3>2 DEF Closing
  <2>6. Permits'
    <3>1. r.e.role = engine.role
      BY <2>1 DEF Handled
    <3>2. Unauthenticated(r.e) => Unauthenticated(engine)
      BY <1>2, <2>1 DEF Handled, Legal, Same, Moves, StageOf, Unauthenticated, Inv, Engines, EngineOK
    <3>3. Unauthenticated(engine) /\ ~Unauthenticated(r.e) => EndsHandshake(r.event[1])
      BY <1>2, <2>1, <2>2 DEF Handled, Legal, Same, Moves, StageOf, Unauthenticated, EndsHandshake,
         EngineOK
    <3>4. EndsHandshake(r.event[1]) => ~Unauthenticated(r.e)
      BY <2>1 DEF Handled, Legal, Moves, StageOf, EndsHandshake, Unauthenticated
    <3>5. permit => engine.role = "Responder" /\ Unauthenticated(engine)
      BY DEF Inv, Permits
    <3>6. engine.role = "Responder" /\ Unauthenticated(engine) => permit
      BY DEF Inv, Permits
    <3>7. Unauthenticated(engine') <=> Unauthenticated(r.e)
      BY <2>2 DEF Unauthenticated
    <3>8. ~EndsHandshake("none") /\ ~EndsHandshake("Message") /\ ~EndsHandshake("Send")
          /\ ~EndsHandshake("CloseTransport")
      BY DEF EndsHandshake
    <3>9. permit' => \/ Unauthenticated(engine')
                     \/ \E i \in DOMAIN pending' : EndsHandshake(pending'[i][1])
      BY <2>4, <3>3, <3>5, <3>7, <3>8
    <3>10. \A i \in DOMAIN pending' : EndsHandshake(pending'[i][1]) => ~Unauthenticated(engine')
      BY <2>4, <3>4, <3>7, <3>8
    <3> QED BY <2>2, <3>1, <3>2, <3>5, <3>6, <3>7, <3>9, <3>10 DEF Permits
  <2>7. Informed'
    <3> SUFFICES ASSUME receiver
                 PROVE  InStep(told', pending', engine')
      BY DEF Informed
    <3>1. Current(told', e)
      BY DEF Current, Same
    <3>2. InStep(told', Effects(r), r.e)
      BY <1>2, <2>1, <3>1, EffectsInform
    <3>3. StageOf(engine') = StageOf(r.e) /\ (UnderWay(engine') <=> UnderWay(r.e))
      BY <2>2 DEF StageOf, UnderWay
    <3> QED BY <2>1, <2>2, <3>2, <3>3 DEF InStep, Due, Current
  <2> QED BY <2>3, <2>4, <2>5, <2>6, <2>7
<1> QED BY <1>1, <1>2

\* An input that comes from no deadline.
LEMMA FeedsNow ==
  ASSUME Inv, pc # "Done", pending = <<>>, NEW r, Apply(r, table),
         engine.phase # "Closed" => Handled(engine, r),
         pc' = "Run", permit' = permit, closing' = closing, receiver' = receiver,
         receiver => Current(told', engine)
  PROVE  Engines' /\ Ordered(pending)' /\ Closing' /\ Permits' /\ Informed'
<1>1. engine.deadlines \subseteq DOMAIN armed /\ table = {<<k, armed[k]>> : k \in engine.deadlines}
  BY DEF Inv, Engines, DeadlinesAgree
<1>2. Same(engine, engine)
  BY DEF Same
<1> QED BY <1>1, <1>2, Feeds

-----------------------------------------------------------------------------
(* Effects, one at a time.                                                 *)

\* An effect that tells nothing changes nothing for the application.
LEMMA Passes ==
  ASSUME NEW t, NEW p, NEW e, Ordered(p), p # <<>>, InStep(t, p, e),
         Head(p)[1] \in {"Send", "CloseTransport"}
  PROVE  InStep(t, Tail(p), e)
<1>1. /\ 1 \in DOMAIN p /\ Head(p) = p[1]
      /\ \A i \in DOMAIN Tail(p) : i + 1 \in DOMAIN p /\ i + 1 # 1 /\ Tail(p)[i] = p[i + 1]
      /\ \A i \in DOMAIN p : i = 1 \/ \E j \in DOMAIN Tail(p) : i = j + 1 /\ Tail(p)[j] = p[i]
  BY Rest
<1>2. (\A i \in DOMAIN Tail(p) : Tail(p)[i][1] \in Plain) => \A i \in DOMAIN p : p[i][1] \in Plain
  BY <1>1 DEF Plain
<1> QED BY <1>1, <1>2 DEF InStep

\* Once an event is told, the application knows what it told of.
LEMMA Tells ==
  ASSUME NEW t, NEW p, NEW e, Ordered(p), p # <<>>, InStep(t, p, e),
         Head(p)[1] \notin {"Send", "CloseTransport"}
  PROVE  InStep(Told(t, Head(p)), Tail(p), e)
<1> DEFINE u == Told(t, Head(p))
<1>1. /\ 1 \in DOMAIN p /\ Head(p) = p[1]
      /\ \A i \in DOMAIN Tail(p) : i + 1 \in DOMAIN p /\ i + 1 # 1 /\ Tail(p)[i] = p[i + 1]
      /\ \A i \in DOMAIN p : i = 1 \/ \E j \in DOMAIN Tail(p) : i = j + 1 /\ Tail(p)[j] = p[i]
  BY Rest
<1>2. \A i \in DOMAIN Tail(p) : Tail(p)[i][1] # "Message"
  BY <1>1 DEF Ordered
<1>3. CASE Head(p)[1] = "Message"
  <2>1. u.stage = t.stage /\ u.rekeying = t.rekeying
    BY <1>3 DEF Told
  <2>2. (\A i \in DOMAIN Tail(p) : Tail(p)[i][1] \in Plain) => \A i \in DOMAIN p : p[i][1] \in Plain
    BY <1>1, <1>3 DEF Plain
  <2>3. (\A i \in DOMAIN Tail(p) : Tail(p)[i][1] \in Plain) => Current(u, e)
    BY <2>1, <2>2 DEF InStep, Current
  <2> HIDE DEF u
  <2>4. ASSUME NEW i \in DOMAIN Tail(p), Tail(p)[i][1] \notin Plain
        PROVE  Due(u, Tail(p)[i], e)
    <3>1. Due(t, Tail(p)[i], e)
      BY <1>1, <2>4 DEF InStep
    <3> QED BY <2>1, <3>1 DEF Due, Current
  <2>5. InStep(u, Tail(p), e)
    BY <1>2, <2>3, <2>4 DEF InStep
  <2> QED BY <2>5 DEF u
<1>4. CASE Head(p)[1] # "Message"
  <2>1. Head(p)[1] \notin Plain /\ Due(t, Head(p), e)
    BY <1>1, <1>4 DEF Plain, InStep
  <2>2. Current(u, e)
    BY <2>1 DEF Due, Told, Current, StageOf, UnderWay
  <2>3. ASSUME NEW i \in DOMAIN Tail(p)
        PROVE  Tail(p)[i][1] \in Plain
    BY <1>1, <2>1, <2>3 DEF Ordered
  <2> HIDE DEF u
  <2>4. InStep(u, Tail(p), e)
    BY <1>2, <2>2, <2>3 DEF InStep
  <2> QED BY <2>4 DEF u
<1> QED BY <1>3, <1>4

\* The engine waits while effects are carried out.
LEMMA CarriesOut ==
  ASSUME Inv, pending # <<>>, UNCHANGED <<engine, armed, table>>, pending' = Tail(pending),
         permit' = permit, permit => ~EndsHandshake(Head(pending)[1]), pc' = pc, pc = "Run",
         closing' = closing \/ (closing' /\ Head(pending)[1] = "CloseTransport")
  PROVE  Engines' /\ Ordered(pending)' /\ Closing' /\ Permits'
<1>1. /\ Ordered(Tail(pending)) /\ 1 \in DOMAIN pending /\ Head(pending) = pending[1]
      /\ \A i \in DOMAIN Tail(pending) :
            i + 1 \in DOMAIN pending /\ i + 1 # 1 /\ Tail(pending)[i] = pending[i + 1]
      /\ \A i \in DOMAIN pending :
            i = 1 \/ \E j \in DOMAIN Tail(pending) : i = j + 1 /\ Tail(pending)[j] = pending[i]
  BY Rest DEF Inv
<1>2. Engines'
  BY DEF Inv, Engines, DeadlinesAgree
<1>3. Closing'
  <2>1. closing' => engine.phase = "Closed"
    BY <1>1 DEF Inv, Closing
  <2>2. \A i \in DOMAIN Tail(pending) : Tail(pending)[i][1] = "CloseTransport" => engine.phase = "Closed"
    BY <1>1 DEF Inv, Closing
  <2> QED BY <2>1, <2>2 DEF Closing
<1>4. Permits'
  <2>1. permit /\ (\E i \in DOMAIN pending : EndsHandshake(pending[i][1]))
          => \E i \in DOMAIN Tail(pending) : EndsHandshake(Tail(pending)[i][1])
    BY <1>1
  <2>2. \A i \in DOMAIN Tail(pending) : EndsHandshake(Tail(pending)[i][1]) => ~Unauthenticated(engine)
    BY <1>1 DEF Inv, Permits
  <2> QED BY <2>1, <2>2 DEF Inv, Permits
<1> QED BY <1>1, <1>2, <1>3, <1>4

-----------------------------------------------------------------------------

\* A task that is about to announce its connection.
LEMMA InitInv == Init => Inv
<1> SUFFICES ASSUME Init
             PROVE  Inv
  OBVIOUS
<1>1. PICK role \in {"Initiator", "Responder"} : engine = NewEngine(role, LOCAL_IDENTITY)
  BY DEF Init
<1>2. EngineOK(engine) /\ engine.role = role /\ engine.phase = "Idle"
      /\ engine.deadlines = {} /\ engine.touched = {}
  BY <1>1, Fresh DEF NewEngine
<1>3. Engines
  BY <1>2 DEF Init, Engines, DeadlinesAgree
<1>4. Pairs /\ Closing /\ Informed
  BY DEF Init, Pairs, Closing, Informed
<1>5. Ordered(pending)
  BY NoneSent DEF Init, Ordered
<1>6. Permits
  <2>1. (permit <=> engine.role = "Responder") /\ pending = <<>>
    BY DEF Init
  <2>2. Unauthenticated(engine)
    BY <1>2 DEF Unauthenticated
  <2>3. \A i \in DOMAIN pending : EndsHandshake(pending[i][1]) => ~Unauthenticated(engine)
    BY <2>1
  <2> QED BY <2>1, <2>2, <2>3 DEF Permits
<1>7. Flow
  BY <1>2 DEF Init, Flow
<1> QED BY <1>3, <1>4, <1>5, <1>6, <1>7 DEF Inv

\* Every step of the loop keeps the invariant.
LEMMA StepInv == Inv /\ [Next]_vars => Inv'
<1> SUFFICES ASSUME Inv, [Next]_vars
             PROVE  Inv'
  OBVIOUS
<1>0. EngineOK(engine)
  BY DEF Inv, Engines
<1>20. pc = "Run" /\ pending = <<>> /\ receiver => Current(told, engine)
  BY DEF Inv, Informed, InStep
<1>1. CASE UNCHANGED vars
  BY <1>1 DEF vars, Inv, Engines, DeadlinesAgree, Pairs, Ordered, Closing, Permits, Informed, Flow
<1>2. CASE SendWritten
  BY <1>2, CarriesOut, Passes DEF SendWritten, Processing, flow, queues, EndsHandshake, Inv, Pairs, Informed, Flow
<1>3. CASE SendFails
  BY <1>3, CarriesOut, Passes DEF SendFails, Processing, queues, EndsHandshake, Inv, Pairs, Informed, Flow
<1>4. CASE ReleasePermit
  BY <1>4 DEF ReleasePermit, queues, Inv, Engines, DeadlinesAgree, Pairs, Closing, Permits, Informed, Flow
<1>5. CASE Notify
  BY <1>5, CarriesOut, Tells DEF Notify, emit, Inv, Pairs, Informed, Flow
<1>6. CASE CloseTransport
  BY <1>6, CarriesOut, Passes DEF CloseTransport, Processing, queues, EndsHandshake, Inv, Pairs, Informed, Flow
<1>7. CASE Announce
  <2>1. pc = "Announce" /\ pending = <<>> /\ batch = {} /\ engine.phase = "Idle"
    BY <1>7 DEF Announce, Inv, Flow
  <2>2. CASE receiver
    <3>1. /\ Apply(start(engine), table) /\ pc' = "Run" /\ permit' = permit /\ closing' = closing
          /\ receiver' = receiver /\ told' = Told(told, <<"Opened">>)
          /\ batch' = batch /\ control' = control
      BY <1>7, <2>2 DEF Announce, emit, ApplyNow
    <3>2. told.rekeying = FALSE
      BY <2>1, <2>2 DEF Inv, Informed
    <3>3. Current(told', engine)
      BY <2>1, <3>1, <3>2 DEF Current, Told, StageOf, UnderWay
    <3>4. Engines' /\ Ordered(pending)' /\ Closing' /\ Permits' /\ Informed'
      BY <1>0, <2>1, <3>1, <3>3, Starts, FeedsNow
    <3> QED BY <2>1, <3>1, <3>4 DEF Inv, Pairs, Flow
  <2>3. CASE ~receiver
    BY <1>7, <2>1, <2>3 DEF Announce, queues, Inv, Engines, DeadlinesAgree, Pairs, Closing, Permits,
       Informed, Flow
  <2> QED BY <2>2, <2>3
<1>8. CASE Settle
  <2>1. \/ Apply(transport_closed(engine), table)
        \/ Apply(local_close(engine), table)
    BY <1>8 DEF Settle, ApplyNow
  <2>2. pc = "Run" /\ pending = <<>> /\ UNCHANGED <<batch, flow, queues>>
    BY <1>8 DEF Settle, ApplyNow
  <2>3. Engines' /\ Ordered(pending)' /\ Closing' /\ Permits' /\ Informed'
    BY <1>0, <1>20, <2>1, <2>2, Ends, FeedsNow DEF flow, queues
  <2> QED BY <2>2, <2>3 DEF flow, queues, Inv, Pairs, Flow
<1>9. CASE Read
  BY <1>9 DEF Read, flow, queues, Inv, Engines, DeadlinesAgree, Pairs, Closing, Permits, Informed, Flow
<1>10. CASE ReadEnd \/ HandlesGone
  <2>1. \/ Apply(transport_closed(engine), table)
        \/ Apply(local_close(engine), table)
    BY <1>10 DEF ReadEnd, HandlesGone, ApplyNow
  <2>2. pc = "Run" /\ pending = <<>> /\ UNCHANGED <<batch, flow, queues>>
    BY <1>10 DEF ReadEnd, HandlesGone, Selecting, Applied, ApplyNow
  <2>3. Engines' /\ Ordered(pending)' /\ Closing' /\ Permits' /\ Informed'
    BY <1>0, <1>20, <2>1, <2>2, Ends, FeedsNow DEF flow, queues
  <2> QED BY <2>2, <2>3 DEF flow, queues, Inv, Pairs, Flow
<1>11. CASE DrainFrame
  <2>1. \/ \E f : Apply(on_frame(engine, f), table)
        \/ \E respond : Apply(malformed(engine, respond), table)
    BY <1>11 DEF DrainFrame
  <2>2. pc = "Run" /\ pending = <<>> /\ UNCHANGED <<batch, flow, queues>>
    BY <1>11 DEF DrainFrame, Applied
  <2>3. Engines' /\ Ordered(pending)' /\ Closing' /\ Permits' /\ Informed'
    BY <1>0, <1>20, <2>1, <2>2, Frame, Ends, FeedsNow DEF flow, queues
  <2> QED BY <2>2, <2>3 DEF flow, queues, Inv, Pairs, Flow
<1>12. CASE RecvMessage
  <2>1. /\ Apply(on_send(engine, 1), table) /\ pc = "Run" /\ pending = <<>>
        /\ UNCHANGED <<batch, flow, control, receiver, told>>
    BY <1>12 DEF RecvMessage, Selecting, Applied, ApplyNow
  <2>2. Engines' /\ Ordered(pending)' /\ Closing' /\ Permits' /\ Informed'
    BY <1>0, <1>20, <2>1, Sends, FeedsNow DEF flow
  <2> QED BY <2>1, <2>2 DEF flow, Inv, Pairs, Flow
<1>13. CASE RecvControl
  <2>1. /\ Apply(ControlInput(Head(control)), table) /\ pc = "Run" /\ pending = <<>>
        /\ UNCHANGED <<batch, flow, receiver, told>>
        /\ control # <<>> /\ control' = Tail(control)
    BY <1>13 DEF RecvControl, Selecting, Applied, ApplyNow
  <2>2. Head(control) \in Command /\ control' \in Seq(Command)
    BY <2>1 DEF Inv, Flow
  <2>3. Handled(engine, ControlInput(Head(control)))
    BY <1>0, <2>2, Ends, Begins, Answers DEF ControlInput, Command
  <2>4. Engines' /\ Ordered(pending)' /\ Closing' /\ Permits' /\ Informed'
    BY <1>20, <2>1, <2>3, FeedsNow DEF flow
  <2> QED BY <2>1, <2>2, <2>4 DEF flow, Inv, Pairs, Flow
<1>14. ASSUME NEW due \in SUBSET table, FireDue(due)
       PROVE  Inv'
  <2>1. \A entry \in due : entry = <<entry[1], entry[2]>>
    BY DEF Inv, Engines, DeadlinesAgree
  <2>2. Pairs'
    BY <1>14, <2>1 DEF FireDue, Pairs
  <2> QED BY <1>14, <2>2 DEF FireDue, Selecting, Applied, flow, queues, Inv, Engines, DeadlinesAgree,
          Closing, Permits, Informed, Flow
<1>15. ASSUME NEW entry \in batch, FireNext(entry)
       PROVE  Inv'
  <2>1. /\ Apply(HandleTimeout(entry), table \ {entry}) /\ pc = "Run" /\ pending = <<>>
        /\ batch' = batch \ {entry} /\ UNCHANGED <<flow, queues>>
    BY <1>15 DEF FireNext, Applied, Retained
  <2>2. /\ entry = <<entry[1], entry[2]>> /\ DOMAIN armed = engine.deadlines
        /\ table = {<<k, armed[k]>> : k \in DOMAIN armed}
    BY <1>15 DEF Inv, Pairs, Engines, DeadlinesAgree
  <2>3. CASE entry[1] \in DOMAIN armed /\ armed[entry[1]] = entry[2]
    <3> DEFINE e == Fired(engine, entry[1])
    <3>1. Same(engine, e) /\ Handled(e, HandleTimeout(entry))
      BY <1>0, <2>2, <2>3, Fires DEF HandleTimeout
    <3>2. e.role = engine.role /\ e.phase = engine.phase /\ e.deadlines = engine.deadlines \ {entry[1]}
      BY <1>0 DEF Fired, EngineOK, Held, EngineFields
    <3> HIDE DEF e
    <3>3. table \ {entry} = {<<k, armed[k]>> : k \in e.deadlines}
      BY <2>2, <2>3, <3>2
    <3>4. e.deadlines \subseteq DOMAIN armed
      BY <2>2, <3>2
    <3> QED BY <1>20, <2>1, <3>1, <3>2, <3>3, <3>4, Feeds DEF flow, queues, Inv, Pairs, Flow
  <2>4. CASE ~(entry[1] \in DOMAIN armed /\ armed[entry[1]] = entry[2])
    <3>1. table \ {entry} = table
      BY <2>2, <2>4
    <3>2. HandleTimeout(entry) = Result(engine, <<>>, <<"none">>)
      BY <2>4 DEF HandleTimeout
    <3>3. Handled(engine, HandleTimeout(entry))
      BY <1>0, <3>2, Quiet, NoneSent DEF Reported, Same
    <3> QED BY <1>20, <2>1, <3>1, <3>3, FeedsNow DEF flow, queues, Inv, Pairs, Flow
  <2> QED BY <2>3, <2>4
<1>16. CASE Finish
  BY <1>16 DEF Finish, Applied, Inv, Engines, DeadlinesAgree, Pairs, Closing, Permits, Informed, Flow
<1>17. CASE NextEvent \/ SendMessage \/ DropHandles
  BY <1>17 DEF NextEvent, SendMessage, DropHandles, task, Inv, Engines, DeadlinesAgree, Pairs, Closing,
     Permits, Informed, Flow
<1>18. ASSUME NEW c \in Command \cap USES, SendControl(c)
       PROVE  Inv'
  <2>1. Append(control, c) \in Seq(Command)
    BY DEF Inv, Flow
  <2> QED BY <1>18, <2>1 DEF SendControl, task, Inv, Engines, DeadlinesAgree, Pairs, Closing, Permits,
          Informed, Flow
<1>19. CASE DropReceiver
  BY <1>19 DEF DropReceiver, task, Inv, Engines, DeadlinesAgree, Pairs, Closing, Permits, Informed, Flow
<1> QED BY <1>1, <1>2, <1>3, <1>4, <1>5, <1>6, <1>7, <1>8, <1>9, <1>10, <1>11, <1>12, <1>13, <1>14,
        <1>15, <1>16, <1>17, <1>18, <1>19 DEF Next

\* The inductive invariant of a task.
THEOREM Inductive == Spec => []Inv
BY InitInv, StepInv, PTL DEF Spec

\* The driver's table and the engine's list of deadlines agree at every step,
\* also while a batch of expired deadlines is being fed.
THEOREM ListsAgree == Spec => []DeadlinesAgree
<1>1. Inv => DeadlinesAgree
  BY DEF Inv, Engines
<1> QED BY <1>1, Inductive, PTL

\* A handshake permit is held exactly while the connection is unauthenticated.
THEOREM PermitIsExact == Spec => []PermitExact
<1>1. Inv => PermitExact
  BY DEF Inv, Permits, Unauthenticated, PermitExact
<1> QED BY <1>1, Inductive, PTL

\* A connection that was announced does not end without Closed.
THEOREM EndIsTold == Spec => []NoSilentEnd
<1>1. Inv => NoSilentEnd
  <2> SUFFICES ASSUME Inv, pc = "Done", receiver
               PROVE  told.stage = "Closed"
    BY DEF NoSilentEnd
  <2>1. closing /\ pending = <<>>
    BY DEF Inv, Flow
  <2>2. engine.phase = "Closed"
    BY <2>1 DEF Inv, Closing
  <2>3. Current(told, engine)
    BY <2>1 DEF Inv, Informed, InStep
  <2> QED BY <2>2, <2>3 DEF Current, StageOf
<1> QED BY <1>1, Inductive, PTL

-----------------------------------------------------------------------------
(* The order of events.                                                    *)

\* Before the announcement the application has been told nothing.
LEMMA InitEvents == Init => Contract!Init
BY DEF Init, Contract!Init

\* An event that is due is one the application may expect now.
LEMMA DueIsAllowed ==
  ASSUME NEW event, NEW e, Due(told, event, e), told' = Told(told, event)
  PROVE  Contract!Next
<1> DEFINE Repeated == <<"RekeyFailed", "Repeated">>
           name == IF event = Repeated THEN "RekeyRejected" ELSE event[1]
<1>1. /\ told'.last = name
      /\ told'.stage = CASE name = "Opened"      -> "Opened"
                         [] name = "RequestSas"  -> "Asked"
                         [] name = "Established" -> "Established"
                         [] name = "Closed"      -> "Closed"
                         [] OTHER -> told.stage
      /\ told'.rekeying = CASE name = "RekeyStarted" -> TRUE
                            [] name \in {"RekeyCompleted", "RekeyFailed", "Closed"} -> FALSE
                            [] OTHER -> told.rekeying
  BY DEF Told
<1>2. event[1] # "RekeyFailed" => name = event[1]
  BY DEF Repeated
<1> HIDE DEF name, Repeated
<1>3. CASE event[1] = "SendRejected"
  BY <1>1, <1>2, <1>3 DEF Due, Repeated, Contract!Next, Contract!SendRejected
<1>4. CASE event[1] = "DataRejected"
  BY <1>1, <1>2, <1>4 DEF Due, Repeated, Contract!Next, Contract!Traffic, Contract!Advance
<1>5. CASE event = Repeated
  <2>1. name = "RekeyRejected" /\ event[1] = "RekeyFailed"
    BY <1>5 DEF name, Repeated
  <2> QED BY <1>1, <1>5, <2>1 DEF Due, Repeated, Contract!Next, Contract!RekeyRejected, Contract!Advance
<1>6. CASE event[1] = "RequestSas"
  BY <1>1, <1>2, <1>6 DEF Due, Repeated, Contract!Next, Contract!SasRequired, Contract!Advance
<1>7. CASE event[1] = "Established"
  BY <1>1, <1>2, <1>7 DEF Due, Repeated, Contract!Next, Contract!Established, Contract!Advance
<1>8. CASE event[1] = "RekeyStarted"
  BY <1>1, <1>2, <1>8 DEF Due, Repeated, Contract!Next, Contract!RekeyStarted, Contract!Advance
<1>9. CASE event[1] \in {"RekeyCompleted", "RekeyFailed"} /\ event # Repeated
  <2>1. name = event[1]
    BY <1>9 DEF name
  <2>2. told.stage = "Established" /\ told.rekeying
    BY <1>9 DEF Due, Repeated
  <2>3. told'.stage = "Established" /\ told'.rekeying = FALSE /\ told'.last = event[1]
    BY <1>1, <1>9, <2>1, <2>2
  <2>4. Contract!RekeyEnded(event[1])
    BY <2>2, <2>3 DEF Contract!RekeyEnded, Contract!Advance
  <2> QED BY <1>9, <2>4 DEF Contract!Next
<1>10. CASE event[1] = "Closed"
  BY <1>1, <1>2, <1>10 DEF Due, Repeated, Contract!Next, Contract!Closed, Contract!Advance
<1> QED BY <1>3, <1>4, <1>5, <1>6, <1>7, <1>8, <1>9, <1>10 DEF Due, Repeated

\* A step of the task is a step of the contract or one it does not see.
LEMMA StepEvents == Inv /\ [Next]_vars => [Contract!Next]_(Contract!vars)
<1> SUFFICES ASSUME Inv, [Next]_vars
             PROVE  [Contract!Next]_(Contract!vars)
  OBVIOUS
<1>1. CASE told' = told
  BY <1>1 DEF Contract!vars
<1>2. CASE Notify /\ receiver
  <2>1. /\ 1 \in DOMAIN pending /\ Head(pending) = pending[1]
        /\ Head(pending)[1] \notin {"Send", "CloseTransport"}
        /\ told' = Told(told, Head(pending)) /\ pc = "Run"
    BY <1>2, Rest DEF Notify, emit, Inv
  <2>2. InStep(told, pending, engine)
    BY <1>2, <2>1 DEF Inv, Informed
  <2>3. CASE Head(pending)[1] = "Message"
    <3>1. told.stage = "Established" /\ told' = Told(told, Head(pending))
      BY <2>1, <2>2, <2>3 DEF InStep
    <3>2. Head(pending) # <<"RekeyFailed", "Repeated">>
      BY <2>3
    <3>3. told'.stage = "Established" /\ told'.rekeying = told.rekeying /\ told'.last = "Message"
      BY <2>3, <3>1, <3>2 DEF Told
    <3> QED BY <3>1, <3>3 DEF Contract!Next, Contract!Traffic, Contract!Advance
  <2>4. CASE Head(pending)[1] # "Message"
    <3>1. Due(told, Head(pending), engine)
      BY <2>1, <2>2, <2>4 DEF InStep, Plain
    <3> QED BY <2>1, <3>1, DueIsAllowed
  <2> QED BY <2>3, <2>4
<1>3. CASE Announce /\ receiver
  <2>1. told.stage = "Unopened" /\ told.rekeying = FALSE
    BY <1>3 DEF Announce, Inv, Informed
  <2>2. told' = Told(told, <<"Opened">>)
    BY <1>3 DEF Announce, emit
  <2>3. told'.stage = "Opened" /\ told'.rekeying = told.rekeying /\ told'.last = "Opened"
    BY <2>2 DEF Told
  <2> QED BY <2>1, <2>3 DEF Contract!Next, Contract!Opened, Contract!Advance
<1>4. CASE ~((Notify \/ Announce) /\ receiver)
  <2>1. told' = told
    BY <1>4 DEF Next, vars, flow, queues, task, emit, SendWritten, SendFails, ReleasePermit, Notify,
       CloseTransport, Announce, Settle, Read, ReadEnd, DrainFrame, RecvMessage, RecvControl,
       HandlesGone, FireDue, FireNext, Finish, NextEvent, SendMessage, SendControl, DropHandles,
       DropReceiver
  <2> QED BY <1>1, <2>1
<1> QED BY <1>2, <1>3, <1>4

\* A task implements the order of events that the application relies on,
\* whatever its engine receives and however long its queues are.
THEOREM KeepsTheOrder == Spec => EventsInOrder
BY InitEvents, StepEvents, Inductive, PTL DEF Spec, EventsInOrder, Contract!Spec

-----------------------------------------------------------------------------
(* The retry of a failed rekey.                                            *)

\* terminate leaves the block on rekeys as it is.
LEMMA TerminateBlocks ==
  ASSUME NEW e, EngineOK(e), NEW why, NEW notify
  PROVE  terminate(e, why, notify).e.rekey_blocked = e.rekey_blocked
BY DEF terminate, Result, cancel_all, cancel, EngineOK, Held, EngineFields

\* Only RekeyDue lifts a block by a timeout.
LEMMA TimeoutBlocks ==
  ASSUME NEW e, EngineOK(e), NEW kind \in e.deadlines, kind # "RekeyDue", e.rekey_blocked
  PROVE  on_timeout(e, kind).e.rekey_blocked
<1> DEFINE fired == [e EXCEPT !.deadlines = @ \ {kind}]
<1>1. DOMAIN fired = EngineFields /\ fired.rekey_blocked = e.rekey_blocked
  BY DEF EngineOK, Held, EngineFields
<1>2. kind \in DeadlineKind
  BY DEF EngineOK, Held
<1>3. \/ \E why, notify : on_timeout(e, kind) = terminate(fired, why, notify)
      \/ on_timeout(e, kind) = fail_rekey(fired, "TransportTimeout")
      \/ on_timeout(e, kind) = Result(fired, <<>>, <<"none">>)
      \/ on_timeout(e, kind) = Result([fired EXCEPT !.draining = NoSession], <<>>, <<"none">>)
  BY <1>2 DEF on_timeout, DeadlineKind
<1> HIDE DEF fired
<1>4. \A why, notify : terminate(fired, why, notify).e.rekey_blocked = fired.rekey_blocked
  BY <1>1 DEF terminate, Result, cancel_all, cancel, EngineFields
<1>5. fail_rekey(fired, "TransportTimeout").e.rekey_blocked
  BY <1>1 DEF fail_rekey, Result, arm, cancel, EngineFields
<1>6. /\ Result(fired, <<>>, <<"none">>).e.rekey_blocked
      /\ Result([fired EXCEPT !.draining = NoSession], <<>>, <<"none">>).e.rekey_blocked
  BY <1>1 DEF Result, EngineFields
<1> QED BY <1>1, <1>3, <1>4, <1>5, <1>6

\* In a batch of expired deadlines only the RekeyDue that is armed now can lift
\* a block.
LEMMA StepWaits ==
  Inv /\ [Next]_vars =>
    [(batch # {} /\ engine.rekey_blocked /\ ~engine'.rekey_blocked)
        => <<"RekeyDue", armed["RekeyDue"]>> \in batch]_vars
<1> SUFFICES ASSUME Inv, Next, batch # {}, engine.rekey_blocked, ~engine'.rekey_blocked
             PROVE  <<"RekeyDue", armed["RekeyDue"]>> \in batch
  OBVIOUS
<1>1. EngineOK(engine) /\ engine' # engine
  BY DEF Inv, Engines
<1>2. Settle \/ \E entry \in batch : FireNext(entry)
  <2>1. ~Announce
    BY DEF Announce, Inv, Flow
  <2> QED BY <1>1, <2>1 DEF Next, flow, queues, task, Selecting, ApplyNow, SendWritten, SendFails,
          ReleasePermit, Notify, CloseTransport, Read, ReadEnd, DrainFrame, RecvMessage, RecvControl,
          HandlesGone, FireDue, Finish, NextEvent, SendMessage, SendControl, DropHandles, DropReceiver
<1>3. ASSUME NEW e, NEW r, Handled(e, r), NEW entries, Apply(r, entries)
      PROVE  ~r.e.rekey_blocked
  <2>1. engine' = Settled(r.e)
    BY <1>1, <1>3 DEF Apply
  <2> QED BY <1>3, <2>1, Settles DEF Handled
<1>4. CASE Settle
  <2>1. \/ Apply(transport_closed(engine), table)
        \/ Apply(local_close(engine), table)
    BY <1>4 DEF Settle, ApplyNow
  <2>2. /\ transport_closed(engine).e.rekey_blocked
        /\ local_close(engine).e.rekey_blocked
    BY <1>1, TerminateBlocks DEF transport_closed, local_close
  <2> QED BY <1>1, <1>3, <2>1, <2>2, Ends
<1>5. ASSUME NEW entry \in batch, FireNext(entry)
      PROVE  <<"RekeyDue", armed["RekeyDue"]>> \in batch
  <2>1. Apply(HandleTimeout(entry), table \ {entry}) /\ entry = <<entry[1], entry[2]>>
        /\ DOMAIN armed = engine.deadlines
    BY <1>5 DEF FireNext, Retained, Inv, Pairs, Engines
  <2>2. CASE entry[1] \in DOMAIN armed /\ armed[entry[1]] = entry[2]
    <3>1. HandleTimeout(entry) = on_timeout(engine, entry[1])
      BY <2>2 DEF HandleTimeout
    <3>2. Handled(Fired(engine, entry[1]), HandleTimeout(entry))
      BY <1>1, <2>1, <2>2, <3>1, Fires
    <3>3. ~on_timeout(engine, entry[1]).e.rekey_blocked
      BY <1>3, <2>1, <3>1, <3>2
    <3>4. entry[1] = "RekeyDue"
      BY <1>1, <2>1, <2>2, <3>3, TimeoutBlocks
    <3> QED BY <2>1, <2>2, <3>4
  <2>3. CASE ~(entry[1] \in DOMAIN armed /\ armed[entry[1]] = entry[2])
    <3>1. HandleTimeout(entry) = Result(engine, <<>>, <<"none">>)
      BY <2>3 DEF HandleTimeout
    <3>2. Handled(engine, HandleTimeout(entry)) /\ HandleTimeout(entry).e = engine
      BY <1>1, <3>1, Quiet, NoneSent DEF Reported, Same, Result
    <3> QED BY <1>3, <2>1, <3>2
  <2> QED BY <2>2, <2>3
<1> QED BY <1>2, <1>4, <1>5

\* A rekey that failed is not retried by a RekeyDue of before its failure.
THEOREM RetryWaits == Spec => FailedRekeyWaits
<1>1. Inv /\ [Next]_vars =>
        [(batch # {} /\ engine.rekey_blocked /\ ~engine'.rekey_blocked)
            => <<"RekeyDue", armed["RekeyDue"]>> \in batch]_vars
  BY StepWaits
<1> QED BY <1>1, Inductive, PTL DEF Spec, FailedRekeyWaits
=============================================================================
