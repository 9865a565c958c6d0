-------------------------- MODULE ConnectionProofs --------------------------
(***************************************************************************)
(* Two engines over any connection, with any timers, users and faults:     *)
(* each engine stays consistent, whatever the other one sends; both ends   *)
(* have been approved before either is established; and what one of them   *)
(* seals, the other's session of the same id is in step with.              *)
(*                                                                         *)
(* The first half is about one channel and one engine: what is in flight   *)
(* of a session (Stream), what an engine and its two channels say of each  *)
(* other (End, Ends2), and how each input moves that.  The second half     *)
(* turns every action of Connection into those moves.                      *)
(***************************************************************************)
EXTENDS Connection, EngineProofs, FunctionTheorems

-----------------------------------------------------------------------------
(* What is in flight of a session.                                         *)

Carries(f, id) == f.kind = "DATA" /\ f.id = id

\* The DATA frames of id in q carry the counters from lo to hi - 1, in order.
Stream(q, id, lo, hi) ==
    /\ lo \in Nat /\ hi \in Nat /\ lo <= hi
    /\ \A i \in 1..Len(q) : Carries(q[i], id) => q[i].counter \in lo..(hi - 1)
    /\ \A i, j \in 1..Len(q) :
          i < j /\ Carries(q[i], id) /\ Carries(q[j], id) => q[i].counter < q[j].counter
    /\ \A c \in lo..(hi - 1) : \E i \in 1..Len(q) : Carries(q[i], id) /\ q[i].counter = c

\* What a sequence is made of.
LEMMA SequenceParts ==
  ASSUME NEW q, IsSequence(q)
  PROVE  /\ Len(q) \in Nat /\ DOMAIN q = 1..Len(q)
         /\ q # <<>> <=> Len(q) > 0
         /\ q # <<>> => /\ Head(q) = q[1] /\ IsSequence(Tail(q)) /\ Len(Tail(q)) = Len(q) - 1
                        /\ \A i \in 1..Len(Tail(q)) : Tail(q)[i] = q[i + 1]
<1>1. PICK S : q \in Seq(S)
  BY DEF IsSequence
<1>2. q # <<>> => Tail(q) \in Seq(S)
  BY <1>1
<1> QED BY <1>1, <1>2 DEF IsSequence

\* What a concatenation is made of.
LEMMA ConcatParts ==
  ASSUME NEW q, NEW out, IsSequence(q), IsSequence(out)
  PROVE  /\ IsSequence(q \o out) /\ Len(q \o out) = Len(q) + Len(out)
         /\ \A i \in 1..Len(q) : (q \o out)[i] = q[i]
         /\ \A i \in 1..Len(out) : (q \o out)[Len(q) + i] = out[i]
         /\ \A i \in 1..Len(q \o out) :
               \/ i \in 1..Len(q) /\ (q \o out)[i] = q[i]
               \/ /\ i > Len(q) /\ i - Len(q) \in 1..Len(out)
                  /\ (q \o out)[i] = out[i - Len(q)]
<1>1. PICK S : q \in Seq(S)
  BY DEF IsSequence
<1>2. PICK T : out \in Seq(T)
  BY DEF IsSequence
<1>3. q \in Seq(S \cup T) /\ out \in Seq(S \cup T)
  BY <1>1, <1>2
<1>4. /\ Len(q \o out) = Len(q) + Len(out) /\ Len(q) \in Nat /\ Len(out) \in Nat
      /\ \A i \in 1..Len(q) : (q \o out)[i] = q[i]
      /\ \A i \in 1..Len(out) : (q \o out)[Len(q) + i] = out[i]
  BY <1>3
<1>5. ASSUME NEW i \in 1..Len(q \o out), i \notin 1..Len(q)
      PROVE  i > Len(q) /\ i - Len(q) \in 1..Len(out) /\ (q \o out)[i] = out[i - Len(q)]
  <2>1. i - Len(q) \in 1..Len(out) /\ i = Len(q) + (i - Len(q)) /\ i > Len(q)
    BY <1>4, <1>5
  <2> QED BY <1>4, <2>1
<1> QED BY <1>4, <1>5, BothSent

\* A frame of something else leaves the head of the channel.
LEMMA StreamTail ==
  ASSUME NEW q, IsSequence(q), q # <<>>, NEW id, NEW lo, NEW hi, Stream(q, id, lo, hi),
         ~Carries(Head(q), id)
  PROVE  Stream(Tail(q), id, lo, hi)
<1> DEFINE u == Tail(q)
<1>1. /\ Len(q) \in Nat /\ Len(q) > 0 /\ Head(q) = q[1] /\ Len(u) = Len(q) - 1
      /\ \A i \in 1..Len(u) : u[i] = q[i + 1]
  BY SequenceParts
<1> HIDE DEF u
<1>2. \A i \in 1..Len(u) : i + 1 \in 1..Len(q) /\ u[i] = q[i + 1]
  BY <1>1
<1>3. ASSUME NEW c \in lo..(hi - 1)
      PROVE  \E i \in 1..Len(u) : Carries(u[i], id) /\ u[i].counter = c
  <2>1. PICK i \in 1..Len(q) : Carries(q[i], id) /\ q[i].counter = c
    BY DEF Stream
  <2>2. i # 1
    BY <1>1, <2>1
  <2>3. i - 1 \in 1..Len(u) /\ u[i - 1] = q[i]
    BY <1>1, <2>2
  <2> QED BY <2>1, <2>3
<1>4. \A i \in 1..Len(u) : Carries(u[i], id) => u[i].counter \in lo..(hi - 1)
  BY <1>2 DEF Stream
<1>5. ASSUME NEW i \in 1..Len(u), NEW j \in 1..Len(u), i < j, Carries(u[i], id), Carries(u[j], id)
      PROVE  u[i].counter < u[j].counter
  <2>1. i + 1 \in 1..Len(q) /\ j + 1 \in 1..Len(q) /\ i + 1 < j + 1
    BY <1>1, <1>5
  <2> QED BY <1>2, <1>5, <2>1 DEF Stream
<1>6. Stream(u, id, lo, hi)
  BY <1>3, <1>4, <1>5 DEF Stream
<1> QED BY <1>6 DEF u

\* The head of a stream has the counter that comes next.
LEMMA StreamTake ==
  ASSUME NEW q, IsSequence(q), q # <<>>, NEW id, NEW lo, NEW hi, Stream(q, id, lo, hi),
         Carries(Head(q), id)
  PROVE  Head(q).counter = lo /\ lo < hi /\ Stream(Tail(q), id, lo + 1, hi)
<1> DEFINE u == Tail(q)
<1>1. /\ Len(q) \in Nat /\ Len(q) > 0 /\ Head(q) = q[1] /\ Len(u) = Len(q) - 1
      /\ \A i \in 1..Len(u) : u[i] = q[i + 1]
  BY SequenceParts
<1> HIDE DEF u
<1>2. \A i \in 1..Len(u) : i + 1 \in 1..Len(q) /\ u[i] = q[i + 1] /\ 1 < i + 1
  BY <1>1
<1>3. lo \in Nat /\ hi \in Nat /\ q[1].counter \in lo..(hi - 1) /\ 1 \in 1..Len(q)
  BY <1>1 DEF Stream
<1>4. q[1].counter = lo
  <2>1. PICK i \in 1..Len(q) : Carries(q[i], id) /\ q[i].counter = lo
    BY <1>3 DEF Stream
  <2>2. ~(1 < i)
    BY <1>1, <1>3, <2>1 DEF Stream
  <2>3. i = 1
    BY <1>1, <2>2
  <2> QED BY <2>1, <2>3
<1>5. ASSUME NEW i \in 1..Len(u), Carries(u[i], id)
      PROVE  u[i].counter \in (lo + 1)..(hi - 1)
  <2>1. u[i].counter \in lo..(hi - 1) /\ q[1].counter < u[i].counter
    BY <1>1, <1>2, <1>3, <1>5 DEF Stream
  <2> QED BY <1>3, <1>4, <2>1
<1>6. ASSUME NEW c \in (lo + 1)..(hi - 1)
      PROVE  \E i \in 1..Len(u) : Carries(u[i], id) /\ u[i].counter = c
  <2>0. c \in lo..(hi - 1) /\ c # lo
    BY <1>3
  <2>1. PICK i \in 1..Len(q) : Carries(q[i], id) /\ q[i].counter = c
    BY <2>0 DEF Stream
  <2>2. i # 1
    BY <1>4, <2>0, <2>1
  <2>3. i - 1 \in 1..Len(u) /\ u[i - 1] = q[i]
    BY <1>1, <2>2
  <2> QED BY <2>1, <2>3
<1>7. lo < hi
  BY <1>3
<1>8. ASSUME NEW i \in 1..Len(u), NEW j \in 1..Len(u), i < j, Carries(u[i], id), Carries(u[j], id)
      PROVE  u[i].counter < u[j].counter
  <2>1. i + 1 \in 1..Len(q) /\ j + 1 \in 1..Len(q) /\ i + 1 < j + 1
    BY <1>1, <1>8
  <2> QED BY <1>2, <1>8, <2>1 DEF Stream
<1>9. lo + 1 \in Nat /\ lo + 1 <= hi
  BY <1>3, <1>7
<1>10. Stream(u, id, lo + 1, hi)
  BY <1>3, <1>5, <1>6, <1>8, <1>9 DEF Stream
<1> QED BY <1>1, <1>4, <1>7, <1>10 DEF u

\* Frames of something else join the channel.
LEMMA StreamMore ==
  ASSUME NEW q, NEW out, IsSequence(q), IsSequence(out), NEW id, NEW lo, NEW hi,
         Stream(q, id, lo, hi), \A i \in 1..Len(out) : ~Carries(out[i], id)
  PROVE  Stream(q \o out, id, lo, hi)
<1> DEFINE u == q \o out
<1>1. /\ Len(u) = Len(q) + Len(out) /\ Len(q) \in Nat /\ Len(out) \in Nat
      /\ \A i \in 1..Len(q) : u[i] = q[i]
      /\ \A i \in 1..Len(u) :
               \/ i \in 1..Len(q) /\ u[i] = q[i]
               \/ i - Len(q) \in 1..Len(out) /\ u[i] = out[i - Len(q)]
  BY ConcatParts, SequenceParts
<1> HIDE DEF u
<1>2. \A i \in 1..Len(u) : Carries(u[i], id) => i \in 1..Len(q) /\ u[i] = q[i]
  BY <1>1
<1>3. \A i \in 1..Len(q) : i \in 1..Len(u) /\ u[i] = q[i]
  BY <1>1
<1>4. Stream(u, id, lo, hi)
  BY <1>2, <1>3 DEF Stream
<1> QED BY <1>4 DEF u

\* The next frame of the stream joins the channel.
LEMMA StreamSend ==
  ASSUME NEW q, IsSequence(q), NEW id, NEW lo, NEW hi, Stream(q, id, lo, hi),
         NEW d, Carries(d, id), d.counter = hi
  PROVE  Stream(q \o <<d>>, id, lo, hi + 1)
<1> DEFINE u == q \o <<d>>
<1>1. Len(<<d>>) = 1 /\ <<d>>[1] = d
  OBVIOUS
<1>2. /\ Len(u) = Len(q) + 1 /\ Len(q) \in Nat
      /\ \A i \in 1..Len(q) : u[i] = q[i]
      /\ u[Len(q) + 1] = d
  BY <1>1, OneSent, ConcatParts, SequenceParts
<1> HIDE DEF u
<1>3. \A i \in 1..Len(u) : (i \in 1..Len(q) /\ u[i] = q[i]) \/ (i = Len(q) + 1 /\ u[i] = d)
  BY <1>2
<1>4. lo \in Nat /\ hi \in Nat /\ lo <= hi
  BY DEF Stream
<1>5. ASSUME NEW i \in 1..Len(u), Carries(u[i], id)
      PROVE  u[i].counter \in lo..hi /\ (i \in 1..Len(q) => u[i].counter < hi)
  BY <1>2, <1>3, <1>4, <1>5 DEF Stream
<1>6. ASSUME NEW i \in 1..Len(u), NEW j \in 1..Len(u), i < j, Carries(u[i], id), Carries(u[j], id)
      PROVE  u[i].counter < u[j].counter
  <2>1. i \in 1..Len(q) /\ u[i] = q[i]
    BY <1>2, <1>3, <1>6
  <2>2. CASE j \in 1..Len(q)
    BY <1>3, <1>6, <2>1, <2>2, <1>2 DEF Stream
  <2>3. CASE j = Len(q) + 1
    BY <1>2, <1>5, <1>6, <2>1, <2>3
  <2> QED BY <1>3, <2>2, <2>3
<1>7. ASSUME NEW c \in lo..hi
      PROVE  \E i \in 1..Len(u) : Carries(u[i], id) /\ u[i].counter = c
  <2>1. CASE c = hi
    BY <1>2, <2>1
  <2>2. CASE c \in lo..(hi - 1)
    <3>1. PICK i \in 1..Len(q) : Carries(q[i], id) /\ q[i].counter = c
      BY <2>2 DEF Stream
    <3>2. i \in 1..Len(u) /\ u[i] = q[i]
      BY <1>2
    <3> QED BY <3>1, <3>2
  <2> QED BY <1>4, <2>1, <2>2
<1>8. Stream(u, id, lo, hi + 1)
  BY <1>4, <1>5, <1>6, <1>7 DEF Stream
<1> QED BY <1>8 DEF u

\* Without a frame of id in flight, the stream is at its end.
LEMMA StreamNone ==
  ASSUME NEW q, NEW id, \A i \in 1..Len(q) : ~Carries(q[i], id)
  PROVE  /\ \A n \in Nat : Stream(q, id, n, n)
         /\ \A lo, hi : Stream(q, id, lo, hi) => lo = hi
<1>1. ASSUME NEW lo, NEW hi, Stream(q, id, lo, hi)
      PROVE  lo = hi
  <2>1. lo \in Nat /\ hi \in Nat /\ lo <= hi
    BY <1>1 DEF Stream
  <2>2. lo \notin lo..(hi - 1)
    BY <1>1 DEF Stream
  <2> QED BY <2>1, <2>2
<1>2. \A n \in Nat : Stream(q, id, n, n)
  BY DEF Stream
<1> QED BY <1>1, <1>2

\* A stream is as long as the counters it spans.
LEMMA StreamSize ==
  ASSUME NEW q, IsSequence(q), NEW id, NEW lo, NEW hi, Stream(q, id, lo, hi)
  PROVE  Cardinality({i \in DOMAIN q : q[i].kind = "DATA" /\ q[i].id = id}) = hi - lo
<1> DEFINE D == {i \in DOMAIN q : q[i].kind = "DATA" /\ q[i].id = id}
           C == lo..(hi - 1)
           h == [i \in D |-> q[i].counter]
<1>1. lo \in Nat /\ hi \in Nat /\ lo <= hi
  BY DEF Stream
<1>2. Len(q) \in Nat /\ DOMAIN q = 1..Len(q)
  BY SequenceParts
<1>3. \A i \in D : i \in 1..Len(q) /\ Carries(q[i], id) /\ h[i] = q[i].counter
  BY <1>2 DEF Carries
<1>4. \A i \in 1..Len(q) : Carries(q[i], id) => i \in D
  BY <1>2 DEF Carries
<1> HIDE DEF D
<1>5. h \in [D -> C]
  BY <1>3 DEF Stream
<1>6. ASSUME NEW i \in D, NEW j \in D, h[i] = h[j]
      PROVE  i = j
  <2>1. i \in Nat /\ j \in Nat
    BY <1>2, <1>3
  <2>2. ~(i < j) /\ ~(j < i)
    <3>1. q[i].counter \in C /\ q[j].counter \in C
      BY <1>3 DEF Stream
    <3> QED BY <1>1, <1>3, <1>6, <3>1 DEF Stream
  <2> QED BY <2>1, <2>2
<1>7. \A c \in C : \E i \in D : h[i] = c
  BY <1>3, <1>4 DEF Stream
<1> HIDE DEF h
<1>8. h \in Bijection(D, C)
  BY <1>5, <1>6, <1>7, Fun_IsBij
<1>9. ExistsBijection(C, D) /\ ExistsBijection(D, C)
  BY <1>8, Fun_ExistsBijSymmetric DEF ExistsBijection
<1>10. IsFiniteSet(C) /\ Cardinality(C) = hi - lo
  <2>1. lo \in Int /\ hi - 1 \in Int
    BY <1>1
  <2>2. IsFiniteSet(C) /\ Cardinality(C) = IF lo > hi - 1 THEN 0 ELSE (hi - 1) - lo + 1
    BY <2>1, FS_Interval
  <2> QED BY <1>1, <2>2
<1>11. Cardinality(D) = Cardinality(C)
  BY <1>9, <1>10, FS_Bijection
<1> QED BY <1>10, <1>11 DEF D

-----------------------------------------------------------------------------
(* One end of a connection: its engine e, the peer's engine p, the channel *)
(* q to e, and the faults k there have been.                               *)

Opposite(role) == IF role = "Initiator" THEN "Responder" ELSE "Initiator"

\* The receiver of a session, whatever frames it was given.
ReceiverSane(r) ==
    /\ ChainType(r.ch) /\ ChainInStep(r.ch)
    /\ r.window.highest \in Int /\ -1 <= r.window.highest /\ r.window.highest < r.ch.next

\* A session that e has with a peer whose identity is i.
SessionSane(e, i, s) ==
    /\ s.role \in Roles
    /\ Past(e, s.role, s.id)
    /\ Theirs(s.role, s.id)[1] = i
    /\ s.counter \in 0..COUNTER_MAX
    /\ ReceiverSane(s.receiver)

SessionsSane(e, i) == \A s \in SessionSet(e) : SessionSane(e, i, s)

\* Damage is to the frame that is next.
Whole(f) == f.intact /\ (f.kind = "DATA" => f.key # NoKey)

ChannelSane(q, p) ==
    /\ IsSequence(q)
    /\ \A i \in 1..Len(q) : FrameSane(q[i], p) /\ (i > 1 => Whole(q[i]))

\* The peer has had the other end of each run that became a session, or is about
\* to end it.
Mutual(e, p) == \A s \in SessionSet(e) : Known(p, Opposite(s.role), s.id)

\* And e has had the other end of each session that DATA comes of.
Expected(e, q) ==
    \A i \in 1..Len(q) : q[i].kind = "DATA" => Known(e, Opposite(q[i].direction), q[i].id)

\* DATA of id comes after a confirmation.
Announced(q, id) ==
    \A j \in 1..Len(q) :
       Carries(q[j], id) => \E i \in 1..Len(q) : i < j /\ q[i].kind = "CONFIRM"

\* What comes of a session whose confirmation e awaits comes after it, and from
\* the first message on; and the peer has received nothing of it.
Awaits(e, p, q) ==
    e.run.step = "ConfirmResp" =>
       LET id == SessionKeys(e.run.transcript) IN
       /\ Announced(q, id)
       /\ \E hi : /\ Stream(q, id, 0, hi)
                  /\ \A s \in SessionSet(p) : s.id = id =>
                        s.counter = hi /\ s.receiver = NewReceiver /\ HasConfirm(q)

Forged(q, id) == q # <<>> /\ Carries(Head(q), id) /\ Head(q).key = NoKey

\* While the cache has room for what damage leaves in it, a receiving chain
\* stands at the next message in flight, and the last one is the peer's latest.
InStep(e, p, q, k) ==
    k < MAX_PREPARED_KEYS => \A t \in SessionSet(e) :
       /\ \E hi : /\ Stream(q, t.id, t.receiver.ch.next, hi)
                  /\ \A s \in SessionSet(p) : s.id = t.id => s.counter = hi
       /\ Cardinality(Cached(t.receiver.ch)) + (IF Forged(q, t.id) THEN 1 ELSE 0) <= k

End(e, p, q, k) ==
    /\ Sound(e, p.identity)
    /\ SessionsSane(e, p.identity)
    /\ ChannelSane(q, p)
    /\ Mutual(e, p)
    /\ Expected(e, q)
    /\ Awaits(e, p, q)
    /\ InStep(e, p, q, k)

\* Both ends, with the channels q to e and u to p.
Ends2(e, p, q, u, k) ==
    /\ k \in Nat
    /\ e.identity # p.identity
    /\ End(e, p, q, k)
    /\ End(p, e, u, k)

-----------------------------------------------------------------------------
(* Keys are drawn once.                                                    *)

\* A session id with e's latest key, which no run of e has ended with yet.
Latest(e, i, role, id) ==
    /\ role \in Roles
    /\ Mine(role, id) = <<e.identity, e.entropy - 1>>
    /\ Theirs(role, id)[1] = i
    /\ Ended(e) = e.entropy - 1

\* The keys of a role and of the opposite one.
LEMMA OtherKey ==
  ASSUME NEW role \in Roles, NEW id
  PROVE  /\ Opposite(role) \in Roles /\ Opposite(role) # role
         /\ Opposite(Opposite(role)) = role
         /\ Mine(Opposite(role), id) = Theirs(role, id)
         /\ Theirs(Opposite(role), id) = Mine(role, id)
         /\ \A r \in Roles : r = role \/ r = Opposite(role)
BY DEF Roles, Opposite, Mine, Theirs

\* The key an engine contributed carries its identity.
LEMMA PastKey ==
  ASSUME NEW e, NEW role, NEW id, Past(e, role, id)
  PROVE  Mine(role, id)[1] = e.identity
BY DEF Past

\* A run that goes on has the latest key.
LEMMA RunIsLatest ==
  ASSUME NEW e, NEW i, Sound(e, i), e.run # NoRun, e.run.step \in AskedSteps
  PROVE  Latest(e, i, e.run.role, SessionKeys(e.run.transcript))
BY DEF Sound, RunSane, Binds, Latest, Ended, HelloPayload

\* Nothing belongs to a session with the latest key but what the peer may have
\* and send once it was sent e's confirmation.
LEMMA NothingOfLatest ==
  ASSUME NEW e, NEW p, NEW q, NEW u, NEW k, Ends2(e, p, q, u, k),
         NEW role, NEW id, Latest(e, p.identity, role, id)
  PROVE  /\ \A s \in SessionSet(e) : s.id # id
         /\ \A i \in 1..Len(u) : ~Carries(u[i], id)
         /\ \A s \in SessionSet(p) : s.id = id => Confirming(e, id) /\ s.role = Opposite(role)
         /\ \A i \in 1..Len(q) : Carries(q[i], id) => Confirming(e, id)
<1>1. ~Past(e, role, id)
  BY DEF Latest, Past, Ends2, End, Sound
<1>2. ~Past(e, Opposite(role), id)
  BY PastKey, OtherKey DEF Latest, Ends2
<1>3. ~Past(p, role, id)
  BY PastKey DEF Latest, Ends2
<1>4. \A r \in Roles : ~Past(e, r, id)
  BY <1>1, <1>2, OtherKey DEF Latest
<1>5. \A r \in Roles : Past(p, r, id) => r = Opposite(role)
  BY <1>3, OtherKey DEF Latest
<1>6. \A r \in Roles : r = Opposite(role) /\ Known(e, Opposite(r), id) => Confirming(e, id)
  BY <1>1, OtherKey DEF Known, Latest
<1>7. ASSUME NEW s \in SessionSet(e)
      PROVE  s.id # id
  BY <1>4 DEF Ends2, End, SessionsSane, SessionSane
<1>8. ASSUME NEW i \in 1..Len(u)
      PROVE  ~Carries(u[i], id)
  BY <1>4 DEF Ends2, End, ChannelSane, FrameSane, Carries
<1>9. ASSUME NEW s \in SessionSet(p), s.id = id
      PROVE  Confirming(e, id) /\ s.role = Opposite(role)
  BY <1>5, <1>6, <1>9 DEF Ends2, End, SessionsSane, SessionSane, Mutual
<1>10. ASSUME NEW i \in 1..Len(q), Carries(q[i], id)
      PROVE  Confirming(e, id)
  BY <1>5, <1>6, <1>10 DEF Ends2, End, ChannelSane, FrameSane, Carries, Expected
<1> QED BY <1>7, <1>8, <1>9, <1>10

\* Two ends of a session are its two roles, and DATA comes from the other one.
LEMMA RolesDiffer ==
  ASSUME NEW e, NEW p, NEW q, NEW u, NEW k, Ends2(e, p, q, u, k), NEW t \in SessionSet(e)
  PROVE  /\ \A s \in SessionSet(p) : s.id = t.id => s.role # t.role
         /\ \A i \in 1..Len(q) : Carries(q[i], t.id) => q[i].direction # t.role
<1>1. ~Past(p, t.role, t.id)
  BY PastKey DEF Ends2, End, SessionsSane, SessionSane
<1> QED BY <1>1 DEF Ends2, End, SessionsSane, SessionSane, ChannelSane, FrameSane, Carries

-----------------------------------------------------------------------------
(* A step without DATA.                                                    *)

\* The input f of a step is no frame, or one that was taken off the channel q.
Took(q, f, v) ==
    \/ v = q /\ f.kind # "CONFIRM"
    \/ q # <<>> /\ f = Head(q) /\ f.kind # "DATA" /\ v = Tail(q)

\* What is in the channel without its head: nothing that is damaged.
LEMMA TailParts ==
  ASSUME NEW q, NEW p, ChannelSane(q, p), q # <<>>
  PROVE  /\ ChannelSane(Tail(q), p)
         /\ 1 \in 1..Len(q) /\ Head(q) = q[1]
         /\ \A i \in 1..Len(Tail(q)) : i + 1 \in 1..Len(q) /\ Tail(q)[i] = q[i + 1]
         /\ \A i \in 1..Len(q) : i # 1 => i - 1 \in 1..Len(Tail(q)) /\ Tail(q)[i - 1] = q[i]
         /\ \A id : ~Forged(Tail(q), id)
<1> DEFINE v == Tail(q)
<1>1. /\ IsSequence(v) /\ Len(q) \in Nat /\ Len(v) = Len(q) - 1 /\ Head(q) = q[1]
      /\ Len(q) > 0
      /\ \A i \in 1..Len(v) : v[i] = q[i + 1]
  BY SequenceParts DEF ChannelSane
<1> HIDE DEF v
<1>2. \A i \in 1..Len(v) : i + 1 \in 1..Len(q) /\ i + 1 > 1 /\ v[i] = q[i + 1]
  BY <1>1
<1>3. ChannelSane(v, p) /\ \A i \in 1..Len(v) : Whole(v[i])
  BY <1>1, <1>2 DEF ChannelSane
<1>4. ASSUME NEW id, Forged(v, id)
      PROVE  FALSE
  <2>1. v # <<>> /\ Head(v).kind = "DATA" /\ Head(v).key = NoKey
    BY <1>4 DEF Forged, Carries
  <2>2. 1 \in 1..Len(v) /\ Head(v) = v[1]
    BY <1>1, <2>1, SequenceParts
  <2> QED BY <1>3, <2>1, <2>2 DEF Whole
<1>5. ASSUME NEW i \in 1..Len(q), i # 1
      PROVE  i - 1 \in 1..Len(v) /\ v[i - 1] = q[i]
  <2>1. i - 1 \in 1..Len(v) /\ (i - 1) + 1 = i
    BY <1>1, <1>5
  <2> QED BY <1>1, <2>1
<1>6. 1 \in 1..Len(q)
  BY <1>1
<1> QED BY <1>1, <1>2, <1>3, <1>4, <1>5, <1>6 DEF v

\* What is in the channel after a frame has been taken off it.
LEMMA TookParts ==
  ASSUME NEW q, NEW p, ChannelSane(q, p), NEW f, NEW v, Took(q, f, v)
  PROVE  /\ ChannelSane(v, p)
         /\ \A i \in 1..Len(v) : \E j \in 1..Len(q) : q[j] = v[i]
         /\ \A id, lo, hi : Stream(q, id, lo, hi) => Stream(v, id, lo, hi)
         /\ \A id : Forged(v, id) => Forged(q, id)
<1>1. CASE v = q
  BY <1>1
<1>2. CASE q # <<>> /\ f = Head(q) /\ f.kind # "DATA" /\ v = Tail(q)
  <2>1. /\ ChannelSane(v, p)
        /\ \A i \in 1..Len(v) : i + 1 \in 1..Len(q) /\ v[i] = q[i + 1]
        /\ \A id : ~Forged(v, id)
    BY <1>2, TailParts
  <2>2. \A id : ~Carries(Head(q), id)
    BY <1>2 DEF Carries
  <2>3. \A id, lo, hi : Stream(q, id, lo, hi) => Stream(v, id, lo, hi)
    BY <1>2, <2>2, StreamTail DEF ChannelSane
  <2> QED BY <2>1, <2>3
<1> QED BY <1>1, <1>2 DEF Took

\* What an engine has had, it has had after the step.
LEMMA KnownOn ==
  ASSUME NEW e, NEW i, Sound(e, i), NEW f, NEW x, NEW out, Plays(e, i, f, x, out)
  PROVE  /\ \A role, id : Past(e, role, id) => Past(x, role, id)
         /\ \A role, id : Known(e, role, id) => Known(x, role, id)
         /\ \A g : FrameSane(g, e) => FrameSane(g, x)
<1>1. Ended(e) \in Int /\ Ended(x) \in Int /\ Ended(e) <= Ended(x) /\ x.identity = e.identity
  BY DEF Plays, Sound, Ended
<1>2. \A role, id : Past(e, role, id) => Past(x, role, id)
  BY <1>1 DEF Past
<1>3. ASSUME NEW id, Confirming(e, id)
      PROVE  Known(x, "Initiator", id)
  <2>1. e.run.step = "ConfirmResp" /\ SessionKeys(e.run.transcript) = id /\ e.run # NoRun
    BY <1>3 DEF Confirming, NoRun
  <2>2. CASE x.run = e.run
    BY <2>1, <2>2 DEF Known, Confirming
  <2>3. CASE e.entropy <= Ended(x)
    <3>1. Mine("Initiator", id) = <<x.identity, e.entropy - 1>> /\ e.entropy \in Nat /\ e.entropy > 0
      BY <1>1, <2>1 DEF Sound, RunSane, Binds, HelloPayload, AskedSteps
    <3>2. e.entropy - 1 \in 0..(Ended(x) - 1)
      BY <1>1, <2>3, <3>1
    <3> QED BY <3>1, <3>2 DEF Known, Past
  <2> QED BY <2>1, <2>2, <2>3 DEF Plays
<1>4. \A role, id : Known(e, role, id) => Known(x, role, id)
  BY <1>2, <1>3 DEF Known
<1>5. \A g : FrameSane(g, e) => FrameSane(g, x)
  BY <1>1, <1>2, <1>4 DEF FrameSane
<1> QED BY <1>2, <1>4, <1>5

\* What is known of a session that a step makes.
LEMMA PromotedParts ==
  ASSUME NEW e, NEW p, NEW q, NEW u, NEW k, Ends2(e, p, q, u, k),
         NEW f, NEW x, NEW out, Plays(e, p.identity, f, x, out), NEW v, Took(q, f, v),
         NEW s, Promotes(e, f, x, out, s)
  PROVE  /\ Latest(e, p.identity, s.role, s.id)
         /\ FrameSane(f, p)
         /\ Known(p, Opposite(s.role), s.id)
         /\ SessionSane(x, p.identity, s)
         /\ s.role = "Initiator" => e.run.step = "ConfirmResp"
         /\ s.role = "Responder" => HasConfirm(out) /\ e.run.step # "ConfirmResp"
<1>1. e.run # NoRun /\ e.run.step \in AskedSteps /\ Sound(e, p.identity)
  BY DEF Promotes, AskedSteps, Ends2, End
<1>2. Latest(e, p.identity, s.role, s.id)
  BY <1>1, RunIsLatest DEF Promotes
<1>3. /\ e.run.step = "ConfirmResp" => e.run.role = "Initiator"
      /\ e.run.step = "ConfirmInit" => e.run.role = "Responder"
  BY <1>1 DEF Sound, RunSane
<1>4. FrameSane(f, p)
  <2>1. q # <<>> /\ f = Head(q)
    BY DEF Took, Promotes
  <2>2. 1 \in 1..Len(q) /\ f = q[1]
    BY <2>1, SequenceParts DEF Ends2, End, ChannelSane
  <2> QED BY <2>2 DEF Ends2, End, ChannelSane
<1>5. Known(p, Opposite(s.role), s.id)
  BY <1>3, <1>4 DEF Promotes, FrameSane, Opposite
<1>6. Past(x, s.role, s.id)
  <2>1. Ended(x) = x.entropy /\ x.identity = e.identity /\ e.entropy <= x.entropy /\ x.entropy \in Nat
    BY DEF Promotes, Plays, Sound, Ended
  <2>2. Mine(s.role, s.id) = <<x.identity, e.entropy - 1>> /\ e.entropy > 0 /\ e.entropy \in Nat
    BY <1>1, <1>2, <2>1 DEF Latest, Sound, RunSane
  <2>3. e.entropy <= Ended(x)
    BY <2>1
  <2>4. e.entropy - 1 \in 0..(Ended(x) - 1)
    BY <2>1, <2>2, <2>3
  <2> QED BY <2>2, <2>4 DEF Past
<1>7. ReceiverSane(NewReceiver)
  <2>1. DOMAIN NewChain.skipped = {} /\ NewChain.chain = 0 /\ NewChain.next = 0
    BY DEF NewChain
  <2>2. ChainType(NewChain)
    <3>1. NewChain.skipped \in [{} -> Key]
      BY DEF NewChain
    <3>2. NewChain = [chain |-> NewChain.chain, next |-> NewChain.next, skipped |-> NewChain.skipped]
      BY DEF NewChain
    <3> QED BY <2>1, <3>1, <3>2, RatchetBounds DEF ChainType, Cached, Counter
  <2>3. ChainInStep(NewChain)
    BY <2>1 DEF ChainInStep, Cached
  <2>4. NewReceiver.ch = NewChain /\ NewReceiver.window.highest = -1
    BY DEF NewReceiver, EmptyWindow, NoCounter
  <2> QED BY <2>1, <2>2, <2>3, <2>4 DEF ReceiverSane
<1>8. SessionSane(x, p.identity, s)
  BY <1>2, <1>6, <1>7, RatchetBounds DEF SessionSane, Latest, Promotes
<1> QED BY <1>2, <1>3, <1>4, <1>5, <1>8 DEF Promotes

\* Taking another frame leaves the confirmations, and their place.
LEMMA ConfirmsStay ==
  ASSUME NEW q, NEW p, ChannelSane(q, p), NEW v, NEW id,
         v = q \/ (q # <<>> /\ Head(q).kind # "CONFIRM" /\ v = Tail(q))
  PROVE  /\ HasConfirm(q) => HasConfirm(v)
         /\ Announced(q, id) => Announced(v, id)
<1>1. CASE v = q
  BY <1>1
<1>2. CASE q # <<>> /\ Head(q).kind # "CONFIRM" /\ v = Tail(q)
  <2>1. /\ Head(q) = q[1] /\ Len(q) \in Nat
        /\ \A i \in 1..Len(v) : i + 1 \in 1..Len(q) /\ v[i] = q[i + 1]
        /\ \A i \in 1..Len(q) : i # 1 => i - 1 \in 1..Len(v) /\ v[i - 1] = q[i]
    BY <1>2, TailParts, SequenceParts DEF ChannelSane
  <2>2. \A i \in 1..Len(q) : q[i].kind = "CONFIRM" => i - 1 \in 1..Len(v) /\ v[i - 1].kind = "CONFIRM"
    BY <1>2, <2>1
  <2>3. HasConfirm(q) => HasConfirm(v)
    BY <2>2 DEF HasConfirm
  <2>4. ASSUME Announced(q, id), NEW j \in 1..Len(v), Carries(v[j], id)
        PROVE  \E i \in 1..Len(v) : i < j /\ v[i].kind = "CONFIRM"
    <3>1. PICK i \in 1..Len(q) : i < j + 1 /\ q[i].kind = "CONFIRM"
      BY <2>1, <2>4 DEF Announced
    <3>2. i - 1 < j
      BY <2>1, <3>1
    <3> QED BY <2>2, <3>1, <3>2
  <2> QED BY <2>3, <2>4 DEF Announced
<1> QED BY <1>1, <1>2

\* A new receiver has nothing cached, and expects the first message.
LEMMA NewReceiverParts ==
  /\ NewReceiver.ch.next = 0
  /\ Cardinality(Cached(NewReceiver.ch)) = 0
BY FS_EmptySet DEF NewReceiver, NewChain, Cached

\* After a step without DATA, an engine is in step with what it may receive.
LEMMA PlaysReceives ==
  ASSUME NEW e, NEW p, NEW q, NEW u, NEW k, Ends2(e, p, q, u, k),
         NEW f, NEW x, NEW out, Plays(e, p.identity, f, x, out), NEW v, Took(q, f, v)
  PROVE  End(x, p, v, k)
<1>1. /\ k \in Nat /\ Sound(e, p.identity) /\ SessionsSane(e, p.identity) /\ ChannelSane(q, p)
      /\ Mutual(e, p) /\ Expected(e, q) /\ Awaits(e, p, q) /\ InStep(e, p, q, k)
  BY DEF Ends2, End
<1>2. Sound(x, p.identity) /\ x.identity = e.identity
  BY DEF Plays
<1>3. /\ \A role, id : Past(e, role, id) => Past(x, role, id)
      /\ \A role, id : Known(e, role, id) => Known(x, role, id)
  BY <1>1, KnownOn
<1>4. /\ ChannelSane(v, p)
      /\ \A i \in 1..Len(v) : \E j \in 1..Len(q) : q[j] = v[i]
      /\ \A id, lo, hi : Stream(q, id, lo, hi) => Stream(v, id, lo, hi)
      /\ \A id : Forged(v, id) => Forged(q, id)
  BY <1>1, TookParts
<1>5. \A s \in SessionSet(x) : s \in SessionSet(e) \/ Promotes(e, f, x, out, s)
  BY DEF Plays
<1>6. \A s : Promotes(e, f, x, out, s) =>
         /\ Latest(e, p.identity, s.role, s.id)
         /\ Known(p, Opposite(s.role), s.id)
         /\ SessionSane(x, p.identity, s)
         /\ s.role = "Initiator" => e.run.step = "ConfirmResp"
         /\ s.role = "Responder" => HasConfirm(out) /\ e.run.step # "ConfirmResp"
  BY PromotedParts
<1>7. SessionsSane(x, p.identity)
  <2>1. ASSUME NEW s \in SessionSet(x), s \in SessionSet(e)
        PROVE  SessionSane(x, p.identity, s)
    BY <1>1, <1>3, <2>1 DEF SessionsSane, SessionSane
  <2> QED BY <1>5, <1>6, <2>1 DEF SessionsSane
<1>8. Mutual(x, p)
  BY <1>1, <1>5, <1>6 DEF Mutual
<1>9. Expected(x, v)
  <2>1. ASSUME NEW i \in 1..Len(v), v[i].kind = "DATA"
        PROVE  Known(x, Opposite(v[i].direction), v[i].id)
    <3>1. PICK j \in 1..Len(q) : q[j] = v[i]
      BY <1>4
    <3> QED BY <1>1, <1>3, <2>1, <3>1 DEF Expected
  <2> QED BY <2>1 DEF Expected
<1>10. ASSUME NEW id, \A i \in 1..Len(q) : ~Carries(q[i], id)
       PROVE  (\A i \in 1..Len(v) : ~Carries(v[i], id)) /\ Stream(v, id, 0, 0)
  <2>1. \A i \in 1..Len(v) : ~Carries(v[i], id)
    BY <1>4, <1>10
  <2> QED BY <2>1, StreamNone
<1>11. Awaits(x, p, v)
  <2> DEFINE id == SessionKeys(x.run.transcript)
  <2> SUFFICES ASSUME x.run.step = "ConfirmResp"
               PROVE  /\ Announced(v, id)
                      /\ \E hi : /\ Stream(v, id, 0, hi)
                                 /\ \A s \in SessionSet(p) : s.id = id =>
                                       s.counter = hi /\ s.receiver = NewReceiver /\ HasConfirm(v)
    BY DEF Awaits
  <2>1. CASE x.run = e.run
    <3>1. f.kind # "CONFIRM" /\ e.run.step = "ConfirmResp" /\ id = SessionKeys(e.run.transcript)
      BY <2>1 DEF Plays
    <3> HIDE DEF id
    <3>2. /\ Announced(q, id)
          /\ \E hi : /\ Stream(q, id, 0, hi)
                     /\ \A s \in SessionSet(p) : s.id = id =>
                           s.counter = hi /\ s.receiver = NewReceiver /\ HasConfirm(q)
      BY <1>1, <3>1 DEF Awaits
    <3>3. v = q \/ (q # <<>> /\ Head(q).kind # "CONFIRM" /\ v = Tail(q))
      BY <3>1 DEF Took
    <3>4. Announced(v, id) /\ (HasConfirm(q) => HasConfirm(v))
      BY <1>1, <3>2, <3>3, ConfirmsStay
    <3> QED BY <1>4, <3>2, <3>4
  <2>2. CASE x.run # e.run
    <3>1. e.run # NoRun /\ e.run.step # "ConfirmResp" /\ x.entropy = e.entropy
      BY <2>2 DEF Plays
    <3>2. x.run # NoRun
      BY DEF NoRun
    <3>3. Latest(x, p.identity, x.run.role, id)
      BY <1>2, <3>2, RunIsLatest DEF AskedSteps
    <3> HIDE DEF id
    <3>4. Latest(e, p.identity, x.run.role, id)
      BY <1>2, <3>1, <3>3 DEF Latest, Ended
    <3>5. ~Confirming(e, id)
      BY <3>1 DEF Confirming
    <3>6. /\ \A s \in SessionSet(p) : s.id # id
          /\ \A i \in 1..Len(q) : ~Carries(q[i], id)
      BY <3>4, <3>5, NothingOfLatest
    <3>7. Announced(v, id)
      BY <1>10, <3>6 DEF Announced
    <3> QED BY <1>10, <3>6, <3>7
  <2> QED BY <2>1, <2>2
<1>12. InStep(x, p, v, k)
  <2> SUFFICES ASSUME k < MAX_PREPARED_KEYS, NEW t \in SessionSet(x)
               PROVE  /\ \E hi : /\ Stream(v, t.id, t.receiver.ch.next, hi)
                                 /\ \A s \in SessionSet(p) : s.id = t.id => s.counter = hi
                      /\ Cardinality(Cached(t.receiver.ch)) + (IF Forged(v, t.id) THEN 1 ELSE 0) <= k
    BY DEF InStep
  <2>1. CASE t \in SessionSet(e)
    <3>1. /\ \E hi : /\ Stream(q, t.id, t.receiver.ch.next, hi)
                     /\ \A s \in SessionSet(p) : s.id = t.id => s.counter = hi
          /\ Cardinality(Cached(t.receiver.ch)) + (IF Forged(q, t.id) THEN 1 ELSE 0) <= k
      BY <1>1, <2>1 DEF InStep
    <3>2. Cardinality(Cached(t.receiver.ch)) \in Nat
      BY <1>1, <2>1, CacheFinite DEF SessionsSane, SessionSane, ReceiverSane
    <3>3. Cardinality(Cached(t.receiver.ch)) + (IF Forged(v, t.id) THEN 1 ELSE 0) <= k
      BY <1>1, <1>4, <3>1, <3>2
    <3> QED BY <1>4, <3>1, <3>3
  <2>2. CASE Promotes(e, f, x, out, t)
    <3>1. t.receiver = NewReceiver /\ f.kind = "CONFIRM" /\ t.role \in Roles
      BY <1>6, <2>2 DEF Promotes, Latest
    <3>2. ~Forged(v, t.id)
      <4>1. f = Head(q)
        BY <3>1 DEF Took
      <4> QED BY <1>4, <3>1, <4>1 DEF Forged, Carries
    <3>3. Cardinality(Cached(t.receiver.ch)) + (IF Forged(v, t.id) THEN 1 ELSE 0) <= k
      BY <1>1, <3>1, <3>2, NewReceiverParts
    <3>4. CASE t.role = "Initiator"
      <4>1. e.run.step = "ConfirmResp" /\ t.id = SessionKeys(e.run.transcript)
        BY <1>6, <2>2, <3>4 DEF Promotes
      <4>2. \E hi : /\ Stream(q, t.id, 0, hi)
                    /\ \A s \in SessionSet(p) : s.id = t.id => s.counter = hi
        BY <1>1, <4>1 DEF Awaits
      <4> QED BY <1>4, <3>1, <3>3, <4>2, NewReceiverParts
    <3>5. CASE t.role = "Responder"
      <4>1. ~Confirming(e, t.id) /\ Latest(e, p.identity, t.role, t.id)
        BY <1>6, <2>2, <3>5 DEF Confirming
      <4>2. /\ \A s \in SessionSet(p) : s.id # t.id
            /\ \A i \in 1..Len(q) : ~Carries(q[i], t.id)
        BY <4>1, NothingOfLatest
      <4> QED BY <1>10, <3>1, <3>3, <4>2, NewReceiverParts
    <3> QED BY <3>1, <3>4, <3>5 DEF Roles
  <2> QED BY <1>5, <2>1, <2>2
<1> QED BY <1>2, <1>4, <1>7, <1>8, <1>9, <1>11, <1>12 DEF End

\* A confirmation in a channel is in one of its parts.
LEMMA ConfirmParts ==
  ASSUME NEW q, NEW out, IsSequence(q), IsSequence(out)
  PROVE  HasConfirm(q \o out) <=> HasConfirm(q) \/ HasConfirm(out)
<1> DEFINE w == q \o out
<1>1. /\ Len(w) = Len(q) + Len(out) /\ Len(q) \in Nat /\ Len(out) \in Nat
      /\ \A i \in 1..Len(q) : w[i] = q[i]
      /\ \A i \in 1..Len(out) : w[Len(q) + i] = out[i]
      /\ \A i \in 1..Len(w) : \/ i \in 1..Len(q) /\ w[i] = q[i]
                              \/ i - Len(q) \in 1..Len(out) /\ w[i] = out[i - Len(q)]
  BY ConcatParts, SequenceParts
<1> HIDE DEF w
<1>2. /\ \A i \in 1..Len(q) : i \in 1..Len(w)
      /\ \A i \in 1..Len(out) : Len(q) + i \in 1..Len(w)
  BY <1>1
<1>3. ASSUME HasConfirm(q) PROVE HasConfirm(w)
  <2>1. PICK i \in 1..Len(q) : q[i].kind = "CONFIRM"
    BY <1>3 DEF HasConfirm
  <2>2. i \in 1..Len(w) /\ w[i] = q[i]
    BY <1>1, <1>2
  <2> QED BY <2>1, <2>2 DEF HasConfirm
<1>4. ASSUME HasConfirm(out) PROVE HasConfirm(w)
  <2>1. PICK i \in 1..Len(out) : out[i].kind = "CONFIRM"
    BY <1>4 DEF HasConfirm
  <2>2. Len(q) + i \in 1..Len(w) /\ w[Len(q) + i] = out[i]
    BY <1>1, <1>2
  <2> QED BY <2>1, <2>2 DEF HasConfirm
<1>5. ASSUME HasConfirm(w) PROVE HasConfirm(q) \/ HasConfirm(out)
  <2>1. PICK i \in 1..Len(w) : w[i].kind = "CONFIRM"
    BY <1>5 DEF HasConfirm
  <2>2. \/ i \in 1..Len(q) /\ w[i] = q[i]
        \/ i - Len(q) \in 1..Len(out) /\ w[i] = out[i - Len(q)]
    BY <1>1
  <2> QED BY <2>1, <2>2 DEF HasConfirm
<1> QED BY <1>3, <1>4, <1>5 DEF w

\* Frames without DATA leave what a channel carries of any session.
LEMMA WritesParts ==
  ASSUME NEW x, NEW q, ChannelSane(q, x), NEW out, Writes(x, out)
  PROVE  /\ ChannelSane(q \o out, x)
         /\ HasConfirm(q \o out) <=> HasConfirm(q) \/ HasConfirm(out)
         /\ \A id : Announced(q, id) => Announced(q \o out, id)
         /\ \A id, lo, hi : Stream(q, id, lo, hi) => Stream(q \o out, id, lo, hi)
         /\ \A id : Forged(q \o out, id) => Forged(q, id)
         /\ \A i \in 1..Len(q \o out) :
               (q \o out)[i].kind = "DATA" => i \in 1..Len(q) /\ (q \o out)[i] = q[i]
<1> DEFINE w == q \o out
<1>1. /\ IsSequence(q) /\ IsSequence(out)
      /\ \A i \in 1..Len(q) : FrameSane(q[i], x) /\ (i > 1 => Whole(q[i]))
      /\ \A i \in 1..Len(out) : FrameSane(out[i], x) /\ Whole(out[i]) /\ out[i].kind # "DATA"
  BY DEF ChannelSane, Writes, Whole
<1>2. /\ IsSequence(w) /\ Len(w) = Len(q) + Len(out) /\ Len(q) \in Nat /\ Len(out) \in Nat
      /\ \A i \in 1..Len(q) : w[i] = q[i]
      /\ \A i \in 1..Len(out) : w[Len(q) + i] = out[i]
      /\ \A i \in 1..Len(w) : \/ i \in 1..Len(q) /\ w[i] = q[i]
                              \/ i - Len(q) \in 1..Len(out) /\ w[i] = out[i - Len(q)]
  BY <1>1, ConcatParts, SequenceParts
<1>3. \A id, lo, hi : Stream(q, id, lo, hi) => Stream(w, id, lo, hi)
  BY <1>1, StreamMore DEF Carries
<1> HIDE DEF w
<1>4. ChannelSane(w, x)
  BY <1>1, <1>2 DEF ChannelSane
<1>5. \A i \in 1..Len(q) : i \in 1..Len(w)
  BY <1>2
<1>6. HasConfirm(w) <=> HasConfirm(q) \/ HasConfirm(out)
  BY <1>1, ConfirmParts DEF w
<1>7. \A i \in 1..Len(w) : w[i].kind = "DATA" => i \in 1..Len(q) /\ w[i] = q[i]
  BY <1>1, <1>2
<1>8. ASSUME NEW id, Announced(q, id)
      PROVE  Announced(w, id)
  BY <1>2, <1>5, <1>7, <1>8 DEF Announced, Carries
<1>9. ASSUME NEW id, Forged(w, id)
      PROVE  Forged(q, id)
  <2>1. Len(w) > 0 /\ Head(w) = w[1] /\ 1 \in 1..Len(w)
    BY <1>2, <1>9, SequenceParts DEF Forged
  <2>2. 1 \in 1..Len(q) /\ w[1] = q[1]
    BY <1>7, <1>9, <2>1 DEF Forged, Carries
  <2>3. q # <<>> /\ Head(q) = q[1]
    BY <1>1, <1>2, <2>2, SequenceParts
  <2> QED BY <1>9, <2>1, <2>2, <2>3 DEF Forged
<1> QED BY <1>3, <1>4, <1>6, <1>7, <1>8, <1>9 DEF w

\* And the peer is in step with what the engine sent.
LEMMA PlaysSends ==
  ASSUME NEW e, NEW p, NEW q, NEW u, NEW k, Ends2(e, p, q, u, k),
         NEW f, NEW x, NEW out, Plays(e, p.identity, f, x, out), NEW v, Took(q, f, v)
  PROVE  End(p, x, u \o out, k)
<1> DEFINE w == u \o out
<1>1. /\ k \in Nat /\ Sound(e, p.identity) /\ Awaits(e, p, q) /\ e.identity # p.identity
      /\ Sound(p, e.identity) /\ SessionsSane(p, e.identity) /\ ChannelSane(u, e)
      /\ Mutual(p, e) /\ Expected(p, u) /\ Awaits(p, e, u) /\ InStep(p, e, u, k)
  BY DEF Ends2, End
<1>2. Sound(x, p.identity) /\ x.identity = e.identity /\ Writes(x, out)
  BY DEF Plays
<1>3. /\ \A role, id : Known(e, role, id) => Known(x, role, id)
      /\ \A g : FrameSane(g, e) => FrameSane(g, x)
  BY <1>1, KnownOn
<1>4. ChannelSane(u, x)
  BY <1>1, <1>3 DEF ChannelSane
<1>5. /\ ChannelSane(w, x)
      /\ HasConfirm(w) <=> HasConfirm(u) \/ HasConfirm(out)
      /\ \A id : Announced(u, id) => Announced(w, id)
      /\ \A id, lo, hi : Stream(u, id, lo, hi) => Stream(w, id, lo, hi)
      /\ \A id : Forged(w, id) => Forged(u, id)
      /\ \A i \in 1..Len(w) : w[i].kind = "DATA" => i \in 1..Len(u) /\ w[i] = u[i]
  BY <1>2, <1>4, WritesParts
<1> HIDE DEF w
<1>6. \A s \in SessionSet(x) : s \in SessionSet(e) \/ Promotes(e, f, x, out, s)
  BY DEF Plays
<1>7. \A s : Promotes(e, f, x, out, s) =>
         /\ Latest(e, p.identity, s.role, s.id)
         /\ s.role = "Responder" => HasConfirm(out)
  BY PromotedParts
<1>8. Sound(p, x.identity) /\ SessionsSane(p, x.identity) /\ Mutual(p, x)
  BY <1>1, <1>2, <1>3 DEF Mutual
<1>9. Expected(p, w)
  BY <1>1, <1>5 DEF Expected
<1>10. ASSUME NEW s, Promotes(e, f, x, out, s)
       PROVE  /\ s.counter = 0 /\ s.receiver = NewReceiver
              /\ \A i \in 1..Len(u) : ~Carries(u[i], s.id)
              /\ \A lo, hi : Stream(u, s.id, lo, hi) => lo = hi
              /\ \A t \in SessionSet(p) : t.id = s.id => t.receiver.ch.next = 0
  <2>1. Latest(e, p.identity, s.role, s.id) /\ s.counter = 0 /\ s.receiver = NewReceiver
    BY <1>7, <1>10 DEF Promotes
  <2>2. /\ \A i \in 1..Len(u) : ~Carries(u[i], s.id)
        /\ \A t \in SessionSet(p) : t.id = s.id => Confirming(e, s.id)
    BY <2>1, NothingOfLatest
  <2>3. \A lo, hi : Stream(u, s.id, lo, hi) => lo = hi
    BY <2>2, StreamNone
  <2>4. \A t \in SessionSet(p) : t.id = s.id => t.receiver.ch.next = 0
    BY <1>1, <2>2, NewReceiverParts DEF Awaits, Confirming
  <2> QED BY <2>1, <2>2, <2>3, <2>4
<1>11. Awaits(p, x, w)
  <2> DEFINE id == SessionKeys(p.run.transcript)
  <2> SUFFICES ASSUME p.run.step = "ConfirmResp"
               PROVE  /\ Announced(w, id)
                      /\ \E hi : /\ Stream(w, id, 0, hi)
                                 /\ \A s \in SessionSet(x) : s.id = id =>
                                       s.counter = hi /\ s.receiver = NewReceiver /\ HasConfirm(w)
    BY DEF Awaits
  <2>1. p.run # NoRun /\ p.run.role = "Initiator"
    BY <1>1 DEF NoRun, Sound, RunSane
  <2>2. Latest(p, e.identity, "Initiator", id)
    BY <1>1, <2>1, RunIsLatest DEF AskedSteps
  <2>3. Announced(u, id)
    BY <1>1 DEF Awaits
  <2>4. PICK hi : /\ Stream(u, id, 0, hi)
                  /\ \A s \in SessionSet(e) : s.id = id =>
                        s.counter = hi /\ s.receiver = NewReceiver /\ HasConfirm(u)
    BY <1>1 DEF Awaits
  <2> HIDE DEF id
  <2>5. ASSUME NEW s, Promotes(e, f, x, out, s), s.id = id
        PROVE  s.counter = hi /\ s.receiver = NewReceiver /\ HasConfirm(w)
    <3>1. s.role # "Initiator" /\ s.role \in Roles
      BY <1>1, <1>7, <2>2, <2>5 DEF Latest, Mine
    <3>2. HasConfirm(w)
      BY <1>5, <1>7, <2>5, <3>1 DEF Roles
    <3> QED BY <1>10, <2>4, <2>5, <3>2
  <2> QED BY <1>5, <1>6, <2>3, <2>4, <2>5
<1>12. InStep(p, x, w, k)
  <2> SUFFICES ASSUME k < MAX_PREPARED_KEYS, NEW t \in SessionSet(p)
               PROVE  /\ \E hi : /\ Stream(w, t.id, t.receiver.ch.next, hi)
                                 /\ \A s \in SessionSet(x) : s.id = t.id => s.counter = hi
                      /\ Cardinality(Cached(t.receiver.ch)) + (IF Forged(w, t.id) THEN 1 ELSE 0) <= k
    BY DEF InStep
  <2>1. Cardinality(Cached(t.receiver.ch)) + (IF Forged(u, t.id) THEN 1 ELSE 0) <= k
    BY <1>1 DEF InStep
  <2>2. PICK hi : /\ Stream(u, t.id, t.receiver.ch.next, hi)
                  /\ \A s \in SessionSet(e) : s.id = t.id => s.counter = hi
    BY <1>1 DEF InStep
  <2>3. Cardinality(Cached(t.receiver.ch)) \in Nat
    BY <1>1, CacheFinite DEF SessionsSane, SessionSane, ReceiverSane
  <2>4. Cardinality(Cached(t.receiver.ch)) + (IF Forged(w, t.id) THEN 1 ELSE 0) <= k
    BY <1>1, <1>5, <2>1, <2>3
  <2>5. ASSUME NEW s, Promotes(e, f, x, out, s), s.id = t.id
        PROVE  s.counter = hi
    BY <1>10, <2>2, <2>5
  <2> QED BY <1>5, <1>6, <2>2, <2>4, <2>5
<1>13. End(p, x, w, k)
  BY <1>5, <1>8, <1>9, <1>11, <1>12 DEF End
<1> QED BY <1>13 DEF w

\* A step without DATA keeps the two ends in step.
LEMMA PlaysEnds ==
  ASSUME NEW e, NEW p, NEW q, NEW u, NEW k, Ends2(e, p, q, u, k),
         NEW f, NEW x, NEW out, Plays(e, p.identity, f, x, out), NEW v, Took(q, f, v)
  PROVE  Ends2(x, p, v, u \o out, k)
<1>1. x.identity = e.identity
  BY DEF Plays
<1> QED BY <1>1, PlaysReceives, PlaysSends DEF Ends2

-----------------------------------------------------------------------------
(* Sealing a message.                                                      *)

\* What a channel carries once DATA has been sent.
LEMMA SendsParts ==
  ASSUME NEW x, NEW q, ChannelSane(q, x), NEW d, FrameSane(d, x), Whole(d), d.kind = "DATA"
  PROVE  /\ ChannelSane(q \o <<d>>, x)
         /\ HasConfirm(q) => HasConfirm(q \o <<d>>)
         /\ \A id : Announced(q, id) /\ (d.id = id => HasConfirm(q)) => Announced(q \o <<d>>, id)
         /\ \A id, lo, hi : Stream(q, id, lo, hi) /\ d.id # id => Stream(q \o <<d>>, id, lo, hi)
         /\ \A lo : Stream(q, d.id, lo, d.counter) => Stream(q \o <<d>>, d.id, lo, d.counter + 1)
         /\ \A id : Forged(q \o <<d>>, id) => Forged(q, id)
         /\ \A i \in 1..Len(q \o <<d>>) :
               (q \o <<d>>)[i] = d \/ (i \in 1..Len(q) /\ (q \o <<d>>)[i] = q[i])
<1> DEFINE w == q \o <<d>>
<1>1. /\ IsSequence(q) /\ IsSequence(<<d>>) /\ Len(<<d>>) = 1 /\ <<d>>[1] = d
      /\ \A i \in 1..Len(q) : FrameSane(q[i], x) /\ (i > 1 => Whole(q[i]))
  BY OneSent DEF ChannelSane
<1>2. /\ IsSequence(w) /\ Len(w) = Len(q) + 1 /\ Len(q) \in Nat
      /\ \A i \in 1..Len(q) : w[i] = q[i]
      /\ w[Len(q) + 1] = d
  BY <1>1, ConcatParts, SequenceParts
<1>3. \A id, lo, hi : Stream(q, id, lo, hi) /\ d.id # id => Stream(w, id, lo, hi)
  <2>1. \A id : d.id # id => \A i \in 1..Len(<<d>>) : ~Carries(<<d>>[i], id)
    BY <1>1 DEF Carries
  <2> QED BY <1>1, <2>1, StreamMore
<1>4. \A lo : Stream(q, d.id, lo, d.counter) => Stream(w, d.id, lo, d.counter + 1)
  BY <1>1, StreamSend DEF Carries
<1> HIDE DEF w
<1>5. \A i \in 1..Len(w) : \/ i \in 1..Len(q) /\ w[i] = q[i]
                           \/ i = Len(q) + 1 /\ w[i] = d
  BY <1>2
<1>6. \A i \in 1..Len(q) : i \in 1..Len(w) /\ i < Len(q) + 1
  BY <1>2
<1>7. ChannelSane(w, x)
  BY <1>1, <1>2, <1>5 DEF ChannelSane
<1>8. HasConfirm(q) => HasConfirm(w)
  BY <1>2, <1>6 DEF HasConfirm
<1>9. ASSUME NEW id, Announced(q, id), d.id = id => HasConfirm(q)
      PROVE  Announced(w, id)
  <2> SUFFICES ASSUME NEW j \in 1..Len(w), Carries(w[j], id)
               PROVE  \E i \in 1..Len(w) : i < j /\ w[i].kind = "CONFIRM"
    BY DEF Announced
  <2>1. CASE j \in 1..Len(q) /\ w[j] = q[j]
    BY <1>2, <1>6, <1>9, <2>1 DEF Announced
  <2>2. CASE j = Len(q) + 1 /\ w[j] = d
    <3>1. PICK i \in 1..Len(q) : q[i].kind = "CONFIRM"
      BY <1>9, <2>2 DEF Carries, HasConfirm
    <3> QED BY <1>2, <1>6, <2>2, <3>1
  <2> QED BY <1>5, <2>1, <2>2
<1>10. ASSUME NEW id, Forged(w, id)
       PROVE  Forged(q, id)
  <2>1. Head(w) = w[1] /\ 1 \in 1..Len(w) /\ Carries(w[1], id) /\ w[1].key = NoKey
    BY <1>2, <1>10, SequenceParts DEF Forged
  <2>2. 1 \in 1..Len(q) /\ w[1] = q[1]
    BY <1>5, <2>1 DEF Whole
  <2>3. q # <<>> /\ Head(q) = q[1]
    BY <1>1, <1>2, <2>2, SequenceParts
  <2> QED BY <2>1, <2>2, <2>3 DEF Forged
<1> QED BY <1>3, <1>4, <1>5, <1>7, <1>8, <1>9, <1>10 DEF w

\* Sealing a message moves the sending counter and the stream in step.
LEMMA SealedEnds ==
  ASSUME NEW e, NEW p, NEW q, NEW u, NEW k, Ends2(e, p, q, u, k), EngineOK(e),
         e.phase = "Established", ~(e.active.counter >= COUNTER_MAX),
         Sound(Sealed(e), p.identity), NEW content
  PROVE  LET d == DataPayload(e.active.id, e.active.role, e.active.counter, content)
         IN  Ends2(Sealed(e), p, q, u \o <<d>>, k)
<1> DEFINE d == DataPayload(e.active.id, e.active.role, e.active.counter, content)
           x == Sealed(e)
           w == u \o <<d>>
<1>1. /\ k \in Nat /\ e.identity # p.identity /\ Sound(e, p.identity)
      /\ SessionsSane(e, p.identity) /\ ChannelSane(q, p) /\ Mutual(e, p) /\ Expected(e, q)
      /\ Awaits(e, p, q) /\ InStep(e, p, q, k)
      /\ Sound(p, e.identity) /\ SessionsSane(p, e.identity) /\ ChannelSane(u, e)
      /\ Mutual(p, e) /\ Expected(p, u) /\ Awaits(p, e, u) /\ InStep(p, e, u, k)
  BY DEF Ends2, End
<1>2. /\ DOMAIN e.active = SessionFields /\ e.active.id # NoId
      /\ e.draining = NoSession \/ DOMAIN e.draining = SessionFields
      /\ e.active.id # e.draining.id
  BY <1>1 DEF EngineOK, Held, Sound
<1>3. /\ x.identity = e.identity /\ x.entropy = e.entropy /\ x.run = e.run
      /\ x.draining = e.draining /\ DOMAIN x.active = SessionFields
      /\ x.active.id = e.active.id /\ x.active.role = e.active.role
      /\ x.active.receiver = e.active.receiver
      /\ x.active.counter = e.active.counter + 1
  BY <1>1, <1>2 DEF Sealed, Sound, EngineFields, SessionFields
<1>4. e.active \in SessionSet(e) /\ x.active \in SessionSet(x)
  BY <1>2, <1>3 DEF SessionSet, NoSession
<1>5. \A t \in SessionSet(x) : t = x.active \/ (t \in SessionSet(e) /\ t.id # e.active.id)
  BY <1>2, <1>3 DEF SessionSet
<1>6. SessionSane(e, p.identity, e.active)
  BY <1>1, <1>4 DEF SessionsSane
<1>7. /\ d.kind = "DATA" /\ d.intact /\ d.id = e.active.id /\ d.direction = e.active.role
      /\ d.counter = e.active.counter /\ d.key = e.active.counter
      /\ {"kind", "intact", "id", "direction", "counter", "key", "content"} \subseteq DOMAIN d
  BY DEF DataPayload
<1>8. e.active.counter \in 0..(COUNTER_MAX - 1)
  BY <1>6, RatchetBounds DEF SessionSane
<1> HIDE DEF d, x
<1>9. /\ \A role, id : Past(x, role, id) <=> Past(e, role, id)
      /\ \A role, id : Known(x, role, id) <=> Known(e, role, id)
      /\ \A g : FrameSane(g, e) => FrameSane(g, x)
  BY <1>3 DEF Past, Known, Confirming, Ended, FrameSane
<1>10. ChannelSane(u, x) /\ FrameSane(d, x) /\ Whole(d)
  <2>1. Past(x, d.direction, d.id) /\ d.direction \in Roles
    BY <1>6, <1>7, <1>9 DEF SessionSane
  <2>2. FrameSane(d, x)
    BY <1>7, <1>8, <2>1 DEF FrameSane
  <2>3. Whole(d)
    BY <1>7, <1>8 DEF Whole, NoKey
  <2>4. ChannelSane(u, x)
    BY <1>1, <1>9 DEF ChannelSane
  <2> QED BY <2>2, <2>3, <2>4
<1>11. /\ ChannelSane(w, x)
       /\ HasConfirm(u) => HasConfirm(w)
       /\ \A id : Announced(u, id) /\ (d.id = id => HasConfirm(u)) => Announced(w, id)
       /\ \A id, lo, hi : Stream(u, id, lo, hi) /\ d.id # id => Stream(w, id, lo, hi)
       /\ \A lo : Stream(u, d.id, lo, d.counter) => Stream(w, d.id, lo, d.counter + 1)
       /\ \A id : Forged(w, id) => Forged(u, id)
       /\ \A i \in 1..Len(w) : w[i] = d \/ (i \in 1..Len(u) /\ w[i] = u[i])
  BY <1>7, <1>10, SendsParts
<1> HIDE DEF w
<1>12. End(x, p, q, k)
  <2>1. ASSUME NEW t \in SessionSet(x)
        PROVE  \E s \in SessionSet(e) : s.id = t.id /\ s.role = t.role /\ s.receiver = t.receiver
    BY <1>3, <1>4, <1>5
  <2>2. SessionSane(x, p.identity, x.active)
    BY <1>3, <1>6, <1>8, <1>9, RatchetBounds DEF SessionSane
  <2>3. SessionsSane(x, p.identity)
    BY <1>1, <1>5, <1>9, <2>2 DEF SessionsSane, SessionSane
  <2>4. Mutual(x, p) /\ Expected(x, q)
    BY <1>1, <1>9, <2>1 DEF Mutual, Expected
  <2>5. Awaits(x, p, q)
    BY <1>1, <1>3 DEF Awaits
  <2>6. InStep(x, p, q, k)
    <3> SUFFICES ASSUME k < MAX_PREPARED_KEYS, NEW t \in SessionSet(x)
                 PROVE  /\ \E hi : /\ Stream(q, t.id, t.receiver.ch.next, hi)
                                   /\ \A s \in SessionSet(p) : s.id = t.id => s.counter = hi
                        /\ Cardinality(Cached(t.receiver.ch)) + (IF Forged(q, t.id) THEN 1 ELSE 0) <= k
      BY DEF InStep
    <3>1. PICK s \in SessionSet(e) : s.id = t.id /\ s.receiver = t.receiver
      BY <2>1
    <3>2. /\ \E hi : /\ Stream(q, s.id, s.receiver.ch.next, hi)
                     /\ \A r \in SessionSet(p) : r.id = s.id => r.counter = hi
          /\ Cardinality(Cached(s.receiver.ch)) + (IF Forged(q, s.id) THEN 1 ELSE 0) <= k
      BY <1>1 DEF InStep
    <3> QED BY <3>1, <3>2
  <2> QED BY <1>1, <2>3, <2>4, <2>5, <2>6 DEF End, x
<1>13. ASSUME NEW id, NEW lo, NEW hi, Stream(u, id, lo, hi),
              \A s \in SessionSet(e) : s.id = id => s.counter = hi
       PROVE  \E top : /\ Stream(w, id, lo, top)
                       /\ \A s \in SessionSet(x) : s.id = id => s.counter = top
  <2>1. CASE id = e.active.id
    <3>1. hi = d.counter /\ Stream(w, id, lo, hi + 1)
      BY <1>4, <1>7, <1>11, <1>13, <2>1
    <3>2. \A s \in SessionSet(x) : s.id = id => s.counter = hi + 1
      BY <1>3, <1>5, <1>7, <2>1, <3>1
    <3> QED BY <3>1, <3>2
  <2>2. CASE id # e.active.id
    <3>1. Stream(w, id, lo, hi)
      BY <1>7, <1>11, <1>13, <2>2
    <3>2. \A s \in SessionSet(x) : s.id = id => s.counter = hi
      BY <1>3, <1>5, <1>13, <2>2
    <3> QED BY <3>1, <3>2
  <2> QED BY <2>1, <2>2
<1>14. End(p, x, w, k)
  <2>1. Sound(p, x.identity) /\ SessionsSane(p, x.identity) /\ Mutual(p, x)
    BY <1>1, <1>3, <1>9 DEF Mutual
  <2>2. Expected(p, w)
    <3>1. Known(p, Opposite(d.direction), d.id)
      BY <1>1, <1>4, <1>7 DEF Mutual
    <3> QED BY <1>1, <1>11, <3>1 DEF Expected
  <2>3. Awaits(p, x, w)
    <3> DEFINE id == SessionKeys(p.run.transcript)
    <3> SUFFICES ASSUME p.run.step = "ConfirmResp"
                 PROVE  /\ Announced(w, id)
                        /\ \E hi : /\ Stream(w, id, 0, hi)
                                   /\ \A s \in SessionSet(x) : s.id = id =>
                                         s.counter = hi /\ s.receiver = NewReceiver /\ HasConfirm(w)
      BY DEF Awaits
    <3>1. Announced(u, id)
      BY <1>1 DEF Awaits
    <3>2. PICK hi : /\ Stream(u, id, 0, hi)
                    /\ \A s \in SessionSet(e) : s.id = id =>
                          s.counter = hi /\ s.receiver = NewReceiver /\ HasConfirm(u)
      BY <1>1 DEF Awaits
    <3> HIDE DEF id
    <3>3. Announced(w, id)
      BY <1>4, <1>7, <1>11, <3>1, <3>2
    <3>4. PICK top : /\ Stream(w, id, 0, top)
                     /\ \A s \in SessionSet(x) : s.id = id => s.counter = top
      BY <1>13, <3>2
    <3>5. \A s \in SessionSet(x) : s.id = id => s.receiver = NewReceiver /\ HasConfirm(w)
      BY <1>3, <1>4, <1>5, <1>11, <3>2
    <3> QED BY <3>3, <3>4, <3>5
  <2>4. InStep(p, x, w, k)
    <3> SUFFICES ASSUME k < MAX_PREPARED_KEYS, NEW t \in SessionSet(p)
                 PROVE  /\ \E hi : /\ Stream(w, t.id, t.receiver.ch.next, hi)
                                   /\ \A s \in SessionSet(x) : s.id = t.id => s.counter = hi
                        /\ Cardinality(Cached(t.receiver.ch)) + (IF Forged(w, t.id) THEN 1 ELSE 0) <= k
      BY DEF InStep
    <3>1. Cardinality(Cached(t.receiver.ch)) + (IF Forged(u, t.id) THEN 1 ELSE 0) <= k
      BY <1>1 DEF InStep
    <3>2. \E hi : /\ Stream(u, t.id, t.receiver.ch.next, hi)
                  /\ \A s \in SessionSet(e) : s.id = t.id => s.counter = hi
      BY <1>1 DEF InStep
    <3>3. Cardinality(Cached(t.receiver.ch)) \in Nat
      BY <1>1, CacheFinite DEF SessionsSane, SessionSane, ReceiverSane
    <3>4. Cardinality(Cached(t.receiver.ch)) + (IF Forged(w, t.id) THEN 1 ELSE 0) <= k
      BY <1>1, <1>11, <3>1, <3>3
    <3> QED BY <1>13, <3>2, <3>4
  <2> QED BY <1>11, <2>1, <2>2, <2>3, <2>4 DEF End
<1> QED BY <1>1, <1>3, <1>12, <1>14 DEF Ends2, d, x, w

-----------------------------------------------------------------------------
(* Opening a message.                                                      *)

\* decrypt keeps a receiver sane, whatever the frame.
LEMMA ReceiverStaysSane ==
  ASSUME NEW r, ReceiverSane(r), NEW f, f.counter \in 0..(COUNTER_MAX - 1)
  PROVE  ReceiverSane(Decrypt(r, f))
<1> DEFINE c == f.counter
           ch == Prepare(r.ch, c)
           t == Decrypt(r, f)
<1>1. ChainType(r.ch) /\ ChainInStep(r.ch) /\ r.ch.next \in Nat /\ c \in Counter /\ c \in Nat
  BY RatchetBounds DEF ReceiverSane, ChainType, Counter
<1>2. ChainType(ch) /\ ChainInStep(ch) /\ ch.next >= r.ch.next /\ ch.next \in Nat
  BY <1>1, PrepareLemma DEF ChainType, Counter
<1>3. CASE Classify(r.window, c) # "New"
  BY <1>3 DEF Decrypt
<1>4. CASE Classify(r.window, c) = "New" /\ DecryptError(r, f) # "none"
  <2>1. t.ch = ch /\ t.window = r.window
    BY <1>4 DEF Decrypt
  <2> HIDE DEF t, ch
  <2>2. ReceiverSane(t)
    BY <1>1, <1>2, <2>1 DEF ReceiverSane
  <2> QED BY <2>2 DEF t
<1>5. CASE Classify(r.window, c) = "New" /\ DecryptError(r, f) = "none"
  <2>1. t.ch = CommitKey(ch, c) /\ t.window = Accept(r.window, c)
    BY <1>5 DEF Decrypt
  <2>2. PrepareError(r.ch, c) = "none"
    BY <1>5 DEF DecryptError
  <2>3. c \in Cached(ch) /\ c < ch.next
    <3>1. CASE c \in Cached(r.ch)
      BY <1>1, <3>1 DEF Prepare, ChainInStep
    <3>2. CASE c \notin Cached(r.ch)
      <4>1. ch.next = c + 1 /\ c >= r.ch.next /\ Cached(ch) = Cached(r.ch) \cup (r.ch.next..c)
        BY <1>1, <2>2, <3>2, PrepareSize
      <4> HIDE DEF ch
      <4> QED BY <1>1, <4>1
    <3> QED BY <3>1, <3>2
  <2>4. t.window.highest \in {c, r.window.highest}
    BY <2>1 DEF Accept
  <2> HIDE DEF t, ch
  <2>5. ChainType(t.ch) /\ ChainInStep(t.ch) /\ t.ch.next = ch.next
    BY <1>2, <2>1, <2>3, CommitLemma
  <2>6. t.window.highest \in Int /\ -1 <= t.window.highest /\ t.window.highest < t.ch.next
    BY <1>1, <1>2, <2>3, <2>4, <2>5 DEF ReceiverSane
  <2>7. ReceiverSane(t)
    BY <2>5, <2>6 DEF ReceiverSane
  <2> QED BY <2>7 DEF t
<1> QED BY <1>3, <1>4, <1>5

\* The frame that comes next is delivered; a damaged one leaves its key behind.
LEMMA OpensNext ==
  ASSUME NEW r, ReceiverSane(r), NEW f, f.counter = r.ch.next, f.counter < COUNTER_MAX,
         Cardinality(Cached(r.ch)) < MAX_PREPARED_KEYS
  PROVE  /\ Decrypt(r, f).ch.next = r.ch.next + 1
         /\ f.key = f.counter =>
               /\ DecryptError(r, f) = "none"
               /\ Cached(Decrypt(r, f).ch) = Cached(r.ch)
         /\ f.key = NoKey =>
               Cardinality(Cached(Decrypt(r, f).ch)) = Cardinality(Cached(r.ch)) + 1
<1> DEFINE c == f.counter
           ch == Prepare(r.ch, c)
           t == Decrypt(r, f)
<1>1. /\ ChainType(r.ch) /\ ChainInStep(r.ch) /\ c \in Counter /\ c \in Nat /\ c = r.ch.next
      /\ c # COUNTER_MAX
  BY RatchetBounds DEF ReceiverSane, ChainType, Counter
<1>2. c \notin Cached(r.ch)
  BY <1>1 DEF ChainInStep
<1>3. IsFiniteSet(Cached(r.ch)) /\ Cardinality(Cached(r.ch)) \in Nat
  BY <1>1, CacheFinite
<1>4. Classify(r.window, c) = "New"
  BY <1>1 DEF Classify, ReceiverSane
<1>5. PrepareError(r.ch, c) = "none"
  BY <1>1, <1>2, <1>3, RatchetBounds DEF PrepareError
<1>6. ch.next = c + 1 /\ Cached(ch) = Cached(r.ch) \cup {c} /\ ChainType(ch) /\ ChainInStep(ch)
  <2>1. c..c = {c}
    BY <1>1
  <2> QED BY <1>1, <1>2, <1>5, <2>1, PrepareSize, PrepareLemma
<1>7. ch.skipped[c] = c
  BY <1>6 DEF ChainInStep
<1>8. CASE f.key = c
  <2>1. DecryptError(r, f) = "none"
    BY <1>4, <1>5, <1>7, <1>8 DEF DecryptError
  <2>2. t.ch = CommitKey(ch, c)
    BY <1>4, <2>1 DEF Decrypt
  <2> HIDE DEF ch
  <2>3. t.ch.next = ch.next /\ Cached(t.ch) = Cached(ch) \ {c}
    BY <1>6, <2>2, CommitLemma
  <2> HIDE DEF t
  <2>4. Cached(t.ch) = Cached(r.ch) /\ t.ch.next = r.ch.next + 1
    BY <1>1, <1>2, <1>6, <2>3
  <2>5. f.key # NoKey
    BY <1>1, <1>8 DEF NoKey
  <2> QED BY <2>1, <2>4, <2>5 DEF t
<1>9. CASE f.key # c
  <2>1. DecryptError(r, f) # "none"
    BY <1>4, <1>5, <1>7, <1>9 DEF DecryptError
  <2>2. t.ch = ch
    BY <1>4, <2>1 DEF Decrypt
  <2> HIDE DEF t, ch
  <2>3. t.ch.next = r.ch.next + 1
    BY <1>1, <1>6, <2>2
  <2>4. Cardinality(Cached(t.ch)) = Cardinality(Cached(r.ch)) + 1
    BY <1>2, <1>3, <1>6, <2>2, FS_AddElement
  <2> QED BY <1>9, <2>3, <2>4 DEF t
<1> QED BY <1>8, <1>9

\* What becomes of the sessions that are given a frame.
LEMMA OpenedSessions ==
  ASSUME NEW e, EngineOK(e), e.phase = "Established", NEW p, Sound(e, p), NEW f
  PROVE  LET x == Opened(e, f) IN
         /\ x.identity = e.identity /\ x.entropy = e.entropy /\ x.run = e.run
         /\ \A t \in SessionSet(x) : \E s \in SessionSet(e) :
               /\ t.id = s.id /\ t.role = s.role /\ t.counter = s.counter
               /\ t.receiver = IF Addressed(s, f) THEN Decrypt(s.receiver, f) ELSE s.receiver
<1> DEFINE x == Opened(e, f)
           a == decrypt(e.active, f)
           b == decrypt(e.draining, f)
<1>1. /\ DOMAIN e.active = SessionFields
      /\ e.draining = NoSession \/ DOMAIN e.draining = SessionFields
      /\ e.active.id # e.draining.id
  BY DEF EngineOK, Held, Sound
<1>2. /\ DOMAIN x = EngineFields
      /\ x.identity = e.identity /\ x.entropy = e.entropy /\ x.run = e.run
      /\ x.active = a
      /\ x.draining = IF decrypts(e.active, f) \/ e.draining = NoSession THEN e.draining ELSE b
  BY DEF Opened, Sound, EngineFields
<1>3. decrypts(e.active, f) => e.draining = b
  BY <1>1 DEF decrypts, decrypt, Addressed
<1>4. /\ a.id = e.active.id /\ a.role = e.active.role /\ a.counter = e.active.counter
      /\ a.receiver = IF Addressed(e.active, f) THEN Decrypt(e.active.receiver, f)
                      ELSE e.active.receiver
  BY <1>1, DecryptMoves
<1>5. e.draining # NoSession =>
      /\ b.id = e.draining.id /\ b.role = e.draining.role /\ b.counter = e.draining.counter
      /\ b.receiver = IF Addressed(e.draining, f) THEN Decrypt(e.draining.receiver, f)
                      ELSE e.draining.receiver
  BY <1>1, DecryptMoves
<1>6. e.active \in SessionSet(e) /\ (e.draining # NoSession => e.draining \in SessionSet(e))
  BY <1>1 DEF SessionSet, NoSession, SessionFields
<1> HIDE DEF x, a, b
<1>7. \A t \in SessionSet(x) : t = a \/ (e.draining # NoSession /\ t = b)
  BY <1>2, <1>3 DEF SessionSet
<1>8. \A t \in SessionSet(x) : \E s \in SessionSet(e) :
               /\ t.id = s.id /\ t.role = s.role /\ t.counter = s.counter
               /\ t.receiver = IF Addressed(s, f) THEN Decrypt(s.receiver, f) ELSE s.receiver
  BY <1>4, <1>5, <1>6, <1>7
<1> QED BY <1>2, <1>8 DEF x

\* Opening a message moves the receiving chain and the stream in step.
LEMMA OpenedEnds ==
  ASSUME NEW e, NEW p, NEW q, NEW u, NEW k, Ends2(e, p, q, u, k), EngineOK(e),
         e.phase = "Established", q # <<>>, NEW f, f = Head(q), f.kind = "DATA", f.intact,
         Sound(Opened(e, f), p.identity)
  PROVE  Ends2(Opened(e, f), p, Tail(q), u, k)
<1> DEFINE x == Opened(e, f)
           v == Tail(q)
<1>1. /\ k \in Nat /\ e.identity # p.identity /\ Sound(e, p.identity)
      /\ SessionsSane(e, p.identity) /\ ChannelSane(q, p) /\ Mutual(e, p) /\ Expected(e, q)
      /\ Awaits(e, p, q) /\ InStep(e, p, q, k)
      /\ Sound(p, e.identity) /\ SessionsSane(p, e.identity) /\ ChannelSane(u, e)
      /\ Mutual(p, e) /\ Expected(p, u) /\ Awaits(p, e, u) /\ InStep(p, e, u, k)
  BY DEF Ends2, End
<1>2. /\ x.identity = e.identity /\ x.entropy = e.entropy /\ x.run = e.run
      /\ \A t \in SessionSet(x) : \E s \in SessionSet(e) :
               /\ t.id = s.id /\ t.role = s.role /\ t.counter = s.counter
               /\ t.receiver = IF Addressed(s, f) THEN Decrypt(s.receiver, f) ELSE s.receiver
  BY <1>1, OpenedSessions
<1>3. Sound(x, p.identity)
  OBVIOUS
<1>4. /\ ChannelSane(v, p)
      /\ 1 \in 1..Len(q) /\ f = q[1]
      /\ \A i \in 1..Len(v) : i + 1 \in 1..Len(q) /\ v[i] = q[i + 1]
      /\ \A id : ~Forged(v, id)
  BY <1>1, TailParts
<1>5. f.direction \in Roles /\ f.counter \in 0..(COUNTER_MAX - 1) /\ f.key \in {f.counter, NoKey}
  BY <1>1, <1>4 DEF ChannelSane, FrameSane
<1> HIDE DEF x, v
<1>6. /\ \A role, id : Past(x, role, id) <=> Past(e, role, id)
      /\ \A role, id : Known(x, role, id) <=> Known(e, role, id)
      /\ \A g : FrameSane(g, e) => FrameSane(g, x)
  BY <1>2 DEF Past, Known, Confirming, Ended, FrameSane
<1>7. End(x, p, v, k)
  <2>1. ASSUME NEW t \in SessionSet(x)
        PROVE  SessionSane(x, p.identity, t)
    <3>1. PICK s \in SessionSet(e) :
               /\ t.id = s.id /\ t.role = s.role /\ t.counter = s.counter
               /\ t.receiver = IF Addressed(s, f) THEN Decrypt(s.receiver, f) ELSE s.receiver
      BY <1>2
    <3>2. SessionSane(e, p.identity, s)
      BY <1>1 DEF SessionsSane
    <3>3. ReceiverSane(t.receiver)
      BY <1>5, <3>1, <3>2, ReceiverStaysSane DEF SessionSane
    <3> QED BY <1>6, <3>1, <3>2, <3>3 DEF SessionSane
  <2>2. Mutual(x, p)
    BY <1>1, <1>2 DEF Mutual
  <2>3. Expected(x, v)
    BY <1>1, <1>4, <1>6 DEF Expected
  <2>4. Awaits(x, p, v)
    <3> DEFINE id == SessionKeys(e.run.transcript)
    <3> SUFFICES ASSUME e.run.step = "ConfirmResp"
                 PROVE  /\ Announced(v, id)
                        /\ \E hi : /\ Stream(v, id, 0, hi)
                                   /\ \A s \in SessionSet(p) : s.id = id =>
                                         s.counter = hi /\ s.receiver = NewReceiver /\ HasConfirm(v)
      BY <1>2 DEF Awaits
    <3>1. /\ Announced(q, id)
          /\ \E hi : /\ Stream(q, id, 0, hi)
                     /\ \A s \in SessionSet(p) : s.id = id =>
                           s.counter = hi /\ s.receiver = NewReceiver /\ HasConfirm(q)
      BY <1>1 DEF Awaits
    <3> HIDE DEF id
    <3>2. Announced(v, id) /\ (HasConfirm(q) => HasConfirm(v))
      BY <1>1, <3>1, ConfirmsStay DEF v
    <3>3. ~Carries(f, id)
      <4>1. \A i \in 1..Len(q) : ~(i < 1)
        OBVIOUS
      <4> QED BY <1>4, <3>1, <4>1 DEF Announced
    <3>4. \A lo, hi : Stream(q, id, lo, hi) => Stream(v, id, lo, hi)
      BY <1>1, <3>3, StreamTail DEF v, ChannelSane
    <3> QED BY <3>1, <3>2, <3>4
  <2>5. InStep(x, p, v, k)
    <3> SUFFICES ASSUME k < MAX_PREPARED_KEYS, NEW t \in SessionSet(x)
                 PROVE  /\ \E hi : /\ Stream(v, t.id, t.receiver.ch.next, hi)
                                   /\ \A s \in SessionSet(p) : s.id = t.id => s.counter = hi
                        /\ Cardinality(Cached(t.receiver.ch)) + (IF Forged(v, t.id) THEN 1 ELSE 0) <= k
      BY DEF InStep
    <3>1. PICK s \in SessionSet(e) :
               /\ t.id = s.id /\ t.role = s.role
               /\ t.receiver = IF Addressed(s, f) THEN Decrypt(s.receiver, f) ELSE s.receiver
      BY <1>2
    <3>2. PICK hi : /\ Stream(q, s.id, s.receiver.ch.next, hi)
                    /\ \A r \in SessionSet(p) : r.id = s.id => r.counter = hi
      BY <1>1 DEF InStep
    <3>3. Cardinality(Cached(s.receiver.ch)) + (IF Forged(q, s.id) THEN 1 ELSE 0) <= k
      BY <1>1 DEF InStep
    <3>4. ReceiverSane(s.receiver)
      BY <1>1 DEF SessionsSane, SessionSane
    <3>5. Cardinality(Cached(s.receiver.ch)) \in Nat
      BY <3>4, CacheFinite DEF ReceiverSane
    <3>6. ASSUME Carries(f, s.id)
          PROVE  /\ Stream(v, s.id, t.receiver.ch.next, hi)
                 /\ Cardinality(Cached(t.receiver.ch)) \in Nat
                 /\ Cardinality(Cached(t.receiver.ch)) <= k
      <4>1. f.direction # s.role
        BY <1>4, <3>6, RolesDiffer
      <4>2. Addressed(s, f)
        BY <3>6, <4>1 DEF Addressed, Carries
      <4>3. f.counter = s.receiver.ch.next /\ Stream(v, s.id, s.receiver.ch.next + 1, hi)
        BY <1>1, <3>2, <3>6, StreamTake DEF ChannelSane, v
      <4>4. Cardinality(Cached(s.receiver.ch)) < MAX_PREPARED_KEYS /\ f.counter < COUNTER_MAX
        BY <1>1, <1>5, <3>3, <3>5, RatchetBounds
      <4>5. /\ t.receiver.ch.next = s.receiver.ch.next + 1
            /\ f.key = f.counter => Cached(t.receiver.ch) = Cached(s.receiver.ch)
            /\ f.key = NoKey =>
                  Cardinality(Cached(t.receiver.ch)) = Cardinality(Cached(s.receiver.ch)) + 1
        BY <3>1, <3>4, <4>2, <4>3, <4>4, OpensNext
      <4>6. Forged(q, s.id) <=> f.key = NoKey
        BY <3>6 DEF Forged
      <4> QED BY <1>1, <1>5, <3>3, <3>5, <4>3, <4>5, <4>6
    <3>7. ASSUME ~Carries(f, s.id)
          PROVE  /\ Stream(v, s.id, t.receiver.ch.next, hi)
                 /\ Cardinality(Cached(t.receiver.ch)) \in Nat
                 /\ Cardinality(Cached(t.receiver.ch)) <= k
      <4>1. t.receiver = s.receiver
        BY <3>1, <3>7 DEF Addressed, Carries
      <4>2. Stream(v, s.id, s.receiver.ch.next, hi)
        BY <1>1, <3>2, <3>7, StreamTail DEF ChannelSane, v
      <4> QED BY <1>1, <3>3, <3>5, <4>1, <4>2
    <3>8. Stream(v, t.id, t.receiver.ch.next, hi) /\ \A r \in SessionSet(p) : r.id = t.id => r.counter = hi
      BY <3>1, <3>2, <3>6, <3>7
    <3>9. Cardinality(Cached(t.receiver.ch)) + (IF Forged(v, t.id) THEN 1 ELSE 0) <= k
      BY <1>4, <3>6, <3>7
    <3> QED BY <3>8, <3>9
  <2> QED BY <1>3, <1>4, <2>1, <2>2, <2>3, <2>4, <2>5 DEF End, SessionsSane, x
<1>8. End(p, x, u, k)
  <2>1. Sound(p, x.identity) /\ SessionsSane(p, x.identity) /\ Mutual(p, x) /\ ChannelSane(u, x)
    BY <1>1, <1>2, <1>6 DEF Mutual, ChannelSane
  <2>2. Awaits(p, x, u)
    <3> DEFINE id == SessionKeys(p.run.transcript)
    <3> SUFFICES ASSUME p.run.step = "ConfirmResp"
                 PROVE  /\ Announced(u, id)
                        /\ \E hi : /\ Stream(u, id, 0, hi)
                                   /\ \A t \in SessionSet(x) : t.id = id =>
                                         t.counter = hi /\ t.receiver = NewReceiver /\ HasConfirm(u)
      BY DEF Awaits
    <3>1. /\ Announced(u, id)
          /\ \E hi : /\ Stream(u, id, 0, hi)
                     /\ \A s \in SessionSet(e) : s.id = id =>
                           s.counter = hi /\ s.receiver = NewReceiver /\ HasConfirm(u)
      BY <1>1 DEF Awaits
    <3>2. Latest(p, e.identity, p.run.role, id)
      <4>1. p.run # NoRun
        BY DEF NoRun
      <4> QED BY <1>1, <4>1, RunIsLatest DEF AskedSteps
    <3> HIDE DEF id
    <3>3. Ends2(p, e, u, q, k)
      BY DEF Ends2
    <3>4. ~Carries(f, id)
      <4>1. \A i \in 1..Len(q) : ~Carries(q[i], id)
        BY <3>2, <3>3, NothingOfLatest
      <4> QED BY <1>4, <4>1
    <3>5. ASSUME NEW t \in SessionSet(x), t.id = id
          PROVE  \E s \in SessionSet(e) : s.id = id /\ t.counter = s.counter /\ t.receiver = s.receiver
      <4>1. PICK s \in SessionSet(e) :
               /\ t.id = s.id /\ t.counter = s.counter
               /\ t.receiver = IF Addressed(s, f) THEN Decrypt(s.receiver, f) ELSE s.receiver
        BY <1>2
      <4> QED BY <3>4, <3>5, <4>1 DEF Addressed, Carries
    <3> QED BY <3>1, <3>5
  <2>3. InStep(p, x, u, k)
    BY <1>1, <1>2 DEF InStep
  <2> QED BY <1>1, <2>1, <2>2, <2>3 DEF End
<1> QED BY <1>1, <1>2, <1>7, <1>8 DEF Ends2, x, v

-----------------------------------------------------------------------------
(* What else happens to a connection.                                      *)

\* The two ends are alike.
LEMMA EndsTurned ==
  ASSUME NEW e, NEW p, NEW q, NEW u, NEW k, Ends2(e, p, q, u, k)
  PROVE  Ends2(p, e, u, q, k)
BY DEF Ends2

\* A closed engine misses nothing of what was in flight to it.
LEMMA ClosedEnds ==
  ASSUME NEW e, NEW p, NEW q, NEW u, NEW k, Ends2(e, p, q, u, k), EngineOK(e), e.phase = "Closed"
  PROVE  Ends2(e, p, <<>>, u, k)
<1>1. Len(<<>>) = 0 /\ IsSequence(<<>>)
  BY NoneSent
<1>2. e.run.step # "ConfirmResp" /\ SessionSet(e) = {}
  BY DEF EngineOK, NoRun, Ends2, End, Sound
<1>3. ChannelSane(<<>>, p) /\ Expected(e, <<>>)
  BY <1>1 DEF ChannelSane, Expected
<1>4. Awaits(e, p, <<>>) /\ InStep(e, p, <<>>, k)
  BY <1>2 DEF Awaits, InStep
<1> QED BY <1>3, <1>4 DEF Ends2, End

\* One more fault makes room for one more key left behind.
LEMMA FaultEnds ==
  ASSUME NEW e, NEW p, NEW q, NEW u, NEW k, Ends2(e, p, q, u, k)
  PROVE  Ends2(e, p, q, u, k + 1)
<1>1. \A x, y, v : SessionsSane(x, y.identity) /\ InStep(x, y, v, k) => InStep(x, y, v, k + 1)
  <2> SUFFICES ASSUME NEW x, NEW y, NEW v, SessionsSane(x, y.identity), InStep(x, y, v, k),
                      k + 1 < MAX_PREPARED_KEYS, NEW t \in SessionSet(x)
               PROVE  /\ \E hi : /\ Stream(v, t.id, t.receiver.ch.next, hi)
                                 /\ \A s \in SessionSet(y) : s.id = t.id => s.counter = hi
                      /\ Cardinality(Cached(t.receiver.ch)) + (IF Forged(v, t.id) THEN 1 ELSE 0) <= k + 1
    BY DEF InStep
  <2>1. k \in Nat /\ k < MAX_PREPARED_KEYS
    BY RatchetBounds DEF Ends2
  <2>2. Cardinality(Cached(t.receiver.ch)) \in Nat
    BY CacheFinite DEF SessionsSane, SessionSane, ReceiverSane
  <2>3. Cardinality(Cached(t.receiver.ch)) + (IF Forged(v, t.id) THEN 1 ELSE 0) <= k
    BY <2>1 DEF InStep
  <2>4. Cardinality(Cached(t.receiver.ch)) + (IF Forged(v, t.id) THEN 1 ELSE 0) <= k + 1
    BY <2>1, <2>2, <2>3
  <2> QED BY <2>1, <2>4 DEF InStep
<1> QED BY <1>1 DEF Ends2, End

\* A damaged frame still says what it says of its sender, and where it belongs.
LEMMA DamagedEnds ==
  ASSUME NEW e, NEW p, NEW q, NEW u, NEW k, Ends2(e, p, q, u, k), q # <<>>, NEW v,
         \/ v = [q EXCEPT ![1].intact = FALSE]
         \/ Head(q).kind = "DATA" /\ v = [q EXCEPT ![1].key = NoKey]
  PROVE  Ends2(e, p, v, u, k + 1) /\ (HasConfirm(v) => HasConfirm(q))
<1>1. /\ k \in Nat /\ ChannelSane(q, p) /\ Expected(e, q) /\ Awaits(e, p, q) /\ InStep(e, p, q, k)
      /\ SessionsSane(e, p.identity)
  BY DEF Ends2, End
<1>2. /\ Len(q) \in Nat /\ 1 \in 1..Len(q) /\ Head(q) = q[1]
  BY <1>1, TailParts, SequenceParts DEF ChannelSane
<1>3. /\ IsSequence(v) /\ Len(v) = Len(q)
      /\ \A i \in 1..Len(q) : i # 1 => v[i] = q[i]
      /\ v[1] = [q[1] EXCEPT !.intact = FALSE] \/ (q[1].kind = "DATA" /\ v[1] = [q[1] EXCEPT !.key = NoKey])
  <2>1. PICK S : q \in Seq(S)
    BY <1>1 DEF ChannelSane, IsSequence
  <2> DEFINE T == S \cup {v[1]}
  <2>2. q \in Seq(T) /\ v[1] \in T
    BY <2>1
  <2>3. /\ v = [q EXCEPT ![1] = v[1]]
        /\ v[1] = [q[1] EXCEPT !.intact = FALSE] \/ (q[1].kind = "DATA" /\ v[1] = [q[1] EXCEPT !.key = NoKey])
    <3>1. DOMAIN q = 1..Len(q)
      BY <2>1
    <3>2. CASE v = [q EXCEPT ![1].intact = FALSE]
      BY <1>2, <3>1, <3>2
    <3>3. CASE Head(q).kind = "DATA" /\ v = [q EXCEPT ![1].key = NoKey]
      BY <1>2, <3>1, <3>3
    <3> QED BY <3>2, <3>3
  <2> HIDE DEF T
  <2>4. v \in Seq(T) /\ Len(v) = Len(q) /\ \A i \in 1..Len(q) : i # 1 => v[i] = q[i]
    BY <1>2, <2>2, <2>3
  <2> QED BY <2>3, <2>4 DEF IsSequence
<1>4. FrameSane(q[1], p)
  BY <1>1, <1>2 DEF ChannelSane
<1>5. /\ v[1].kind = q[1].kind
      /\ DOMAIN v[1] = DOMAIN q[1]
      /\ \A z \in DOMAIN q[1] \ {"intact", "key"} : v[1][z] = q[1][z]
      /\ q[1].kind = "DATA" => v[1].key \in {q[1].key, NoKey}
  <2>1. CASE v[1] = [q[1] EXCEPT !.intact = FALSE]
    BY <1>4, <2>1 DEF FrameSane
  <2>2. CASE q[1].kind = "DATA" /\ v[1] = [q[1] EXCEPT !.key = NoKey]
    BY <1>4, <2>2 DEF FrameSane
  <2> QED BY <1>3, <2>1, <2>2
<1>6. /\ \A i \in 1..Len(q) : v[i].kind = q[i].kind
      /\ \A i \in 1..Len(q) : v[i].kind = "DATA" =>
            v[i].id = q[i].id /\ v[i].direction = q[i].direction /\ v[i].counter = q[i].counter
  <2>1. q[1].kind = "DATA" => {"id", "direction", "counter"} \subseteq DOMAIN q[1]
    BY <1>4 DEF FrameSane
  <2> QED BY <1>3, <1>5, <2>1
<1>7. FrameSane(v[1], p)
  BY <1>4, <1>5 DEF FrameSane
<1>8. ChannelSane(v, p)
  <2>1. \A i \in 1..Len(v) : i > 1 => v[i] = q[i]
    BY <1>2, <1>3
  <2> QED BY <1>1, <1>3, <1>7, <2>1 DEF ChannelSane
<1>9. Expected(e, v)
  BY <1>1, <1>3, <1>6 DEF Expected
<1>10. /\ \A id : Announced(q, id) => Announced(v, id)
       /\ HasConfirm(q) <=> HasConfirm(v)
  <2>1. HasConfirm(q) <=> HasConfirm(v)
    BY <1>3, <1>6 DEF HasConfirm
  <2>2. \A id : Announced(q, id) => Announced(v, id)
    BY <1>3, <1>6, SMTT(30) DEF Announced, Carries
  <2> QED BY <2>1, <2>2
<1>11. \A id, lo, hi : Stream(q, id, lo, hi) => Stream(v, id, lo, hi)
  BY <1>3, <1>6 DEF Stream, Carries
<1>12. Awaits(e, p, v)
  <2> SUFFICES ASSUME e.run.step = "ConfirmResp"
               PROVE  LET id == SessionKeys(e.run.transcript) IN
                      /\ Announced(v, id)
                      /\ \E hi : /\ Stream(v, id, 0, hi)
                                 /\ \A s \in SessionSet(p) : s.id = id =>
                                       s.counter = hi /\ s.receiver = NewReceiver /\ HasConfirm(v)
    BY DEF Awaits
  <2>1. PICK id : id = SessionKeys(e.run.transcript)
    OBVIOUS
  <2>2. PICK hi : /\ Stream(q, id, 0, hi)
                  /\ \A s \in SessionSet(p) : s.id = id =>
                        s.counter = hi /\ s.receiver = NewReceiver /\ HasConfirm(q)
    BY <1>1, <2>1 DEF Awaits
  <2>3. Announced(q, id)
    BY <1>1, <2>1 DEF Awaits
  <2>4. /\ Announced(v, id) /\ Stream(v, id, 0, hi)
        /\ HasConfirm(q) => HasConfirm(v)
    BY <1>10, <1>11, <2>2, <2>3
  <2> QED BY <2>1, <2>2, <2>4
<1>13. InStep(e, p, v, k + 1)
  <2> SUFFICES ASSUME k + 1 < MAX_PREPARED_KEYS, NEW t \in SessionSet(e)
               PROVE  /\ \E hi : /\ Stream(v, t.id, t.receiver.ch.next, hi)
                                 /\ \A s \in SessionSet(p) : s.id = t.id => s.counter = hi
                      /\ Cardinality(Cached(t.receiver.ch)) + (IF Forged(v, t.id) THEN 1 ELSE 0) <= k + 1
    BY DEF InStep
  <2>1. k < MAX_PREPARED_KEYS
    BY <1>1, RatchetBounds
  <2>2. Cardinality(Cached(t.receiver.ch)) \in Nat
    BY <1>1, CacheFinite DEF SessionsSane, SessionSane, ReceiverSane
  <2>3. Cardinality(Cached(t.receiver.ch)) + (IF Forged(q, t.id) THEN 1 ELSE 0) <= k
    BY <1>1, <2>1 DEF InStep
  <2>4. Cardinality(Cached(t.receiver.ch)) + (IF Forged(v, t.id) THEN 1 ELSE 0) <= k + 1
    BY <1>1, <2>2, <2>3
  <2> QED BY <1>1, <1>11, <2>1, <2>4 DEF InStep
<1>14. Ends2(e, p, q, u, k + 1)
  BY FaultEnds
<1> QED BY <1>8, <1>9, <1>10, <1>12, <1>13, <1>14 DEF Ends2, End

-----------------------------------------------------------------------------
(* The actions of Connection.                                              *)

EnginesOK ==
    /\ DOMAIN engine = Node
    /\ \A n \in Node : EngineOK(engine[n])

\* Two new engines are consistent.
LEMMA InitOK == Init => EnginesOK
BY Fresh DEF Init, EnginesOK, Node

\* What the driver carries out leaves both engines consistent.
LEMMA Performs ==
  ASSUME EnginesOK, NEW n \in Node, NEW e, NEW r, NEW inbox, Handled(e, r), Perform(n, r, inbox)
  PROVE  EnginesOK'
<1>1. EngineOK(Settled(r.e))
  BY Settles DEF Handled
<1>2. engine' = [engine EXCEPT ![n] = Settled(r.e)]
  BY DEF Perform
<1> QED BY <1>1, <1>2 DEF EnginesOK

\* Every action hands at most one engine an input, and a handler keeps it
\* consistent; delivery, loss and damage touch no engine.
LEMMA StepOK == EnginesOK /\ [Next]_vars => EnginesOK'
<1> SUFFICES ASSUME EnginesOK, [Next]_vars
             PROVE  EnginesOK'
  OBVIOUS
<1>1. CASE UNCHANGED vars
  BY <1>1 DEF vars, EnginesOK
<1>2. ASSUME NEW n \in Node, Start(n)
      PROVE  EnginesOK'
  BY <1>2, Performs, Starts DEF Start, EnginesOK
<1>3. ASSUME NEW n \in Node, Receive(n)
      PROVE  EnginesOK'
  BY <1>3, Performs, Frame DEF Receive, EnginesOK
<1>4. ASSUME NEW n \in Node, NEW answer \in BOOLEAN, SasDecision(n, answer)
      PROVE  EnginesOK'
  BY <1>4, Performs, Answers DEF SasDecision, EnginesOK
<1>5. ASSUME NEW n \in Node, LocalSend(n) \/ LocalSendTooLarge(n)
      PROVE  EnginesOK'
  BY <1>5, Performs, Sends DEF LocalSend, LocalSendTooLarge, EnginesOK
<1>6. ASSUME NEW n \in Node, RequestRekey(n)
      PROVE  EnginesOK'
  BY <1>6, Performs, Begins DEF RequestRekey, EnginesOK
<1>7. ASSUME NEW n \in Node, NEW kind \in DeadlineKind, Timeout(n, kind)
      PROVE  EnginesOK'
  <2>1. EngineOK(engine[n]) /\ kind \in engine[n].deadlines
    BY <1>7 DEF Timeout, EnginesOK
  <2>2. Handled(Fired(engine[n], kind), on_timeout(engine[n], kind))
    BY <2>1, Fires
  <2>3. Perform(n, on_timeout(engine[n], kind), channel[n])
    BY <1>7 DEF Timeout
  <2> QED BY <2>2, <2>3, Performs
<1>8. ASSUME NEW n \in Node, NEW respond \in BOOLEAN,
             LocalClose(n) \/ TransportClosed(n) \/ TransportLost(n) \/ ReceiveMalformed(n, respond)
      PROVE  EnginesOK'
  BY <1>8, Performs, Ends DEF LocalClose, TransportClosed, TransportLost, ReceiveMalformed, EnginesOK
<1>9. ASSUME NEW n \in Node, Damage(n)
      PROVE  EnginesOK'
  BY <1>9 DEF Damage, EnginesOK
<1> QED BY <1>1, <1>2, <1>3, <1>4, <1>5, <1>6, <1>7, <1>8, <1>9 DEF Next

\* Both engines stay consistent: a run of the purpose that the phase asks for,
\* about the session it replaces; sessions where there must be some, and
\* nothing left of them when the connection is closed.
THEOREM EnginesStayConsistent == Spec => []EnginesOK
BY InitOK, StepOK, PTL DEF Spec

\* Nothing waits without a deadline, and no deadline outlives its wait: for
\* every frame, timeout and fault, in every order.
THEOREM WaitsAreTimed == Spec => []EveryWaitIsTimed
<1>1. EnginesOK => EveryWaitIsTimed
  BY DEF EnginesOK, EngineOK, EveryWaitIsTimed
<1> QED BY <1>1, EnginesStayConsistent, PTL

\* A failed rekey never prevents a later one.
THEOREM RekeysAreScheduled == Spec => []RekeyAlwaysScheduled
<1>1. EnginesOK => RekeyAlwaysScheduled
  BY DEF EnginesOK, EngineOK, RekeyAlwaysScheduled
<1> QED BY <1>1, EnginesStayConsistent, PTL

-----------------------------------------------------------------------------
(* Both ends of a connection, and who approved what.                       *)

\* The two engines are in step with what is in flight between them.  Nobody goes
\* on without its user's approval, and a confirmation tells of its sender's.
Agreement ==
    /\ EnginesOK
    /\ DOMAIN channel = Node
    /\ faults \in Nat
    /\ \A n \in Node : Ends2(engine[n], engine[Peer(n)], channel[n], channel[Peer(n)], faults)
    /\ approved \in [Node -> BOOLEAN]
    /\ \A n \in Node :
          /\ Passed(engine[n]) => approved[n]
          /\ HasConfirm(channel[n]) \/ Established(n) => approved[Peer(n)]

\* Each node is the peer of the other.
LEMMA Peers ==
  ASSUME NEW n \in Node
  PROVE  /\ Peer(n) \in Node /\ Peer(n) # n /\ Peer(Peer(n)) = n
         /\ \A m \in Node : m = n \/ m = Peer(n)
BY DEF Node, Peer

\* Two new engines have nothing between them.
LEMMA InitAgreement == Init => Agreement
<1> SUFFICES ASSUME Init PROVE Agreement
  OBVIOUS
<1>1. EnginesOK
  BY InitOK
<1>2. ASSUME NEW n \in Node
      PROVE  /\ \E role, identity : engine[n] = NewEngine(role, identity)
             /\ engine[n].identity # engine[Peer(n)].identity
             /\ channel[n] = <<>> /\ approved[n] = FALSE
  BY ConnectionBounds DEF Init, Node, Peer, NewEngine
<1>3. ASSUME NEW role, NEW identity
      PROVE  LET e == NewEngine(role, identity) IN
             /\ \A p : Sound(e, p)
             /\ SessionSet(e) = {} /\ e.run.step = "None" /\ e.phase = "Idle"
  BY DEF NewEngine, Sound, EngineFields, RunSane, SessionSet, NoRun
<1>4. ASSUME NEW n \in Node
      PROVE  /\ \A p : Sound(engine[n], p)
             /\ SessionSet(engine[n]) = {} /\ engine[n].run.step = "None" /\ engine[n].phase = "Idle"
  <2>1. PICK role, identity : engine[n] = NewEngine(role, identity)
    BY <1>2
  <2> QED BY <1>3, <2>1
<1>5. Len(<<>>) = 0 /\ IsSequence(<<>>) /\ ~HasConfirm(<<>>)
  BY NoneSent, WritesNone
<1>6. ASSUME NEW n \in Node
      PROVE  End(engine[n], engine[Peer(n)], <<>>, 0)
  <2>1. ChannelSane(<<>>, engine[Peer(n)]) /\ Expected(engine[n], <<>>)
    BY <1>5 DEF ChannelSane, Expected
  <2>2. /\ SessionsSane(engine[n], engine[Peer(n)].identity) /\ Mutual(engine[n], engine[Peer(n)])
        /\ InStep(engine[n], engine[Peer(n)], <<>>, 0)
    BY <1>4 DEF SessionsSane, Mutual, InStep
  <2>3. Awaits(engine[n], engine[Peer(n)], <<>>)
    BY <1>4 DEF Awaits
  <2> QED BY <1>4, <2>1, <2>2, <2>3 DEF End
<1>7. faults = 0
  BY DEF Init
<1>8. ASSUME NEW n \in Node
      PROVE  Ends2(engine[n], engine[Peer(n)], channel[n], channel[Peer(n)], faults)
  <2>1. Peer(n) \in Node /\ Peer(Peer(n)) = n
    BY Peers
  <2>2. End(engine[n], engine[Peer(n)], <<>>, 0) /\ End(engine[Peer(n)], engine[n], <<>>, 0)
    BY <1>6, <2>1
  <2> QED BY <1>2, <1>7, <2>1, <2>2 DEF Ends2
<1>9. approved \in [Node -> BOOLEAN] /\ DOMAIN channel = Node
  BY DEF Init
<1>10. ASSUME NEW n \in Node
       PROVE  ~Passed(engine[n]) /\ ~HasConfirm(channel[n]) /\ ~Established(n)
  BY <1>2, <1>4, <1>5 DEF Passed, Established
<1> QED BY <1>1, <1>7, <1>8, <1>9, <1>10 DEF Agreement

\* A step leaves what was approved, and counts at most one fault.
Grants ==
    /\ faults' \in {faults, faults + 1}
    /\ approved' \in [Node -> BOOLEAN]
    /\ \A m \in Node : approved[m] => approved'[m]

\* r is an engine that is in step with the channel v from its peer and with what
\* its peer is sent.  Unless it is closed, it goes on with that channel.
Fits(n, r, inbox, v) ==
    /\ EngineOK(r.e) /\ IsSequence(r.out)
    /\ Ends2(r.e, engine[Peer(n)], v, channel[Peer(n)] \o r.out, faults)
    /\ r.e.phase # "Closed" => inbox = v /\ (HasConfirm(v) => HasConfirm(channel[n]))
    /\ Passed(r.e) => approved'[n]
    /\ HasConfirm(r.out) => approved[n]
    /\ r.e.phase = "Established" => approved[Peer(n)]

\* r is the result of a step of n, given f, that leaves the channel v.
PlaysOf(n, r, inbox, f, v) ==
    /\ EngineOK(r.e) /\ IsSequence(r.out)
    /\ Plays(engine[n], engine[Peer(n)].identity, f, r.e, r.out)
    /\ Took(channel[n], f, v)
    /\ r.e.phase # "Closed" => inbox = v
    /\ f = Approval => approved'[n]

\* The driver hands over a result that fits the connection.
LEMMA PerformAgrees ==
  ASSUME Agreement, Grants, NEW n \in Node, NEW r, NEW inbox, NEW v,
         Perform(n, r, inbox), Fits(n, r, inbox, v)
  PROVE  Agreement'
<1> DEFINE m == Peer(n)
           x == Settled(r.e)
           a == IF r.e.phase = "Closed" THEN <<>> ELSE inbox
           b == IF engine[m].phase = "Closed" THEN <<>> ELSE channel[m] \o r.out
<1>1. m \in Node /\ m # n /\ Peer(m) = n /\ \A z \in Node : z = n \/ z = m
  BY Peers
<1>2. EnginesOK'
  <2>1. EngineOK(x)
    BY Settles DEF Fits
  <2>2. engine' = [engine EXCEPT ![n] = x]
    BY DEF Perform
  <2> QED BY <2>1, <2>2 DEF Agreement, EnginesOK
<1>3. /\ engine'[n] = x /\ engine'[m] = engine[m]
      /\ channel'[n] = a /\ channel'[m] = b
  BY <1>1 DEF Perform, Agreement, EnginesOK
<1>4. faults \in Nat /\ EngineOK(engine[m])
  BY <1>1 DEF Agreement, EnginesOK
<1>5. Alike(r.e, x) /\ EngineOK(x)
  BY Settles DEF Fits, EngineOK, Held, Alike, Settled, EngineFields
<1>6. \A z : HasConfirm(z) => z # <<>>
  BY WritesNone
<1> HIDE DEF m, x
<1>7. Ends2(x, engine[m], v, channel[m] \o r.out, faults)
  <2> DEFINE w == channel[m] \o r.out
  <2>1. Ends2(r.e, engine[m], v, w, faults)
    BY DEF m, Fits
  <2> HIDE DEF w
  <2>2. Sound(r.e, engine[m].identity) /\ IsSequence(w)
    BY <2>1 DEF Ends2, End, ChannelSane
  <2>3. Plays(r.e, engine[m].identity, NoInput, x, <<>>)
    BY <1>5, <2>2, PlaysOn, WritesNone DEF NoInput, NoFrame
  <2>4. Took(v, NoInput, v)
    BY DEF Took, NoInput, NoFrame
  <2>5. Ends2(x, engine[m], v, w \o <<>>, faults)
    BY <2>1, <2>3, <2>4, PlaysEnds
  <2>6. w \o <<>> = w
    BY <2>2 DEF IsSequence
  <2> QED BY <2>5, <2>6 DEF w
<1>8. x.phase = r.e.phase /\ (Passed(x) <=> Passed(r.e))
  BY <1>5 DEF Alike, Passed
<1>9. Ends2(x, engine[m], a, b, faults)
  <2>1. Ends2(x, engine[m], a, channel[m] \o r.out, faults)
    BY <1>5, <1>7, <1>8, ClosedEnds DEF Fits
  <2>2. Ends2(engine[m], x, channel[m] \o r.out, a, faults)
    BY <2>1, EndsTurned
  <2>3. Ends2(engine[m], x, b, a, faults)
    BY <1>4, <2>2, ClosedEnds
  <2> QED BY <2>3, EndsTurned
<1>10. Ends2(x, engine[m], a, b, faults')
  BY <1>9, FaultEnds DEF Grants
<1>11. Ends2(engine[m], x, b, a, faults')
  BY <1>10, EndsTurned
<1>12. \A z \in Node : Ends2(engine'[z], engine'[Peer(z)], channel'[z], channel'[Peer(z)], faults')
  BY <1>1, <1>3, <1>10, <1>11 DEF m
<1>13. /\ Passed(engine[m]) => approved[m]
       /\ HasConfirm(channel[m]) \/ engine[m].phase = "Established" => approved[n]
       /\ HasConfirm(channel[n]) \/ engine[n].phase = "Established" => approved[m]
  BY <1>1 DEF Agreement, Established, m
<1>14. HasConfirm(a) => approved[m]
  BY <1>6, <1>13 DEF Fits
<1>15. HasConfirm(b) => approved[n]
  <2>1. IsSequence(channel[m])
    BY <1>1 DEF Agreement, Ends2, End, ChannelSane
  <2> QED BY <1>6, <1>13, <2>1, ConfirmParts DEF Fits
<1>16. \A z \in Node : Passed(engine'[z]) => approved'[z]
  BY <1>1, <1>3, <1>8, <1>13 DEF Fits, Grants
<1>17. \A z \in Node : HasConfirm(channel'[z]) \/ engine'[z].phase = "Established" => approved'[Peer(z)]
  BY <1>1, <1>3, <1>8, <1>13, <1>14, <1>15 DEF m, Fits, Grants
<1>18. DOMAIN channel' = Node
  BY DEF Perform
<1> QED BY <1>2, <1>4, <1>12, <1>16, <1>17, <1>18 DEF Agreement, Established, Grants

\* A result of a step without DATA.
LEMMA PlaysAgrees ==
  ASSUME Agreement, Grants, NEW n \in Node, NEW r, NEW inbox, NEW f, NEW v,
         Perform(n, r, inbox), PlaysOf(n, r, inbox, f, v)
  PROVE  Agreement'
<1> DEFINE m == Peer(n)
           q == channel[n]
<1>1. /\ EngineOK(r.e) /\ IsSequence(r.out)
      /\ Plays(engine[n], engine[m].identity, f, r.e, r.out)
      /\ Took(q, f, v)
      /\ r.e.phase # "Closed" => inbox = v
      /\ f = Approval => approved'[n]
  BY DEF PlaysOf
<1>2. Ends2(engine[n], engine[m], q, channel[m], faults) /\ ChannelSane(q, engine[m])
  BY DEF Agreement, Ends2, End
<1>3. Ends2(r.e, engine[m], v, channel[m] \o r.out, faults)
  BY <1>1, <1>2, PlaysEnds
<1>4. HasConfirm(v) => HasConfirm(q)
  <2>1. \A i \in 1..Len(v) : \E j \in 1..Len(q) : q[j] = v[i]
    BY <1>1, <1>2, TookParts
  <2> QED BY <2>1 DEF HasConfirm
<1>5. f.kind = "CONFIRM" => HasConfirm(q)
  BY <1>1, <1>2, TailParts DEF Took, HasConfirm
<1>6. /\ Passed(engine[n]) => approved[n] /\ approved'[n]
      /\ HasConfirm(q) \/ engine[n].phase = "Established" => approved[m]
  BY DEF Agreement, Established, Grants
<1>7. Passed(r.e) => approved'[n]
  BY <1>1, <1>6 DEF Plays
<1>8. HasConfirm(r.out) => approved[n]
  BY <1>1, <1>6 DEF Plays
<1>9. r.e.phase = "Established" => approved[m]
  BY <1>1, <1>5, <1>6 DEF Plays
<1>10. Fits(n, r, inbox, v)
  BY <1>1, <1>3, <1>4, <1>7, <1>8, <1>9 DEF Fits
<1> QED BY <1>10, PerformAgrees

\* DATA that arrives before there is a session ends the connection.
LEMMA EarlyDataCloses ==
  ASSUME NEW e, EngineOK(e), e.phase = "Handshaking", NEW f, f.kind = "DATA"
  PROVE  on_frame(e, f).e.phase = "Closed"
<1>1. MessageType(f) = "Data" /\ ~(\E kind \in {"COMMIT", "HELLO", "AUTH", "CONFIRM"} : Decodes(f, kind))
  BY DEF MessageType, Decodes
<1>2. DOMAIN e = EngineFields
  BY DEF EngineOK, Held
<1>3. \A z : DOMAIN z = EngineFields => \A why, notify : terminate(z, why, notify).e.phase = "Closed"
  BY DEF terminate, Result, cancel_all, cancel, EngineFields
<1>4. \A error : Fail(e, error).e.phase = "Closed" /\ fail_initial(e, error).e.phase = "Closed"
  BY <1>2, <1>3 DEF Fail, fail_initial
<1>5. CASE e.run = NoRun
  <2>1. on_frame(e, f) = fail_initial(e, "InvalidHandshake")
    BY <1>1, <1>5 DEF on_frame, accept_first_commit
  <2> QED BY <1>4, <2>1
<1>6. CASE e.run # NoRun
  <2>1. on_frame(e, f) = step_run(e, f) /\ e.run.step \in Steps
    BY <1>1, <1>6 DEF on_frame, EngineOK, HasRun
  <2>2. \A role : HelloError(e, f, role) = "InvalidHandshake"
    BY <1>1 DEF HelloError
  <2>3. /\ step_Hello(e, f) = Fail(e, "InvalidHandshake")
        /\ step_Reveal(e, f) = Fail(e, "InvalidHandshake")
    BY <2>2 DEF step_Hello, step_Reveal
  <2>4. /\ step_Sas(e, f) = Fail(e, "InvalidStateTransition")
        /\ step_AuthInit(e, f) = Fail(e, "InvalidHandshake")
        /\ step_AuthResp(e, f) = Fail(e, "InvalidHandshake")
        /\ step_ConfirmResp(e, f) = Fail(e, ConfirmError(f))
        /\ step_ConfirmInit(e, f) = Fail(e, ConfirmError(f))
    BY <1>1 DEF step_Sas, step_AuthInit, step_AuthResp, step_ConfirmResp, step_ConfirmInit,
                verify_auth, verify_from
  <2> QED BY <1>4, <2>1, <2>3, <2>4 DEF step_run, Steps, AskedSteps
<1> QED BY <1>5, <1>6

\* A frame that arrives.
LEMMA ReceiveAgrees ==
  ASSUME Agreement, NEW n \in Node, Receive(n)
  PROVE  Agreement'
<1> DEFINE m == Peer(n)
           e == engine[n]
           q == channel[n]
           f == Head(q)
           r == on_frame(e, f)
<1>1. m \in Node /\ EngineOK(e) /\ Ends2(e, engine[m], q, channel[m], faults)
  BY Peers DEF Agreement, EnginesOK
<1>2. /\ Sound(e, engine[m].identity) /\ ChannelSane(q, engine[m]) /\ IsSequence(channel[m])
  BY <1>1 DEF Ends2, End, ChannelSane
<1>3. /\ q # <<>> /\ Perform(n, r, Tail(q)) /\ approved' = approved /\ faults' = faults
      /\ e.phase \in {"Handshaking", "Established"}
  BY <1>1 DEF Receive, Open, EngineOK
<1>4. /\ EngineOK(r.e) /\ IsSequence(r.out)
      /\ Grants
  BY <1>1, <1>3, Frame DEF Agreement, Handled, Grants
<1>5. Reveals(f, engine[m].identity)
  BY <1>2, <1>3, TailParts DEF ChannelSane, FrameSane, Reveals
<1>6. Took(q, NoInput, q) /\ NoInput # Approval
  BY DEF Took, NoInput, NoFrame, Approval
<1>7. f # Approval
  <2>1. FrameSane(f, engine[m])
    BY <1>2, <1>3, TailParts DEF ChannelSane
  <2>2. "intact" \in DOMAIN f /\ "intact" \notin DOMAIN Approval
    BY <2>1 DEF FrameSane, Approval
  <2> QED BY <2>2
<1>8. CASE f.kind # "DATA"
  <2>1. Plays(e, engine[m].identity, f, r.e, r.out)
    BY <1>1, <1>2, <1>5, <1>8, PlaysFrame
  <2>2. Took(q, f, Tail(q))
    BY <1>3, <1>8 DEF Took
  <2>3. PlaysOf(n, r, Tail(q), f, Tail(q))
    BY <1>4, <1>7, <2>1, <2>2 DEF PlaysOf
  <2> QED BY <1>3, <1>4, <2>3, PlaysAgrees
<1>9. CASE f.kind = "DATA" /\ e.phase = "Handshaking"
  <2>1. Plays(e, engine[m].identity, f, r.e, r.out)
    BY <1>1, <1>2, <1>5, <1>9, PlaysFrame
  <2>2. \A s : ~Promotes(e, f, r.e, r.out, s)
    BY <1>9 DEF Promotes
  <2>3. Plays(e, engine[m].identity, NoInput, r.e, r.out)
    BY <1>7, <1>9, <2>1, <2>2 DEF Plays, NoInput, NoFrame
  <2>4. r.e.phase = "Closed"
    BY <1>1, <1>9, EarlyDataCloses
  <2>5. PlaysOf(n, r, Tail(q), NoInput, q)
    BY <1>4, <1>6, <2>3, <2>4 DEF PlaysOf
  <2> QED BY <1>3, <1>4, <2>5, PlaysAgrees
<1>10. CASE f.kind = "DATA" /\ e.phase = "Established"
  <2> DEFINE x == Opened(e, f)
  <2>1. r = on_data(e, f)
    BY <1>10 DEF on_frame, MessageType
  <2>2. Sound(x, engine[m].identity) /\ Plays(x, engine[m].identity, NoInput, r.e, r.out)
    BY <1>1, <1>2, <1>10, <2>1, PlaysData
  <2>3. CASE f.intact
    <3>1. Ends2(x, engine[m], Tail(q), channel[m], faults)
      BY <1>1, <1>3, <1>10, <2>2, <2>3, OpenedEnds
    <3>2. Took(Tail(q), NoInput, Tail(q))
      BY DEF Took, NoInput, NoFrame
    <3>3. Ends2(r.e, engine[m], Tail(q), channel[m] \o r.out, faults)
      BY <2>2, <3>1, <3>2, PlaysEnds
    <3>4. HasConfirm(Tail(q)) => HasConfirm(q)
      BY <1>2, <1>3, TailParts DEF HasConfirm
    <3>5. approved[n] /\ approved[m] /\ approved'[n]
      BY <1>4, <1>10 DEF Agreement, Passed, Established, Grants
    <3>6. Fits(n, r, Tail(q), Tail(q))
      BY <1>4, <3>3, <3>4, <3>5 DEF Fits
    <3> QED BY <1>3, <1>4, <3>6, PerformAgrees
  <2>4. CASE ~f.intact
    <3>1. \A s : decrypt(s, f) = s /\ ~decrypts(s, f)
      BY <2>4 DEF decrypt, decrypts, Addressed
    <3>2. DOMAIN e = EngineFields
      BY <1>1 DEF EngineOK, Held
    <3>3. Alike(e, x)
      BY <3>1, <3>2 DEF Alike, Opened, EngineFields
    <3>4. Plays(e, engine[m].identity, NoInput, r.e, r.out)
      BY <2>2, <3>3, AlikeBefore
    <3>5. r.e.phase = "Closed"
      <4>1. \E z : DOMAIN z = EngineFields /\ r = terminate(z, "ProtocolError", "ProtocolError")
        BY <2>1, <2>4, <3>1, <3>2 DEF on_data, EngineFields
      <4>2. \A z : DOMAIN z = EngineFields => terminate(z, "ProtocolError", "ProtocolError").e.phase = "Closed"
        BY DEF terminate, Result, cancel_all, cancel, EngineFields
      <4> QED BY <4>1, <4>2
    <3>6. PlaysOf(n, r, Tail(q), NoInput, q)
      BY <1>4, <1>6, <3>4, <3>5 DEF PlaysOf
    <3> QED BY <1>3, <1>4, <3>6, PlaysAgrees
  <2> QED BY <2>3, <2>4
<1> QED BY <1>3, <1>8, <1>9, <1>10

\* What is known of the two ends before a step of n.
LEMMA StepParts ==
  ASSUME Agreement, NEW n \in Node
  PROVE  /\ EngineOK(engine[n]) /\ Sound(engine[n], engine[Peer(n)].identity)
         /\ Ends2(engine[n], engine[Peer(n)], channel[n], channel[Peer(n)], faults)
         /\ ChannelSane(channel[n], engine[Peer(n)]) /\ IsSequence(channel[Peer(n)])
         /\ Took(channel[n], NoInput, channel[n]) /\ NoInput # Approval /\ NoInput.kind # "CONFIRM"
         /\ UNCHANGED approved /\ faults' \in {faults, faults + 1} => Grants
BY DEF Agreement, EnginesOK, Ends2, End, ChannelSane, Took, NoInput, NoFrame, Approval, Grants

\* start, begin_rekey and a deadline that fires.
LEMMA PromptedAgrees ==
  ASSUME Agreement, NEW n \in Node,
         Start(n) \/ RequestRekey(n) \/ \E kind \in DeadlineKind : Timeout(n, kind)
  PROVE  Agreement'
<1> DEFINE e == engine[n]
           q == channel[n]
<1>1. /\ EngineOK(e) /\ Sound(e, engine[Peer(n)].identity)
      /\ Took(q, NoInput, q) /\ NoInput # Approval /\ NoInput.kind # "CONFIRM"
      /\ UNCHANGED approved /\ faults' \in {faults, faults + 1} => Grants
  BY StepParts
<1>2. CASE Start(n)
  <2> DEFINE r == start(e)
  <2>1. Perform(n, r, q) /\ Grants /\ e.phase = "Idle"
    BY <1>1, <1>2 DEF Start
  <2>2. Plays(e, engine[Peer(n)].identity, NoInput, r.e, r.out)
    BY <1>1, <2>1, PlaysStart DEF EngineOK
  <2>3. PlaysOf(n, r, q, NoInput, q)
    BY <1>1, <2>2, Starts DEF PlaysOf, Handled
  <2> QED BY <2>1, <2>3, PlaysAgrees
<1>3. CASE RequestRekey(n)
  <2> DEFINE r == begin_rekey(e)
  <2>1. Perform(n, r, q) /\ Grants
    BY <1>1, <1>3 DEF RequestRekey
  <2>2. Plays(e, engine[Peer(n)].identity, NoInput, r.e, r.out)
    BY <1>1, PlaysBegin
  <2>3. PlaysOf(n, r, q, NoInput, q)
    BY <1>1, <2>2, Begins DEF PlaysOf, Handled
  <2> QED BY <2>1, <2>3, PlaysAgrees
<1>4. ASSUME NEW kind \in DeadlineKind, Timeout(n, kind)
      PROVE  Agreement'
  <2> DEFINE r == on_timeout(e, kind)
  <2>1. Perform(n, r, q) /\ Grants /\ kind \in e.deadlines
    BY <1>1, <1>4 DEF Timeout
  <2>2. Plays(e, engine[Peer(n)].identity, NoInput, r.e, r.out)
    BY <1>1, PlaysTimeout
  <2>3. PlaysOf(n, r, q, NoInput, q)
    BY <1>1, <2>1, <2>2, Fires DEF PlaysOf, Handled
  <2> QED BY <2>1, <2>3, PlaysAgrees
<1> QED BY <1>2, <1>3, <1>4

\* The user answers: what the engine takes for an approval is one.
LEMMA AnswerAgrees ==
  ASSUME Agreement, NEW n \in Node, NEW answer \in BOOLEAN, SasDecision(n, answer)
  PROVE  Agreement'
<1> DEFINE e == engine[n]
           q == channel[n]
           f == IF answer /\ e.run.step = "Sas" THEN Approval ELSE NoInput
           r == on_sas(e, answer)
<1>1. /\ EngineOK(e) /\ Sound(e, engine[Peer(n)].identity)
      /\ Took(q, NoInput, q) /\ NoInput # Approval
  BY StepParts
<1>2. /\ Perform(n, r, q) /\ faults' = faults
      /\ approved' = [approved EXCEPT ![n] = @ \/ (answer /\ e.run.step = "Sas")]
  BY DEF SasDecision
<1>3. approved \in [Node -> BOOLEAN]
  BY DEF Agreement
<1>4. approved'[n] = (approved[n] \/ (answer /\ e.run.step = "Sas"))
  BY <1>2, <1>3
<1>5. Grants
  <2>1. approved' \in [Node -> BOOLEAN]
    BY <1>2, <1>3
  <2>2. \A m \in Node : m # n => approved'[m] = approved[m]
    BY <1>2, <1>3
  <2>3. \A m \in Node : approved[m] => approved'[m]
    BY <1>4, <2>2
  <2> QED BY <1>2, <2>1, <2>3 DEF Grants
<1>6. Plays(e, engine[Peer(n)].identity, f, r.e, r.out)
  BY <1>1, PlaysAnswer
<1>7. Took(q, f, q) /\ (f = Approval => approved'[n])
  <2>1. Took(q, f, q)
    BY DEF Took, Approval, NoInput, NoFrame
  <2> QED BY <1>1, <1>4, <2>1
<1>8. PlaysOf(n, r, q, f, q)
  BY <1>1, <1>6, <1>7, Answers DEF PlaysOf, Handled
<1> QED BY <1>2, <1>5, <1>8, PlaysAgrees

\* What is sent joins the channel frame by frame.
LEMMA Regroup ==
  ASSUME NEW q, NEW d, NEW out, IsSequence(q), IsSequence(out)
  PROVE  (q \o <<d>>) \o out = q \o (<<d>> \o out)
<1>1. PICK S : q \in Seq(S)
  BY DEF IsSequence
<1>2. PICK T : out \in Seq(T)
  BY DEF IsSequence
<1> DEFINE A == S \cup T \cup {d}
<1>3. q \in Seq(A) /\ out \in Seq(A) /\ <<d>> \in Seq(A)
  BY <1>1, <1>2
<1> HIDE DEF A
<1>4. \A z \in Seq(A) : (q \o z) \o out = q \o (z \o out)
  BY <1>3
<1> QED BY <1>3, <1>4

\* The user sends.
LEMMA SendAgrees ==
  ASSUME Agreement, NEW n \in Node, LocalSend(n) \/ LocalSendTooLarge(n)
  PROVE  Agreement'
<1> DEFINE m == Peer(n)
           e == engine[n]
           q == channel[n]
           u == channel[m]
<1>1. /\ EngineOK(e) /\ Sound(e, engine[m].identity) /\ Ends2(e, engine[m], q, u, faults)
      /\ IsSequence(u) /\ Took(q, NoInput, q) /\ NoInput # Approval
      /\ UNCHANGED approved /\ faults' \in {faults, faults + 1} => Grants
  BY StepParts
<1>2. PICK content : Perform(n, on_send(e, content), q) /\ Grants
  BY <1>1 DEF LocalSend, LocalSendTooLarge
<1> DEFINE r == on_send(e, content)
           d == DataPayload(e.active.id, e.active.role, e.active.counter, content)
           x == Sealed(e)
<1>3. EngineOK(r.e) /\ IsSequence(r.out)
  BY <1>1, Sends DEF Handled
<1>4. CASE Plays(e, engine[m].identity, NoInput, r.e, r.out)
  <2>1. PlaysOf(n, r, q, NoInput, q)
    BY <1>1, <1>3, <1>4 DEF PlaysOf
  <2> QED BY <1>2, <2>1, PlaysAgrees
<1>5. CASE /\ e.phase = "Established" /\ ~(e.active.counter >= COUNTER_MAX)
           /\ Sound(x, engine[m].identity)
           /\ \E more : r.out = <<d>> \o more /\ Plays(x, engine[m].identity, NoInput, r.e, more)
  <2>1. PICK more : r.out = <<d>> \o more /\ Plays(x, engine[m].identity, NoInput, r.e, more)
    BY <1>5
  <2>2. Ends2(x, engine[m], q, u \o <<d>>, faults)
    BY <1>1, <1>5, SealedEnds
  <2>3. Ends2(r.e, engine[m], q, (u \o <<d>>) \o more, faults)
    BY <1>1, <2>1, <2>2, PlaysEnds
  <2>4. (u \o <<d>>) \o more = u \o (<<d>> \o more)
    <3>1. IsSequence(more)
      BY <2>1 DEF Plays, Writes
    <3> HIDE DEF u, d
    <3> QED BY <1>1, <3>1, Regroup
  <2>5. approved[n] /\ approved[m] /\ approved'[n]
    BY <1>2, <1>5 DEF Agreement, Passed, Established, Grants
  <2>6. Fits(n, r, q, q)
    BY <1>3, <2>1, <2>3, <2>4, <2>5 DEF Fits
  <2> QED BY <1>2, <2>6, PerformAgrees
<1>6. \/ Plays(e, engine[m].identity, NoInput, r.e, r.out)
      \/ /\ e.phase = "Established" /\ ~(e.active.counter >= COUNTER_MAX)
         /\ Sound(x, engine[m].identity)
         /\ \E more : r.out = <<d>> \o more /\ Plays(x, engine[m].identity, NoInput, r.e, more)
  BY <1>1, PlaysSend
<1> QED BY <1>4, <1>5, <1>6

\* The connection ends at n.
LEMMA EndAgrees ==
  ASSUME Agreement, NEW n \in Node, NEW respond \in BOOLEAN,
         LocalClose(n) \/ TransportClosed(n) \/ TransportLost(n) \/ ReceiveMalformed(n, respond)
  PROVE  Agreement'
<1> DEFINE e == engine[n]
           q == channel[n]
<1>1. /\ EngineOK(e) /\ Sound(e, engine[Peer(n)].identity)
      /\ Took(q, NoInput, q) /\ NoInput # Approval
      /\ UNCHANGED approved /\ faults' \in {faults, faults + 1} => Grants
  BY StepParts
<1>2. PICK r, inbox : /\ Perform(n, r, inbox) /\ Grants
                      /\ r \in {local_close(e), transport_closed(e), malformed(e, respond)}
  BY <1>1 DEF LocalClose, TransportClosed, TransportLost, ReceiveMalformed
<1>3. EngineOK(r.e) /\ IsSequence(r.out)
  BY <1>1, <1>2, Ends DEF Handled
<1>4. \E why, notify : r = terminate(e, why, notify)
  BY <1>2 DEF local_close, transport_closed, malformed
<1>5. r.e.phase = "Closed"
  <2>1. \A why, notify : terminate(e, why, notify).e.phase = "Closed"
    BY <1>1 DEF terminate, Result, cancel_all, cancel, Sound, EngineFields
  <2> QED BY <1>4, <2>1
<1>6. Plays(e, engine[Peer(n)].identity, NoInput, r.e, r.out)
  BY <1>1, <1>4, PlaysEnd
<1>7. PlaysOf(n, r, inbox, NoInput, q)
  BY <1>1, <1>3, <1>5, <1>6 DEF PlaysOf
<1> QED BY <1>2, <1>7, PlaysAgrees

\* A frame is damaged.
LEMMA DamageAgrees ==
  ASSUME Agreement, NEW n \in Node, Damage(n)
  PROVE  Agreement'
<1> DEFINE m == Peer(n)
           q == channel[n]
           v == channel'[n]
<1>1. m \in Node /\ m # n /\ Peer(m) = n /\ \A z \in Node : z = n \/ z = m
  BY Peers
<1>2. Ends2(engine[n], engine[m], q, channel[m], faults) /\ ChannelSane(q, engine[m])
  BY StepParts
<1>3. /\ engine' = engine /\ approved' = approved /\ faults' = faults + 1
      /\ q # <<>>
      /\ \/ channel' = [channel EXCEPT ![n][1].intact = FALSE]
         \/ Head(q).kind = "DATA" /\ channel' = [channel EXCEPT ![n][1].key = NoKey]
  BY DEF Damage
<1>4. DOMAIN channel = Node /\ DOMAIN channel' = Node
  BY <1>3 DEF Agreement
<1>5. /\ channel'[m] = channel[m]
      /\ \/ v = [q EXCEPT ![1].intact = FALSE]
         \/ Head(q).kind = "DATA" /\ v = [q EXCEPT ![1].key = NoKey]
  BY <1>1, <1>3, <1>4
<1>6. Ends2(engine[n], engine[m], v, channel[m], faults')
  BY <1>2, <1>3, <1>5, DamagedEnds
<1>7. Ends2(engine[m], engine[n], channel[m], v, faults')
  BY <1>6, EndsTurned
<1>8. \A z \in Node : Ends2(engine'[z], engine'[Peer(z)], channel'[z], channel'[Peer(z)], faults')
  BY <1>1, <1>3, <1>5, <1>6, <1>7
<1>9. HasConfirm(v) => HasConfirm(q)
  BY <1>2, <1>3, <1>5, DamagedEnds
<1>10. \A z \in Node : HasConfirm(channel'[z]) \/ engine'[z].phase = "Established" => approved'[Peer(z)]
  BY <1>1, <1>3, <1>5, <1>9 DEF Agreement, Established
<1> QED BY <1>3, <1>4, <1>8, <1>10 DEF Agreement, EnginesOK, Established

\* No step loses the agreement.
LEMMA AgreementStep == Agreement /\ [Next]_vars => Agreement'
<1> SUFFICES ASSUME Agreement, [Next]_vars
             PROVE  Agreement'
  OBVIOUS
<1>1. CASE UNCHANGED vars
  BY <1>1 DEF vars, Agreement, EnginesOK, Established
<1>2. CASE Next
  <2>1. PICK n \in Node :
           \/ Start(n) \/ RequestRekey(n) \/ \E kind \in DeadlineKind : Timeout(n, kind)
           \/ Receive(n)
           \/ \E answer \in BOOLEAN : SasDecision(n, answer)
           \/ LocalSend(n) \/ LocalSendTooLarge(n)
           \/ \E respond \in BOOLEAN :
                 LocalClose(n) \/ TransportClosed(n) \/ TransportLost(n) \/ ReceiveMalformed(n, respond)
           \/ Damage(n)
    BY <1>2 DEF Next
  <2>2. CASE Start(n) \/ RequestRekey(n) \/ \E kind \in DeadlineKind : Timeout(n, kind)
    BY <2>2, PromptedAgrees
  <2>3. CASE Receive(n)
    BY <2>3, ReceiveAgrees
  <2>4. CASE \E answer \in BOOLEAN : SasDecision(n, answer)
    BY <2>4, AnswerAgrees
  <2>5. CASE LocalSend(n) \/ LocalSendTooLarge(n)
    BY <2>5, SendAgrees
  <2>6. CASE \E respond \in BOOLEAN :
               LocalClose(n) \/ TransportClosed(n) \/ TransportLost(n) \/ ReceiveMalformed(n, respond)
    BY <2>6, EndAgrees
  <2>7. CASE Damage(n)
    BY <2>7, DamageAgrees
  <2> QED BY <2>1, <2>2, <2>3, <2>4, <2>5, <2>6, <2>7
<1> QED BY <1>1, <1>2

\* Both ends stay in step with what is in flight between them, and nobody goes on
\* without both users' approval.
THEOREM ConnectionStaysInStep == Spec => []Agreement
BY InitAgreement, AgreementStep, PTL DEF Spec

\* Nobody has a session unless both users approved the SAS.
THEOREM SessionsAreApprovedByBoth == Spec => []ApprovedByBoth
<1>1. Agreement => ApprovedByBoth
  BY DEF Agreement, ApprovedByBoth, Established, Passed
<1> QED BY <1>1, ConnectionStaysInStep, PTL

\* Two ends of a session are its two roles, and on a faultless link what a
\* receiving chain has not derived yet is what is in flight.
THEOREM SharedSessionsInStep == Spec => []SharedSessionInStep
<1>1. Agreement => SharedSessionInStep
  <2> SUFFICES ASSUME Agreement, faults = 0, NEW n \in Node,
                      NEW s \in Sessions(n), NEW t \in Sessions(Peer(n)), s.id = t.id
               PROVE  /\ s.role # t.role
                      /\ s.counter = t.receiver.ch.next + Cardinality(InFlightOf(s, Peer(n)))
    BY DEF SharedSessionInStep
  <2> DEFINE m == Peer(n)
             q == channel[m]
  <2>1. /\ m \in Node /\ Peer(m) = n
        /\ s \in SessionSet(engine[n]) /\ t \in SessionSet(engine[m])
    BY Peers DEF Sessions, SessionSet
  <2>2. Ends2(engine[m], engine[n], q, channel[n], 0)
    BY <2>1 DEF Agreement
  <2>3. InStep(engine[m], engine[n], q, 0) /\ IsSequence(q)
    BY <2>2 DEF Ends2, End, ChannelSane
  <2>4. s.role # t.role
    BY <2>1, <2>2, RolesDiffer
  <2>5. Stream(q, t.id, t.receiver.ch.next, s.counter)
    BY <2>1, <2>3, RatchetBounds DEF InStep
  <2>6. Cardinality(InFlightOf(s, m)) = s.counter - t.receiver.ch.next
    BY <2>3, <2>5, StreamSize DEF InFlightOf
  <2>7. s.counter \in Int /\ t.receiver.ch.next \in Int /\ Cardinality(InFlightOf(s, m)) \in Int
    BY <2>5, <2>6 DEF Stream
  <2> QED BY <2>4, <2>6, <2>7
<1> QED BY <1>1, ConnectionStaysInStep, PTL

\* What HeldSessionDelivers says, of any state in step.
LEMMA HeldNow == Agreement /\ faults < MAX_PREPARED_KEYS => HeldSessionDelivers
<1> SUFFICES ASSUME Agreement, faults < MAX_PREPARED_KEYS, NEW n \in Node,
                    Established(n), channel[n] # <<>>,
                    Head(channel[n]).kind = "DATA", Head(channel[n]).intact,
                    Head(channel[n]).key # NoKey,
                    NEW s \in Sessions(n), s.id = Head(channel[n]).id
             PROVE  on_data(engine[n], Head(channel[n])).deliver = Head(channel[n]).content
  BY DEF HeldSessionDelivers
<1> DEFINE e == engine[n]
           p == engine[Peer(n)]
           q == channel[n]
           f == Head(q)
<1>1. s \in SessionSet(e) /\ EngineOK(e)
  BY DEF Sessions, SessionSet, Agreement, EnginesOK
<1>2. Ends2(e, p, q, channel[Peer(n)], faults)
  BY DEF Agreement
<1>3. /\ InStep(e, p, q, faults) /\ ChannelSane(q, p) /\ SessionsSane(e, p.identity)
      /\ Sound(e, p.identity) /\ faults \in Nat
  BY <1>2 DEF Ends2, End
<1>4. 1 \in 1..Len(q) /\ f = q[1]
  BY <1>3, TailParts
<1>5. Carries(f, s.id)
  BY DEF Carries
<1>6. f.direction # s.role
  BY <1>1, <1>2, <1>4, <1>5, RolesDiffer
<1>7. f.counter \in 0..(COUNTER_MAX - 1) /\ f.key = f.counter
  BY <1>3, <1>4 DEF ChannelSane, FrameSane
<1>8. f.counter = s.receiver.ch.next
  BY <1>1, <1>3, <1>5, StreamTake DEF InStep, ChannelSane
<1>9. ReceiverSane(s.receiver)
  BY <1>1, <1>3 DEF SessionsSane, SessionSane
<1>10. Cardinality(Cached(s.receiver.ch)) < MAX_PREPARED_KEYS
  <2>1. Cardinality(Cached(s.receiver.ch)) \in Nat
    BY <1>9, CacheFinite DEF ReceiverSane
  <2>2. Cardinality(Cached(s.receiver.ch)) + (IF Forged(q, s.id) THEN 1 ELSE 0) <= faults
    BY <1>1, <1>3 DEF InStep
  <2> QED BY <1>3, <2>1, <2>2, RatchetBounds
<1>11. DecryptError(s.receiver, f) = "none"
  BY <1>7, <1>8, <1>9, <1>10, OpensNext, RatchetBounds
<1>12. decrypts(s, f)
  BY <1>6, <1>11 DEF decrypts, Addressed
<1>13. s = e.active \/ (s = e.draining /\ s # NoSession)
  BY <1>1 DEF SessionSet
<1>14. s # e.active => e.active.id # f.id
  BY <1>3, <1>13 DEF Sound, Established
<1>15. ~(s = e.active) => ~decrypts(e.active, f)
  BY <1>14 DEF decrypts, Addressed
<1> HIDE DEF f, e
<1>16. on_data(e, f).deliver = f.content
  <2>1. CASE s = e.active
    BY <1>12, <2>1 DEF on_data, maybe_trigger_rekey, begin_rekey, Result
  <2>2. CASE s # e.active
    BY <1>12, <1>13, <1>15, <2>2 DEF on_data, Result
  <2> QED BY <2>1, <2>2
<1> QED BY <1>16 DEF e, f

\* A message of a session that is still held is delivered when it arrives,
\* whatever was damaged, aborted or rejected before it: unless more frames were
\* damaged than the cache of prepared keys has room for.
THEOREM HeldSessionsDeliver == Spec => [](faults < MAX_PREPARED_KEYS => HeldSessionDelivers)
BY HeldNow, ConnectionStaysInStep, PTL
=============================================================================
