------------------------- MODULE DataSessionProofs -------------------------
(***************************************************************************)
(* Proofs about DataSession for every window size, cache limit and counter *)
(* range that RatchetBounds admits.                                        *)
(***************************************************************************)
EXTENDS DataSession, RatchetProofs

Delivered == {c \in Counter : deliveries[c] > 0}

-----------------------------------------------------------------------------
(* The inductive invariant.  KeyUntilDelivered and DeliveredOnce are not    *)
(* inductive alone: that a freshly derived counter was never delivered      *)
(* comes from WindowExact (deliveries stay below the chain), and that the   *)
(* receiver's key for a genuine frame is the sender's from KeysInStep.      *)

IInv == Typed /\ KeysInStep /\ KeyUntilDelivered /\ DeliveredOnce /\ WindowExact

\* IInv in the terms of the lemmas above.
LEMMA IInvParts ==
    IInv => /\ ChainType(Chain) /\ ChainInStep(Chain)
            /\ Window \in WindowType
            /\ Delivered \in SUBSET Counter
            /\ Remembers(Window, Delivered)
            /\ Window.highest < Chain.next
            /\ \A d \in Delivered : d < Chain.next
<1> SUFFICES ASSUME IInv PROVE
            /\ ChainType(Chain) /\ ChainInStep(Chain)
            /\ Window \in WindowType
            /\ Delivered \in SUBSET Counter
            /\ Remembers(Window, Delivered)
            /\ Window.highest < Chain.next
            /\ \A d \in Delivered : d < Chain.next
  OBVIOUS
<1>1. ChainType(Chain) /\ Window \in WindowType
  BY DEF IInv, Typed, ChainType, WindowType
<1>2. ChainInStep(Chain)
  BY DEF IInv, KeysInStep, ChainInStep
<1>3. Remembers(Window, Delivered)
  BY DEF IInv, Typed, WindowExact, Remembers, Delivered
<1>4. Window.highest < Chain.next
  BY DEF IInv, WindowExact
<1>5. ASSUME NEW d \in Delivered PROVE d < Chain.next
  <2>1. d \in Counter /\ Window.highest # NoCounter
    BY <1>3 DEF Remembers, Delivered
  <2>2. d <= Window.highest
    BY <1>3, <2>1 DEF Remembers
  <2> QED BY <1>1, <1>4, <2>1, <2>2, RatchetBounds
          DEF WindowType, ChainType, Counter
<1>6. Delivered \in SUBSET Counter
  BY DEF Delivered
<1> QED BY <1>1, <1>2, <1>3, <1>4, <1>5, <1>6

\* A new session meets the invariant.
LEMMA InitIInv == Init => IInv
<1> SUFFICES ASSUME Init PROVE IInv
  OBVIOUS
<1>1. /\ Window = [highest |-> NoCounter, bits |-> {}]
      /\ Chain = [chain |-> 0, next |-> 0, skipped |-> [c \in {} |-> 0]]
      /\ receiver = [window |-> Window, ch |-> Chain]
  BY DEF Init, NewReceiver, NewChain, EmptyWindow, Window, Chain
<1>2. Cached(Chain) = {} /\ Chain.skipped \in [Cached(Chain) -> Key]
  BY <1>1 DEF Cached
<1>3. /\ sender = [chain |-> 0, counter |-> 0]
      /\ deliveries = [c \in Counter |-> 0]
      /\ 0 \in Counter
  BY RatchetBounds DEF Init, Counter
<1>4. Typed
  BY <1>1, <1>2, <1>3 DEF Typed
<1>5. KeysInStep /\ KeyUntilDelivered /\ DeliveredOnce
  BY <1>1, <1>2, <1>3, RatchetBounds
  DEF KeysInStep, KeyUntilDelivered, DeliveredOnce, Counter
<1>6. WindowExact
  BY <1>1, <1>3 DEF WindowExact, NoCounter
<1> QED BY <1>4, <1>5, <1>6 DEF IInv

\* encrypt uses the next key of the chain, which no frame has used.
LEMMA EncryptIInv == IInv /\ Encrypt => IInv'
<1> SUFFICES ASSUME IInv, Encrypt PROVE IInv'
  OBVIOUS
<1> USE DEF IInv, Encrypt
<1>1. /\ sender' = [chain |-> sender.chain + 1, counter |-> sender.counter + 1]
      /\ sender.chain \in Nat /\ sender.counter \in Nat
      /\ sender.counter + 1 \in Counter
  BY RatchetBounds DEF Typed, Counter
<1>2. UNCHANGED <<Window, Chain, receiver, deliveries>>
  BY DEF Window, Chain
<1>3. Typed'
  BY <1>1, <1>2 DEF Typed, Cached
<1>4. KeysInStep' /\ KeyUntilDelivered'
  BY <1>1, <1>2 DEF KeysInStep, KeyUntilDelivered, Cached
<1>5. DeliveredOnce'
  BY <1>1, <1>2, RatchetBounds DEF DeliveredOnce, Counter
<1>6. WindowExact'
  BY <1>1, <1>2 DEF WindowExact
<1> QED BY <1>3, <1>4, <1>5, <1>6

\* One frame: it is replayed, or refused after preparing keys, or delivered.
LEMMA ReceiveIInv ==
    ASSUME IInv, NEW c \in Counter, NEW k \in Int,
           k # NoKey => c < sender.counter,
           Receive([counter |-> c, key |-> k])
    PROVE  IInv'
<1> DEFINE f == [counter |-> c, key |-> k]
           p == Prepare(Chain, c)
<1>1. /\ ChainType(Chain) /\ ChainInStep(Chain)
      /\ Window \in WindowType
      /\ Delivered \in SUBSET Counter
      /\ Remembers(Window, Delivered)
      /\ Window.highest < Chain.next
      /\ \A d \in Delivered : d < Chain.next
  BY IInvParts
<1>2. /\ ChainType(p) /\ ChainInStep(p)
      /\ p.next >= Chain.next
      /\ Cached(p) = Cached(Chain) \cup (Chain.next..(p.next - 1))
      /\ PrepareError(Chain, c) = "none" => c \in Cached(p)
  BY <1>1, PrepareLemma
<1>3. /\ Chain.next \in Nat /\ p.next \in Nat /\ Window.highest \in Int
      /\ \A d \in Counter : d \in Nat
  BY <1>1, <1>2, RatchetBounds DEF ChainType, WindowType, Counter, NoCounter
<1>4. \A d \in Counter : deliveries[d] \in Nat /\ (d \in Delivered <=> deliveries[d] # 0)
  BY DEF IInv, Typed, Delivered
<1>5. \A d \in Counter : d < p.next => (d \in Cached(p) <=> deliveries[d] = 0)
  <2> SUFFICES ASSUME NEW d \in Counter, d < p.next
               PROVE  d \in Cached(p) <=> deliveries[d] = 0
    OBVIOUS
  <2>1. CASE d < Chain.next
    BY <1>2, <1>3, <2>1 DEF IInv, KeyUntilDelivered
  <2>2. CASE ~(d < Chain.next)
    BY <1>1, <1>2, <1>3, <1>4, <2>2
  <2> QED BY <2>1, <2>2
<1>6. UNCHANGED sender /\ receiver' = Decrypt(receiver, f)
  BY DEF Receive
<1>7. Classify(Window, c) = Classify(receiver.window, f.counter) /\ f.counter = c /\ f.key = k
  BY DEF Window
<1>8. CASE Classify(Window, c) # "New"
  <2>1. receiver' = receiver /\ deliveries' = deliveries
    BY <1>6, <1>7, <1>8 DEF Decrypt, DecryptError, Receive
  <2> QED BY <2>1, <1>6 DEF IInv, Typed, KeysInStep, KeyUntilDelivered,
             DeliveredOnce, WindowExact, Window, Chain, Cached
<1>9. CASE Classify(Window, c) = "New" /\ DecryptError(receiver, f) # "none"
  <2>1. receiver' = [window |-> Window, ch |-> p] /\ deliveries' = deliveries
    BY <1>6, <1>7, <1>9 DEF Decrypt, Receive, Window, Chain
  <2>2. Window' = Window /\ Chain' = p
    BY <2>1 DEF Window, Chain
  <2> HIDE DEF p
  <2>3. Typed'
    BY <1>1, <1>2, <1>6, <2>1, <2>2 DEF IInv, Typed, ChainType, WindowType, Cached
  <2>4. KeysInStep'
    BY <1>2, <1>6, <2>2 DEF IInv, KeysInStep, ChainInStep, Cached
  <2>5. KeyUntilDelivered'
    BY <1>5, <2>1, <2>2 DEF KeyUntilDelivered, Cached
  <2>6. DeliveredOnce'
    BY <1>6, <2>1 DEF IInv, DeliveredOnce
  <2>7. WindowExact'
    BY <1>2, <1>3, <2>1, <2>2 DEF IInv, WindowExact
  <2> QED BY <2>3, <2>4, <2>5, <2>6, <2>7 DEF IInv
<1>10. CASE Classify(Window, c) = "New" /\ DecryptError(receiver, f) = "none"
  <2> DEFINE w == Accept(Window, c)
             q == CommitKey(p, c)
  <2>1. /\ receiver' = [window |-> w, ch |-> q]
        /\ deliveries' = [deliveries EXCEPT ![c] = @ + 1]
    BY <1>6, <1>7, <1>10 DEF Decrypt, Receive, Window, Chain
  <2>2. Window' = w /\ Chain' = q
    BY <2>1 DEF Window, Chain
  <2>3. PrepareError(Chain, c) = "none" /\ p.skipped[c] = k
    BY <1>7, <1>10 DEF DecryptError, Window, Chain
  <2>4. c \in Cached(p) /\ c < p.next /\ k = c
    BY <1>2, <2>3 DEF ChainInStep
  <2>5. c < sender.counter /\ deliveries[c] = 0
    BY <1>3, <1>5, <2>4 DEF NoKey
  <2>6. /\ ChainType(q) /\ ChainInStep(q)
        /\ q.next = p.next
        /\ Cached(q) = Cached(p) \ {c}
    BY <1>2, <2>4, CommitLemma
  <2>7. /\ w \in WindowType
        /\ Remembers(w, Delivered \cup {c})
        /\ w.highest >= c
        /\ w.highest \in {Window.highest, c}
    BY <1>1, <1>10, AcceptLemma
  <2>8. deliveries' \in [Counter -> Nat] /\ deliveries'[c] = 1
        /\ \A d \in Counter \ {c} : deliveries'[d] = deliveries[d]
    BY <2>1, <2>5 DEF IInv, Typed
  <2> HIDE DEF p, q, w
  <2>9. Typed'
    BY <1>6, <2>1, <2>2, <2>6, <2>7, <2>8
    DEF IInv, Typed, ChainType, WindowType, Cached
  <2>10. KeysInStep'
    BY <1>6, <2>2, <2>6 DEF IInv, KeysInStep, ChainInStep, Cached
  <2>11. KeyUntilDelivered'
    BY <1>5, <2>2, <2>6, <2>8 DEF KeyUntilDelivered, Cached
  <2>12. DeliveredOnce'
    BY <1>6, <2>5, <2>8 DEF IInv, DeliveredOnce
  <2>13. \A d \in Counter : d \in Delivered \cup {c} <=> deliveries'[d] > 0
    BY <1>4, <2>8
  <2>14. w.highest # NoCounter /\ w.highest < q.next
    BY <1>1, <1>2, <1>3, <2>4, <2>6, <2>7 DEF NoCounter
  <2>15. WindowExact'
    BY <2>2, <2>7, <2>13, <2>14 DEF WindowExact, Remembers
  <2> QED BY <2>9, <2>10, <2>11, <2>12, <2>15 DEF IInv
<1> QED BY <1>8, <1>9, <1>10

\* Every step keeps the invariant; the lemmas above say why, action by action.
LEMMA NextIInv == IInv /\ [Next]_vars => IInv'
<1> SUFFICES ASSUME IInv, [Next]_vars PROVE IInv'
  OBVIOUS
<1>1. CASE Encrypt
  BY <1>1, EncryptIInv
<1>2. ASSUME NEW c \in Counter, ReceiveGenuine(c) PROVE IInv'
  <2>1. c < sender.counter /\ Receive([counter |-> c, key |-> SentKey(c)])
    BY <1>2 DEF ReceiveGenuine
  <2>2. SentKey(c) \in Int
    BY RatchetBounds DEF SentKey, IInv, Typed, Counter
  <2> QED BY <2>1, <2>2, ReceiveIInv
<1>3. ASSUME NEW c \in Counter, ReceiveCorrupt(c) PROVE IInv'
  <2>1. Receive([counter |-> c, key |-> NoKey]) /\ NoKey \in Int
    BY <1>3 DEF ReceiveCorrupt, NoKey
  <2> QED BY <2>1, ReceiveIInv
<1>4. CASE UNCHANGED vars
  BY <1>4 DEF vars, IInv, Typed, KeysInStep, KeyUntilDelivered,
              DeliveredOnce, WindowExact, Window, Chain, Cached
<1> QED BY <1>1, <1>2, <1>3, <1>4 DEF Next

-----------------------------------------------------------------------------
(* The theorems.                                                           *)

\* IInv holds throughout every execution, for every window, limit and range.
THEOREM Inductive == Spec => []IInv
<1> QED BY InitIInv, NextIInv, PTL DEF Spec

\* DataSender::encrypt and prepare_message_key walk the same chain.
THEOREM ChainsStayInStep == Spec => []KeysInStep
<1>1. IInv => KeysInStep
  BY DEF IInv
<1> QED BY <1>1, Inductive, PTL

\* DataReceiver::decrypt keeps a key until its message is delivered, and no
\* longer.
THEOREM KeysKeptUntilDelivered == Spec => []KeyUntilDelivered
<1>1. IInv => KeyUntilDelivered
  BY DEF IInv
<1> QED BY <1>1, Inductive, PTL

\* However frames are dropped, repeated, reordered and corrupted,
\* DataReceiver::decrypt delivers no content twice and none that was not sent.
THEOREM NoReplay == Spec => []DeliveredOnce
<1>1. IInv => DeliveredOnce
  BY DEF IInv
<1> QED BY <1>1, Inductive, PTL

\* ReplayWindow::accept remembers the recent deliveries exactly.
THEOREM WindowRemembers == Spec => []WindowExact
<1>1. IInv => WindowExact
  BY DEF IInv
<1> QED BY <1>1, Inductive, PTL

\* prepare_message_key never lets the cache outgrow MAX_PREPARED_KEYS.
LEMMA CacheStep == IInv /\ CacheBounded /\ [Next]_vars => CacheBounded'
<1> SUFFICES ASSUME IInv, CacheBounded, [Next]_vars PROVE CacheBounded'
  OBVIOUS
<1> DEFINE Small(ch) == Cardinality(Cached(ch)) <= MAX_PREPARED_KEYS
<1>1. ChainType(Chain) /\ ChainInStep(Chain) /\ Small(Chain)
  BY IInvParts DEF CacheBounded
<1>2. ASSUME NEW c \in Counter PROVE Small(Prepare(Chain, c))
  <2>1. CASE c \in Cached(Chain) \/ PrepareError(Chain, c) # "none"
    BY <1>1, <2>1 DEF Prepare
  <2>2. CASE ~(c \in Cached(Chain) \/ PrepareError(Chain, c) # "none")
    BY <1>1, <2>2, PrepareSize
  <2> QED BY <2>1, <2>2
<1>3. ASSUME NEW c \in Counter, c \in Cached(Prepare(Chain, c))
      PROVE  Small(CommitKey(Prepare(Chain, c), c))
  <2> DEFINE p == Prepare(Chain, c)
  <2>1. ChainType(p) /\ ChainInStep(p) /\ Small(p) /\ c \in Cached(p)
    BY <1>1, <1>2, <1>3, PrepareLemma
  <2> HIDE DEF p
  <2>2. Cached(CommitKey(p, c)) = Cached(p) \ {c}
    BY <2>1, CommitLemma
  <2>3. /\ Cardinality(Cached(p) \ {c}) = Cardinality(Cached(p)) - 1
        /\ Cardinality(Cached(p)) \in Nat
    BY <2>1, CacheFinite, FS_RemoveElement
  <2>4. Small(CommitKey(p, c))
    BY <2>1, <2>2, <2>3, RatchetBounds
  <2> QED BY <2>4 DEF p
<1>4. ASSUME NEW c \in Counter, NEW k, Receive([counter |-> c, key |-> k])
      PROVE  Small(Chain')
  <2> DEFINE f == [counter |-> c, key |-> k]
  <2>1. receiver' = Decrypt(receiver, f) /\ f.counter = c
    BY <1>4 DEF Receive
  <2>2. CASE Classify(Window, c) # "New"
    BY <1>1, <2>1, <2>2 DEF Decrypt, Window, Chain
  <2>3. CASE Classify(Window, c) = "New" /\ DecryptError(receiver, f) # "none"
    <3>1. Chain' = Prepare(Chain, c)
      BY <2>1, <2>3 DEF Decrypt, Window, Chain
    <3> QED BY <3>1, <1>2
  <2>4. CASE Classify(Window, c) = "New" /\ DecryptError(receiver, f) = "none"
    <3>1. Chain' = CommitKey(Prepare(Chain, c), c)
      BY <2>1, <2>4 DEF Decrypt, Window, Chain
    <3>2. PrepareError(Chain, c) = "none"
      BY <2>1, <2>4 DEF DecryptError, Window, Chain
    <3>3. c \in Cached(Prepare(Chain, c))
      BY <1>1, <3>2, PrepareLemma
    <3> QED BY <3>1, <3>3, <1>3
  <2> QED BY <2>2, <2>3, <2>4
<1>5. ASSUME Encrypt \/ UNCHANGED vars PROVE Small(Chain')
  <2>1. Chain' = Chain
    BY <1>5 DEF Encrypt, vars, Chain
  <2> QED BY <1>1, <2>1
<1>6. ASSUME NEW c \in Counter, ReceiveGenuine(c) \/ ReceiveCorrupt(c)
      PROVE  Small(Chain')
  BY <1>4, <1>6 DEF ReceiveGenuine, ReceiveCorrupt
<1> HIDE DEF Small
<1>7. Small(Chain')
  BY <1>5, <1>6 DEF Next
<1> QED BY <1>7 DEF CacheBounded, Cached, Small

\* No counter a frame claims makes the receiver hold more than
\* MAX_PREPARED_KEYS keys.
THEOREM CacheStaysBounded == Spec => []CacheBounded
<1>1. Init => CacheBounded
  <2> SUFFICES ASSUME Init PROVE CacheBounded
    OBVIOUS
  <2>1. Cached(Chain) = {}
    BY DEF Init, NewReceiver, NewChain, Chain, Cached
  <2> QED BY <2>1, FS_EmptySet, RatchetBounds DEF CacheBounded
<1> QED BY <1>1, CacheStep, Inductive, PTL DEF Spec

\* The fields of DataSender, ReplayWindow and ReceivingChain keep their types,
\* and the cache its limit.
THEOREM TypeCorrect == Spec => []TypeOK
<1>1. IInv => Typed
  BY DEF IInv
<1>2. Typed /\ CacheBounded => TypeOK
  BY DEF TypeOK
<1> QED BY <1>1, <1>2, Inductive, CacheStaysBounded, PTL

\* Only messages that are not delivered keep their room in ReceivingChain::skipped:
\* prepare_message_key refuses the next frame in order exactly when
\* MAX_PREPARED_KEYS of them are missing.
THEOREM RefusedOnlyForLosses == Spec => []OnlyLossesFillCache
<1>1. IInv => OnlyLossesFillCache
  <2> SUFFICES ASSUME IInv, Chain.next < COUNTER_MAX
               PROVE  Acceptable(receiver, Chain.next)
                        <=> Cardinality(Missing) < MAX_PREPARED_KEYS
    BY DEF OnlyLossesFillCache
  <2> DEFINE n == Chain.next
  <2>1. /\ ChainType(receiver.ch) /\ ChainInStep(receiver.ch)
        /\ Window \in WindowType /\ Window.highest < n /\ n \in Counter
    BY IInvParts DEF Chain, ChainType
  <2>2. Classify(receiver.window, n) = "New"
    BY <2>1, RatchetBounds DEF Classify, Window, WindowType, Counter, NoCounter
  <2>3. Missing = Cached(Chain)
    BY <2>1 DEF Missing, IInv, KeyUntilDelivered, ChainType, ChainInStep, Chain
  <2>4. Cardinality(Cached(Chain)) \in Nat
    BY <2>1, CacheFinite DEF Chain
  <2>5. n \notin Cached(Chain)
    BY <2>1, RatchetBounds DEF ChainInStep, Chain, Counter
  <2>6. PrepareError(receiver.ch, n) = "none"
          <=> Cardinality(Cached(Chain)) < MAX_PREPARED_KEYS
    BY <2>1, <2>4, <2>5, RatchetBounds DEF PrepareError, Chain, Counter
  <2> QED BY <2>1, <2>2, <2>3, <2>6, AcceptableParts
<1> QED BY <1>1, Inductive, PTL

\* A counter the window still classifies as new stays so when another counter
\* is accepted, unless the window slides past it.
LEMMA AcceptKeepsOthers ==
    ASSUME NEW w \in WindowType, NEW D \in SUBSET Counter, NEW c \in Counter,
           NEW d \in Counter \ {c},
           Remembers(w, D), Classify(w, c) = "New", Classify(w, d) = "New"
    PROVE  \/ Classify(Accept(w, c), d) = "New"
           \/ Accept(w, c).highest - d >= REPLAY_WINDOW_SIZE
<1> DEFINE v == Accept(w, c)
<1>1. /\ v \in WindowType /\ Remembers(v, D \cup {c})
      /\ v.highest >= c
  BY AcceptLemma
<1>2. d \notin D
  BY RatchetBounds DEF Remembers, Classify, WindowType, Counter, NoCounter
<1>3. v.highest # NoCounter /\ v.highest \in Nat /\ c \in Nat /\ d \in Nat
  BY <1>1, RatchetBounds DEF WindowType, Counter, NoCounter
<1> HIDE DEF v
<1>4. CASE d > v.highest
  BY <1>4 DEF Classify, v
<1>5. CASE d <= v.highest /\ v.highest - d < REPLAY_WINDOW_SIZE
  <2>1. v.highest - d \notin v.bits
    BY <1>1, <1>2, <1>3, <1>5 DEF Remembers
  <2>2. Classify(v, d) = "New"
    BY <1>3, <1>5, <2>1, RatchetBounds DEF Classify
  <2> QED BY <2>2 DEF v
<1>6. CASE d <= v.highest /\ ~(v.highest - d < REPLAY_WINDOW_SIZE)
  BY <1>3, <1>6, RatchetBounds DEF v
<1> QED BY <1>3, <1>4, <1>5, <1>6

\* A frame that would be delivered before a step would be after it, or has been delivered,
\* or is behind the window.
LEMMA AcceptanceStep == IInv /\ [Next]_vars => AcceptanceLost
<1> SUFFICES ASSUME IInv, [Next]_vars, NEW d \in Counter,
                    Acceptable(receiver, d), ~Acceptable(receiver', d)
             PROVE  \/ deliveries'[d] > deliveries[d]
                    \/ Window'.highest - d >= REPLAY_WINDOW_SIZE
  BY DEF AcceptanceLost, Window
<1>1. /\ ChainType(Chain) /\ ChainInStep(Chain)
      /\ Window \in WindowType /\ Delivered \in SUBSET Counter
      /\ Remembers(Window, Delivered)
  BY IInvParts
<1>2. Classify(Window, d) = "New" /\ PrepareError(Chain, d) = "none"
  BY <1>1, AcceptableParts DEF Window, Chain
<1>3. ChainType(Chain') /\ ChainInStep(Chain')
  <2>1. IInv'
    BY NextIInv
  <2> QED BY <2>1 DEF IInv, Typed, KeysInStep, ChainType, ChainInStep, Cached
<1>4. Classify(Window', d) # "New" \/ PrepareError(Chain', d) # "none"
  BY <1>3, AcceptableParts DEF Window, Chain
<1>5. receiver' # receiver
  OBVIOUS
<1>6. PICK c \in Counter, k \in Int : Receive([counter |-> c, key |-> k])
  <2>1. ~Encrypt /\ ~(UNCHANGED vars)
    BY <1>5 DEF Encrypt, vars
  <2>2. ASSUME NEW c \in Counter PROVE SentKey(c) \in Int /\ NoKey \in Int
    BY RatchetBounds DEF SentKey, IInv, Typed, Counter, NoKey
  <2> QED BY <2>1, <2>2 DEF Next, ReceiveGenuine, ReceiveCorrupt
<1> DEFINE f == [counter |-> c, key |-> k]
           p == Prepare(Chain, c)
<1>7. receiver' = Decrypt(receiver, f) /\ f.counter = c
  BY <1>6 DEF Receive
<1>8. Classify(Window, c) = "New"
  BY <1>5, <1>7 DEF Decrypt, Window
<1>9. /\ ChainType(p) /\ ChainInStep(p)
      /\ PrepareError(Chain, c) = "none" => c \in Cached(p)
      /\ PrepareError(p, d) = "none"
  BY <1>1, <1>2, PrepareLemma, PrepareMonotone
<1>10. DecryptError(receiver, f) = "none"
  <2> SUFFICES ASSUME DecryptError(receiver, f) # "none" PROVE FALSE
    OBVIOUS
  <2>1. Window' = Window /\ Chain' = p
    BY <1>7, <1>8 DEF Decrypt, Window, Chain
  <2> QED BY <2>1, <1>2, <1>4, <1>9
<1>11. /\ Window' = Accept(Window, c) /\ Chain' = CommitKey(p, c)
       /\ c \in Cached(p)
  <2>1. PrepareError(Chain, c) = "none"
    BY <1>7, <1>10 DEF DecryptError, Window, Chain
  <2> QED BY <1>7, <1>8, <1>9, <1>10, <2>1 DEF Decrypt, Window, Chain
<1>12. CASE d = c
  BY <1>6, <1>7, <1>10, <1>12 DEF Receive, IInv, Typed
<1>13. CASE d # c
  <2> HIDE DEF p
  <2>1. PrepareError(Chain', d) = "none"
    BY <1>9, <1>11, <1>13, CommitMonotone
  <2>2. Classify(Window', d) # "New"
    BY <1>4, <2>1
  <2>3. d \in Counter \ {c}
    BY <1>13
  <2> QED BY <1>1, <1>2, <1>8, <1>11, <2>2, <2>3, AcceptKeepsOthers
<1> QED BY <1>12, <1>13

\* No frame, forged or genuine, costs another frame its key: what the receiver
\* would deliver it goes on delivering until the window slides past it.
THEOREM NoKeyBurned == Spec => AcceptanceKept
<1> QED BY AcceptanceStep, Inductive, PTL DEF Spec, AcceptanceKept
=============================================================================
