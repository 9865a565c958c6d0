---------------------------- MODULE RatchetProofs ----------------------------
(***************************************************************************)
(* What the operators of Ratchet guarantee, for every window size, cache   *)
(* limit and counter range that RatchetBounds admits: the replay window    *)
(* remembers, the chain stays in step, and the cache holds what was        *)
(* derived and not delivered.                                              *)
(***************************************************************************)
EXTENDS Ratchet, FiniteSetTheorems, TLAPS

ChainType(ch) ==
    /\ ch = [chain |-> ch.chain, next |-> ch.next, skipped |-> ch.skipped]
    /\ ch.chain \in Nat
    /\ ch.next \in Counter
    /\ Cached(ch) \subseteq Counter
    /\ ch.skipped \in [Cached(ch) -> Key]

ChainInStep(ch) ==
    /\ ch.chain = ch.next
    /\ \A c \in Cached(ch) : c < ch.next /\ ch.skipped[c] = c

WindowType == [highest : Counter \cup {NoCounter}, bits : SUBSET (0..(WORD_BITS - 1))]

\* The window w remembers the deliveries D.
Remembers(w, D) ==
    /\ w.highest = NoCounter => D = {}
    /\ w.highest # NoCounter =>
         \A c \in Counter :
            /\ c \in D => c <= w.highest
            /\ (c <= w.highest /\ w.highest - c < REPLAY_WINDOW_SIZE) =>
                 (w.highest - c \in w.bits <=> c \in D)

\* prepare_message_key keeps the chain in step, derives exactly the counters up
\* to its new position, and when it succeeds holds the key asked for.
LEMMA PrepareLemma ==
    ASSUME NEW ch, NEW c \in Counter, ChainType(ch), ChainInStep(ch)
    PROVE  /\ ChainType(Prepare(ch, c))
           /\ ChainInStep(Prepare(ch, c))
           /\ Prepare(ch, c).next >= ch.next
           /\ Cached(Prepare(ch, c))
                = Cached(ch) \cup (ch.next..(Prepare(ch, c).next - 1))
           /\ PrepareError(ch, c) = "none" => c \in Cached(Prepare(ch, c))
<1>1. CASE c \in Cached(ch) \/ PrepareError(ch, c) # "none"
  <2>1. Prepare(ch, c) = ch
    BY <1>1 DEF Prepare
  <2>2. ch.next..(ch.next - 1) = {}
    BY RatchetBounds DEF ChainType, Counter
  <2>3. PrepareError(ch, c) = "none" => c \in Cached(ch)
    BY <1>1
  <2> QED BY <2>1, <2>2, <2>3, RatchetBounds DEF ChainType, Counter
<1>2. CASE ~(c \in Cached(ch) \/ PrepareError(ch, c) # "none")
  <2> DEFINE p == [chain   |-> ch.chain + (c - ch.next) + 1,
                   next    |-> c + 1,
                   skipped |-> [d \in Cached(ch) \cup ch.next..c |->
                                  IF d \in ch.next..c THEN ch.chain + (d - ch.next)
                                                      ELSE ch.skipped[d]]]
  <2>1. Prepare(ch, c) = p
    BY <1>2 DEF Prepare
  <2>2. c >= ch.next /\ c # COUNTER_MAX
    BY <1>2, RatchetBounds DEF PrepareError, ChainType, Counter
  <2>3. ch.next \in Nat /\ c \in Nat /\ c + 1 \in Counter /\ ch.chain \in Nat
    BY <2>2, RatchetBounds DEF ChainType, Counter
  <2>4. Cached(p) = Cached(ch) \cup ch.next..c
    BY DEF Cached
  <2>5. ch.next..c = ch.next..((c + 1) - 1) /\ ch.next..c \subseteq Counter
    BY <2>2, <2>3, RatchetBounds DEF Counter
  <2>6. \A d \in Cached(ch) \cup ch.next..c :
           d < c + 1 /\ p.skipped[d] = d /\ d \in Nat
    BY <2>2, <2>3, <2>5, RatchetBounds DEF ChainType, ChainInStep, Counter
  <2>7. p.skipped \in [Cached(ch) \cup ch.next..c -> Key]
    BY <2>6 DEF Key
  <2>8. /\ p = [chain |-> p.chain, next |-> p.next, skipped |-> p.skipped]
        /\ p.chain = ch.chain + (c - ch.next) + 1
        /\ p.next = c + 1
    OBVIOUS
  <2> HIDE DEF p
  <2>9. ChainType(p)
    BY <2>2, <2>3, <2>4, <2>5, <2>7, <2>8 DEF ChainType
  <2>10. ChainInStep(p)
    BY <2>2, <2>3, <2>4, <2>6, <2>8 DEF ChainInStep, ChainType
  <2>11. c \in Cached(p)
    BY <2>2, <2>3, <2>4
  <2> QED BY <2>1, <2>2, <2>3, <2>4, <2>5, <2>8, <2>9, <2>10, <2>11
<1> QED BY <1>1, <1>2

\* commit_message_key consumes one key and nothing else.
LEMMA CommitLemma ==
    ASSUME NEW ch, NEW c \in Cached(ch), ChainType(ch), ChainInStep(ch)
    PROVE  /\ ChainType(CommitKey(ch, c))
           /\ ChainInStep(CommitKey(ch, c))
           /\ CommitKey(ch, c).next = ch.next
           /\ Cached(CommitKey(ch, c)) = Cached(ch) \ {c}
<1> DEFINE q == CommitKey(ch, c)
<1>1. Cached(q) = Cached(ch) \ {c}
  BY DEF Cached, CommitKey
<1>2. q.next = ch.next /\ q.chain = ch.chain
  BY DEF CommitKey
<1>3. \A d \in Cached(ch) \ {c} : q.skipped[d] = ch.skipped[d]
  BY DEF CommitKey
<1>4. ChainType(q)
  <2>1. q.skipped = [d \in Cached(ch) \ {c} |-> ch.skipped[d]]
    BY DEF CommitKey
  <2>2. q.skipped \in [Cached(ch) \ {c} -> Key]
    BY <2>1 DEF ChainType
  <2>3. q = [chain |-> q.chain, next |-> q.next, skipped |-> q.skipped]
    BY DEF CommitKey
  <2> QED BY <1>1, <1>2, <2>2, <2>3 DEF ChainType
<1>5. ChainInStep(q)
  BY <1>1, <1>2, <1>3 DEF ChainInStep
<1> QED BY <1>1, <1>2, <1>4, <1>5

\* accept adds one delivery to what the window remembers.
LEMMA AcceptLemma ==
    ASSUME NEW w \in WindowType, NEW D \in SUBSET Counter, NEW c \in Counter,
           Remembers(w, D), Classify(w, c) = "New"
    PROVE  /\ Accept(w, c) \in WindowType
           /\ Remembers(Accept(w, c), D \cup {c})
           /\ Accept(w, c).highest >= c
           /\ Accept(w, c).highest \in {w.highest, c}
<1> USE RatchetBounds DEF Counter, NoCounter
<1>1. CASE w.highest = NoCounter
  <2>1. Accept(w, c) = [highest |-> c, bits |-> {0}]
    BY <1>1 DEF Accept
  <2>2. D = {}
    BY <1>1 DEF Remembers
  <2> QED BY <2>1, <2>2 DEF WindowType, Remembers
<1>2. CASE w.highest # NoCounter /\ c > w.highest
  <2> DEFINE s == c - w.highest
  <2> DEFINE bits == IF s >= WORD_BITS THEN {0} ELSE ShiftLeft(w.bits, s) \cup {0}
  <2>1. Accept(w, c) = [highest |-> c, bits |-> bits]
    BY <1>2 DEF Accept
  <2>2. w.highest \in Counter /\ w.bits \subseteq 0..(WORD_BITS - 1)
    BY <1>2 DEF WindowType
  <2>3. bits \in SUBSET (0..(WORD_BITS - 1))
    BY DEF ShiftLeft
  <2>4. ASSUME NEW d \in Counter, d <= c, c - d < REPLAY_WINDOW_SIZE
        PROVE  c - d \in bits <=> d \in D \cup {c}
    <3>1. CASE d = c
      BY <3>1
    <3>2. CASE d # c
      <4>1. c - d \in bits <=> (s < WORD_BITS /\ (c - d) - s \in w.bits)
        BY <2>2, <2>4, <3>2, <1>2 DEF ShiftLeft
      <4>2. (c - d) - s = w.highest - d
        BY <2>2
      <4>3. CASE d > w.highest
        BY <4>1, <4>2, <4>3, <2>2, <1>2, <3>2 DEF Remembers
      <4>4. CASE d <= w.highest
        BY <4>1, <4>2, <4>4, <2>2, <2>4, <1>2, <3>2 DEF Remembers
      <4> QED BY <4>3, <4>4, <2>2
    <3> QED BY <3>1, <3>2
  <2>5. ASSUME NEW d \in D \cup {c}
        PROVE  d <= c
    <3>1. CASE d = c
      BY <3>1
    <3>2. CASE d # c
      <4>1. d \in D /\ d \in Counter
        BY <3>2
      <4>2. d <= w.highest
        BY <4>1, <1>2 DEF Remembers
      <4> QED BY <4>1, <4>2, <2>2, <1>2
    <3> QED BY <3>1, <3>2
  <2> QED BY <2>1, <2>3, <2>4, <2>5 DEF WindowType, Remembers
<1>3. CASE w.highest # NoCounter /\ ~(c > w.highest)
  <2>1. Accept(w, c) = [highest |-> w.highest, bits |-> w.bits \cup {w.highest - c}]
    BY <1>3 DEF Accept
  <2>2. w.highest \in Counter /\ w.bits \subseteq 0..(WORD_BITS - 1)
    BY <1>3 DEF WindowType
  <2>3. w.highest - c < REPLAY_WINDOW_SIZE
    BY <1>3, <2>2 DEF Classify
  <2>4. w.highest - c \in 0..(WORD_BITS - 1)
    BY <1>3, <2>2, <2>3
  <2>5. Accept(w, c) \in WindowType
    BY <2>1, <2>2, <2>4 DEF WindowType
  <2>6. Remembers(Accept(w, c), D \cup {c})
    BY <1>3, <2>1, <2>2 DEF Remembers
  <2> QED BY <1>3, <2>1, <2>2, <2>5, <2>6
<1> QED BY <1>1, <1>2, <1>3

-----------------------------------------------------------------------------
(* What the operators of Ratchet do to the size of the key cache.          *)

\* The cache of a chain is finite, so that its size can be counted.
LEMMA CacheFinite ==
    ASSUME NEW ch, ChainType(ch)
    PROVE  IsFiniteSet(Cached(ch)) /\ Cardinality(Cached(ch)) \in Nat
<1>1. IsFiniteSet(Counter)
  BY RatchetBounds, FS_Interval DEF Counter
<1> QED BY <1>1, FS_Subset, FS_CardinalityType DEF ChainType

\* A successful preparation adds exactly the target and the skipped keys.
LEMMA PrepareSize ==
    ASSUME NEW ch, NEW c \in Counter, ChainType(ch), ChainInStep(ch),
           c \notin Cached(ch), PrepareError(ch, c) = "none"
    PROVE  /\ Prepare(ch, c).next = c + 1
           /\ c >= ch.next
           /\ Cached(Prepare(ch, c)) = Cached(ch) \cup (ch.next..c)
           /\ Cardinality(Cached(Prepare(ch, c)))
                = Cardinality(Cached(ch)) + (c - ch.next) + 1
           /\ Cardinality(Cached(Prepare(ch, c))) <= MAX_PREPARED_KEYS
<1>1. ch.next \in Nat /\ c \in Nat /\ Cached(ch) \subseteq Nat
  BY RatchetBounds DEF ChainType, Counter
<1>2. /\ c >= ch.next
      /\ Cardinality(Cached(ch)) + (c - ch.next) + 1 <= MAX_PREPARED_KEYS
  BY <1>1, CacheFinite, RatchetBounds DEF PrepareError
<1>3. Prepare(ch, c).next = c + 1 /\ Cached(Prepare(ch, c)) = Cached(ch) \cup ch.next..c
  BY DEF Prepare, Cached
<1>4. Cached(ch) \cap ch.next..c = {}
  BY <1>1 DEF ChainInStep
<1>5. IsFiniteSet(ch.next..c) /\ Cardinality(ch.next..c) = c - ch.next + 1
  <2>1. ch.next \in Int /\ c \in Int /\ ~(ch.next > c)
    BY <1>1, <1>2
  <2>2. /\ IsFiniteSet(ch.next..c)
        /\ Cardinality(ch.next..c) = IF ch.next > c THEN 0 ELSE c - ch.next + 1
    BY <2>1, FS_Interval
  <2> QED BY <2>1, <2>2
<1>6. Cardinality(Cached(ch) \cup ch.next..c)
        = Cardinality(Cached(ch)) + Cardinality(ch.next..c)
            - Cardinality(Cached(ch) \cap ch.next..c)
  BY <1>5, CacheFinite, FS_Union
<1>7. Cardinality(Cached(ch) \cap ch.next..c) = 0
  BY <1>4, FS_EmptySet
<1> QED BY <1>1, <1>2, <1>3, <1>5, <1>6, <1>7, CacheFinite, RatchetBounds

\* Preparing one counter never makes another one unobtainable.
LEMMA PrepareMonotone ==
    ASSUME NEW ch, NEW c \in Counter, NEW d \in Counter,
           ChainType(ch), ChainInStep(ch), PrepareError(ch, d) = "none"
    PROVE  PrepareError(Prepare(ch, c), d) = "none"
<1> DEFINE p == Prepare(ch, c)
<1>1. CASE c \in Cached(ch) \/ PrepareError(ch, c) # "none"
  BY <1>1 DEF Prepare
<1>2. CASE ~(c \in Cached(ch) \/ PrepareError(ch, c) # "none")
  <2>1. /\ p.next = c + 1
        /\ c >= ch.next
        /\ Cached(p) = Cached(ch) \cup (ch.next..c)
        /\ Cardinality(Cached(p)) = Cardinality(Cached(ch)) + (c - ch.next) + 1
    BY <1>2, PrepareSize
  <2>2. /\ ch.next \in Nat /\ c \in Nat /\ d \in Nat
        /\ Cardinality(Cached(ch)) \in Nat
    BY CacheFinite, RatchetBounds DEF ChainType, Counter
  <2>3. CASE d \in Cached(p)
    BY <2>3 DEF PrepareError
  <2>4. CASE d \notin Cached(p)
    <3>1. d \notin Cached(ch) /\ d >= ch.next /\ d # COUNTER_MAX
      BY <2>1, <2>2, <2>4 DEF PrepareError
    <3>2. d >= c + 1
      BY <2>1, <2>2, <2>4, <3>1
    <3>3. /\ d - ch.next <= MAX_SKIPPED_KEYS
          /\ Cardinality(Cached(ch)) + (d - ch.next) + 1 <= MAX_PREPARED_KEYS
      BY <2>2, <3>1, RatchetBounds DEF PrepareError
    <3> HIDE DEF p
    <3>4. /\ d - p.next <= MAX_SKIPPED_KEYS
          /\ Cardinality(Cached(p)) + (d - p.next) + 1 <= MAX_PREPARED_KEYS
      BY <2>1, <2>2, <3>2, <3>3, RatchetBounds
    <3>5. PrepareError(p, d) = "none"
      BY <2>1, <2>2, <2>4, <3>1, <3>2, <3>4, RatchetBounds DEF PrepareError
    <3> QED BY <3>5 DEF p
  <2> QED BY <2>3, <2>4
<1> QED BY <1>1, <1>2

\* Consuming one key never makes another one unobtainable.
LEMMA CommitMonotone ==
    ASSUME NEW ch, NEW c \in Cached(ch), NEW d \in Counter \ {c},
           ChainType(ch), ChainInStep(ch), PrepareError(ch, d) = "none"
    PROVE  PrepareError(CommitKey(ch, c), d) = "none"
<1> DEFINE q == CommitKey(ch, c)
<1>1. q.next = ch.next /\ Cached(q) = Cached(ch) \ {c}
  BY CommitLemma
<1>2. Cardinality(Cached(q)) = Cardinality(Cached(ch)) - 1
  BY <1>1, CacheFinite, FS_RemoveElement
<1>3. ch.next \in Nat /\ d \in Nat /\ Cardinality(Cached(ch)) \in Nat
  BY CacheFinite, RatchetBounds DEF ChainType, Counter
<1> HIDE DEF q
<1>4. PrepareError(q, d) = "none"
  BY <1>1, <1>2, <1>3, RatchetBounds DEF PrepareError
<1> QED BY <1>4 DEF q

\* The genuine frame with counter d decrypts exactly when the window has room
\* for it and its key can be had: the key is then the right one.
LEMMA AcceptableParts ==
    ASSUME NEW r, NEW d \in Counter, ChainType(r.ch), ChainInStep(r.ch)
    PROVE  Acceptable(r, d) <=> /\ Classify(r.window, d) = "New"
                                /\ PrepareError(r.ch, d) = "none"
<1>1. PrepareError(r.ch, d) = "none" => Prepare(r.ch, d).skipped[d] = d
  BY PrepareLemma DEF ChainInStep
<1> QED BY <1>1 DEF Acceptable, DecryptError
=============================================================================
