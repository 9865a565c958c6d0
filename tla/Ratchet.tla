------------------------------ MODULE Ratchet ------------------------------
(***************************************************************************)
(* The receiving half of a DATA session: the replay window, the receiving  *)
(* chain with its cache of prepared message keys, and the DataReceiver     *)
(* that combines them (ratchet.rs, data.rs).  Pure operators on records;   *)
(* DataSession and Connection give them state.                             *)
(*                                                                         *)
(* Keys are symbolic: the key of the n-th step of a chain is the number n, *)
(* so two keys are equal exactly when both ends derived the same step.     *)
(***************************************************************************)
EXTENDS Integers, FiniteSets

CONSTANTS
    REPLAY_WINDOW_SIZE,   \* 64 in protocol.rs
    WORD_BITS,            \* 64: the width of the u64 that holds the window
    MAX_SKIPPED_KEYS,     \* 64
    MAX_PREPARED_KEYS,    \* 128
    COUNTER_MAX           \* u64::MAX, the one counter no frame may use

ASSUME RatchetBounds ==
    /\ REPLAY_WINDOW_SIZE \in Nat \ {0}
    /\ WORD_BITS \in Nat
    /\ REPLAY_WINDOW_SIZE <= WORD_BITS
    /\ MAX_SKIPPED_KEYS \in Nat
    /\ MAX_PREPARED_KEYS \in Nat \ {0}
    /\ COUNTER_MAX \in Nat

Counter == 0..COUNTER_MAX

NoCounter == -1           \* Option::None in ReplayWindow::highest
NoKey     == -1           \* the "key" of a frame no chain key decrypts

Key == Nat

-----------------------------------------------------------------------------
(* ReplayWindow.  bits is the set of the one-positions of the u64.         *)

EmptyWindow == [highest |-> NoCounter, bits |-> {}]

ShiftLeft(bits, n) == {b \in 0..(WORD_BITS - 1) : b - n \in bits}

Classify(w, c) ==
    IF w.highest = NoCounter \/ c > w.highest THEN "New"
    ELSE IF w.highest - c >= REPLAY_WINDOW_SIZE THEN "TooOld"
    ELSE IF w.highest - c \in w.bits THEN "Duplicate"
    ELSE "New"

\* Mutant: sliding the window forgets to shift the word.
AcceptWithoutShift(w, c) ==
    IF Classify(w, c) # "New" THEN w
    ELSE IF w.highest = NoCounter THEN [highest |-> c, bits |-> {0}]
    ELSE IF c > w.highest THEN [highest |-> c, bits |-> w.bits \cup {0}]
    ELSE [highest |-> w.highest, bits |-> w.bits \cup {w.highest - c}]

Accept(w, c) ==
    IF Classify(w, c) # "New" THEN w
    ELSE IF w.highest = NoCounter THEN [highest |-> c, bits |-> {0}]
    ELSE IF c > w.highest
         THEN [highest |-> c,
               bits    |-> IF c - w.highest >= WORD_BITS THEN {0}
                           ELSE ShiftLeft(w.bits, c - w.highest) \cup {0}]
    ELSE [highest |-> w.highest, bits |-> w.bits \cup {w.highest - c}]

-----------------------------------------------------------------------------
(* ReceivingChain.  chain is the step of chain_key; skipped maps a counter *)
(* to the key cached for it.                                               *)

NewChain == [chain |-> 0, next |-> 0, skipped |-> [c \in {} |-> 0]]

Cached(ch) == DOMAIN ch.skipped

\* Mutant: the ceiling counts the skipped keys but not the target key.
PrepareErrorWithoutTarget(ch, c) ==
    IF c \in Cached(ch) THEN "none"
    ELSE IF c < ch.next THEN "MessageKeyUnavailable"
    ELSE IF c = COUNTER_MAX THEN "CounterOverflow"
    ELSE IF \/ c - ch.next > MAX_SKIPPED_KEYS
            \/ Cardinality(Cached(ch)) + (c - ch.next) > MAX_PREPARED_KEYS
         THEN "SkippedKeyLimit"
    ELSE "none"

PrepareError(ch, c) ==
    IF c \in Cached(ch) THEN "none"
    ELSE IF c < ch.next THEN "MessageKeyUnavailable"
    ELSE IF c = COUNTER_MAX THEN "CounterOverflow"
    ELSE IF \/ c - ch.next > MAX_SKIPPED_KEYS
            \/ Cardinality(Cached(ch)) + (c - ch.next) + 1 > MAX_PREPARED_KEYS
         THEN "SkippedKeyLimit"
    ELSE "none"

\* prepare_message_key: derive next..c into the cache, consuming nothing.
Prepare(ch, c) ==
    IF c \in Cached(ch) \/ PrepareError(ch, c) # "none" THEN ch
    ELSE [chain   |-> ch.chain + (c - ch.next) + 1,
          next    |-> c + 1,
          skipped |-> [d \in Cached(ch) \cup ch.next..c |->
                         IF d \in ch.next..c THEN ch.chain + (d - ch.next)
                                             ELSE ch.skipped[d]]]

\* Mutant: only the newest key is released, so late messages leave theirs behind.
CommitKeyOfNewest(ch, c) ==
    [chain   |-> ch.chain,
     next    |-> ch.next,
     skipped |-> [d \in Cached(ch) \ ({c} \cap {ch.next - 1}) |-> ch.skipped[d]]]

CommitKey(ch, c) ==
    [chain   |-> ch.chain,
     next    |-> ch.next,
     skipped |-> [d \in Cached(ch) \ {c} |-> ch.skipped[d]]]

-----------------------------------------------------------------------------
(* DataReceiver.  A frame carries the counter it claims and the key its    *)
(* ciphertext was made with: NoKey for a frame that fails authentication   *)
(* or whose authenticated plaintext fails validation, since decrypt treats *)
(* the two alike.                                                          *)

NewReceiver == [window |-> EmptyWindow, ch |-> NewChain]

DecryptError(r, f) ==
    IF Classify(r.window, f.counter) # "New" THEN "ReplayRejected"
    ELSE IF PrepareError(r.ch, f.counter) # "none"
         THEN PrepareError(r.ch, f.counter)
    ELSE IF Prepare(r.ch, f.counter).skipped[f.counter] # f.key
         THEN "AeadFailure"
    ELSE "none"

\* Mutant: nothing is committed after authentication.
DecryptWithoutCommit(r, f) ==
    IF Classify(r.window, f.counter) # "New" THEN r
    ELSE [window |-> r.window, ch |-> Prepare(r.ch, f.counter)]

\* Mutant: the key is consumed before the frame is authenticated.
DecryptCommitFirst(r, f) ==
    IF \/ Classify(r.window, f.counter) # "New"
       \/ PrepareError(r.ch, f.counter) # "none" THEN r
    ELSE [window |-> IF DecryptError(r, f) = "none" THEN Accept(r.window, f.counter)
                     ELSE r.window,
          ch     |-> CommitKey(Prepare(r.ch, f.counter), f.counter)]

\* decrypt: classify, PREPARE, AUTHENTICATE and VALIDATE, COMMIT, REPLAY COMMIT.
Decrypt(r, f) ==
    IF Classify(r.window, f.counter) # "New" THEN r
    ELSE IF DecryptError(r, f) # "none"
         THEN [window |-> r.window, ch |-> Prepare(r.ch, f.counter)]
    ELSE [window |-> Accept(r.window, f.counter),
          ch     |-> CommitKey(Prepare(r.ch, f.counter), f.counter)]

\* Would the receiver deliver the genuine frame with counter c now?
Acceptable(r, c) == DecryptError(r, [counter |-> c, key |-> c]) = "none"
=============================================================================
