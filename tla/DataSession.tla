---------------------------- MODULE DataSession ----------------------------
(***************************************************************************)
(* One direction of one session: a DataSender, a DataReceiver and between  *)
(* them a transport that may drop, duplicate, reorder and corrupt frames   *)
(* (data.rs, ratchet.rs).  TCP does none of this, but the receive path is  *)
(* written, documented and tested for it.                                  *)
(***************************************************************************)
EXTENDS Ratchet

VARIABLES
    sender,      \* DataSender: the chain step and the next counter
    receiver,    \* DataReceiver
    deliveries   \* history: how often each counter's content was delivered

vars == <<sender, receiver, deliveries>>

Init ==
    /\ sender     = [chain |-> 0, counter |-> 0]
    /\ receiver   = NewReceiver
    /\ deliveries = [c \in Counter |-> 0]

\* DataSender::encrypt.  Frames are never taken off the transport, so a frame
\* is identified by its counter and may arrive late, repeatedly or never.
Encrypt ==
    /\ sender.counter < COUNTER_MAX        \* checked_add(1), CounterOverflow
    /\ sender' = [chain |-> sender.chain + 1, counter |-> sender.counter + 1]
    /\ UNCHANGED <<receiver, deliveries>>

\* The key the sender used for the frame with counter c.
SentKey(c) == sender.chain - (sender.counter - c)

Receive(f) ==
    /\ receiver' = Decrypt(receiver, f)
    /\ deliveries' = IF DecryptError(receiver, f) = "none"
                     THEN [deliveries EXCEPT ![f.counter] = @ + 1]
                     ELSE deliveries
    /\ UNCHANGED sender

ReceiveGenuine(c) ==
    /\ c < sender.counter
    /\ Receive([counter |-> c, key |-> SentKey(c)])

ReceiveCorrupt(c) == Receive([counter |-> c, key |-> NoKey])

Next ==
    \/ Encrypt
    \/ \E c \in Counter : ReceiveGenuine(c)
    \/ \E c \in Counter : ReceiveCorrupt(c)

Spec == Init /\ [][Next]_vars

-----------------------------------------------------------------------------
(* Properties.                                                             *)

Window == receiver.window
Chain  == receiver.ch

\* The fields of DataSender, ReplayWindow and ReceivingChain.
Typed ==
    /\ sender \in [chain : Nat, counter : Counter]
    /\ receiver = [window |-> Window, ch |-> Chain]
    /\ Window \in [highest : Counter \cup {NoCounter},
                   bits    : SUBSET (0..(WORD_BITS - 1))]
    /\ Chain = [chain |-> Chain.chain, next |-> Chain.next,
                skipped |-> Chain.skipped]
    /\ Chain.chain \in Nat
    /\ Chain.next \in Counter
    /\ Cached(Chain) \subseteq Counter
    /\ Chain.skipped \in [Cached(Chain) -> Key]
    /\ deliveries \in [Counter -> Nat]

\* Both ends walk the same chain: the key cached under a counter is the key the
\* sender used for it, whatever frames advanced the receiving chain.
KeysInStep ==
    /\ sender.chain = sender.counter
    /\ Chain.chain = Chain.next
    /\ \A c \in Cached(Chain) : c < Chain.next /\ Chain.skipped[c] = c

\* The cache and the deliveries split the derived counters between them: a key
\* is held until, and only until, its message has been delivered.
KeyUntilDelivered ==
    \A c \in Counter :
        (c < Chain.next) => (c \in Cached(Chain) <=> deliveries[c] = 0)

\* No content is delivered twice, and nothing the sender did not send is.
DeliveredOnce ==
    \A c \in Counter : /\ deliveries[c] <= 1
                       /\ deliveries[c] = 1 => c < sender.counter

\* The 64-bit word remembers exactly the deliveries of the last
\* REPLAY_WINDOW_SIZE counters, through every slide of the window.
WindowExact ==
    /\ Window.highest < Chain.next
    /\ Window.highest = NoCounter => \A c \in Counter : deliveries[c] = 0
    /\ Window.highest # NoCounter =>
         \A c \in Counter :
            /\ deliveries[c] > 0 => c <= Window.highest
            /\ (c <= Window.highest /\ Window.highest - c < REPLAY_WINDOW_SIZE) =>
                 (Window.highest - c \in Window.bits <=> deliveries[c] > 0)

CacheBounded == Cardinality(Cached(Chain)) <= MAX_PREPARED_KEYS

\* Type invariant, with the limit of the cache: no counter a frame claims makes
\* it outgrow MAX_PREPARED_KEYS.
TypeOK == Typed /\ CacheBounded

\* The counters the chain has passed whose messages have not been delivered,
\* whether they are still inside the replay window or behind it.
Missing == {c \in Counter : c < Chain.next /\ deliveries[c] = 0}

\* The next frame in order is refused exactly when MAX_PREPARED_KEYS messages are
\* missing.  Keys behind the window are never evicted, so an old loss counts for
\* the rest of the session; but nothing else takes room for good, neither
\* a late or repeated frame nor any number of frames that fail authentication.
OnlyLossesFillCache ==
    Chain.next < COUNTER_MAX =>
        (Acceptable(receiver, Chain.next) <=> Cardinality(Missing) < MAX_PREPARED_KEYS)

\* A frame the receiver would deliver stays deliverable until it is delivered
\* or slides out of the replay window.  In particular a frame that fails
\* authentication never costs a genuine frame its key ("a forged frame
\* therefore cannot burn a legitimate message's key").
AcceptanceLost ==
    \A c \in Counter :
        (Acceptable(receiver, c) /\ ~Acceptable(receiver, c)')
            => \/ deliveries'[c] > deliveries[c]
               \/ Window.highest' - c >= REPLAY_WINDOW_SIZE

AcceptanceKept == [][AcceptanceLost]_vars
=============================================================================
