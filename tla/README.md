# RUXMSG in TLA+

RUXMSG is a peer-to-peer encrypted messenger for a private network. Two
processes open a TCP connection, authenticate each other by comparing three
words (the SAS), exchange DATA frames protected by one symmetric ratchet per
direction, and replace the session keys periodically (rekey) without closing
the connection. This directory models the part of it where the difficulty lies:
the sans-IO protocol engine, the DATA ratchet, two engines that meet over a
connection, the task that drives an engine, the listener with its permits, and
the application that turns events into prompts and a peer table; and, in modules
of their own, the parts that need no peer: stored identities, the frame decoder,
padding, the payload validator, the chat view and the configuration.

- [The system](#the-system)
- [What is modelled](#what-is-modelled)
- [The runs](#the-runs)
- [Bounds](#bounds)
- [Fairness](#fairness)
- [Proofs](#proofs)
- [Findings](#findings)
- [What is abstracted or left out](#what-is-abstracted-or-left-out)
- [Plan](#plan)

Run a configuration with `tlc -config ConnectionStorm.cfg MCConnection.tla`
(`DataSession.cfg` belongs to `DataSession.tla`, `Connection*.cfg` to
`MCConnection.tla`, `Task*.cfg` to `MCTask.tla`, `App*.cfg` to `MCApp.tla`,
`Parts.cfg` to `MCParts.tla`), and check the proofs with
`tlapm DataSessionProofs.tla` and the same for `RatchetProofs`, `EngineProofs`,
`ConnectionProofs`, `DialogueProofs`, `TaskProofs`, `AppProofs` and `PartsProofs`.

## The system

Paths are relative to `src/crates/`. "Hard" names what a test would hardly
reach; `PROJECT.json` lists those hazards one by one, each at its line.

### ruxmsg-core

**Replay window and receiving chain** (`ruxmsg-core/src/ratchet.rs`). State:
the highest counter accepted and a 64-bit word of the ones below it; a chain
key, the next counter, and a map from skipped counters to cached message keys.
Operations: `classify`, `accept`, `prepare_message_key`, `commit_message_key`.
Hard: shifts by the word width or more, the last counter of a `u64`, three
limits on the cache that interact. Correct when the window is exact, the cache
is bounded, and both ends derive the same key for the same counter.

**DATA encryption and decryption** (`data.rs`). State: a sender (chain key and
counter), a receiver (window and chain), a session id and two directions.
Operations: `encrypt`, and `decrypt` in the order classify, prepare,
authenticate, validate, commit. Hard: each step may fail after an earlier one
has changed state. Correct when no content is delivered twice and no frame,
forged or not, costs another frame its key.

**Protocol engine** (`machine.rs`). One `Engine` per connection; the only
interface is `handle(Input) -> Vec<Effect>`. State: the phase (Idle,
Handshaking, Established, Closed), the current run (handshake or rekey, with its
step), the active and the draining session, the armed deadlines, the message
count, whether message-triggered rekeys are blocked, the grace left for late
rekey frames and the count of rejected rekeys. Inputs: start, frame received,
timeout, SAS decision, local send, request rekey, local close, transport closed,
malformed. Hard: simultaneous rekeys (glare), a rekey inside another's drain
window, timeouts on one side only, AUTH that arrives while the user still reads
the words, frames of aborted attempts. Correct when nothing waits without a
deadline, both ends agree on sessions, no data is lost by a rekey, and correct
peers do not accuse each other.

**Handshake payloads** (`handshake.rs`) and **CLOSE** (`close.rs`). Encoders,
decoders and checks of COMMIT, HELLO, AUTH, SESSION_CONFIRM and CLOSE, the
transcript, the session keys. No state.

**Wire frames and CBOR** (`wire.rs`, `encoding.rs`, `protocol.rs`,
`error.rs`). Frame header, structural CBOR validation, constants. No state but
the validator's explicit stack, which stands in for recursion. Hard: containers
that are left late, keys that re-encoding does not tell apart. Correct when it
admits exactly the deterministic maps.

**Padding** (part of `data.rs`). The plaintext is padded by the least length that
makes the ciphertext a multiple of 256 bytes. Hard: the header of the padding
grows with it, so some totals cannot be reached, and the size of the frame is
only checked after the chain has moved on. Correct when the search ends with the
least length and no allowed content is refused or costs a key for nothing.

**Identity storage** (`storage.rs`; the keyring itself is
`ruxmsg-cli/src/keyring_store.rs`). State: the stored identity key. Operations:
load, save with read-back, load or generate. Hard: a store that reports success
and kept something else, a store that does not answer, two processes that create
one profile. Correct when a profile keeps its identity and no command replaces
one.

**Cryptographic primitives** (`crypto.rs`, `identity.rs`). X25519, Ed25519,
HKDF, HMAC, an AEAD, commitments. No protocol state.

**Display** (`display.rs`). Text sanitising.

### ruxmsg-net

**Connection task** (`ruxmsg-net/src/lib.rs`). One task per connection. State:
the engine, the stream, a table of armed deadlines with their instants, the
frame decoder, the handshake permit, the flags `lost`, `orphaned`, `closing`.
It selects over the socket, the message queue, the control queue and the
earliest deadline, hands one input at a time to the engine, and carries out the
effects in order. Hard: a write that fails in the middle of an effect list, a
timeout collected before an earlier one cancelled it, a full event queue,
permits on every exit path. Correct when every effect list is carried out in
order, stale timeouts change nothing, and a task always ends with `Closed`.

**Frame decoder** (`ruxmsg-net/src/lib.rs`). State: buffered bytes. Correct when the frames do
not depend on how the stream is cut into reads.

**Listener and Net** (`ruxmsg-net/src/lib.rs`). State: connection ids, four
permits for unauthenticated connections, a count of consecutive accept
failures. Correct when permits always return and a listener that fails reports
it.

### ruxmsg-cli

**Application** (`ruxmsg-cli/src/app.rs`). State: peers by index and by
connection, a default target, the queue of SAS prompts, chat mode, the listener,
the profile. Hard: a connection that closes while its prompt is being answered,
a profile switch that awaits the key store, shutdown while handshakes open.
Correct when an answer reaches the connection whose words were shown, and the
peer table follows the events.

**Chat view and scrollback** (`tui.rs`, `scrollback.rs`). State: a history bounded
by entries and bytes, the text being typed, a scroll position relative to the end
and the largest one, as the last draw found it. Hard: positions that go stale when
entries are evicted or the terminal changes. Correct when the history is the newest
part of what was said and the rows drawn exist.

**Configuration** (`config.rs`). Read once at startup, while its owner may write to
it. Correct when what is in effect is in bounds and every key means one thing.

**REPL, commands, theme, Tailscale, hardening, main.** Line editing, command
parsing, colours, one-time start-up code. Little or no state of the protocol.

### How they interact

    user --- REPL/chat --- App --- ConnectionHandle --- Task --- Engine
                            ^        (8 controls,        |         |
                            |         64 messages)       |     DataSender
                            +------ events (256) --------+     DataReceiver
                                                         |
                                                     TCP stream --- the peer's Task

The application calls the handle, which puts a command into a bounded queue and
never waits. The task turns commands, bytes and expired deadlines into inputs;
effects become writes, deadlines and events. The engine calls the ratchet
synchronously. Everything asynchronous therefore meets in the order in which one
task feeds inputs to one engine, and in the order of frames between two engines.

## What is modelled

| Module | Models | Kind |
|---|---|---|
| `Ratchet` | `ReplayWindow`, `ReceivingChain`, `DataReceiver::decrypt` | pure operators |
| `DataSession` | one sender and one receiver over a transport that drops, repeats, reorders and corrupts | specification |
| `Engine` | every handler of `Engine::handle` | pure operators |
| `Connection` | two engines, a FIFO stream each way, users, timers, transport faults | specification |
| `MCConnection` | which deadlines may expire in an instance | model values |
| `ConnEvents` | the order of one connection's events that the application relies on | abstract specification |
| `Task` | `Task::run`, `drain_frames`, `fire_due`, `apply`, `process` for one engine | specification, implements `ConnEvents` |
| `MCTask` | what the application of an instance does | model values |
| `Net` | dials, listeners, permits, handles, the event queue | actions and state, completed by `App` |
| `App` | the application: peers, prompts, chat, listener, profile, shutdown | specification, extends `Net` |
| `MCApp` | what the user of an instance does | model values |
| `RatchetProofs` | what each operator of `Ratchet` guarantees for every window and chain | lemmas |
| `DataSessionProofs` | the safety of `DataSession` for every value of its constants | proofs |
| `EngineProofs` | what each handler of `Engine` guarantees for every engine and input, and what it does to the run, the sessions and the frames it sends | lemmas |
| `ConnectionProofs` | deadlines, rekey schedule, and the agreement of two engines | proofs |
| `DialogueProofs` | where two runs stand when nothing interferes, and that the messages between them all arrive; what is in flight when deadlines interfere, and that nobody is blamed for it | proofs |
| `TaskProofs` | the safety of `Task`, and that it implements `ConnEvents` | proofs |
| `AppProofs` | permits, peer table, chat and prompts of `App` for every value of its constants | proofs |
| `KeyStore` | `IdentityKeyStore`, `profile init` and `profile use`, several processes over one store | specification |
| `Wire` | `Frame` and `FrameDecoder`, `drain_frames` | specification |
| `Padding` | `DataPlaintext::padded` and the sizes in `DataSender::encrypt` | specification |
| `Cbor` | `validate_cbor_structure`, `validate_cbor_map_payload` | specification, with the grammar beside it |
| `Chat` | `Scrollback`, `send_text`, the scrolling and drawing of the chat view | specification |
| `Config` | `load_from`, `parse`, `parse_key`, the order of `chat_key` | specification |
| `MCParts` | these six, one at a time: frames, lengths, payloads and files | model values |
| `PartsProofs` | all properties of `KeyStore`, `Wire`, `Padding`, `Chat` and `Config` for every value of their constants | proofs |

    Ratchet <- DataSession            Task  implements  ConnEvents
       ^                                                    ^
    Engine <- Connection              Net <- App   relies on it
       ^----- Task

    KeyStore, Wire, Padding, Cbor, Chat, Config <- MCParts

    Ratchet <- RatchetProofs <- DataSessionProofs (with DataSession)
                   ^
    Engine <- EngineProofs <- TaskProofs (with Task)
                   ^
              ConnectionProofs (with Connection) <- DialogueProofs

    App <- AppProofs;  KeyStore, Wire, Padding, Chat, Config <- PartsProofs

`Connection` and `Task` extend `Engine`, which extends `Ratchet`; `DataSession`
extends `Ratchet`. The ratchet an engine uses is therefore the one the proofs are
about. The three levels divide the work: `Connection` asks what two engines do to
each other and takes an input with all its effects as one step; `Task` takes one
task apart into the points where it waits, against any peer; `Net` and `App` keep
of a task only the order of its events, which `Task` is shown to respect.

### Ratchet and DataSession

A window is `[highest, bits]`, where `bits` is the set of one-positions of the
`u64`; `ShiftLeft` drops what leaves the word, and a shift by `WORD_BITS` or
more is a case of its own, as in the code. A chain is `[chain, next, skipped]`.
Keys are symbolic: the key of the n-th chain step is `n`, so equal keys mean
that both ends have derived the same step.

`Decrypt` is the whole of `DataReceiver::decrypt`: a replayed counter leaves the
receiver alone; any later failure keeps what `prepare_message_key` has derived;
success commits the key and the window. `DecryptError` names the error. A frame
carries the key its ciphertext was made with, `NoKey` when authentication or
validation of the plaintext fails.

`DataSession` never removes a frame from the transport, so each may arrive late,
repeatedly or never, and `ReceiveCorrupt` offers a frame with any counter that
fails authentication.

### Engine

An engine is a record with the fields of `Engine`. Each handler is an operator
from an engine and an input to a result `[e, out, event, deliver]`: the next
engine, the frames sent in order, the event notified and the content delivered.
No input of the code notifies two events, so one field is enough. `step_run` is
one operator per step, with the error arms: in Handshaking an error ends the
connection (`fail_initial`), in Established it ends the attempt (`fail_rekey`).

Cryptography is symbolic. An ephemeral key with its nonce is a fresh value; a
commitment is the HELLO it commits to, compared at the reveal and read nowhere
else; a signature and a confirmation are the transcript they cover; the session
id is a function of the transcript. `intact = FALSE` is a payload that no longer
decodes.

`arm` replaces a deadline of the same kind, so an engine keeps the set of armed
kinds, and in `touched` the kinds an input has armed or cancelled. `Task` turns
those into identifiers; `Connection` needs none.

### Connection

`channel[n]` holds the frames in flight to `n`, oldest first. One action of
`Connection` is one input of `Task::run`, with all its effects (`Perform`): the
code feeds the next input only when the effects of the last are carried out.
`Timeout` may fire for any armed deadline: time is not modelled, so every order
that clocks, scheduling and slow links could produce is explored.

The actions: `Start`, `Receive`, `SasDecision`, `LocalSend`,
`LocalSendTooLarge`, `RequestRekey`, `Timeout`, `LocalClose`, `TransportClosed`
(the peer has closed and everything it wrote has been read), and the faults
`TransportLost`, `ReceiveMalformed`, `Damage`. `rekeying` is the application's
per-peer flag, which follows the events. `approved`, `sent`, `received`, `cause`
and `faults` are history.

### Task and ConnEvents

`pc` says where `Task::run` is. `Announce` sends `Opened` and hands `Start` to the
engine. `Read`, `ReadEnd`, `RecvMessage`, `RecvControl`, `HandlesGone` and
`FireDue` are the branches of its `select!`; each hands an input to the engine
(`Apply`) and leaves its effects in `pending`. `SendWritten`, `SendFails`,
`ReleasePermit`, `Notify` and `CloseTransport` carry them out one at a time, since
the task waits at every write and at every event, and the application, its queues
and other tasks move meanwhile. `Settle` is the end of `apply`: after a failed
write the engine is told `TransportClosed`, after a failed event `LocalClose`,
and the rest of the list has been carried out before that. `DrainFrame` feeds the
frames of one read, `FireNext` the deadlines that `FireDue` collected, until the
task is closing.

A deadline has an identifier. `armed` is the engine's list and `table` the
driver's; `Deadlines` applies `SetDeadline` and `CancelDeadline`, which wait for
nothing, together with the input. `HandleTimeout` ignores an identifier the
engine no longer knows. Two identifiers per kind are enough (`FreshId`): an
identifier that has been cancelled lives on only in the batch being fired, which
holds at most one per kind.

The peer is any program that can send the frame the engine waits for, the same
frame damaged, bytes that are no frame, and, when established, DATA, CLOSE,
COMMIT and late confirmations of both sessions (`PeerFrames`). The application
has what `USES` names: commands, messages, dropping its handles, dropping the
event queue. The content of messages plays no part here.

`told` is what the events sent so far amount to: the stage of the connection,
whether a rekey has been announced and the latest event. Under the mapping
`stage <- told.stage, rekeying <- told.rekeying, last <- told.last` the task
implements `ConnEvents`: `Opened` first, `SasRequired` at most once and before
`Established`, messages only after it, `RekeyStarted` and its end in turn, and one
`Closed` with nothing behind it.

### Net and App

There is one `Net` per loaded identity, numbered in order; `install_identity`
replaces `App::net` and its event queue while tasks of the old one still run and
find their queue gone (`Orphaned`). `conns` holds every dial and connection with
its stage, its identifier (identifiers start again with each `Net`) and its
command queue. The stages between an input and the event that tells of it
(`Approved`, `Establishing`, `Ending`) are the ones in which the application's
picture is out of date. `Accept`, `AcceptWithoutPermit`, `AcceptFails` and `Report`
are the accept loop with its count of consecutive failures; `Released` returns
the permit when a handshake ends in either way.

`OnNetEvent` is one turn of the application's loop that takes an event;
the keys are actions of their own. An answer to a prompt is typed letter by
letter (`TypeAnswer`; "no" stands for every text that cannot become "yes"),
because a connection may close, and its prompt go away, between two letters.
`seen` remembers whose words were shown at the first letter. `Start`, `Stop`,
`Connect`, `UseTarget`, `CloseSession`, `RequestRekey`, `TryEnterChat`,
`LeaveChat` and `SwitchProfile` have the guards of the REPL and of the chat, where
a waiting prompt takes every key. `SwitchProfile` only begins: the key store is
awaited in `Loading`, and the loop takes no event until `InstallIdentity` or
`LoadFails`. `Quit`, `AwaitClosed` and `Exit` are the shutdown with its 500 ms.
A command goes through `TrySend`, which drops it when the queue is full or the
task is gone, as the code ignores that error.

### The parts that need no peer

Six modules without a common variable; `MCParts` lets one of them move in each
behaviour.

`KeyStore`: each process is in a command (`Load`, `Set`, `ReadBack`) or rests. The
store may refuse any call (`LoadFails`, `SetFails`, `ReadBackFails`), and a write it
reports as done may have been dropped or garbled (`Writes`). `Restart` is the end of
a process at any point; `Lose` an entry lost from the store. `shown` is what the
user was last told of a profile; `interfered` and `raced` remember that another
process wrote between a look and a write, which nothing prevents.

`Wire`: bytes are numbers, `ReadChunk` takes any number of those in flight up to
`READ_CHUNK`, and `NextFrame` is one turn of `drain_frames`: await, refuse or take.
What the peer writes is a sequence of frames and a tail that is a piece of a frame
or a header to refuse.

`Padding`: a step of the search is a step (`Pad`); the constants are the program's.
`Commit` moves the chain on, and only `BuildFrame` looks at the size of the frame.

`Cbor`: `ScanItem` is one turn of the loop in `validate_cbor_structure`, which reads
one item and counts it on the stack `remaining`. `ItemEnd` is the grammar that the
loop is compared with; it has its own notion of the shortest form (`Least`).
`ValidateMap` is what follows: a map, unsigned keys, no duplicate, and the sorted
re-encoding equal to the payload.

`Chat`: an entry is an author and a length. `Push` cuts and evicts as
`Scrollback::push` does; every handler ends with `Redraw`, as every branch of
`App::run` does, and `Redraw` keeps `max_scroll` when the terminal is too small to
draw. `SendText` is refused by a connection that is not connected, a full queue or
a task that has ended, which the chat learns of later (`ClosedShown`).

`Config`: `OpenFile`, `Stat` and `ReadFile` are the points where `load_from` looks at
the file; `Edit` changes it in between. A key is a record, its text the sequence of
its parts. `Meaning` is the order of the match arms of `chat_key`.

## The runs

| Run | Configuration | Question | Distinct states |
|---|---|---|---|
| `data_session` | `DataSession.cfg` | Is the ratchet right under every order of frames? | 586 |
| `calm` | `ConnectionCalm.cfg` | Without timeouts, does a rekey lose nothing and do both ends agree, also in glare and inside a drain window? | 72 thousand |
| `storm` | `ConnectionStorm.cfg` | With every deadline free to expire, and one damaged frame or broken connection, what still holds? | 1.07 million |
| `ends` | `ConnectionEnds.cfg` | Does every handshake, rekey and half-closed connection end? | 3.6 thousand |
| `split` | `ConnectionSplit.cfg` | Is the old session usable after a failed rekey? | violated |
| `header` | `ConnectionHeader.cfg` | Does the header show a rekey in progress? | violated |
| `task_rekey` | `TaskRekey.cfg` | Do deadlines, effects and events stay in order while a session is used and rekeyed twice and any write may fail? | 894 thousand |
| `task_ends` | `TaskEnds.cfg` | Does the task end, and the permit come back, when users answer, close or walk away? | 46 thousand |
| `app_talk` | `AppTalk.cfg` | Do tables, prompts, answers and permits stay right for two connections under two identities? | 1.77 million |
| `app_wait` | `AppWait.cfg` | Do the limits hold and do prompts and the sessions of a program that quits go away when the user never approves? | 125 thousand |
| `parts` | `Parts.cfg` | Are identities kept, frames cut right, sizes and payloads judged exactly, the history and the screen in bounds, and the configuration usable? | 399 thousand |
| `stale_stop` | `AppListener.cfg` | Does a running listener keep the profile from being switched? | violated |

`data_session` checks

- `TypeOK`: every field has its type, and no counter makes the cache outgrow its
  limit;
- `DeliveredOnce`: nothing twice, nothing that was not sent;
- `WindowExact`: the word remembers exactly the deliveries of the last
  `REPLAY_WINDOW_SIZE` counters;
- `OnlyLossesFillCache`: the next frame in order is refused exactly when
  `MAX_PREPARED_KEYS` messages the chain has passed are undelivered. Nothing evicts
  the key of a counter behind the window, so an old loss counts for the rest of the
  session, and this is the whole price: a late, repeated or damaged frame takes no
  room for good. The run reaches refusals with lost counters inside the window and
  behind it;
- `AcceptanceKept` (a step property): a frame that would be delivered now stays
  deliverable until it is, or until the window has passed it. A frame that fails
  authentication costs no other frame its key.

`calm` checks that no message is lost or reordered (`NothingLost`), that a quiet
wire means agreement on one session or a user being asked (`QuietMeansAgreed`:
glare never leaves two initiators or two responders) and that no rekey attempt
fails (`NoRekeyFails`).

`storm` checks that every wait has its deadline and no deadline outlives its
wait (`EveryWaitIsTimed`), that a failed rekey is always followed by another
(`RekeyAlwaysScheduled`), that nobody has a session before both users approved
(`ApprovedByBoth`), that a message of a session still held is delivered when it
arrives, whatever happened before (`HeldSessionDelivers`), and, as long as the
link has damaged nothing, that two ends holding the same session agree on how far
each direction has come (`SharedSessionInStep`) and that timeouts alone never make
correct engines report a protocol or authentication error
(`HonestPeerNeverBlamed`).

`ends` checks the three liveness properties of two engines under the fairness
below.

`task_rekey` checks that the driver's table and the engine's list hold the same
deadlines at every point (`DeadlinesAgree`), that deadlines collected together do
not act for each other: a rekey that one of them fails is not retried by an old
`RekeyDue` of the same batch (`FailedRekeyWaits`), and that the task implements
`ConnEvents` (`EventsInOrder`). `task_ends` checks that an inbound connection
occupies a permit exactly while it is unauthenticated (`PermitExact`), that no
announced connection ends without `Closed` while somebody reads events
(`NoSilentEnd`), and that tasks end (`TaskEnds`) and permits return
(`PermitReturns`).

`app_talk` checks that the permits that are out are those of unauthenticated
inbound connections (`PermitsBalance`), that the peer table and its index agree
and handles lead to the peer's own connection under the current identity
(`Indexed`), that every prompt has a peer that can still be answered and each
connection that asked has its prompt or its answer and never both
(`PromptsExact`), that a peer is shown as connected only if its own
words were on the screen from the first letter of the "yes"
(`ConnectedWasApproved`), and that chat and default target do not point at
somebody who is gone (`NothingStale`). `app_wait` adds one permit and one prompt
against two connections, so the surplus has to be rejected (`PromptsExact`, which
includes the limit of the queue), and the liveness of prompts (`PromptsResolve`)
and of shutdown: the wait for `Closed` events ends before its
half second if time stands still (`ShutdownDrains`), since every peer is asked, its
task obeys, and the loop takes whatever else comes in between.

`parts` checks, for each part in turn,

- that the identity shown for a profile is the one stored for it
  (`SameAcrossLaunches`) and that no command replaces an identity that is there
  (`IdentityNeverReplaced`, a step property), except where two processes write one
  profile at once;
- that the frames handed on are the frames sent, each as soon as it is complete,
  however the stream is cut, and that the task never waits for the bytes of a frame
  it will refuse (`FramesAsSent`);
- that the padding found is the least (`PaddingLeast`);
- that the loop over the items admits what the grammar admits, and that the
  payloads accepted are those with strictly ascending unsigned keys
  (`AcceptedCanonical`);
- that the history is the newest part of what was said, no more and no less than
  the limits allow, with its bytes counted right (`HistoryExact`), and that the rows
  drawn exist and fill the area (`ScreenInRange`);
- that under every configuration that loads, each action has a key and the fixed
  keys keep their meaning (`KeysMeanOneThing`).

## Bounds

| Constant | Code | Runs | Why it is enough |
|---|---|---|---|
| `REPLAY_WINDOW_SIZE` | 64 | 3 | slides by 1, by less than the width, by the width and by more all occur |
| `WORD_BITS` | 64 | 3 | equal to the window, as in the code, so bits leave the word |
| `MAX_SKIPPED_KEYS` | 64 | 2 | gaps below, at and above the limit occur |
| `MAX_PREPARED_KEYS` | 128 | 4 | twice the gap limit, as in the code; the cache fills up in two gaps |
| `COUNTER_MAX` | 2^64-1 | 7 (`DataSession`), 3 (`Connection`), 1 (`Task`) | larger than window and cache, and reached; in `Connection` a user sends at most two messages; in `Task` one per direction and session, so that an exhausted session occurs |
| `LATE_REKEY_FRAME_GRACE` | 8 | 8, 1 (`Task`) | the code's value; in `Task` the peer sends late frames at will, so one within and one beyond the grace occur |
| `REKEY_REJECTION_WARNING_THRESHOLD` | 3 | 3, 1 (`Task`) | the code's value; in `Task` the first rejection warns |
| `REKEY_MESSAGE_LIMIT` | 1 000 000 | 2, 9 (`Task`) | reached by sending, by receiving and by both together; out of reach in `Task`, where the user and the timer start rekeys |
| `MESSAGES_MAX` | 2^64-1 | 3, 9 (`Task`) | the count saturates above the limit |
| `MAX_RUNS` | - | 2, 3, 5 | ephemerals an engine draws before it starts no more rekeys by request or timer: the handshake and one, two or four rekeys; two are what a rekey inside another's drain needs, four what a full rejection count needs; in `Task` also the bound on the peer's COMMITs |
| `MAX_SENDS` | - | 0, 1, 2 | two reach the message limit and overtake each other across a promotion |
| `MAX_FAULTS` | - | 0, 1 | one damaged frame or broken connection |
| `EVENT_QUEUE` | 256 | 1 | a task waits for room whenever one event is unread |
| `CONTROL_QUEUE` | 8 | 1 | a second command finds the queue full |
| `MESSAGE_QUEUE` | 64 | 1 | a second message finds the queue full |
| `USES` | - | see `MCTask`, `MCApp` | what the application or the user does in an instance |
| `MAX_BUFFERED` | - | 1, 2 | two frames in one read, the first of which ends the connection |
| `MAX_UNAUTHENTICATED_HANDSHAKES` | 4 | 1, 2 | permits and prompts run out with two connections, or two prompts change places |
| `MAX_ACCEPT_FAILURES` | 20 | 1, 2 | a failure that is reset by a success, and the last one |
| `MAX_CONNECTIONS` | - | 0, 2 | dialed, accepted or both; identifiers repeat across identities |
| `MAX_LISTENERS` | - | 1, 2 | two where one listener's report meets the next |
| `MAX_NETS` | - | 1, 2 | one switch of identity |
| `PROCESSES`, `PROFILES`, `SEEDS` | - | 2 each | two processes in one profile or in two, and an identity that could be replaced by another |
| `MAX_LOSSES` | - | 1 | a profile lost and created again |
| `READ_CHUNK` | 16 KiB | 16 | a read may end within a header, within a payload, or hold two frames |
| `MAX_PAYLOAD` | 128 bytes to 1 MiB | 1, 2, 7 | different for each type, so a length may be right for another type only |
| `SENT`, `TAILS` | - | two frames of three, seven tails | a payload that reads like a header, an empty one; every reason for a refusal |
| `CONTENTS` | any length | about 100 lengths | around each change of a header, each skipped quantum and the limit of 65536; the proof covers all lengths |
| `MAX_CBOR_NESTING` | 32 | 3 | nested below, at and above the limit |
| `PAYLOADS` | - | all up to 3 bytes over 14 bytes, more up to 5 over 6 | every kind of item and argument; a map of two with equal, descending and ascending keys |
| `MAX_ENTRIES`, `MAX_BYTES`, `MAX_ENTRY_BYTES` | 1000, 256 KiB, 64 KiB | 3, 8, 4 | either limit evicts, one or several at once, and an entry is cut |
| `PAGE`, `HEIGHT` | -, - | 2, 2 | more rows than the area and fewer |
| `TEXTS`, `WIDE_CHARS` | - | 1, 5 and 6 | short, cut, and cut within a character |
| `MAX_PUSHED` | - | 4 | one more than `MAX_ENTRIES` |
| `MAX_CONFIG_BYTES`, `MAX_EDITS` | 16 KiB, - | 2, 1 | too large when looked at, or only when read |
| `FILES`, `LETTERS` | - | pairs of 13 key texts and single faults; 4 letters | every kind of key in two places, and the two reserved letters |

`MAX_RUNS` limits only what an engine starts by request or by `RekeyDue`; it
always answers a COMMIT and always obeys the message limit. Connections carry
two fixed identities, compared as in `local_identity_wins_rekey_glare`; the
dialer has the smaller one, so the side that opened the connection loses glare.
The runs do not check for deadlock, because a connection whose ends are both
closed has no next step, and neither has a data session whose counters are used
up, a task that is done, an application that has exited, a stream at its end, a
message that is sent, a payload that is judged or a configuration that is loaded.

## Fairness

**Connection.** `FairSpec` assumes weak fairness of `Start`, `Receive` and `TransportClosed` and
of the expiry of the `HandshakeFrame`, `SasDecision`, `HandshakeTotal` and
`Drain` deadlines, at each end. `Task::run` is a loop over `tokio::select!` whose
branches are the socket and the earliest armed deadline among others; a branch
that stays ready is eventually taken, and an armed deadline that nobody cancels
becomes due. Nothing is assumed of users: they may never answer the SAS, never
send and never close. `RekeyDue` is left out because no liveness property needs
it. No fairness is assumed of faults.

`HandshakeEnds` and `RekeyEnds` rest on the deadlines alone; `CloseReachesPeer`
also needs that bytes in flight are read and that an end of stream is noticed.

**Task.** `Fairness` assumes weak fairness of the steps the task takes by itself,
of a write's end (`WRITE_TIMEOUT` bounds it) and of `NextEvent`, the application
reading its events. It assumes strong fairness of `RecvControl`, `HandlesGone` and
the firing of `HandshakeTotal` and `SasDecision`: those branches of `select!` are
interrupted by others that are ready, but `select!` chooses at random among the
ready ones, so one that is ready again and again is taken. Nothing is assumed of
the peer, of the stream or of the user.

**App.** Strong fairness of `OnNetEvent` and of a task that waits to send `Closed`,
because `select!` chooses at random and a bounded channel serves waiting senders in
turn; weak fairness of the key store's
answer, of a task that notices its queue is gone, and of the end of a connection
that asks (`SasDecision`, which `task_ends` shows to end it). For shutdown, weak
fairness of a task that takes a command (`Obey`; `RecvControl` in `Task`) and of
the loop that reads events (`AwaitClosed`). The half second is `Exit`, of which
nothing is assumed: the property holds without it. Nothing is assumed of keys, of
accepts or of other ends.

## Proofs

`DataSessionProofs` proves the safety of one direction of a session for every
window size, word width, cache limit and counter range that satisfies
`RatchetBounds` (a window of at least one counter that fits its word, natural
limits, a cache of at least one key). Nothing else is assumed.

| Theorem | Property |
|---|---|
| `Inductive` | `Spec => []IInv` |
| `TypeCorrect` | `TypeOK`: `Typed` and `CacheBounded` |
| `ChainsStayInStep` | `KeysInStep` |
| `KeysKeptUntilDelivered` | `KeyUntilDelivered` |
| `NoReplay` | `DeliveredOnce` |
| `WindowRemembers` | `WindowExact` |
| `CacheStaysBounded` | `CacheBounded` |
| `RefusedOnlyForLosses` | `OnlyLossesFillCache` |
| `NoKeyBurned` | `AcceptanceKept` |

The inductive invariant is the conjunction of `Typed`, `KeysInStep`,
`KeyUntilDelivered`, `DeliveredOnce` and `WindowExact`. None of the parts is
inductive alone. That nothing is delivered twice does not follow from the
window, which forgets: a counter below the window is refused as too old, but
within the window the guarantee needs `WindowExact`, and what lets `WindowExact`
survive a slide is that no delivery lies above `highest`, hence below
`Chain.next`. That only sent content is delivered needs `KeysInStep`: a frame is
accepted when its key equals the cached one, and the cached one is the sender's
only while both chains are in step. `CacheBounded` needs one more fact, that the
domain of the cache is finite with the cardinality the ceiling counted
(`PrepareSize`), and `AcceptanceKept` that preparing and committing one counter
keep what the others need (`PrepareMonotone`, `CommitMonotone`,
`AcceptKeepsOthers`). `RefusedOnlyForLosses` follows from `KeyUntilDelivered`: the
cached counters are exactly the `Missing` ones, wherever the window is.

`KeysInStep` (the key cached for a counter is the one the sender used) and
`KeyUntilDelivered` (a derived key is held until its message is delivered) are parts
of the argument and no run checks them by name.

The argument is split by operator: the lemmas of `RatchetProofs` (`PrepareLemma`,
`CommitLemma`, `AcceptLemma` among them) say what each operator of `Ratchet`
guarantees for any state, and the steps of `DataSession` only combine them. The
proofs about two engines use the same lemmas, as an engine's `decrypt` is built from
the same operators.

`EngineProofs` is about one engine, given any input in any order. `EngineOK` says
that an engine is consistent: in every phase it has the sessions and the run that
belong there (`Held`, `HasRun`: a run of the right purpose, about the session it
replaces), and `WaitsTimed` and `RekeyScheduled` hold. For every handler there is a
lemma that it is `Handled`: the engine stays consistent, every deadline that changes
is in `touched` (`Reported`), the one event of the result fits the change of the
phase and of the run (`Legal`), and content comes out of established sessions only
(`Delivers`). Neither the frame nor the limits are restricted, so a peer of any kind
is covered, and no assumption about constants is used. The handlers call each other,
and so do the lemmas: `Terminate` and `FailRekey` are cited wherever a step has an
error arm, `CompleteInitial` and `CompleteRekey` by the two confirmations, and
`Frame`, `Fires` and their like at the end bring every input into the same form.
The sharpest point is `WaitsTimed`: inside a handler it does not hold, since a step
leaves the engine between two waits, so the lemmas about steps start from `Running`,
which asks for the total deadline only.

| Theorem | Property |
|---|---|
| `ConnectionProofs!EnginesStayConsistent` | `Spec => []EnginesOK` |
| `ConnectionProofs!WaitsAreTimed` | `EveryWaitIsTimed` |
| `ConnectionProofs!RekeysAreScheduled` | `RekeyAlwaysScheduled` |
| `ConnectionProofs!ConnectionStaysInStep` | `Spec => []Agreement` |
| `ConnectionProofs!SessionsAreApprovedByBoth` | `ApprovedByBoth` |
| `ConnectionProofs!SharedSessionsInStep` | `SharedSessionInStep` |
| `ConnectionProofs!HeldSessionsDeliver` | `faults < MAX_PREPARED_KEYS => HeldSessionDelivers` |
| `DialogueProofs!ConnectionStaysCalm` | `Calm`: `Spec => []Calmness` |
| `DialogueProofs!NoRekeyAttemptFails` | `Calm`: `NoRekeyFails` |
| `DialogueProofs!QuietEndsAgree` | `Calm`: `QuietMeansAgreed` |
| `DialogueProofs!NoMessageLost` | `Calm`, `MAX_SENDS <= COUNTER_MAX`: `NothingLost` |
| `DialogueProofs!HonestPeersAreNeverBlamed` | `LATE_REKEY_FRAME_GRACE > 0`, `MAX_SENDS <= COUNTER_MAX`: `HonestPeerNeverBlamed` |
| `TaskProofs!Inductive` | `Spec => []Inv` |
| `TaskProofs!ListsAgree` | `DeadlinesAgree` |
| `TaskProofs!PermitIsExact` | `PermitExact` |
| `TaskProofs!EndIsTold` | `NoSilentEnd` |
| `TaskProofs!KeepsTheOrder` | `EventsInOrder`: `Spec => Contract!Spec` |
| `TaskProofs!RetryWaits` | `FailedRekeyWaits` |

For the first three rows `ConnectionProofs` needs nothing more: each action hands at
most one engine an input. The four after them are about two engines and what is in
flight between them, for any number of messages and rekeys, in any order of frames,
timeouts and answers, and for all limits. Their invariant `Agreement` is `Ends2`, which
is `End` for either end with the channel that leads to it, together with who approved.

The second half of `EngineProofs` prepares it, from one engine's point of view. `Sound` says of which
ephemeral keys a run and a session are made; `Plays` says of a handler, given a frame,
what it may do to the run, to the two sessions and to the frames it sends: a session is
only ever made by a confirmation of the peer's, of the run that was waiting for it, and
an engine that confirms has its user's approval. `End` then has these parts, and
none can be left out:

- `Sound` and `Mutual`: an ephemeral key is drawn once, so the id of a session that
  starts is new to both ends, and each session an end holds is one its peer has had a
  run with, in the opposite role. Without it an old session could come back under its
  id with its chain started again, and no counter would mean anything.
- `ChannelSane`: a frame in flight tells the truth about the engine that sent it.
- `Expected` and `Awaits`: the initiator waits for a confirmation while its peer may
  already send on the new session. What comes of that session comes behind the
  confirmation, from its first message on, and nothing has been received of it.
- `InStep`: of each session held, the frames in flight carry consecutive counters, from
  the one the receiving chain derives next up to the sender's; and the chain's cache
  holds at most one key for each damaged frame.

`Approval`, `Passed` and `HasConfirm` are the other half: an engine that is past its
user's question has its user's approval, and a confirmation in flight proves its
sender's. `HeldSessionsDeliver` has a hypothesis because the code has it: a DATA frame
whose authentication fails has already had its key derived, and the key stays in the
cache, since the frame it belongs to may still come. When `MAX_PREPARED_KEYS` (128)
frames of one session are damaged, the cache is full and the session refuses every
frame. With fewer, whatever else happens, every intact message of a session that is
still held is delivered when it arrives.

`DialogueProofs` is about a connection that is `Calm`: no deadline but `RekeyDue`
expires and nothing is damaged or broken, which is what the instance `calm` assumes as
well. Users, messages, rekeys of either end at any time, their crossing, and closes are
as in `Connection`. The hypothesis has its reason in the code: with a handshake deadline
or a damaged frame an attempt fails by design, and finding `split` shows where that may
leave the two ends. `Agreement` says what the sessions owe each other and leaves open
where the runs stand. `Dialogue` fills that in by nine configurations of the two runs,
each with what either end has said that the other has not read: `Unopened`, `Calling`
(a COMMIT is out), `Crossing` (one each way), `Answered`, `Revealed`, `Signing`,
`Vouching`, `Finishing`, and `Resting`, where nothing is said. CLOSE and DATA are no
`Talk` and may be anywhere between. Handlers that hear no talk keep the configuration
(`Follows`), or begin a run (`Opens`); those that do lead to the next one, a lemma for
each (`HearsTalk`). An end that has closed reads nothing more, and its peer still has
the rest of its talk to read. `Linked` remembers for that peer a `Counterpart`, the
engine as it was when it closed with all it had been sent; the peer goes on as if it
were there. No configuration holds a frame that its reader refuses, so `NoRekeyFails` follows, and
when both channels are empty `Dialogue` leaves only `Unopened`, a user who is asked, and
`Resting`, which is `QuietMeansAgreed`.

`NothingLost` needs to know of which session the DATA in flight is, and that the
session is still there when it comes. `Smooth` is `Calmness` with that. `Orderly`:
every DATA frame in a channel is of a session its reader holds, or holds once the
confirmation before it is read; behind a COMMIT or HELLO nothing comes of another
session than the one they are about, since `begin_rekey` and `start_responder_run` take
the active one; and while a run is on, nothing is left of the draining session, which
the end of the run drops. The last two go together: the frame that starts the run has
pushed out everything older. `Contents`: what is in the channel is the next message to
be delivered up to the last handed over, each once and in order. `Reach`: what an end
would send next, its peer would read, which `Dialogue` shows where a run ends and
`Clings` elsewhere. So the next message is delivered when it arrives (`HeldNow`, the
step behind `HeldSessionsDeliver`). The theorem assumes `MAX_SENDS <= COUNTER_MAX`
because a session whose numbers are used up closes instead of sending: with 2^64 - 1 of
them and a rekey every million messages no user gets there.

`HonestPeerNeverBlamed` leaves the calm connection: any deadline may expire at any
moment, so runs fail on either side while the peer still speaks of them, and no list of
configurations says where two runs stand. What is left is `Converse`, in three stages.
`Initially`: while neither end is established there is no second run, a deadline closes
the end it strikes, and `Dialogue` still holds. `Settling`: the responder is
established and its confirmation is on the way, behind nothing but a CLOSE and before
nothing but COMMITs of its next rekey. `Loosely`: both ends are established; each frame
of a run in flight (`Saying`) is one that the engine which reads it can take, ignore or
count as late. Most frames of a run that is over do no harm, since `on_rekey_frame`
discards what it cannot place. Three facts carry the argument:

- A confirmation that nobody waits for ends the session, so one in flight finds its
  reader `Ready`: in a run at a step that takes or drops it, or with a late frame left to
  spend. Nothing of a run is in front of it (`First`), so nothing spends the grace before it
  arrives. Hence a grace of one frame is enough; with none the property is false, which
  its mutant shows. `fail_rekey` grants eight.
- A signature is refused when its transcript is not the reader's, so an AUTH in flight
  that is about the reader's run is that run's. Ephemeral keys are numbered by their
  owner and drawn once: `Told` says which of them the peer can have heard, `Attested`
  which ones a responder may have signed for, the latest excepted while its run has not
  come so far. So what is said of an earlier run never names the session of a later one
  (`Unspoken`).
- Whoever waits for the answer to its own AUTH has said nothing since (`Last`), and when
  the AUTH that answers it is in flight, its sender has read all there was. So the
  confirmation that comes next has nothing of a run in front of it, and whom it is for
  is `Ready`.

Inputs that are no frame either end the connection for a reason other than the two
(`Departs`), begin a run or give one up (`Unbidden`, `Lingers`). `Blameless` adds what the
handlers ask for: frames in flight decode (`Intact`), and no session has numbered more
messages than its user sent (`Tallied`), hence none uses up its counter, where `on_send`
itself reports a protocol error. As before, `Speaks` keeps for an end whose peer has
closed the `Counterpart` that it still reads from (`ConverseMuted`: the CLOSE behind its
last words changes nothing). `EXPIRING` and `MAX_FAULTS` are arbitrary; the property
speaks of the time before the first fault.

`TaskProofs` takes a task apart into steps that carry out one effect at a time, and
the difficulty is the time in between. Its invariant says what the effects in
`pending` still owe. `Ordered`: at most one of them tells of a change, and content
comes first. `Informed`: what the application has been told is what the engine has
become, or the one effect that tells of the difference is still pending and is one
the application may expect now (`Due`). `Permits`: an inbound connection has its permit while the
engine is unauthenticated, or while the effect that releases it is pending.
`Closing`: the loop ends after the engine has closed. `Engines`: the two lists of
deadlines agree and the engine is `EngineOK`. `Feeds` shows once, from `Handled`
alone, that handing any input to the engine keeps all of them; `CarriesOut`, `Passes`
and `Tells` show it for any effect. The refinement then is a question about `Due`
(`DueIsAllowed`), and no step of the task but `Announce` and `Notify` is visible to
`ConnEvents`. The constants are arbitrary: queues of any length, any use that the
application makes, any limits.

`AppProofs` proves the invariants of `App` for any number of permits,
prompts, connections, listeners and identities and any use of the application.
`NetBounds` and `UsesBounds` are assumed.

| Theorem | Property |
|---|---|
| `PermitsStayBalanced` | `PermitsBalance` |
| `TableStaysIndexed` | `Indexed` |
| `NothingGoesStale` | `NothingStale` |
| `PromptsStayExact` | `PromptsExact` |
| `ConnectedStaysApproved` | `ConnectedWasApproved` |

`Shape` holds the types and `Balanced`. A permit is out for every connection that
is inbound and unauthenticated; `SameOut`, `OneReleased` and `OneAppended` say how
the number of those changes when nobody, one old or one new connection is
concerned, and `Turn`, `Spawned`, `Added` and `CommandsOnly` bring every action of
`Net` and `App` into one of these forms. The same lemmas carry `Ids`: no two
connections of one `Net` share an identifier, and `next_id` lies above all of them.
`Indexed` needs both. An `Opened` event that waits in the queue must lead to a
connection of the present identity that no peer has a handle for, and be the only
one to do so (`OpenedOnce`); then its identifier is new to the index, since two
connections announced under one identifier are one (`LeadsToOne`). That identifiers
start again after a profile switch does no harm because the table is empty when
the key store is awaited and stays empty meanwhile, which is why `TableInv` speaks
of `Loading`. `NothingStale` follows from the table's labels being positive and
from a chat being entered only from the REPL, where no closed peer is left.

The prompts need to know what the queue may hold (`PromptInv`). `Queue`: every event
tells what has become of its connection (`EventTrue`), and of one connection there is at
most one question, never behind its `Closed`. `Questions` holds while the loop serves
events: each prompt is about a peer that is still handshaking, its letters belong to the
prompt in front and were begun under its words (`Prompts`); a connection that asked has
its question on the way, on the screen, or answered, exactly one of the three
(`AtMostOne`, `AtLeastOne`); and whoever asks has been announced before (`Introduced`).
`Approvals`: an approval that is queued or being carried out is one that the user gave.
It cannot hold by itself while an identity is loaded, when prompts are gone and the
old queue is still there; `NetsPast` says that nothing is ahead of the identity in use,
so an identity that is installed starts with no event, no connection and no prompt.
A prompt goes away by `Vec::retain`; that what is left is in order and has no other
members (`Retained`) is an induction over the queue.

`PartsProofs` proves all properties of `KeyStore`, `Wire`, `Padding`, `Chat` and
`Config`, from the assumptions in the modules: `EntriesDiffer` and `LossBound`;
`WireBounds` and `WireInputs`; `ContentLengths`; `ChatBounds`; `ConfigBounds` and
`LettersAreNotNames`. `WireInputs` says that the peer writes frames that `Frame::new`
accepts and stops anywhere within one, or goes on with a header that is refused.

| Theorem | Property |
|---|---|
| `StoreTyped` | `StoreTypeOK` |
| `LaunchesAgree` | `SameAcrossLaunches` |
| `NeverReplaced` | `IdentityNeverReplaced` |
| `DecoderFaithful` | `FramesAsSent` |
| `PaddingIsLeast` | `PaddingLeast` |
| `CommitsAreSent` | `CommittedIsSent` |
| `HistoryStaysExact` | `HistoryExact` |
| `ScreenStaysInRange` | `ScreenInRange` |
| `ConfigStaysUsable` | `ConfigUsable` |
| `KeysStayApart` | `KeysMeanOneThing` |

For the store, the invariant adds to types and `SameAcrossLaunches` that a command
has its profile and, when it writes, an identity (`CommandsOK`), and that a process
nobody has interfered with is about to write where it found nothing and there is
still nothing (`WritesToEmpty`). A profile that has been shown holds something, so
whoever is about to overwrite it has been interfered with, and `raced` says so; and
`ReadBack` shows only what the store holds. For the padding, `SomeEncoding` says
that every residue modulo 256 is the size of the encoding of some padding of at most
278 bytes: the sizes that no encoding has, where its header grows, are reached a
quantum later. The search passes over no length, so it ends there or before, and
what it ends with fits a frame (`PayloadFits`). For the decoder, `WireInv` says that the
frames handed on are the first ones sent, that the buffer and what has not been read are
the stream behind them, byte by byte (`Flow`), and that a decoder which waits has no
whole frame and nothing to refuse (`Short`). `FrameAhead` and `TailAhead` then say what
lies at the front of the buffer; a payload that reads like a header does no harm since
a frame ends where its own header says (`EndOf`). For the history, `Kept` says that the
entries are the newest part of all that was said and that a longer part would exceed
a limit, in terms of the sums of the first lengths (`Sums`); the loop of
`Scrollback::push` stops at the least number of evictions that will do
(`EvictedIsLeast`). `Drawn` is all the screen needs: the largest position is that of the
last draw, wherever the scroll position may be. For the configuration, `Distinct`
and `ValidKey` leave no two arms of `chat_key` that ask for one key.

`StoreTypeOK`, `CommittedIsSent` and `ConfigUsable` are proved and no run checks
them; the runs check the properties that rest on them.

Only model-checked:

- `AcceptedCanonical`, whose grammar is a recursive operator, on which the prover has
  no backend;
- liveness, since the prover does not reason about `ENABLED` and fairness.

Where a proof needs induction over a sequence or a number (`Retained`, `Streams`,
`Sums`), it argues from a least counterexample: the set of numbers is well-founded, and
what a recursive function is at n follows from what it is at n - 1. The rules of the
library that take a predicate as a parameter are not usable, nor are facts about
`SelectSeq` and the folds, which take an operator; that is why the models define such
sums and filters as functions.

## Findings

Three properties are written from what the documents say, and the code does
something else. Their runs end in a counterexample.

- **A rekey that ends on one side** (`split`). Section 8.4 of
  `docs/protocol-spec.md` says that after a timeout the old session "remains
  usable". The responder promotes the candidate when it has the initiator's
  confirmation; if the initiator's deadline fires before the responder's
  confirmation arrives, the initiator keeps the old session, discards the
  confirmation as late, and after the responder's drain sends on a session nobody
  holds. No later rekey can succeed, because each COMMIT names a session the other
  side does not have.
- **The header** (`header`, `RekeyingShown`). `docs/cli.md` says that the header shows a rekey.
  `note_rekey_rejection` raises `RekeyFailed` from `resolve_glare` while the
  local run goes on, and the application clears its flag on every
  `RekeyFailed`.
- **A report that comes late** (`stale_stop`). `docs/cli.md` says that a profile
  cannot be switched while a listener exists. `on_net_event` clears the listener
  on every `ListenerStopped`. When a listener has failed, and the user stops it
  and starts another before the event is read, the handle of the new one is
  dropped: its task goes on accepting, `stop` answers that nothing is listening,
  and the profile can be switched.

More places where text and code differ, or where the code is narrower than one
would think, have no run of their own:

- Section 7.7 of `docs/protocol-spec.md` refuses a frame when 64 keys are cached;
  `prepare_message_key` goes on up to 128, which is what `CacheBounded` states.
- `docs/architecture.md` says that a late frame of an aborted attempt ends the
  session; the engine discards up to eight of them, and it has to: two correct peers
  do produce one, and `HonestPeerNeverBlamed` fails without the grace.
- A key whose counter has slid out of the replay window can never be used, and stays
  in the cache for the rest of the session: 128 lost messages, however long ago, stop
  it (`OnlyLossesFillCache` counts them). No document promises an eviction.
- "complete deterministic CBOR map" in `wire.rs` holds for the outermost map; the
  order and the uniqueness of keys in a map within it are not looked at
  (`AcceptedCanonical` says what is).
- A letter can be bound with Ctrl or Alt, but not the letter f: a name that begins
  with f is read as a function key.
- A scrollback entry is cut to 64 KiB and then gets its ellipsis, so it may be three
  bytes longer.
- The padding is not monotone: a content may need a larger frame than one that is a
  byte longer (210 and 211 bytes), because a total may be skipped.
- Two processes that run `profile init` on one name at once may both report success,
  with the identity of the later one stored. `SameAcrossLaunches` and
  `IdentityNeverReplaced` except exactly this.
- After a resize or an eviction the kept scroll position may be larger than what
  there is to scroll, and the first presses of Down change nothing on the screen.
- When the program quits while a control queue is full, the Close is not taken and
  the peer sees the end of the stream instead. `ShutdownDrains` is checked for a user
  whose earlier commands end the connection as well.

## What is abstracted or left out

- **Time.** Deadlines expire in any order. That two peers' timers of equal
  length expire at about the same time is not assumed.
- **Cryptography** is symbolic, as described. Strength, encodings, domain
  separation and zeroisation are outside the model.
- **Payload layout.** In `Engine`, sizes, CBOR and padding are reduced to "decodes
  or not" and "too large"; `Wire`, `Cbor` and `Padding` look into them. That text
  strings are UTF-8 is in none.
- **Close reasons** of a local close other than `Normal` behave alike and are
  one value. The detail text of CLOSE is never set.
- **Foreign peers.** Both ends of `Connection` run this code. Frames may be
  damaged or lost with the connection, but no third program speaks.
- **Composition.** `Connection` steps from input to input; a write that fails in
  the middle of an effect list is in `Task`, which has one engine and an arbitrary
  peer. `App` has tasks that emit the events of `ConnEvents`, without rekey and
  rejection events, which touch nothing that `App` keeps (`rekeying` is in
  `Connection`).
- **In App**: the text of notices and their rate limit, line editing and parsing of
  commands. What is written to a scrollback or sent as a message is in `Chat`, for
  one conversation whose chat stays open.
- **In KeyStore**: `load_or_generate`, which only tests call, and
  `ensure_persistent`, which fails before anything is read or written.
- **In Chat**: wrapping at words (a narrow screen has a row for each byte), styles,
  and the limit on the text being typed. The height of the message area is a constant,
  where a resize can change it (`draw_messages` reads it from the area): a resize is
  one of width, and what makes a kept position stale in the model is that the number
  of rows changes. No other step reads the height.
- **In Config**: colours and border, which are names from lists, the limit of 16
  characters for a key (`ctrl-alt-pagedown` exceeds it), other spellings of a function
  key (`f01` and `f+1` parse to the key of `f1`, so they add no binding), and the
  default path.
- **In Net**: `connect` and `adopt`, which the application does not use; addresses
  and the errors of binding.
- **Not modelled**: cryptographic primitives (no state, out of a checker's reach),
  display sanitising and themes (a mapping of characters), process hardening,
  Tailscale and the entry point (system calls and subprocesses), fuzz targets and
  installers. `PROJECT.json` lists each with its reason.

## Plan

The modules were written in the order `Ratchet`, `DataSession`, `Engine`,
`Connection`, `DataSessionProofs`, `ConnEvents`, `Task`, `Net`, `App`, `AppProofs`,
then the parts of `MCParts` with their proofs, then `EngineProofs`,
`ConnectionProofs` and `TaskProofs`, then `RatchetProofs` and the second half of
`EngineProofs` for the agreement of two engines, with the prompts of `App`, the decoder
and the chat, and last `DialogueProofs`: first what protects a message, then what two
engines do to each other, then what a program around an engine adds, what needs no
peer, and last what holds between two peers: calm ones first, then any two on a link
that damages nothing. Every safety property of a passing run but `AcceptedCanonical` is
proved; what is left to TLC is listed above, with the reasons.
