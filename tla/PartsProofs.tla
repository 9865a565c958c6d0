----------------------------- MODULE PartsProofs -----------------------------
(***************************************************************************)
(* What the parts of the program that need no peer promise, one after the  *)
(* other: the key store, for any number of processes, profiles and         *)
(* identities; the padding search and the frame after it, for contents of  *)
(* any length; the keys of the chat view, whatever the configuration       *)
(* file binds and whoever writes to it while it is read; the frame decoder, *)
(* for any stream and any cut into reads; and the history and the rows of a *)
(* chat, for entries of any number and length.                             *)
(***************************************************************************)
EXTENDS KeyStore, Padding, Config, Wire, Chat, WellFoundedInduction, TLAPS

-----------------------------------------------------------------------------
(* The key store.                                                          *)

\* A command in progress is about a profile, and saves an identity.
CommandsOK ==
    \A p \in PROCESSES :
        /\ command[p].stage # "Resting" => command[p].profile \in PROFILES
        /\ command[p].stage \in {"Set", "ReadBack"} => command[p].seed \in SEEDS

\* A process that nobody has interfered with is about to write where it found
\* nothing, and there is still nothing there.
WritesToEmpty ==
    \A p \in PROCESSES \ interfered :
        command[p].stage = "Set" => stored[command[p].profile] = Nothing

StoreInv == StoreTypeOK /\ CommandsOK /\ WritesToEmpty /\ SameAcrossLaunches

\* An empty store with every process at rest meets the invariant.
LEMMA StoreInitial == StoreInit => StoreInv
  BY EntriesDiffer DEF StoreInit, StoreInv, StoreTypeOK, CommandsOK, WritesToEmpty,
     SameAcrossLaunches, Resting

-----------------------------------------------------------------------------
(* The ways a command goes on, for a command of p in progress.             *)

\* A command that fails leaves the store and what was shown alone.
LEMMA FailStep ==
    ASSUME StoreInv, NEW p \in PROCESSES, Fail(p)
    PROVE  StoreInv'
<1>1. /\ command' = [command EXCEPT ![p] = Resting]
      /\ UNCHANGED <<stored, net_key, generated, losses, interfered, raced, shown>>
  BY DEF Fail
<1>2. StoreTypeOK'
  BY <1>1 DEF StoreInv, StoreTypeOK, Resting
<1>3. CommandsOK' /\ WritesToEmpty'
  BY <1>1 DEF StoreInv, StoreTypeOK, CommandsOK, WritesToEmpty, Resting
<1>4. SameAcrossLaunches'
  BY <1>1 DEF StoreInv, SameAcrossLaunches
<1> QED BY <1>2, <1>3, <1>4 DEF StoreInv

\* The identity that is shown is the one the store holds.
LEMMA InstallStep ==
    ASSUME StoreInv, NEW p \in PROCESSES, command[p].stage # "Resting",
           NEW seed \in SEEDS, stored[command[p].profile] = seed,
           InstallIdentity(p, seed)
    PROVE  StoreInv'
<1>1. /\ command' = [command EXCEPT ![p] = Resting]
      /\ net_key' = [net_key EXCEPT ![p] = seed]
      /\ shown' = [shown EXCEPT ![command[p].profile] = seed]
      /\ UNCHANGED <<stored, generated, losses, interfered, raced>>
  BY DEF InstallIdentity
<1>2. StoreTypeOK'
  BY <1>1 DEF StoreInv, StoreTypeOK, Resting
<1>3. CommandsOK' /\ WritesToEmpty'
  BY <1>1 DEF StoreInv, StoreTypeOK, CommandsOK, WritesToEmpty, Resting
<1>4. SameAcrossLaunches'
  BY <1>1 DEF StoreInv, StoreTypeOK, CommandsOK, SameAcrossLaunches
<1> QED BY <1>2, <1>3, <1>4 DEF StoreInv

\* An identity is generated only where the process has found nothing.
LEMMA GenerateStep ==
    ASSUME StoreInv, NEW p \in PROCESSES, command[p].stage = "Load",
           stored[command[p].profile] = Nothing, Generate(p)
    PROVE  StoreInv'
<1>1. PICK seed \in SEEDS \ generated :
          /\ generated' = generated \cup {seed}
          /\ command' = [command EXCEPT ![p].stage = "Set", ![p].seed = seed]
  BY DEF Generate
<1>2. /\ interfered' = interfered \ {p}
      /\ UNCHANGED <<stored, net_key, losses, raced, shown>>
  BY DEF Generate
<1>3. /\ command' \in [PROCESSES ->
              [stage : {"Resting", "Load", "Set", "ReadBack"},
               profile : PROFILES \cup {Nothing}, create : BOOLEAN,
               seed : SEEDS \cup {Nothing}]]
      /\ command'[p].stage = "Set" /\ command'[p].seed = seed
      /\ command'[p].profile = command[p].profile
      /\ \A q \in PROCESSES \ {p} : command'[q] = command[q]
  <2> DEFINE Commands == [stage : {"Resting", "Load", "Set", "ReadBack"},
                          profile : PROFILES \cup {Nothing}, create : BOOLEAN,
                          seed : SEEDS \cup {Nothing}]
  <2>1. command \in [PROCESSES -> Commands] /\ seed \in SEEDS
    BY <1>1 DEF StoreInv, StoreTypeOK
  <2>2. PICK c : c = [command[p] EXCEPT !.stage = "Set", !.seed = seed]
    OBVIOUS
  <2>3. /\ c \in Commands /\ c.stage = "Set" /\ c.seed = seed
        /\ c.profile = command[p].profile
    <3>1. command[p] \in Commands
      BY <2>1, Zenon
    <3> QED BY ONLY <2>1, <2>2, <3>1
  <2>4. command' = [command EXCEPT ![p] = c]
    BY <1>1, <2>2
  <2> HIDE DEF Commands
  <2>5. /\ command' \in [PROCESSES -> Commands] /\ command'[p] = c
        /\ \A q \in PROCESSES \ {p} : command'[q] = command[q]
    BY <2>1, <2>3, <2>4
  <2> QED BY <2>3, <2>5, Zenon DEF Commands
<1>4. StoreTypeOK'
  BY <1>1, <1>2, <1>3, SMTT(30) DEF StoreInv, StoreTypeOK
<1>5. CommandsOK' /\ WritesToEmpty'
  BY <1>2, <1>3 DEF StoreInv, CommandsOK, WritesToEmpty
<1>6. SameAcrossLaunches'
  BY <1>2 DEF StoreInv, SameAcrossLaunches
<1> QED BY <1>4, <1>5, <1>6 DEF StoreInv

\* load installs what it finds, generates where it may, or fails.
LEMMA LoadStep ==
    ASSUME StoreInv, NEW p \in PROCESSES, Load(p)
    PROVE  StoreInv'
<1> DEFINE entry == stored[command[p].profile]
<1>1. command[p].stage = "Load" /\ Loaded(p, entry)
  BY DEF Load
<1>2. entry \in SEEDS \cup {Nothing, Garbage}
  BY <1>1 DEF StoreInv, StoreTypeOK, CommandsOK
<1>3. \/ Fail(p)
      \/ entry = Nothing /\ Generate(p)
      \/ entry \in SEEDS /\ InstallIdentity(p, entry)
  BY <1>1, <1>2, EntriesDiffer DEF Loaded
<1> QED BY <1>1, <1>3, FailStep, GenerateStep, InstallStep

\* A write changes its own profile; if something was shown for it, somebody raced.
LEMMA PutStep ==
    ASSUME StoreInv, NEW p \in PROCESSES, command[p].stage = "Set",
           NEW entry \in Writes(p), Put(p, entry),
           \/ command' = [command EXCEPT ![p].stage = "ReadBack"]
           \/ command' = [command EXCEPT ![p] = Resting],
           UNCHANGED <<net_key, generated, losses, shown>>
    PROVE  StoreInv'
<1> DEFINE n == command[p].profile
<1>1. /\ n \in PROFILES
      /\ stored' = [stored EXCEPT ![n] = entry]
      /\ interfered' = interfered \cup Others(p, n)
      /\ raced' = IF p \in interfered THEN raced \cup {n} ELSE raced
  BY DEF Put, StoreInv, CommandsOK
<1>2. entry \in SEEDS \cup {Nothing, Garbage}
  BY <1>1 DEF Writes, StoreInv, StoreTypeOK, CommandsOK
<1>3. /\ command' \in [PROCESSES ->
              [stage : {"Resting", "Load", "Set", "ReadBack"},
               profile : PROFILES \cup {Nothing}, create : BOOLEAN,
               seed : SEEDS \cup {Nothing}]]
      /\ \A q \in PROCESSES \ {p} : command'[q] = command[q]
      /\ \/ command'[p].stage = "Resting"
         \/ /\ command'[p].stage = "ReadBack"
            /\ command'[p].seed = command[p].seed
            /\ command'[p].profile = command[p].profile
  <2>1. /\ command \in [PROCESSES ->
               [stage : {"Resting", "Load", "Set", "ReadBack"},
                profile : PROFILES \cup {Nothing}, create : BOOLEAN,
                seed : SEEDS \cup {Nothing}]]
    BY DEF StoreInv, StoreTypeOK
  <2>2. CASE command' = [command EXCEPT ![p].stage = "ReadBack"]
    BY <2>1, <2>2
  <2>3. CASE command' = [command EXCEPT ![p] = Resting]
    BY <2>1, <2>3 DEF Resting
  <2> QED BY <2>2, <2>3
<1>4. StoreTypeOK'
  BY <1>1, <1>2, <1>3 DEF StoreInv, StoreTypeOK, Others
<1>5. CommandsOK'
  BY <1>3 DEF StoreInv, CommandsOK
<1>6. WritesToEmpty'
  <2> SUFFICES ASSUME NEW q \in PROCESSES, q \notin interfered', command'[q].stage = "Set"
               PROVE  stored'[command'[q].profile] = Nothing
    BY DEF WritesToEmpty
  <2>1. q # p /\ command'[q] = command[q]
    BY <1>3
  <2>2. command[q].profile # n
    BY <1>1, <2>1 DEF Others
  <2>3. stored[command[q].profile] = Nothing /\ command[q].profile \in PROFILES
    BY <1>1, <2>1 DEF StoreInv, WritesToEmpty, CommandsOK
  <2> QED BY <1>1, <2>1, <2>2, <2>3 DEF StoreInv, StoreTypeOK
<1>7. SameAcrossLaunches'
  <2> SUFFICES ASSUME NEW m \in PROFILES, m \notin raced', shown'[m] # Nothing
               PROVE  stored'[m] = shown'[m]
    BY DEF SameAcrossLaunches
  <2>1. stored[m] = shown[m] /\ shown'[m] = shown[m]
    BY <1>1 DEF StoreInv, SameAcrossLaunches
  <2>2. m # n
    <3>1. SUFFICES ASSUME m = n PROVE FALSE
      OBVIOUS
    <3>2. p \notin interfered
      BY <1>1, <3>1
    <3> QED BY <2>1, <3>1, <3>2 DEF StoreInv, WritesToEmpty
  <2> QED BY <1>1, <2>1, <2>2 DEF StoreInv, StoreTypeOK
<1> QED BY <1>4, <1>5, <1>6, <1>7 DEF StoreInv

\* Every step of the commands keeps the invariant.
LEMMA StoreStep ==
    ASSUME StoreInv, [StoreNext]_storeVars
    PROVE  StoreInv'
<1>1. ASSUME NEW p \in PROCESSES, NEW n \in PROFILES, NEW create \in BOOLEAN,
             Command(p, n, create)
      PROVE  StoreInv'
  <2>1. /\ command' = [command EXCEPT ![p] =
               [stage |-> "Load", profile |-> n, create |-> create, seed |-> Nothing]]
        /\ UNCHANGED <<stored, net_key, generated, losses, interfered, raced, shown>>
    BY <1>1 DEF Command
  <2>2. StoreTypeOK'
    BY <2>1 DEF StoreInv, StoreTypeOK
  <2>3. CommandsOK' /\ WritesToEmpty'
    BY <2>1 DEF StoreInv, StoreTypeOK, CommandsOK, WritesToEmpty
  <2>4. SameAcrossLaunches'
    BY <2>1 DEF StoreInv, SameAcrossLaunches
  <2> QED BY <2>2, <2>3, <2>4 DEF StoreInv
<1>2. ASSUME NEW p \in PROCESSES, Load(p)
      PROVE  StoreInv'
  BY <1>2, LoadStep
<1>3. ASSUME NEW p \in PROCESSES, LoadFails(p) \/ ReadBackFails(p)
      PROVE  StoreInv'
  BY <1>3, FailStep DEF LoadFails, ReadBackFails
<1>4. ASSUME NEW p \in PROCESSES, Set(p) \/ SetFails(p)
      PROVE  StoreInv'
  BY <1>4, PutStep DEF Set, SetFails
<1>5. ASSUME NEW p \in PROCESSES, ReadBack(p)
      PROVE  StoreInv'
  <2>1. command[p].stage = "ReadBack" /\ command[p].seed \in SEEDS
    BY <1>5 DEF ReadBack, StoreInv, CommandsOK
  <2>2. \/ Fail(p)
        \/ /\ stored[command[p].profile] = command[p].seed
           /\ InstallIdentity(p, command[p].seed)
    BY <1>5 DEF ReadBack
  <2> QED BY <2>1, <2>2, FailStep, InstallStep
<1>6. ASSUME NEW p \in PROCESSES, Restart(p)
      PROVE  StoreInv'
  <2>1. /\ command' = [command EXCEPT ![p] = Resting]
        /\ net_key' = [net_key EXCEPT ![p] = Nothing]
        /\ UNCHANGED <<stored, generated, losses, interfered, raced, shown>>
    BY <1>6 DEF Restart
  <2>2. StoreTypeOK'
    BY <2>1 DEF StoreInv, StoreTypeOK, Resting
  <2>3. CommandsOK' /\ WritesToEmpty'
    BY <2>1 DEF StoreInv, StoreTypeOK, CommandsOK, WritesToEmpty, Resting
  <2>4. SameAcrossLaunches'
    BY <2>1 DEF StoreInv, SameAcrossLaunches
  <2> QED BY <2>2, <2>3, <2>4 DEF StoreInv
<1>7. ASSUME NEW n \in PROFILES, Lose(n)
      PROVE  StoreInv'
  <2>1. /\ losses' = losses + 1
        /\ stored' = [stored EXCEPT ![n] = Nothing]
        /\ shown' = [shown EXCEPT ![n] = Nothing]
        /\ interfered' = interfered \cup {q \in PROCESSES : command[q].profile = n}
        /\ UNCHANGED <<command, net_key, generated, raced>>
    BY <1>7 DEF Lose
  <2>2. StoreTypeOK'
    BY <2>1 DEF StoreInv, StoreTypeOK
  <2>3. CommandsOK' /\ WritesToEmpty'
    BY <2>1 DEF StoreInv, StoreTypeOK, CommandsOK, WritesToEmpty
  <2>4. SameAcrossLaunches'
    BY <2>1 DEF StoreInv, StoreTypeOK, SameAcrossLaunches
  <2> QED BY <2>2, <2>3, <2>4 DEF StoreInv
<1>8. CASE UNCHANGED storeVars
  BY <1>8 DEF storeVars, StoreInv, StoreTypeOK, CommandsOK, WritesToEmpty,
     SameAcrossLaunches
<1> QED BY <1>1, <1>2, <1>3, <1>4, <1>5, <1>6, <1>7, <1>8 DEF StoreNext

\* The invariant of the store.
LEMMA StoreInvariant == StoreSpec => []StoreInv
<1>1. StoreInit => StoreInv
  BY StoreInitial
<1>2. StoreInv /\ [StoreNext]_storeVars => StoreInv'
  BY StoreStep
<1> QED BY <1>1, <1>2, PTL DEF StoreSpec

\* The store, the commands and the identities in use keep their types; above
\* all, an entry of the wrong length never becomes an identity.
THEOREM StoreTyped == StoreSpec => []StoreTypeOK
<1>1. StoreInv => StoreTypeOK
  BY DEF StoreInv
<1> QED BY <1>1, StoreInvariant, PTL

\* The identity shown for a profile is the one the next launch finds, for any
\* number of processes, whatever the store does with a write.
THEOREM LaunchesAgree == StoreSpec => []SameAcrossLaunches
<1>1. StoreInv => SameAcrossLaunches
  BY DEF StoreInv
<1> QED BY <1>1, StoreInvariant, PTL

\* Only a process that has been interfered with writes over an identity.
LEMMA ReplacesNothing ==
    ASSUME StoreInv, [StoreNext]_storeVars
    PROVE  \A n \in PROFILES :
               /\ stored[n] \in SEEDS
               /\ stored'[n] # stored[n]
               => stored'[n] = Nothing \/ n \in raced'
<1> SUFFICES ASSUME NEW n \in PROFILES, stored[n] \in SEEDS, stored'[n] # stored[n],
                    stored'[n] # Nothing
             PROVE  n \in raced'
  OBVIOUS
<1>1. PICK p \in PROCESSES : Set(p) \/ SetFails(p)
  <2>1. ASSUME NEW m \in PROFILES, Lose(m) PROVE FALSE
    BY <2>1 DEF Lose, StoreInv, StoreTypeOK
  <2>2. ASSUME NEW p \in PROCESSES, Load(p) PROVE FALSE
    BY <2>2 DEF Load, Loaded, Generate, Fail, InstallIdentity
  <2>3. ASSUME NEW p \in PROCESSES,
               \/ \E m \in PROFILES, create \in BOOLEAN : Command(p, m, create)
               \/ LoadFails(p) \/ ReadBack(p) \/ ReadBackFails(p) \/ Restart(p)
        PROVE  FALSE
    BY <2>3 DEF Command, LoadFails, ReadBack, ReadBackFails, Restart, Fail, InstallIdentity
  <2>4. ~(UNCHANGED storeVars)
    BY DEF storeVars
  <2> QED BY <2>1, <2>2, <2>3, <2>4 DEF StoreNext
<1>2. command[p].stage = "Set" /\ command[p].profile \in PROFILES
  BY <1>1 DEF Set, SetFails, StoreInv, CommandsOK
<1>3. PICK entry : Put(p, entry)
  BY <1>1 DEF Set, SetFails
<1>4. n = command[p].profile
  BY <1>2, <1>3 DEF Put, StoreInv, StoreTypeOK
<1>5. p \in interfered
  BY <1>2, <1>4, EntriesDiffer DEF StoreInv, WritesToEmpty
<1> QED BY <1>3, <1>4, <1>5 DEF Put

\* No command replaces an identity, for any number of processes, unless two of
\* them create the profile at once.
THEOREM NeverReplaced == StoreSpec => IdentityNeverReplaced
<1> QED BY ReplacesNothing, StoreInvariant, PTL DEF StoreSpec, IdentityNeverReplaced

-----------------------------------------------------------------------------
(* Padding.                                                                *)

\* bstr_header_len, with the three lengths at which it grows.
LEMMA HeaderLength ==
    ASSUME NEW n \in Nat
    PROVE  /\ bstr_header_len(n) \in {1, 2, 3, 5}
           /\ n <= 23 => bstr_header_len(n) = 1
           /\ 23 < n /\ n <= 255 => bstr_header_len(n) = 2
           /\ 255 < n /\ n <= 65535 => bstr_header_len(n) = 3
  BY DEF bstr_header_len

\* The header of a byte string adds at most five bytes.
LEMMA EncodedLength ==
    ASSUME NEW n \in Nat
    PROVE  bstr(n) \in Nat /\ bstr(n) <= n + 5
  BY HeaderLength DEF bstr

\* What a length lacks to the next multiple of the quantum.
Missing(f) == IF (f % 256) = 0 THEN 0 ELSE 256 - (f % 256)

\* What is missing to the next multiple of 256 is less than 256.
LEMMA MissingFills ==
    ASSUME NEW f \in Nat
    PROVE  /\ Missing(f) \in 0..255
           /\ (f + Missing(f)) % 256 = 0
           /\ (f + Missing(f) + 256) % 256 = 0
<1>1. /\ f = 256 * (f \div 256) + (f % 256)
      /\ f % 256 \in 0..255 /\ f \div 256 \in Nat
  OBVIOUS
<1>2. \A k \in Nat : (256 * k) % 256 = 0
  OBVIOUS
<1>3. PICK k \in Nat : f + Missing(f) = 256 * k
  BY <1>1 DEF Missing
<1>4. f + Missing(f) + 256 = 256 * (k + 1)
  BY <1>3
<1> QED BY <1>1, <1>2, <1>3, <1>4 DEF Missing

\* A byte string that lengthens its encoding by any amount up to one quantum,
\* or by that and a quantum.
LEMMA SomeEncoding ==
    ASSUME NEW r \in 0..255
    PROVE  \E p \in 0..278 : bstr(p) = r \/ bstr(p) = r + 256
<1>1. CASE r = 0
  <2>1. bstr(254) = 256
    BY HeaderLength DEF bstr
  <2> QED BY <1>1, <2>1
<1>2. CASE r \in 1..24
  <2>1. r - 1 \in 0..23
    BY <1>2
  <2>2. bstr(r - 1) = r
    BY <1>2, <2>1, HeaderLength DEF bstr
  <2> QED BY <2>1, <2>2
<1>3. CASE r = 25
  <2>1. bstr(278) = 281
    BY HeaderLength DEF bstr
  <2> QED BY <1>3, <2>1
<1>4. CASE r \in 26..255
  <2>1. r - 2 \in 24..255
    BY <1>4
  <2>2. bstr(r - 2) = r
    BY <1>4, <2>1, HeaderLength DEF bstr
  <2> QED BY <2>1, <2>2
<1> QED BY <1>1, <1>2, <1>3, <1>4

\* Some padding of at most 278 bytes fits, whatever the length of the content.
LEMMA SomePadding ==
    ASSUME NEW n \in Nat
    PROVE  \E p \in 0..278 : Fits(n, p)
<1> DEFINE f == Fixed(n) + AEAD_TAG_SIZE
<1>1. f \in Nat
  BY EncodedLength DEF Fixed, AEAD_TAG_SIZE
<1>2. PICK p \in 0..278 : bstr(p) = Missing(f) \/ bstr(p) = Missing(f) + 256
  BY <1>1, MissingFills, SomeEncoding
<1>3. Ciphertext(n, p) = f + bstr(p)
  <2>1. Fixed(n) \in Nat /\ bstr(p) \in Nat
    BY EncodedLength DEF Fixed
  <2> QED BY <2>1 DEF Ciphertext, AEAD_TAG_SIZE
<1> HIDE DEF f
<1>4. /\ Missing(f) \in 0..255
      /\ (f + Missing(f)) % 256 = 0 /\ (f + Missing(f) + 256) % 256 = 0
  BY <1>1, MissingFills
<1>5. f + (Missing(f) + 256) = f + Missing(f) + 256
  BY <1>1, <1>4
<1>6. Ciphertext(n, p) % 256 = 0
  <2>1. CASE bstr(p) = Missing(f)
    BY <2>1, <1>3, <1>4
  <2>2. CASE bstr(p) = Missing(f) + 256
    BY <2>2, <1>3, <1>4, <1>5
  <2> QED BY <1>2, <2>1, <2>2
<1> QED BY <1>6 DEF Fits, DEFAULT_PADDING_QUANTUM

-----------------------------------------------------------------------------
(* The search.                                                             *)

PadTyped ==
    /\ content \in Nat /\ padding \in Nat /\ payload \in Nat
    /\ sending \in {"Ready", "Pad", "Padded", "Committed", "Sent", "Refused", "Lost"}

PadInv ==
    /\ PadTyped
    /\ sending = "Ready" => padding = 0
    /\ sending \in {"Pad", "Padded", "Committed", "Sent"} => content <= MAX_CONTENT
    /\ payload <= MAX_FRAME_SIZE
    /\ PaddingLeast
    /\ CommittedIsSent

\* Content within the limit, padded by at most 278 bytes, fits a frame.
LEMMA PayloadFits ==
    ASSUME NEW n \in Nat, n <= MAX_CONTENT, NEW p \in 0..278, NEW counter \in UintSizes
    PROVE  PayloadSize(n, p, counter) \in Nat /\ PayloadSize(n, p, counter) <= MAX_FRAME_SIZE
<1>1. /\ Fixed(n) \in Nat /\ Fixed(n) <= n + 8
      /\ bstr(p) \in Nat /\ bstr(p) <= p + 5
  BY EncodedLength DEF Fixed
<1>2. Ciphertext(n, p) \in Nat /\ Ciphertext(n, p) <= 70000
  BY <1>1 DEF Ciphertext, AEAD_TAG_SIZE, MAX_CONTENT
<1>3. bstr(Ciphertext(n, p)) \in Nat /\ bstr(Ciphertext(n, p)) <= 70005
  BY <1>2, EncodedLength
<1>4. bstr(16) \in Nat /\ bstr(16) <= 21
  BY EncodedLength
<1> QED BY <1>3, <1>4 DEF PayloadSize, UintSizes, MAX_FRAME_SIZE

\* The search starts at no padding, before anything is committed.
LEMMA PadInitial == PadInit => PadInv
  BY DEF PadInit, PadInv, PadTyped, PaddingLeast, CommittedIsSent, MAX_FRAME_SIZE

\* A step of the search passes over a length that does not do, or ends at one that does.
LEMMA PadStep ==
    ASSUME PadInv, [PadNext]_padVars
    PROVE  PadInv'
<1>1. ASSUME NEW n \in CONTENTS, Encrypt(n)
      PROVE  PadInv'
  <2>1. n \in Nat
    BY ContentLengths
  <2>2. /\ sending = "Ready" /\ padding = 0
        /\ content' = n /\ padding' = padding /\ payload' = payload
        /\ \/ sending' = "Refused" /\ n > MAX_CONTENT
           \/ sending' = "Pad" /\ ~(n > MAX_CONTENT)
    BY <1>1 DEF Encrypt, TooLarge, PadInv
  <2>3. PaddingLeast'
    BY <2>1, <2>2 DEF PaddingLeast
  <2> QED BY <2>1, <2>2, <2>3 DEF PadInv, PadTyped, CommittedIsSent, MAX_CONTENT
<1>2. CASE Pad
  <2>1. /\ sending = "Pad" /\ ~Fits(content, padding)
        /\ padding' = padding + 1 /\ content' = content /\ payload' = payload
    BY <1>2 DEF Pad, PadMore
  <2>2. padding \in Nat /\ content \in Nat /\ \A p \in 0..(padding - 1) : ~Fits(content, p)
    BY DEF PadInv, PadTyped, PaddingLeast
  <2>3. \A p \in 0..padding : ~Fits(content, p)
    BY <2>1, <2>2
  <2>4. padding' <= 278
    <3>1. PICK p \in 0..278 : Fits(content, p)
      BY <2>2, SomePadding
    <3>2. p \notin 0..padding
      BY <2>3, <3>1
    <3> QED BY <2>1, <2>2, <3>1, <3>2
  <2>5. sending' = "Pad"
    BY <1>2, <2>1, <2>2, <2>4 DEF Pad, MAX_FRAME_SIZE
  <2>6. \A p \in 0..(padding' - 1) : ~Fits(content', p)
    BY <2>1, <2>2, <2>3
  <2>7. PaddingLeast'
    BY <2>4, <2>5, <2>6 DEF PaddingLeast
  <2> QED BY <2>1, <2>2, <2>5, <2>7 DEF PadInv, PadTyped, CommittedIsSent
<1>3. CASE Padded
  BY <1>3 DEF Padded, PadInv, PadTyped, PaddingLeast, CommittedIsSent
<1>4. CASE Commit
  <2>1. PICK counter \in UintSizes : payload' = PayloadSize(content, padding, counter)
    BY <1>4 DEF Commit
  <2>2. /\ sending = "Padded" /\ sending' = "Committed"
        /\ content' = content /\ padding' = padding
    BY <1>4 DEF Commit
  <2>3. padding \in 0..278 /\ content \in Nat /\ content <= MAX_CONTENT
    BY <2>2 DEF PadInv, PadTyped, PaddingLeast
  <2>4. payload' \in Nat /\ payload' <= MAX_FRAME_SIZE
    BY <2>1, <2>3, PayloadFits
  <2>5. PaddingLeast'
    BY <2>2 DEF PadInv, PaddingLeast
  <2> QED BY <2>2, <2>3, <2>4, <2>5 DEF PadInv, PadTyped, CommittedIsSent
<1>5. CASE BuildFrame
  <2>1. /\ sending = "Committed" /\ sending' = "Sent"
        /\ content' = content /\ padding' = padding /\ payload' = payload
    BY <1>5 DEF BuildFrame, PadInv, PadTyped, MAX_FRAME_SIZE
  <2>2. PaddingLeast'
    BY <2>1 DEF PadInv, PaddingLeast
  <2> QED BY <2>1, <2>2 DEF PadInv, PadTyped, CommittedIsSent
<1>6. CASE UNCHANGED padVars
  BY <1>6 DEF padVars, PadInv, PadTyped, PaddingLeast, CommittedIsSent
<1> QED BY <1>1, <1>2, <1>3, <1>4, <1>5, <1>6 DEF PadNext

\* The invariant of the padding.
LEMMA PadInvariant == PadSpec => []PadInv
<1>1. PadInit => PadInv
  BY PadInitial
<1>2. PadInv /\ [PadNext]_padVars => PadInv'
  BY PadStep
<1> QED BY <1>1, <1>2, PTL DEF PadSpec

\* Whatever the length of a content, the search ends within 278 bytes, and at
\* the shortest padding that makes the ciphertext a multiple of the quantum.
THEOREM PaddingIsLeast == PadSpec => []PaddingLeast
<1>1. PadInv => PaddingLeast
  BY DEF PadInv
<1> QED BY <1>1, PadInvariant, PTL

\* A message key is never used up without a frame, and a content of an allowed
\* length is never refused.
THEOREM CommitsAreSent == PadSpec => []CommittedIsSent
<1>1. PadInv => CommittedIsSent
  BY DEF PadInv
<1> QED BY <1>1, PadInvariant, PTL

-----------------------------------------------------------------------------
(* The configuration.                                                      *)

KeyRec ==
    [key : Named \cup FunctionKeys \cup Letters, ctrl : BOOLEAN, alt : BOOLEAN]

\* A key that an action may have: none that is typed, and none of the fixed ones.
Bindable(key) ==
    /\ key \in KeyRec
    /\ key.key \in Letters => key.ctrl \/ key.alt
    /\ ~Reserved(key)

\* A map of keys that can be used.
Usable(keys) ==
    /\ keys \in [Actions -> KeyRec]
    /\ \A a \in Actions : Bindable(keys[a])
    /\ \A a, b \in Actions : a # b => keys[a] # keys[b]

ConfigInv ==
    /\ Usable(config.keys)
    /\ config.tick_ms \in MIN_TICK_MS..MAX_TICK_MS
    /\ warned \in BOOLEAN
    /\ config # Default => loading = "Loaded" /\ ~warned
    /\ warned => loading = "Loaded"

\* The actions that have a key, spelled out.
LEMMA ActionNames ==
    Actions = {"leave", "rekey", "scroll_up", "scroll_down", "page_up", "page_down"}
  BY DEF Actions, Default

\* The defaults bind every action to a key of its own, with a tick in range.
LEMMA DefaultUsable ==
    Usable(Default.keys) /\ Default.tick_ms \in MIN_TICK_MS..MAX_TICK_MS
<1>1. "r" \in Letters /\ "r" # "c" /\ "r" # "d"
  BY ConfigBounds DEF Letters
<1>2. /\ Default.keys["leave"] = Key("esc", FALSE, FALSE)
      /\ Default.keys["rekey"] = Key("r", TRUE, FALSE)
      /\ Default.keys["scroll_up"] = Key("up", FALSE, FALSE)
      /\ Default.keys["scroll_down"] = Key("down", FALSE, FALSE)
      /\ Default.keys["page_up"] = Key("pageup", FALSE, FALSE)
      /\ Default.keys["page_down"] = Key("pagedown", FALSE, FALSE)
  BY DEF Default
<1>3. \A a \in Actions : Default.keys[a] \in KeyRec
  <2>1. \A k \in Named \cup FunctionKeys \cup Letters, c, b \in BOOLEAN : Key(k, c, b) \in KeyRec
    BY DEF Key, KeyRec
  <2>2. {"esc", "up", "down", "pageup", "pagedown"} \subseteq Named
    BY DEF Named
  <2> QED BY <1>1, <1>2, <2>1, <2>2, ActionNames
<1>4. \A a \in Actions : Bindable(Default.keys[a])
  <2>1. \A k \in {"esc", "up", "down", "pageup", "pagedown"} :
           /\ k \notin Letters /\ k # "c" /\ k # "d"
    BY LettersAreNotNames DEF Letters, Named
  <2>2. \A a \in Actions \ {"rekey"} :
           /\ Default.keys[a].key \in {"esc", "up", "down", "pageup", "pagedown"}
    BY <1>2, ActionNames DEF Key
  <2>3. \A a \in Actions \ {"rekey"} : Bindable(Default.keys[a])
    BY <1>3, <2>1, <2>2 DEF Bindable, Reserved
  <2>4. Bindable(Default.keys["rekey"])
    BY <1>1, <1>2, <1>3, ActionNames DEF Bindable, Reserved, Key
  <2> QED BY <2>3, <2>4
<1>5. \A a, b \in Actions : a # b => Default.keys[a] # Default.keys[b]
  BY <1>2, ActionNames DEF Key
<1>6. Default.keys \in [Actions -> KeyRec]
  BY <1>3 DEF Actions, Default
<1>7. Default.tick_ms \in MIN_TICK_MS..MAX_TICK_MS
  BY DEF Default, MIN_TICK_MS, MAX_TICK_MS
<1> QED BY <1>4, <1>5, <1>6, <1>7 DEF Usable

\* A name the file may use stands for a key an action may have.
LEMMA ValidIsBindable ==
    ASSUME NEW text, ValidKey(text)
    PROVE  Bindable(KeyOf(text))
<1> DEFINE key == KeyOf(text)
<1>1. /\ key.key = Last(text)
      /\ key.ctrl \in BOOLEAN /\ key.alt \in BOOLEAN
      /\ key = [key |-> key.key, ctrl |-> key.ctrl, alt |-> key.alt]
  BY DEF KeyOf, Key, HasPrefix
<1>2. /\ key.key \in Named \cup FunctionKeys \cup Letters
      /\ key.key \in Named \cup FunctionKeys \/ key.ctrl \/ key.alt
      /\ ~Reserved(key)
  BY <1>1 DEF ValidKey
<1>3. Letters \cap (Named \cup FunctionKeys) = {}
  BY LettersAreNotNames DEF Letters
<1> HIDE DEF key
<1> QED BY <1>1, <1>2, <1>3 DEF Bindable, KeyRec, key

\* What parse accepts is usable, for any file.
LEMMA ParsedUsable ==
    ASSUME NEW f, Parses(f)
    PROVE  Usable(Parsed(f).keys) /\ Parsed(f).tick_ms \in MIN_TICK_MS..MAX_TICK_MS
<1>1. \A a \in Actions : Bindable(KeyMap(f)[a])
  <2> SUFFICES ASSUME NEW a \in Actions PROVE Bindable(KeyMap(f)[a])
    OBVIOUS
  <2>1. CASE a \in DOMAIN f.keys
    <3>1. ValidKey(f.keys[a])
      BY <2>1 DEF Parses
    <3>2. KeyMap(f)[a] = KeyOf(f.keys[a])
      BY <2>1 DEF KeyMap
    <3> QED BY <3>1, <3>2, ValidIsBindable
  <2>2. CASE a \notin DOMAIN f.keys
    <3>1. KeyMap(f)[a] = Default.keys[a]
      BY <2>2 DEF KeyMap
    <3> QED BY <3>1, DefaultUsable DEF Usable
  <2> QED BY <2>1, <2>2
<1>2. KeyMap(f) \in [Actions -> KeyRec]
  <2>1. \A a \in Actions : KeyMap(f)[a] \in KeyRec
    BY <1>1 DEF Bindable
  <2> QED BY <2>1 DEF KeyMap
<1>3. \A a, b \in Actions : a # b => KeyMap(f)[a] # KeyMap(f)[b]
  BY DEF Parses, Distinct
<1>4. Parsed(f).keys = KeyMap(f) /\ Parsed(f).tick_ms = f.tick_ms
  BY DEF Parsed
<1>5. f.tick_ms \in MIN_TICK_MS..MAX_TICK_MS
  BY DEF Parses, TickInRange
<1> QED BY <1>1, <1>2, <1>3, <1>4, <1>5 DEF Usable

-----------------------------------------------------------------------------
(* Loading.                                                                *)

\* Before anything is read the defaults are in effect.
LEMMA ConfigInitial == ConfigInit => ConfigInv
  BY DefaultUsable DEF ConfigInit, ConfigInv

\* A step that leaves the configuration alone keeps it usable.
LEMMA ConfigKept ==
    ASSUME ConfigInv, UNCHANGED <<config, warned>>, loading # "Loaded"
    PROVE  ConfigInv'
  BY DEF ConfigInv

\* A file that is refused leaves the defaults in effect.
LEMMA IgnoreStep ==
    ASSUME ConfigInv, Ignore, loading # "Loaded"
    PROVE  ConfigInv'
  BY DEF ConfigInv, Ignore

\* Every step of load_from keeps the configuration usable.
LEMMA ConfigStep ==
    ASSUME ConfigInv, [ConfigNext]_configVars
    PROVE  ConfigInv'
<1>1. CASE OpenFile
  <2>1. loading # "Loaded" /\ (Ignore \/ UNCHANGED <<config, warned>>)
    BY <1>1 DEF OpenFile
  <2> QED BY <2>1, IgnoreStep, ConfigKept
<1>2. CASE Stat
  <2>1. loading # "Loaded" /\ (Ignore \/ UNCHANGED <<config, warned>>)
    BY <1>2 DEF Stat
  <2> QED BY <2>1, IgnoreStep, ConfigKept
<1>3. CASE Edit
  BY <1>3, ConfigKept DEF Edit
<1>4. CASE ReadFile
  <2>1. CASE Ignore
    BY <1>4, <2>1, IgnoreStep DEF ReadFile
  <2>2. CASE Parses(file) /\ config' = Parsed(file) /\ loading' = "Loaded" /\ UNCHANGED warned
    <3>1. ~warned
      BY <1>4 DEF ReadFile, ConfigInv
    <3>2. Usable(config'.keys) /\ config'.tick_ms \in MIN_TICK_MS..MAX_TICK_MS
      BY <2>2, ParsedUsable
    <3> QED BY <2>2, <3>1, <3>2 DEF ConfigInv
  <2> QED BY <1>4, <2>1, <2>2 DEF ReadFile
<1>5. CASE LoadError
  BY <1>5, IgnoreStep DEF LoadError
<1>6. CASE UNCHANGED configVars
  BY <1>6 DEF configVars, ConfigInv
<1> QED BY <1>1, <1>2, <1>3, <1>4, <1>5, <1>6 DEF ConfigNext

\* The invariant of the configuration.
LEMMA ConfigInvariant == ConfigSpec => []ConfigInv
<1>1. ConfigInit => ConfigInv
  BY ConfigInitial
<1>2. ConfigInv /\ [ConfigNext]_configVars => ConfigInv'
  BY ConfigStep
<1> QED BY <1>1, <1>2, PTL DEF ConfigSpec

\* The application runs on a tick within its bounds, and on a file's values only
\* if all of the file was good.
THEOREM ConfigStaysUsable == ConfigSpec => []ConfigUsable
<1>1. ConfigInv => ConfigUsable
  BY DEF ConfigInv, ConfigUsable
<1> QED BY <1>1, ConfigInvariant, PTL

-----------------------------------------------------------------------------
(* The keys.                                                               *)

\* No action can take Enter, Backspace, a letter typed plainly or Ctrl-C.
LEMMA FixedKeys ==
    ASSUME Usable(config.keys), NEW key \in Pressable
    PROVE  /\ key.key = "enter" => Meaning(key) = "send"
           /\ key.key = "backspace" => Meaning(key) = "erase"
           /\ Types(key) => Meaning(key) = "type"
           /\ CtrlC(key) => Meaning(key) = "leave"
<1>1. /\ Bindable(config.keys["leave"]) /\ Bindable(config.keys["rekey"])
  BY ActionNames DEF Usable
<1>2. \A k : Bindable(k) =>
          /\ k.key \in Named \cup FunctionKeys \cup Letters
          /\ k.key \notin OtherKeys
          /\ k.key \in Letters => k.ctrl \/ k.alt
  BY LettersAreNotNames DEF Bindable, KeyRec, Letters, OtherKeys, Named, FunctionKeys
<1>3. \A k : Bindable(k) /\ k.key \in LETTERS => k.ctrl \/ k.alt
  BY <1>2, LettersAreNotNames DEF Letters
<1>4. ASSUME key.key = "enter" PROVE Meaning(key) = "send"
  <2>1. key # config.keys["leave"] /\ ~CtrlC(key)
    BY <1>1, <1>2, <1>4 DEF CtrlC, OtherKeys
  <2> QED BY <1>4, <2>1 DEF Meaning
<1>5. ASSUME key.key = "backspace" PROVE Meaning(key) = "erase"
  <2>1. key # config.keys["leave"] /\ key # config.keys["rekey"] /\ ~CtrlC(key)
    BY <1>1, <1>2, <1>5 DEF CtrlC, OtherKeys
  <2> QED BY <1>5, <2>1 DEF Meaning
<1>6. ASSUME Types(key) PROVE Meaning(key) = "type"
  <2>1. key.key \in LETTERS \cup {"char"} /\ ~key.ctrl /\ ~key.alt
    BY <1>6 DEF Types
  <2>2. key.key # "enter" /\ key.key # "backspace" /\ ~CtrlC(key)
    BY <2>1, LettersAreNotNames DEF OtherKeys, CtrlC
  <2>3. ~Bindable(key)
    BY <1>2, <1>3, <2>1 DEF OtherKeys
  <2>4. key # config.keys["leave"] /\ key # config.keys["rekey"]
    BY <1>1, <2>3
  <2> QED BY <1>6, <2>2, <2>4 DEF Meaning
<1>7. ASSUME CtrlC(key) PROVE Meaning(key) = "leave"
  BY <1>7 DEF Meaning
<1> QED BY <1>4, <1>5, <1>6, <1>7

\* No other arm of chat_key comes before the one of the action that has the key.
LEMMA ActionKeys ==
    ASSUME Usable(config.keys), NEW a \in Actions
    PROVE  Meaning(config.keys[a]) = a
<1> DEFINE key == config.keys[a]
<1>1. /\ Bindable(key) /\ key \in KeyRec
      /\ \A b \in Actions : key = config.keys[b] => a = b
  BY DEF Usable
<1>2. /\ key.key \in Named \cup FunctionKeys \cup Letters
      /\ key.ctrl \in BOOLEAN
  BY <1>1 DEF KeyRec
<1>3. key.key \notin OtherKeys
  BY <1>2, LettersAreNotNames DEF Letters, OtherKeys, Named, FunctionKeys
<1>4. ~CtrlC(key)
  BY <1>1 DEF CtrlC, Bindable, Reserved
<1>5. ~Types(key)
  BY <1>1, <1>2, <1>3, LettersAreNotNames DEF Types, Bindable, Letters, OtherKeys
<1>6. key.key # "enter" /\ key.key # "backspace"
  BY <1>3 DEF OtherKeys
<1> HIDE DEF key
<1>7. CASE a = "leave"
  BY <1>7 DEF Meaning, key
<1>8. CASE a = "rekey"
  <2>1. key # config.keys["leave"]
    BY <1>1, <1>8, ActionNames
  <2>2. key = config.keys["rekey"]
    BY <1>8 DEF key
  <2> QED BY <1>4, <1>6, <1>8, <2>1, <2>2 DEF Meaning, key
<1>9. CASE a \notin {"leave", "rekey"}
  <2>1. key # config.keys["leave"] /\ key # config.keys["rekey"]
    BY <1>1, <1>9, ActionNames
  <2>2. Scrolls(key) = {a}
    BY <1>1, <1>9 DEF Scrolls, key
  <2>3. Meaning(key) = CHOOSE b \in Scrolls(key) : TRUE
    BY <1>4, <1>5, <1>6, <2>1, <2>2 DEF Meaning
  <2>4. (CHOOSE b \in Scrolls(key) : TRUE) \in Scrolls(key)
    BY <2>2
  <2> QED BY <2>2, <2>3, <2>4 DEF key
<1> QED BY <1>7, <1>8, <1>9

\* Whatever a file binds, each action is reached by its key, and the fixed keys
\* do what they do without a file.
THEOREM KeysStayApart == ConfigSpec => []KeysMeanOneThing
<1>1. ConfigInv => KeysMeanOneThing
  BY FixedKeys, ActionKeys DEF ConfigInv, KeysMeanOneThing
<1> QED BY <1>1, ConfigInvariant, PTL

-----------------------------------------------------------------------------
(* Bytes and frames on a stream.                                           *)

\* A set of natural numbers that is not empty has a least element.
LEMMA LeastNat ==
    ASSUME NEW T, T \subseteq Nat, T # {}
    PROVE  \E m \in T : \A k \in T : m <= k
<1> DEFINE R == OpToRel(<, Nat)
<1>1. IsWellFoundedOn(R, Nat)
  BY NatLessThanWellFounded
<1>2. \A x, y \in Nat : x < y => (<<x, y>> \in R)
  BY DEF OpToRel
<1> HIDE DEF R
<1>3. PICK m \in T : \A k \in T : ~ (<<k, m>> \in R)
  BY <1>1, WFMin
<1>4. ASSUME NEW k \in T PROVE m <= k
  <2>1. ~ (k < m)
    BY <1>2, <1>3
  <2>2. k \in Nat /\ m \in Nat
    OBVIOUS
  <2> QED BY <2>1, <2>2
<1> QED BY <1>4

\* Frames that Frame::new accepts.
Frames == {f \in [type : DOMAIN MAX_PAYLOAD, payload : Seq(Nat)] :
              check_length(f.type, Len(f.payload))}

\* Entry by entry: st is one sequence after the other.
IsJoined(s, t, st) ==
    /\ st \in Seq(Nat) /\ Len(s) \in Nat /\ Len(t) \in Nat
    /\ Len(st) = Len(s) + Len(t)
    /\ \A i \in 1..Len(s) : st[i] = s[i]
    /\ \A i \in 1..Len(t) : st[Len(s) + i] = t[i]

\* One sequence behind another, entry by entry.
LEMMA Joined ==
    ASSUME NEW s \in Seq(Nat), NEW t \in Seq(Nat)
    PROVE  IsJoined(s, t, s \o t)
  BY DEF IsJoined

\* n entries after the first m.
IsSlice(b, m, n, p) ==
    p \in Seq(Nat) /\ Len(p) = n /\ \A i \in 1..n : p[i] = b[m + i]

\* A piece of a sequence, entry by entry.
LEMMA SliceOf ==
    ASSUME NEW b \in Seq(Nat), NEW m \in Nat, NEW n \in Nat, m + n <= Len(b)
    PROVE  IsSlice(b, m, n, SubSeq(b, m + 1, m + n))
<1>1. Len(b) \in Nat /\ m + 1 \in 1..(m + 1) /\ m + n \in Nat
  OBVIOUS
<1>2. \A i \in 1..n : m + i \in 1..Len(b) /\ (m + 1) + (i - 1) = m + i
  BY <1>1
<1>3. \A i \in 1..n : b[m + i] \in Nat
  BY <1>2
<1>4. (m + n) - (m + 1) + 1 = n
  OBVIOUS
<1>5. SubSeq(b, m + 1, m + n) = [i \in 1..n |-> b[(m + 1) + (i - 1)]]
  BY <1>1, <1>4
<1> QED BY <1>2, <1>3, <1>5 DEF IsSlice

\* Two sequences of one length with the same entries are one.
LEMMA SameEntries ==
    ASSUME NEW s \in Seq(Nat), NEW t \in Seq(Nat), Len(s) = Len(t),
           \A i \in 1..Len(s) : s[i] = t[i]
    PROVE  s = t
  OBVIOUS

AreFour(a, b, c, d, t) ==
    /\ t \in Seq(Nat) /\ Len(t) = 4
    /\ t[1] = a /\ t[2] = b /\ t[3] = c /\ t[4] = d

\* A tuple of four numbers, entry by entry.
LEMMA FourNumbers ==
    ASSUME NEW a \in Nat, NEW b \in Nat, NEW c \in Nat, NEW d \in Nat
    PROVE  AreFour(a, b, c, d, <<a, b, c, d>>)
  BY SMT DEF AreFour

\* The number that four bytes make, the highest first.
Number(a, b, c, d) == 16777216 * a + 65536 * b + 256 * c + d

\* Four bytes stand for a natural number.
LEMMA NumberIsNat ==
    ASSUME NEW a \in Nat, NEW b \in Nat, NEW c \in Nat, NEW d \in Nat
    PROVE  Number(a, b, c, d) \in Nat
  BY SMT DEF Number

\* LengthOf reads the first four bytes only.
LEMMA LengthIsNumber ==
    ASSUME NEW s PROVE LengthOf(s) = Number(s[1], s[2], s[3], s[4])
  BY SMT DEF LengthOf, Number

\* A length that needs three of the four bytes.
ThreeBytes(n) == n < 16777216

\* The bytes of a length, and the length back.
LEMMA FourBytes ==
    ASSUME NEW n \in Nat, ThreeBytes(n)
    PROVE  /\ LengthBytes(n) \in Seq(Nat) /\ Len(LengthBytes(n)) = 4
           /\ LengthOf(LengthBytes(n)) = n
<1>1. PICK a, b, c, d : /\ a = n \div 16777216 /\ b = (n \div 65536) % 256
                        /\ c = (n \div 256) % 256 /\ d = n % 256
  BY SMT
<1>2. n < 16777216
  BY SMT DEF ThreeBytes
<1>3. a \in Nat /\ b \in Nat /\ c \in Nat /\ d \in Nat
  BY <1>1, SMT
<1>4. Number(a, b, c, d) = n
  <2>1. n \div 16777216 = 0
    BY <1>2, SMT
  <2>2. n = 256 * (n \div 256) + (n % 256)
    BY SMT
  <2>3. PICK q : q = n \div 256
    BY SMT
  <2>4. q \in Nat /\ q < 65536
    BY <1>2, <2>3, SMT
  <2>5. q = 256 * (q \div 256) + (q % 256) /\ q \div 256 \in Nat /\ q \div 256 < 256
    BY <2>4, SMT
  <2>6. n \div 65536 = q \div 256
    BY <2>3, SMT
  <2>7. (q \div 256) % 256 = q \div 256
    BY <2>5, SMT
  <2> QED BY <1>1, <2>1, <2>2, <2>3, <2>5, <2>6, <2>7, SMT DEF Number
<1>5. LengthBytes(n) = <<a, b, c, d>>
  BY <1>1, SMT DEF LengthBytes
<1>6. PICK t : t = LengthBytes(n)
  BY Zenon
<1>7. /\ t \in Seq(Nat) /\ Len(t) = 4
      /\ t[1] = a /\ t[2] = b /\ t[3] = c /\ t[4] = d
  <2>1. AreFour(a, b, c, d, <<a, b, c, d>>)
    BY <1>3, FourNumbers, Zenon
  <2>2. AreFour(a, b, c, d, t)
    BY <1>5, <1>6, <2>1, Zenon
  <2> QED BY <2>2, Zenon DEF AreFour
<1>8. LengthOf(t) = n
  BY <1>4, <1>7, LengthIsNumber, Zenon
<1> QED BY <1>6, <1>7, <1>8, Zenon

\* The length a header announces, from the header's bytes.
LEMMA HeaderOnly ==
    ASSUME NEW b \in Seq(Nat), Len(b) >= HEADER_SIZE
    PROVE  /\ LengthOf(SubSeq(b, 3, 6)) = Number(b[3], b[4], b[5], b[6])
           /\ LengthOf(SubSeq(b, 3, 6)) \in Nat
           /\ Total(b) \in Nat /\ Total(b) >= HEADER_SIZE
           /\ Total(b) = HEADER_SIZE + LengthOf(SubSeq(b, 3, 6))
<1>1. Len(b) \in Nat /\ Len(b) >= 6
  BY DEF HEADER_SIZE
<1>2. b[3] \in Nat /\ b[4] \in Nat /\ b[5] \in Nat /\ b[6] \in Nat
  BY <1>1
<1>3. PICK h : h = SubSeq(b, 3, 6)
  OBVIOUS
<1>4. h[1] = b[3] /\ h[2] = b[4] /\ h[3] = b[5] /\ h[4] = b[6]
  BY <1>1, <1>3
<1>5. LengthOf(h) = Number(b[3], b[4], b[5], b[6])
  BY <1>4, LengthIsNumber, Zenon
<1>6. Number(b[3], b[4], b[5], b[6]) \in Nat
  BY <1>2, NumberIsNat, Zenon
<1>7. PICK n : n = LengthOf(h)
  OBVIOUS
<1>8. Total(b) = 6 + n /\ n \in Nat
  BY <1>3, <1>5, <1>6, <1>7 DEF Total, HEADER_SIZE
<1>9. Total(b) \in Nat /\ Total(b) >= 6 /\ Total(b) = 6 + LengthOf(SubSeq(b, 3, 6))
  <2>1. LengthOf(SubSeq(b, 3, 6)) = n
    BY <1>3, <1>7, Zenon
  <2>2. PICK t : t = Total(b)
    OBVIOUS
  <2>3. t = 6 + n
    BY <1>8, <2>2, Zenon
  <2>4. t \in Nat /\ t >= 6
    BY <1>8, <2>3
  <2> QED BY <1>8, <2>1, <2>2, <2>4, Zenon
<1> QED BY <1>3, <1>5, <1>7, <1>8, <1>9 DEF HEADER_SIZE

\* What a header is judged by.
LEMMA SameHeader ==
    ASSUME NEW b \in Seq(Nat), NEW c \in Seq(Nat),
           Len(b) >= HEADER_SIZE, Len(c) >= HEADER_SIZE, \A i \in 1..6 : b[i] = c[i]
    PROVE  Judge(b) = Judge(c) /\ Total(b) = Total(c)
<1>1. b[1] = c[1] /\ b[2] = c[2] /\ b[3] = c[3] /\ b[4] = c[4] /\ b[5] = c[5] /\ b[6] = c[6]
  OBVIOUS
<1>2. LengthOf(SubSeq(b, 3, 6)) = LengthOf(SubSeq(c, 3, 6))
  BY <1>1, HeaderOnly, Zenon
<1>3. Total(b) = Total(c)
  BY <1>2, Zenon DEF Total
<1>4. Judge(b) = Judge(c)
  BY <1>1, <1>2, Zenon DEF Judge
<1> QED BY <1>3, <1>4

\* A frame as it is written.
LEMMA FrameBytes ==
    ASSUME NEW f \in Frames
    PROVE  /\ encode(f) \in Seq(Nat)
           /\ Len(f.payload) \in Nat /\ Len(f.payload) <= MAX_PAYLOAD[f.type]
           /\ Len(encode(f)) = HEADER_SIZE + Len(f.payload)
           /\ encode(f)[1] = V1 /\ encode(f)[2] = f.type
           /\ \A i \in 1..Len(f.payload) : encode(f)[HEADER_SIZE + i] = f.payload[i]
           /\ Judge(encode(f)) = "Good" /\ Total(encode(f)) = Len(encode(f))
<1>1. PICK n : n = Len(f.payload)
  OBVIOUS
<1>2. f.payload \in Seq(Nat) /\ f.type \in DOMAIN MAX_PAYLOAD /\ n <= MAX_PAYLOAD[f.type]
  BY <1>1 DEF Frames, check_length
<1>3. f.type \in Nat /\ n \in Nat /\ ThreeBytes(n)
  <2>1. /\ f.type \in 1..255 /\ MAX_PAYLOAD[f.type] \in Nat
        /\ MAX_PAYLOAD[f.type] < 256 * 256 * 256
    BY <1>2, WireBounds, Zenon
  <2>2. f.type \in Nat
    BY <2>1
  <2>3. n \in Nat
    BY <1>1, <1>2
  <2>4. n < 16777216
    BY <1>2, <2>1, <2>3, SMT
  <2> QED BY <2>2, <2>3, <2>4, SMT DEF ThreeBytes
<1>4. PICK bs : bs = LengthBytes(n)
  OBVIOUS
<1>5. bs \in Seq(Nat) /\ Len(bs) = 4 /\ LengthOf(bs) = n
  BY <1>3, <1>4, FourBytes
<1>6. PICK h : h = <<V1, f.type>>
  OBVIOUS
<1>7. h \in Seq(Nat) /\ Len(h) = 2 /\ h[1] = V1 /\ h[2] = f.type
  BY <1>3, <1>6 DEF V1
<1>8. PICK hb : hb = h \o bs
  OBVIOUS
<1>9. /\ hb \in Seq(Nat) /\ Len(hb) = 6 /\ hb[1] = V1 /\ hb[2] = f.type
      /\ hb[3] = bs[1] /\ hb[4] = bs[2] /\ hb[5] = bs[3] /\ hb[6] = bs[4]
  <2>1. /\ hb \in Seq(Nat) /\ Len(hb) = 6
        /\ \A i \in 1..2 : hb[i] = h[i]
        /\ \A i \in 1..4 : hb[2 + i] = bs[i]
    <3>1. /\ hb \in Seq(Nat) /\ Len(hb) = Len(h) + Len(bs)
          /\ \A i \in 1..Len(h) : hb[i] = h[i]
          /\ \A i \in 1..Len(bs) : hb[Len(h) + i] = bs[i]
      BY <1>5, <1>7, <1>8, Joined, Zenon DEF IsJoined
    <3> QED BY <1>5, <1>7, <3>1
  <2> QED BY <1>7, <2>1
<1>10. PICK e : e = encode(f)
  OBVIOUS
<1>11. e = hb \o f.payload
  BY <1>1, <1>4, <1>6, <1>8, <1>10 DEF encode
<1>12. /\ e \in Seq(Nat) /\ Len(e) = 6 + n
       /\ \A i \in 1..6 : e[i] = hb[i]
       /\ \A i \in 1..n : e[6 + i] = f.payload[i]
  <2>1. /\ e \in Seq(Nat) /\ Len(e) = Len(hb) + Len(f.payload)
        /\ \A i \in 1..Len(hb) : e[i] = hb[i]
        /\ \A i \in 1..Len(f.payload) : e[Len(hb) + i] = f.payload[i]
    BY <1>2, <1>9, <1>11, Joined, Zenon DEF IsJoined
  <2>2. Len(hb) = 6 /\ Len(f.payload) = n
    BY <1>1, <1>9
  <2> QED BY <2>1, <2>2
<1>header. /\ e[1] = hb[1] /\ e[2] = hb[2] /\ e[3] = hb[3]
           /\ e[4] = hb[4] /\ e[5] = hb[5] /\ e[6] = hb[6]
  <2>1. \A i \in 1..6 : e[i] = hb[i]
    BY <1>12, Zenon
  <2> QED BY ONLY <2>1
<1>13. e[1] = V1 /\ e[2] = f.type
  BY <1>9, <1>header, Zenon
<1>14. e[3] = bs[1] /\ e[4] = bs[2] /\ e[5] = bs[3] /\ e[6] = bs[4]
  BY <1>9, <1>header, Zenon
<1>15. LengthOf(SubSeq(e, 3, 6)) = n
  <2>1. Len(e) >= HEADER_SIZE
    BY <1>3, <1>12 DEF HEADER_SIZE
  <2>2. LengthOf(SubSeq(e, 3, 6)) = Number(e[3], e[4], e[5], e[6])
    BY <1>12, <2>1, HeaderOnly
  <2>3. LengthOf(bs) = Number(bs[1], bs[2], bs[3], bs[4])
    BY LengthIsNumber, Zenon
  <2> QED BY <1>5, <1>14, <2>2, <2>3
<1>16. Judge(e) = "Good"
  BY <1>2, <1>13, <1>15 DEF Judge, check_length
<1>17. Total(e) = Len(e)
  BY <1>12, <1>15 DEF Total, HEADER_SIZE
<1>18. Len(f.payload) \in Nat /\ Len(f.payload) <= MAX_PAYLOAD[f.type]
  BY <1>1, <1>2, <1>3, SMT
<1>19. Len(e) = 6 + Len(f.payload) /\ \A i \in 1..Len(f.payload) : e[6 + i] = f.payload[i]
  BY <1>1, <1>12
<1> QED BY <1>10, <1>12, <1>13, <1>16, <1>17, <1>18, <1>19 DEF HEADER_SIZE

\* A buffer that starts with a whole frame is decoded to that frame.
LEMMA FrameDecoded ==
    ASSUME NEW f \in Frames, NEW b \in Seq(Nat), Len(b) >= Len(encode(f)),
           \A i \in 1..Len(encode(f)) : b[i] = encode(f)[i]
    PROVE  decode(b) = f
<1>1. PICK e, n : e = encode(f) /\ n = Len(f.payload)
  OBVIOUS
<1>2. /\ e \in Seq(Nat) /\ n \in Nat /\ Len(e) = 6 + n /\ e[2] = f.type
      /\ \A i \in 1..n : e[6 + i] = f.payload[i]
      /\ Total(e) = Len(e)
  BY <1>1, FrameBytes DEF HEADER_SIZE
<1>3. Len(b) >= HEADER_SIZE /\ Len(e) >= HEADER_SIZE /\ \A i \in 1..6 : b[i] = e[i]
  <2>1. Len(e) >= 6 /\ Len(b) \in Nat /\ Len(e) \in Nat
    BY <1>2
  <2>2. \A i \in 1..6 : i \in 1..Len(e)
    BY <2>1
  <2>3. Len(b) >= 6
    BY <1>1, <2>1
  <2> QED BY <1>1, <2>1, <2>2, <2>3 DEF HEADER_SIZE
<1>4. Total(b) = 6 + n
  BY <1>2, <1>3, SameHeader
<1>5. b[2] = f.type
  BY <1>2, <1>3
<1>6. f.payload \in Seq(Nat) /\ f = [type |-> f.type, payload |-> f.payload]
  BY DEF Frames
<1>7. \A i \in 1..n : b[6 + i] = f.payload[i]
  <2> TAKE i \in 1..n
  <2>1. 6 + i \in 1..Len(e)
    BY <1>2
  <2> QED BY <1>1, <1>2, <2>1
<1>8. SubSeq(b, 7, 6 + n) = f.payload
  <2>1. n = Len(f.payload) /\ 6 + n <= Len(b) /\ Len(b) \in Nat
    BY <1>1, <1>2
  <2>2. PICK p : p = SubSeq(b, 7, 6 + n)
    OBVIOUS
  <2>3. p \in Seq(Nat) /\ Len(p) = n /\ \A i \in 1..n : p[i] = b[6 + i]
    <3>1. p = SubSeq(b, 6 + 1, 6 + n) /\ 6 \in Nat
      BY <2>2
    <3>2. IsSlice(b, 6, n, SubSeq(b, 6 + 1, 6 + n))
      BY <1>2, <2>1, <3>1, SliceOf, Zenon
    <3> QED BY <3>1, <3>2, Zenon DEF IsSlice
  <2>4. \A i \in 1..n : p[i] = f.payload[i]
    BY <1>7, <2>3
  <2>5. p = f.payload
    BY <1>6, <2>1, <2>3, <2>4, SameEntries
  <2> QED BY <2>2, <2>5
<1> QED BY <1>4, <1>5, <1>6, <1>8 DEF decode, HEADER_SIZE

\* f joins the first 0 to n frames.
JoinsTo(fs, f, n) ==
    f = [i \in 0..n |-> IF i = 0 THEN <<>> ELSE f[i - 1] \o encode(fs[i])]

\* The bytes exist up to each number of frames.
LEMMA JoinExists ==
    ASSUME NEW fs, NEW n \in Nat
    PROVE  \E f : JoinsTo(fs, f, n)
<1> DEFINE T == {i \in Nat : ~ \E f : JoinsTo(fs, f, i)}
<1> SUFFICES ASSUME T # {} PROVE FALSE
  OBVIOUS
<1>1. PICK m \in T : \A k \in T : m <= k
  BY LeastNat
<1>2. m # 0
  <2>1. JoinsTo(fs, [i \in 0..0 |-> <<>>], 0)
    BY DEF JoinsTo
  <2> QED BY <2>1
<1>3. m \in Nat /\ m - 1 \in Nat /\ m - 1 \notin T
  BY <1>1, <1>2
<1>4. PICK f : JoinsTo(fs, f, m - 1)
  BY <1>3
<1>5. PICK last : last = f[m - 1] \o encode(fs[m])
  OBVIOUS
<1> DEFINE g == [i \in 0..m |-> IF i = m THEN last ELSE f[i]]
<1>6. /\ \A i \in 0..(m - 1) : g[i] = f[i]
      /\ g[m] = last
      /\ g = [i \in 0..m |-> g[i]]
  BY <1>3
<1> HIDE DEF g
<1>7. /\ \A i \in 0..(m - 1) : g[i] = f[i]
      /\ g[m] = f[m - 1] \o encode(fs[m])
      /\ g = [i \in 0..m |-> g[i]]
  BY <1>5, <1>6
<1>8. \A i \in 0..(m - 1) : f[i] = IF i = 0 THEN <<>> ELSE f[i - 1] \o encode(fs[i])
  BY <1>4 DEF JoinsTo
<1>9. ASSUME NEW i \in 0..m
      PROVE  g[i] = IF i = 0 THEN <<>> ELSE g[i - 1] \o encode(fs[i])
  <2>1. i # 0 => i - 1 \in 0..(m - 1)
    BY <1>3
  <2>2. i # 0 => g[i - 1] = f[i - 1]
    BY <1>7, <2>1
  <2>3. CASE i = m
    BY <1>2, <1>7, <2>2, <2>3
  <2>4. CASE i # m
    <3>1. i \in 0..(m - 1)
      BY <1>3, <2>4
    <3> QED BY <1>7, <1>8, <2>2, <3>1
  <2> QED BY <2>3, <2>4
<1>10. JoinsTo(fs, g, m)
  BY <1>7, <1>9 DEF JoinsTo
<1> QED BY <1>1, <1>10

\* What that says of each frame.
LEMMA StreamsNext ==
    ASSUME NEW fs \in Seq(Frames)
    PROVE  /\ Len(fs) \in Nat
           /\ Streams(fs)[0] = <<>>
           /\ \A i \in 0..Len(fs) : Streams(fs)[i] \in Seq(Nat)
           /\ \A i \in 1..Len(fs) :
                 /\ fs[i] \in Frames
                 /\ IsJoined(Streams(fs)[i - 1], encode(fs[i]), Streams(fs)[i])
<1>1. Len(fs) \in Nat /\ \A i \in 1..Len(fs) : fs[i] \in Frames
  OBVIOUS
<1>2. PICK n : n = Len(fs)
  OBVIOUS
<1>3. PICK f : f = Streams(fs)
  OBVIOUS
<1>4. JoinsTo(fs, f, n)
  <2>1. \E g : JoinsTo(fs, g, n)
    BY <1>1, <1>2, JoinExists
  <2> QED BY <1>2, <1>3, <2>1 DEF JoinsTo, Streams
<1>5. f[0] = <<>> /\ \A i \in 1..n : f[i] = f[i - 1] \o encode(fs[i])
  BY <1>1, <1>2, <1>4 DEF JoinsTo
<1>6. \A i \in 1..n : encode(fs[i]) \in Seq(Nat)
  BY <1>1, <1>2, FrameBytes
<1> DEFINE T == {i \in 0..n : f[i] \notin Seq(Nat)}
<1>7. T = {}
  <2> SUFFICES ASSUME T # {} PROVE FALSE
    OBVIOUS
  <2>0. T \subseteq Nat
    BY <1>1, <1>2
  <2>1. PICK m \in T : \A k \in T : m <= k
    <3> HIDE DEF T
    <3> QED BY <2>0, LeastNat
  <2>2. m \in 1..n
    <3>1. f[0] \in Seq(Nat)
      BY <1>5
    <3> QED BY <1>1, <1>2, <3>1
  <2>3. m - 1 \in 0..n /\ m - 1 \notin T
    BY <1>1, <1>2, <2>1, <2>2
  <2>4. f[m - 1] \in Seq(Nat)
    BY <2>3
  <2>5. IsJoined(f[m - 1], encode(fs[m]), f[m - 1] \o encode(fs[m]))
    BY <1>6, <2>2, <2>4, Joined
  <2> QED BY <1>5, <2>2, <2>5 DEF IsJoined
<1>8. \A i \in 0..n : f[i] \in Seq(Nat)
  BY <1>7
<1>9. ASSUME NEW i \in 1..n PROVE IsJoined(f[i - 1], encode(fs[i]), f[i])
  <2>1. i - 1 \in 0..n
    BY <1>1, <1>2
  <2>2. IsJoined(f[i - 1], encode(fs[i]), f[i - 1] \o encode(fs[i]))
    BY <1>6, <1>8, <2>1, Joined
  <2> QED BY <1>5, <2>2
<1> QED BY <1>1, <1>2, <1>3, <1>5, <1>8, <1>9

\* What has been joined stays where it is.
Extends(s, t) ==
    Len(s) <= Len(t) /\ \A i \in 1..Len(s) : t[i] = s[i]

\* What begins with s still does with more behind it.
LEMMA ExtendsOn ==
    ASSUME NEW s, NEW t, NEW e, NEW v, Len(s) \in Nat, Extends(s, t), IsJoined(t, e, v)
    PROVE  Extends(s, v)
<1>1. /\ Len(s) <= Len(t) /\ \A i \in 1..Len(s) : t[i] = s[i]
      /\ Len(t) \in Nat /\ Len(e) \in Nat /\ Len(v) = Len(t) + Len(e)
      /\ \A i \in 1..Len(t) : v[i] = t[i]
  BY Zenon DEF Extends, IsJoined
<1>2. Len(s) <= Len(v) /\ \A i \in 1..Len(s) : i \in 1..Len(t)
  BY <1>1
<1> QED BY <1>1, <1>2, Zenon DEF Extends

\* The stream of some frames begins with the stream of fewer.
LEMMA StreamsExtend ==
    ASSUME NEW fs \in Seq(Frames), NEW k \in 0..Len(fs)
    PROVE  \A n \in 0..Len(fs) : k <= n => Extends(Streams(fs)[k], Streams(fs)[n])
<1>1. PICK f, L : f = Streams(fs) /\ L = Len(fs)
  OBVIOUS
<1>2. /\ L \in Nat /\ k \in 0..L
      /\ \A i \in 0..L : f[i] \in Seq(Nat)
      /\ \A i \in 1..L : IsJoined(f[i - 1], encode(fs[i]), f[i])
  BY <1>1, StreamsNext
<1>3. \A i \in 0..L : Len(f[i]) \in Nat
  BY <1>2
<1> DEFINE T == {n \in 0..L : k <= n /\ ~Extends(f[k], f[n])}
<1>4. T = {}
  <2> SUFFICES ASSUME T # {} PROVE FALSE
    OBVIOUS
  <2>0. T \subseteq Nat
    BY <1>2
  <2>1. PICK m \in T : \A j \in T : m <= j
    <3> HIDE DEF T
    <3> QED BY <2>0, LeastNat
  <2>2. m # k
    <3>1. Extends(f[k], f[k])
      BY <1>2, <1>3 DEF Extends
    <3> QED BY <2>1, <3>1
  <2>3. m \in 1..L /\ m - 1 \in 0..L /\ k <= m - 1 /\ m - 1 \notin T
    BY <1>2, <2>1, <2>2
  <2>4. Extends(f[k], f[m - 1])
    BY <2>3
  <2>5. IsJoined(f[m - 1], encode(fs[m]), f[m])
    BY <1>2, <2>3
  <2>6. Len(f[k]) \in Nat /\ Len(f[m - 1]) \in Nat
    BY <1>2, <1>3, <2>3
  <2>7. Extends(f[k], f[m])
    BY <2>4, <2>5, <2>6, ExtendsOn
  <2> QED BY <2>1, <2>7
<1> QED BY <1>1, <1>2, <1>4

\* What a peer may have written.
Legal(s) ==
    /\ s.frames \in Seq(Frames)
    /\ s.tail.bytes \in Seq(Nat) /\ s.tail.is = TailIs(s.tail.bytes)
    /\ \/ Len(s.tail.bytes) < HEADER_SIZE
       \/ Judge(s.tail.bytes) # "Good"
       \/ Len(s.tail.bytes) < Total(s.tail.bytes)

\* The stream holds the bytes of part behind its first at bytes.
Holds(w, at, part) ==
    /\ at + Len(part) <= Len(w)
    /\ \A i \in 1..Len(part) : w[at + i] = part[i]

\* Where the k-th frame ends.
EndOf(s, k) == Len(Streams(s.frames)[k])

\* Where each frame is on the stream, and the tail.
LEMMA StreamParts ==
    ASSUME NEW s, Legal(s)
    PROVE  /\ Written(s) \in Seq(Nat)
           /\ EndOf(s, 0) = 0
           /\ \A k \in 0..Len(s.frames) : EndOf(s, k) \in Nat
           /\ \A k, n \in 0..Len(s.frames) : k <= n => EndOf(s, k) <= EndOf(s, n)
           /\ \A k \in 1..Len(s.frames) :
                 /\ EndOf(s, k) = EndOf(s, k - 1) + Len(encode(s.frames[k]))
                 /\ Holds(Written(s), EndOf(s, k - 1), encode(s.frames[k]))
           /\ Len(Written(s)) = EndOf(s, Len(s.frames)) + Len(s.tail.bytes)
           /\ Holds(Written(s), EndOf(s, Len(s.frames)), s.tail.bytes)
<1>1. PICK fs, b, w, f, L : /\ fs = s.frames /\ b = s.tail.bytes /\ w = Written(s)
                            /\ f = Streams(fs) /\ L = Len(fs)
  OBVIOUS
<1>2. fs \in Seq(Frames) /\ b \in Seq(Nat)
  BY <1>1 DEF Legal
<1>3. /\ L \in Nat /\ f[0] = <<>>
      /\ \A i \in 0..L : f[i] \in Seq(Nat)
      /\ \A i \in 1..L : fs[i] \in Frames /\ IsJoined(f[i - 1], encode(fs[i]), f[i])
  BY <1>1, <1>2, StreamsNext
<1>4. \A i \in 0..L : Len(f[i]) \in Nat
  BY <1>3
<1>5. \A k, n \in 0..L : k <= n => Extends(f[k], f[n])
  BY <1>1, <1>2, StreamsExtend
<1>6. L \in 0..L /\ f[L] \in Seq(Nat) /\ Len(f[L]) \in Nat
  BY <1>3, <1>4
<1>7. IsJoined(f[L], b, w)
  <2>1. w = f[L] \o b
    BY <1>1 DEF Written
  <2> QED BY <1>2, <1>6, <2>1, Joined
<1>8. ASSUME NEW k \in 1..L
      PROVE  /\ Len(f[k]) = Len(f[k - 1]) + Len(encode(fs[k]))
             /\ Holds(w, Len(f[k - 1]), encode(fs[k]))
  <2>1. PICK e, at : e = encode(fs[k]) /\ at = Len(f[k - 1])
    OBVIOUS
  <2>2. IsJoined(f[k - 1], e, f[k])
    BY <1>3, <2>1
  <2>3. Len(f[k]) = at + Len(e) /\ at \in Nat /\ Len(e) \in Nat
    BY <2>1, <2>2 DEF IsJoined
  <2>4. Extends(f[k], f[L])
    <3>1. k \in 0..L /\ k <= L
      BY <1>3
    <3> QED BY <1>5, <1>6, <3>1
  <2>5. at + Len(e) <= Len(w)
    BY <1>6, <1>7, <2>3, <2>4 DEF IsJoined, Extends
  <2>6. ASSUME NEW i \in 1..Len(e) PROVE w[at + i] = e[i]
    <3>1. at + i \in 1..Len(f[k])
      BY <2>3
    <3>2. at + i \in 1..Len(f[L])
      BY <1>6, <2>3, <2>4, <3>1 DEF Extends
    <3>3. f[k][at + i] = e[i]
      BY <2>1, <2>2 DEF IsJoined
    <3>4. f[L][at + i] = f[k][at + i]
      BY <2>4, <3>1 DEF Extends
    <3>5. w[at + i] = f[L][at + i]
      BY <1>7, <3>2 DEF IsJoined
    <3> QED BY <3>3, <3>4, <3>5
  <2> QED BY <2>1, <2>3, <2>5, <2>6 DEF Holds
<1>9. Len(w) = Len(f[L]) + Len(b) /\ Holds(w, Len(f[L]), b) /\ w \in Seq(Nat)
  BY <1>7 DEF IsJoined, Holds
<1>10. \A k \in 0..L : EndOf(s, k) = Len(f[k])
  BY <1>1 DEF EndOf
<1>11. EndOf(s, 0) = 0
  BY <1>3, <1>10
<1>12. \A k, n \in 0..L : k <= n => EndOf(s, k) <= EndOf(s, n)
  BY <1>5, <1>10 DEF Extends
<1>13. \A k \in 1..L : k - 1 \in 0..L /\ k \in 0..L
  BY <1>3
<1>14. \A k \in 1..L :
          /\ EndOf(s, k) = EndOf(s, k - 1) + Len(encode(fs[k]))
          /\ Holds(w, EndOf(s, k - 1), encode(fs[k]))
  BY <1>8, <1>10, <1>13
<1>15. \A k \in 0..L : EndOf(s, k) \in Nat
  BY <1>4, <1>10
<1>16. Len(w) = EndOf(s, L) + Len(b) /\ Holds(w, EndOf(s, L), b)
  BY <1>6, <1>9, <1>10
<1> QED BY <1>1, <1>9, <1>11, <1>12, <1>14, <1>15, <1>16

\* What the decoder holds and what has not been read are the stream behind the
\* k-th frame.
Flow(s, b, u, k) ==
    /\ b \in Seq(Nat) /\ u \in Seq(Nat)
    /\ Len(Written(s)) = EndOf(s, k) + (Len(b) + Len(u))
    /\ Holds(Written(s), EndOf(s, k), b)
    /\ Holds(Written(s), EndOf(s, k) + Len(b), u)

\* No whole frame is there, and the header is not one to refuse.
Short(b) ==
    Len(b) < HEADER_SIZE \/ (Judge(b) = "Good" /\ Len(b) < Total(b))

\* The buffer starts with the next frame, as far as it goes.
LEMMA FrameAhead ==
    ASSUME NEW s, NEW b, NEW u, NEW k \in Nat, Legal(s), Flow(s, b, u, k), k < Len(s.frames)
    PROVE  LET e == encode(s.frames[k + 1]) IN
           /\ s.frames[k + 1] \in Frames /\ e \in Seq(Nat) /\ Len(e) >= HEADER_SIZE
           /\ Len(e) <= Len(b) + Len(u)
           /\ EndOf(s, k + 1) = EndOf(s, k) + Len(e)
           /\ Len(b) >= HEADER_SIZE => Judge(b) = "Good" /\ Total(b) = Len(e)
           /\ Len(b) >= Len(e) => decode(b) = s.frames[k + 1]
<1>1. PICK f, e, w, at : /\ f = s.frames[k + 1] /\ e = encode(f)
                         /\ w = Written(s) /\ at = EndOf(s, k)
  OBVIOUS
<1>2. s.frames \in Seq(Frames) /\ Len(s.frames) \in Nat
  BY DEF Legal
<1>3. k + 1 \in 1..Len(s.frames) /\ (k + 1) - 1 = k /\ k \in 0..Len(s.frames)
  BY <1>2
<1>4. f \in Frames
  BY <1>1, <1>2, <1>3
<1>5. EndOf(s, k + 1) = at + Len(e) /\ Holds(w, at, e) /\ at \in Nat /\ w \in Seq(Nat)
  BY <1>1, <1>3, StreamParts
<1>6. /\ e \in Seq(Nat) /\ Len(e) \in Nat /\ Len(e) >= 6
      /\ Judge(e) = "Good" /\ Total(e) = Len(e)
  BY <1>1, <1>4, FrameBytes DEF HEADER_SIZE
<1>7. /\ b \in Seq(Nat) /\ u \in Seq(Nat) /\ Len(b) \in Nat /\ Len(u) \in Nat
      /\ Len(w) = at + (Len(b) + Len(u)) /\ Holds(w, at, b)
  BY <1>1 DEF Flow
<1>8. Len(e) <= Len(b) + Len(u)
  BY <1>5, <1>6, <1>7 DEF Holds
<1>9. \A i \in 1..Len(b) : i \in 1..Len(e) => b[i] = e[i]
  BY <1>5, <1>7 DEF Holds
<1>10. ASSUME Len(b) >= 6 PROVE Judge(b) = "Good" /\ Total(b) = Len(e)
  <2>1. \A i \in 1..6 : i \in 1..Len(b) /\ i \in 1..Len(e)
    BY <1>6, <1>7, <1>10
  <2>2. \A i \in 1..6 : b[i] = e[i]
    BY <1>9, <2>1
  <2>3. Judge(b) = Judge(e) /\ Total(b) = Total(e)
    BY <1>6, <1>7, <1>10, <2>2, SameHeader DEF HEADER_SIZE
  <2> QED BY <1>6, <2>3
<1>11. ASSUME Len(b) >= Len(e) PROVE decode(b) = f
  <2>1. \A i \in 1..Len(e) : b[i] = e[i]
    BY <1>6, <1>7, <1>9, <1>11
  <2> QED BY <1>1, <1>4, <1>7, <1>11, <2>1, FrameDecoded
<1> QED BY <1>1, <1>4, <1>5, <1>6, <1>8, <1>10, <1>11 DEF HEADER_SIZE

\* Behind the last frame the buffer holds the tail, as far as it goes.
LEMMA TailAhead ==
    ASSUME NEW s, NEW b, NEW u, Legal(s), Flow(s, b, u, Len(s.frames))
    PROVE  /\ Len(b) + Len(u) = Len(s.tail.bytes)
           /\ Len(b) >= HEADER_SIZE => /\ Judge(b) = Judge(s.tail.bytes)
                                       /\ Total(b) = Total(s.tail.bytes)
<1>1. PICK t, w, at, k : /\ t = s.tail.bytes /\ w = Written(s)
                         /\ k = Len(s.frames) /\ at = EndOf(s, k)
  OBVIOUS
<1>2. s.frames \in Seq(Frames) /\ k \in Nat /\ t \in Seq(Nat) /\ Len(t) \in Nat
  BY <1>1 DEF Legal
<1>3. k \in 0..k
  BY <1>2
<1>4. Len(w) = at + Len(t) /\ Holds(w, at, t) /\ at \in Nat
  BY <1>1, <1>3, StreamParts
<1>5. /\ b \in Seq(Nat) /\ u \in Seq(Nat) /\ Len(b) \in Nat /\ Len(u) \in Nat
      /\ Len(w) = at + (Len(b) + Len(u)) /\ Holds(w, at, b)
  BY <1>1 DEF Flow
<1>6. Len(b) + Len(u) = Len(t)
  BY <1>2, <1>4, <1>5
<1>7. ASSUME Len(b) >= 6 PROVE Judge(b) = Judge(t) /\ Total(b) = Total(t)
  <2>1. \A i \in 1..6 : i \in 1..Len(b) /\ i \in 1..Len(t)
    BY <1>2, <1>5, <1>6, <1>7
  <2>2. \A i \in 1..6 : b[i] = t[i]
    BY <1>4, <1>5, <2>1 DEF Holds
  <2>3. Len(t) >= 6
    BY <1>5, <1>6, <1>7
  <2> QED BY <1>2, <1>5, <1>7, <2>2, <2>3, SameHeader DEF HEADER_SIZE
<1> QED BY <1>1, <1>6, <1>7 DEF HEADER_SIZE

\* The verdicts.
LEMMA Verdicts ==
    ASSUME NEW b
    PROVE  /\ Judge(b) \in {"Good", "Malformed", "UnsupportedVersion"}
           /\ Judge(b) = "Good" =>
                 /\ b[2] \in DOMAIN MAX_PAYLOAD
                 /\ LengthOf(SubSeq(b, 3, 6)) <= MAX_PAYLOAD[b[2]]
  BY DEF Judge, check_length

\* The frames handed on are the first ones sent, and what is held and not read
\* is the stream behind them.
WireInv ==
    /\ Legal(sent) /\ frames \in Seq(Frames) /\ Len(frames) <= Len(sent.frames)
    /\ \A i \in 1..Len(frames) : frames[i] = sent.frames[i]
    /\ Flow(sent, buffer, unread, Len(frames))
    /\ decoder = "Connect" => frames = <<>> /\ buffer = <<>>
    /\ decoder \in {"Read", "End"} => Short(buffer)
    /\ decoder = "End" => unread = <<>>
    /\ decoder \in {"UnsupportedVersion", "Malformed"} =>
          Len(frames) = Len(sent.frames) /\ decoder = sent.tail.is

\* Before anything has been read.
LEMMA Unread ==
    ASSUME NEW s, Legal(s)
    PROVE  Flow(s, <<>>, Written(s), 0) /\ Short(<<>>)
<1>1. Written(s) \in Seq(Nat) /\ EndOf(s, 0) = 0
  BY StreamParts
<1>2. <<>> \in Seq(Nat) /\ Len(<<>>) = 0
  OBVIOUS
<1>3. Short(<<>>)
  BY <1>2 DEF Short, HEADER_SIZE
<1>4. Holds(Written(s), 0, <<>>) /\ Holds(Written(s), 0, Written(s))
  BY <1>1, <1>2 DEF Holds
<1> QED BY <1>1, <1>2, <1>3, <1>4 DEF Flow

\* Before the connection nothing is written and nothing buffered.
LEMMA WireInitial == WireInit => WireInv
<1> SUFFICES ASSUME WireInit PROVE WireInv
  OBVIOUS
<1>1. /\ Silence.frames = <<>> /\ Silence.tail.bytes = <<>> /\ Silence.tail.is = "Part"
  BY DEF Silence
<1>2. /\ <<>> \in Seq(Frames) /\ <<>> \in Seq(Nat) /\ Len(<<>>) = 0
  OBVIOUS
<1>3. Legal(Silence)
  BY <1>1, <1>2 DEF Legal, TailIs, HEADER_SIZE
<1>4. Written(Silence) = <<>>
  <2>1. Streams(<<>>)[0] = <<>>
    BY <1>2, StreamsNext
  <2>2. <<>> \o <<>> = <<>>
    OBVIOUS
  <2> QED BY <1>1, <1>2, <2>1, <2>2 DEF Written
<1>5. Flow(Silence, <<>>, <<>>, 0)
  BY <1>3, <1>4, Unread
<1> QED BY <1>1, <1>2, <1>3, <1>5 DEF WireInit, WireInv

\* A read moves bytes from the stream to the buffer.
LEMMA ReadMoves ==
    ASSUME NEW s, Legal(s), NEW b, NEW u, NEW k \in 0..Len(s.frames), Flow(s, b, u, k),
           NEW n \in 1..Len(u)
    PROVE  Flow(s, b \o SubSeq(u, 1, n), SubSeq(u, n + 1, Len(u)), k)
<1>1. PICK w, at, p, q, c : /\ w = Written(s) /\ at = EndOf(s, k)
                            /\ p = SubSeq(u, 1, n) /\ q = SubSeq(u, n + 1, Len(u))
                            /\ c = b \o p
  OBVIOUS
<1>2. /\ b \in Seq(Nat) /\ u \in Seq(Nat) /\ Len(w) = at + (Len(b) + Len(u))
      /\ Holds(w, at, b) /\ Holds(w, at + Len(b), u)
  BY <1>1 DEF Flow
<1>3. at \in Nat /\ Len(b) \in Nat /\ Len(u) \in Nat /\ n \in Nat /\ n <= Len(u) /\ 0 \in Nat
      /\ Len(u) - n \in Nat /\ 0 + n <= Len(u) /\ n + (Len(u) - n) <= Len(u)
      /\ n + (Len(u) - n) = Len(u) /\ 0 + n = n /\ 0 + 1 = 1
  <2>1. at \in Nat
    BY <1>1, StreamParts
  <2>2. Len(b) \in Nat /\ Len(u) \in Nat
    BY <1>2
  <2> QED BY <2>1, <2>2
<1>4. IsSlice(u, 0, n, p)
  <2>1. IsSlice(u, 0, n, SubSeq(u, 0 + 1, 0 + n))
    BY <1>2, <1>3, SliceOf, Zenon
  <2> QED BY <1>1, <1>3, <2>1
<1>5. IsSlice(u, n, Len(u) - n, q)
  <2>1. IsSlice(u, n, Len(u) - n, SubSeq(u, n + 1, n + (Len(u) - n)))
    BY <1>2, <1>3, SliceOf, Zenon
  <2> QED BY <1>1, <1>3, <2>1
<1>6. p \in Seq(Nat) /\ Len(p) = n /\ \A i \in 1..n : p[i] = u[i]
  BY <1>3, <1>4 DEF IsSlice
<1>7. q \in Seq(Nat) /\ Len(q) = Len(u) - n /\ \A i \in 1..Len(q) : q[i] = u[n + i]
  BY <1>3, <1>5 DEF IsSlice
<1>8. IsJoined(b, p, c)
  BY <1>1, <1>2, <1>6, Joined
<1>9. /\ c \in Seq(Nat) /\ Len(c) = Len(b) + n
      /\ \A i \in 1..Len(b) : c[i] = b[i]
      /\ \A i \in 1..n : c[Len(b) + i] = p[i]
  BY <1>6, <1>8 DEF IsJoined
<1>10. /\ \A i \in 1..Len(b) : w[at + i] = b[i]
       /\ \A i \in 1..Len(u) : w[(at + Len(b)) + i] = u[i]
  BY <1>2 DEF Holds
<1>11. ASSUME NEW i \in 1..Len(c) PROVE w[at + i] = c[i]
  <2>1. CASE i <= Len(b)
    <3>1. i \in 1..Len(b)
      BY <1>3, <1>9, <2>1
    <3> QED BY <1>9, <1>10, <3>1, Zenon
  <2>2. CASE i > Len(b)
    <3>1. PICK j : j = i - Len(b)
      OBVIOUS
    <3>2. j \in 1..n /\ j \in 1..Len(u) /\ i = Len(b) + j /\ at + i = (at + Len(b)) + j
      BY <1>3, <1>9, <2>2, <3>1
    <3>3. c[i] = p[j] /\ p[j] = u[j]
      BY <1>6, <1>9, <3>2
    <3>4. w[(at + Len(b)) + j] = u[j]
      BY <1>10, <3>2
    <3> QED BY <3>2, <3>3, <3>4
  <2> QED BY <1>3, <1>9, <2>1, <2>2
<1>12. ASSUME NEW i \in 1..Len(q) PROVE w[(at + Len(c)) + i] = q[i]
  <2>1. n + i \in 1..Len(u) /\ (at + Len(c)) + i = (at + Len(b)) + (n + i)
    <3>1. i \in Nat /\ i >= 1 /\ i <= Len(u) - n
      BY <1>3, <1>7
    <3>2. Len(c) = Len(b) + n
      BY <1>9, Zenon
    <3>3. /\ at \in Nat /\ Len(b) \in Nat /\ Len(u) \in Nat
          /\ n \in Nat /\ n <= Len(u)
      BY <1>3
    <3> QED BY <3>1, <3>2, <3>3
  <2> QED BY <1>7, <1>10, <2>1
<1>13. Len(w) = at + (Len(c) + Len(q))
  BY <1>2, <1>3, <1>7, <1>9
<1>14. Holds(w, at, c) /\ Holds(w, at + Len(c), q)
  <2>1. Len(c) \in Nat /\ Len(q) \in Nat
    BY <1>3, <1>7, <1>9
  <2>2. at + Len(c) <= Len(w) /\ (at + Len(c)) + Len(q) <= Len(w)
    BY <1>3, <1>13, <2>1
  <2> QED BY <1>11, <1>12, <2>2, Zenon DEF Holds
<1> QED BY <1>1, <1>7, <1>9, <1>13, <1>14 DEF Flow

\* Taking a frame leaves the stream behind it.
LEMMA TakeMoves ==
    ASSUME NEW s, Legal(s), NEW b, NEW u, NEW k \in Nat, k < Len(s.frames), Flow(s, b, u, k),
           NEW n \in Nat, n = Len(encode(s.frames[k + 1])), n <= Len(b)
    PROVE  Flow(s, SubSeq(b, n + 1, Len(b)), u, k + 1)
<1>1. PICK w, at, c : w = Written(s) /\ at = EndOf(s, k) /\ c = SubSeq(b, n + 1, Len(b))
  OBVIOUS
<1>2. /\ b \in Seq(Nat) /\ u \in Seq(Nat) /\ Len(w) = at + (Len(b) + Len(u))
      /\ Holds(w, at, b) /\ Holds(w, at + Len(b), u)
  BY <1>1 DEF Flow
<1>3. EndOf(s, k + 1) = at + n
  BY <1>1, FrameAhead
<1>4. at \in Nat
  <2>1. Len(s.frames) \in Nat
    BY DEF Legal
  <2>2. k \in 0..Len(s.frames)
    BY <2>1
  <2> QED BY <1>1, <2>2, StreamParts
<1>5. /\ Len(b) \in Nat /\ Len(u) \in Nat /\ Len(b) - n \in Nat
      /\ n + (Len(b) - n) = Len(b) /\ n + (Len(b) - n) <= Len(b)
  BY <1>2
<1>6. IsSlice(b, n, Len(b) - n, c)
  <2>1. IsSlice(b, n, Len(b) - n, SubSeq(b, n + 1, n + (Len(b) - n)))
    BY <1>2, <1>5, SliceOf, Zenon
  <2> QED BY <1>1, <1>5, <2>1
<1>7. c \in Seq(Nat) /\ Len(c) = Len(b) - n /\ \A i \in 1..Len(c) : c[i] = b[n + i]
  BY <1>6 DEF IsSlice
<1>8. ASSUME NEW i \in 1..Len(c) PROVE w[(at + n) + i] = c[i]
  <2>1. n + i \in 1..Len(b) /\ (at + n) + i = at + (n + i)
    BY <1>4, <1>5, <1>7
  <2>2. w[at + (n + i)] = b[n + i]
    BY <1>2, <2>1 DEF Holds
  <2> QED BY <1>7, <2>1, <2>2
<1>9. /\ (at + n) + Len(c) = at + Len(b) /\ (at + n) + Len(c) <= Len(w)
      /\ Len(w) = (at + n) + (Len(c) + Len(u))
  BY <1>2, <1>4, <1>5, <1>7
<1>10. Holds(w, at + n, c)
  BY <1>8, <1>9 DEF Holds
<1>11. Holds(w, (at + n) + Len(c), u)
  BY <1>2, <1>9
<1> QED BY <1>1, <1>2, <1>3, <1>7, <1>9, <1>10, <1>11 DEF Flow

\* A complete frame in the buffer is the next one that was sent.
LEMMA TakeStep ==
    ASSUME WireInv, decoder = "Drain", Len(buffer) >= HEADER_SIZE, Judge(buffer) = "Good",
           ~ (Len(buffer) < Total(buffer)), Take
    PROVE  WireInv'
<1>1. PICK k, n, b : k = Len(frames) /\ n = Len(sent.frames) /\ b = buffer
  OBVIOUS
<1>2. /\ Legal(sent) /\ frames \in Seq(Frames) /\ k <= n /\ Flow(sent, b, unread, k)
      /\ \A i \in 1..k : frames[i] = sent.frames[i]
  BY <1>1 DEF WireInv
<1>3. k \in Nat /\ n \in Nat /\ b \in Seq(Nat) /\ Len(b) \in Nat /\ unread \in Seq(Nat)
      /\ Len(unread) \in Nat
  BY <1>1, <1>2 DEF Legal, Flow
<1>4. Total(b) \in Nat /\ Total(b) <= Len(b)
  <2>1. Total(b) \in Nat
    BY <1>1, <1>3, HeaderOnly
  <2> QED BY <1>1, <1>3, <2>1
<1>5. k < n
  <2> SUFFICES ASSUME k = n PROVE FALSE
    BY <1>2, <1>3
  <2>1. PICK t : t = sent.tail.bytes
    OBVIOUS
  <2>2. /\ Len(b) + Len(unread) = Len(t) /\ Judge(b) = Judge(t) /\ Total(b) = Total(t)
    BY <1>1, <1>2, <2>1, TailAhead
  <2>3. Len(t) < HEADER_SIZE \/ Len(t) < Total(t)
    BY <1>1, <1>2, <2>1, <2>2 DEF Legal
  <2>4. Len(b) >= 6 /\ Len(t) \in Nat
    BY <1>1, <1>3, <2>2 DEF HEADER_SIZE
  <2> QED BY <1>3, <1>4, <2>2, <2>3, <2>4 DEF HEADER_SIZE
<1>6. PICK f : f = sent.frames[k + 1]
  OBVIOUS
<1>7. /\ f \in Frames /\ Total(b) = Len(encode(f)) /\ decode(b) = f
  <2>1. /\ f \in Frames /\ Total(b) = Len(encode(f))
        /\ Len(b) >= Len(encode(f)) => decode(b) = f
    BY <1>1, <1>2, <1>3, <1>5, <1>6, FrameAhead
  <2> QED BY <1>3, <1>4, <2>1
<1>8. PICK c : c = SubSeq(b, Total(b) + 1, Len(b))
  OBVIOUS
<1>9. Flow(sent, c, unread, k + 1)
  <2>1. PICK m : m = Total(b)
    OBVIOUS
  <2>2. m \in Nat /\ m <= Len(b) /\ m = Len(encode(sent.frames[k + 1]))
    BY <1>4, <1>6, <1>7, <2>1
  <2>3. k < Len(sent.frames)
    BY <1>1, <1>5
  <2> QED BY <1>2, <1>3, <1>8, <2>1, <2>2, <2>3, TakeMoves
<1>10. /\ frames' = Append(frames, f) /\ buffer' = c
       /\ UNCHANGED <<sent, unread, decoder>>
  BY <1>1, <1>7, <1>8 DEF Take
<1>11. /\ frames' \in Seq(Frames) /\ Len(frames') = k + 1
       /\ \A i \in 1..k : frames'[i] = frames[i]
       /\ frames'[k + 1] = f
  BY <1>1, <1>2, <1>7, <1>10
<1>12. \A i \in 1..(k + 1) : frames'[i] = sent.frames[i]
  <2> TAKE i \in 1..(k + 1)
  <2>1. CASE i = k + 1
    BY <1>6, <1>11, <2>1
  <2>2. CASE i # k + 1
    <3>1. i \in 1..k
      BY <1>3, <2>2
    <3> QED BY <1>2, <1>11, <3>1
  <2> QED BY <2>1, <2>2
<1>13. k + 1 <= n
  BY <1>3, <1>5
<1> QED BY <1>1, <1>2, <1>9, <1>10, <1>11, <1>12, <1>13 DEF WireInv

\* A header is only refused behind the last frame, and for what it is.
LEMMA RefuseStep ==
    ASSUME WireInv, decoder = "Drain", Len(buffer) >= HEADER_SIZE, Judge(buffer) # "Good",
           Refuse(Judge(buffer))
    PROVE  WireInv'
<1>1. PICK k, n, b : k = Len(frames) /\ n = Len(sent.frames) /\ b = buffer
  OBVIOUS
<1>2. Legal(sent) /\ frames \in Seq(Frames) /\ k <= n /\ Flow(sent, b, unread, k)
  BY <1>1 DEF WireInv
<1>3. k \in Nat /\ n \in Nat
  BY <1>1, <1>2 DEF Legal
<1>4. k = n
  <2> SUFFICES ASSUME k < n PROVE FALSE
    BY <1>2, <1>3
  <2> QED BY <1>1, <1>2, <1>3, FrameAhead
<1>5. Judge(b) = sent.tail.is
  <2>1. PICK t : t = sent.tail.bytes
    OBVIOUS
  <2>2. Len(b) + Len(unread) = Len(t) /\ Judge(b) = Judge(t)
    BY <1>1, <1>2, <1>4, <2>1, TailAhead
  <2>3. Len(b) \in Nat /\ Len(unread) \in Nat
    BY <1>2 DEF Flow
  <2>4. ~ (Len(t) < HEADER_SIZE)
    BY <1>1, <2>2, <2>3 DEF HEADER_SIZE
  <2> QED BY <1>1, <1>2, <2>1, <2>2, <2>4 DEF Legal, TailIs
<1>6. Judge(b) \in {"Malformed", "UnsupportedVersion"}
  BY <1>1, Verdicts
<1>7. decoder' = Judge(b) /\ UNCHANGED <<sent, unread, buffer, frames>>
  BY <1>1 DEF Refuse
<1> QED BY <1>1, <1>4, <1>5, <1>6, <1>7 DEF WireInv

\* A sequence, by its entries.
LEMMA EntriesOf ==
    ASSUME NEW S, NEW s \in Seq(S)
    PROVE  Len(s) \in Nat /\ s = [i \in 1..Len(s) |-> s[i]] /\ \A i \in 1..Len(s) : s[i] \in S
  OBVIOUS

\* A function on 1..n is a sequence over the set that holds its values.
LEMMA ByEntries ==
    ASSUME NEW S, NEW s, Len(s) \in Nat, s = [i \in 1..Len(s) |-> s[i]],
           \A i \in 1..Len(s) : s[i] \in S
    PROVE  s \in Seq(S)
<1>1. s \in [1..Len(s) -> S]
  OBVIOUS
<1> QED BY <1>1

\* Frames within their limits.
LEMMA FramesAccepted ==
    ASSUME NEW fs \in Seq([type : DOMAIN MAX_PAYLOAD, payload : Seq(Nat)]),
           \A i \in 1..Len(fs) : check_length(fs[i].type, Len(fs[i].payload))
    PROVE  fs \in Seq(Frames)
<1> DEFINE R == [type : DOMAIN MAX_PAYLOAD, payload : Seq(Nat)]
<1>1. \A i \in 1..Len(fs) : fs[i] \in R => fs[i] \in Frames
  BY Zenon DEF Frames
<1> HIDE DEF R
<1>2. fs \in Seq(R)
  BY DEF R
<1>3. /\ Len(fs) \in Nat /\ fs = [i \in 1..Len(fs) |-> fs[i]]
      /\ \A i \in 1..Len(fs) : fs[i] \in R
  BY <1>2, EntriesOf, Zenon
<1>4. \A i \in 1..Len(fs) : fs[i] \in Frames
  BY <1>1, <1>3
<1>5. Len(fs) \in Nat /\ fs = [i \in 1..Len(fs) |-> fs[i]]
  BY <1>3
<1> QED BY <1>4, <1>5, ByEntries

\* Every step of the decoder keeps the invariant.
LEMMA WireStep == WireInv /\ [WireNext]_wireVars => WireInv'
<1> SUFFICES ASSUME WireInv, [WireNext]_wireVars PROVE WireInv'
  OBVIOUS
<1>1. CASE Connected
  <2>1. PICK s \in [frames : SENT, tail : TAILS] : sent' = s /\ unread' = Written(s)
    BY <1>1 DEF Connected
  <2>2. decoder = "Connect" /\ decoder' = "Read" /\ UNCHANGED <<buffer, frames>>
    BY <1>1 DEF Connected
  <2>3. Legal(s)
    <3>1. s.frames \in SENT /\ s.tail \in TAILS
      BY <2>1
    <3>2. s.frames \in Seq([type : DOMAIN MAX_PAYLOAD, payload : Seq(Nat)])
      BY <3>1, WireInputs
    <3>3. \A i \in 1..Len(s.frames) :
              check_length(s.frames[i].type, Len(s.frames[i].payload))
      BY <3>1, WireInputs
    <3>4. s.frames \in Seq(Frames)
      BY <3>2, <3>3, FramesAccepted
    <3> QED BY <3>1, <3>4, WireInputs DEF Legal
  <2>4. frames = <<>> /\ buffer = <<>>
    BY <2>2 DEF WireInv
  <2>5. Flow(s, <<>>, Written(s), 0) /\ Short(<<>>)
    BY <2>3, Unread
  <2>6. <<>> \in Seq(Frames) /\ Len(<<>>) = 0 /\ Len(s.frames) \in Nat
    BY <2>3 DEF Legal
  <2> QED BY <2>1, <2>2, <2>3, <2>4, <2>5, <2>6 DEF WireInv
<1>2. CASE ReadChunk
  <2>1. PICK n \in 1..Len(unread) :
            /\ buffer' = buffer \o SubSeq(unread, 1, n)
            /\ unread' = SubSeq(unread, n + 1, Len(unread))
    BY <1>2 DEF ReadChunk
  <2>2. decoder' = "Drain" /\ UNCHANGED <<sent, frames>>
    BY <1>2 DEF ReadChunk
  <2>3. Len(frames) \in 0..Len(sent.frames)
    BY DEF WireInv, Legal
  <2>4. Flow(sent, buffer', unread', Len(frames))
    BY <2>1, <2>3, ReadMoves DEF WireInv
  <2> QED BY <2>2, <2>4 DEF WireInv
<1>3. CASE ReadEnd
  BY <1>3 DEF ReadEnd, WireInv
<1>4. CASE NextFrame
  <2>1. decoder = "Drain"
    BY <1>4 DEF NextFrame
  <2>2. ASSUME Await, Short(buffer) PROVE WireInv'
    BY <2>2 DEF Await, WireInv
  <2>3. \/ Await /\ Short(buffer)
        \/ Len(buffer) >= HEADER_SIZE /\ Judge(buffer) # "Good" /\ Refuse(Judge(buffer))
        \/ /\ Len(buffer) >= HEADER_SIZE /\ Judge(buffer) = "Good"
           /\ ~ (Len(buffer) < Total(buffer)) /\ Take
    BY <1>4 DEF NextFrame, Short
  <2> QED BY <2>1, <2>2, <2>3, TakeStep, RefuseStep
<1>5. CASE UNCHANGED wireVars
  BY <1>5 DEF wireVars, WireInv
<1> QED BY <1>1, <1>2, <1>3, <1>4, <1>5 DEF WireNext

\* The invariant of the decoder.
LEMMA WireInvariant == WireSpec => []WireInv
<1>1. WireInit => WireInv
  BY WireInitial
<1>2. WireInv /\ [WireNext]_wireVars => WireInv'
  BY WireStep
<1> QED BY <1>1, <1>2, PTL DEF WireSpec

\* Sequences of frames that agree as far as the shorter one goes.
LEMMA FramesAgree ==
    ASSUME NEW s \in Seq(Frames), NEW t \in Seq(Frames), Len(s) <= Len(t),
           \A i \in 1..Len(s) : s[i] = t[i]
    PROVE  SubSeq(s, 1, Len(s)) = SubSeq(t, 1, Len(s))
  OBVIOUS

\* Two sequences of frames of one length with the same entries are one.
LEMMA WholeAgree ==
    ASSUME NEW s \in Seq(Frames), NEW t \in Seq(Frames), Len(s) = Len(t),
           \A i \in 1..Len(s) : s[i] = t[i]
    PROVE  s = t
  OBVIOUS

\* What the decoder has handed on, in terms of the stream.
LEMMA HandedOn == WireInv => FramesAsSent
<1> SUFFICES ASSUME WireInv PROVE FramesAsSent
  OBVIOUS
<1>1. PICK k, n, b, w : /\ k = Len(frames) /\ n = Len(sent.frames)
                        /\ b = buffer /\ w = Written(sent)
  OBVIOUS
<1>2. /\ Legal(sent) /\ frames \in Seq(Frames) /\ k <= n /\ Flow(sent, b, unread, k)
      /\ \A i \in 1..k : frames[i] = sent.frames[i]
      /\ sent.frames \in Seq(Frames) /\ k \in Nat /\ n \in Nat
  BY <1>1 DEF WireInv, Legal
<1>3. /\ Len(b) \in Nat /\ Len(unread) \in Nat
      /\ Len(w) = EndOf(sent, k) + (Len(b) + Len(unread))
  BY <1>1, <1>2 DEF Flow
<1>4. EndOf(sent, k) \in Nat
  <2>1. k \in 0..n
    BY <1>2
  <2> QED BY <1>1, <1>2, <2>1, StreamParts
<1>5. IsPrefix(frames, sent.frames)
  BY <1>1, <1>2, FramesAgree DEF IsPrefix
<1>6. ASSUME k < n, Short(b)
      PROVE  /\ Len(b) < Len(encode(sent.frames[k + 1]))
             /\ unread # <<>>
  <2>1. PICK e : e = encode(sent.frames[k + 1])
    OBVIOUS
  <2>2. /\ e \in Seq(Nat) /\ Len(e) >= HEADER_SIZE /\ Len(e) <= Len(b) + Len(unread)
        /\ Len(b) >= HEADER_SIZE => Total(b) = Len(e)
    BY <1>1, <1>2, <1>6, <2>1, FrameAhead
  <2>3. Len(e) \in Nat
    BY <2>2
  <2>4. Len(b) < Len(e)
    BY <1>3, <1>6, <2>2, <2>3 DEF Short, HEADER_SIZE
  <2>5. unread # <<>>
    <3> SUFFICES ASSUME unread = <<>> PROVE FALSE
      OBVIOUS
    <3>1. Len(unread) = 0
      OBVIOUS
    <3> QED BY <1>3, <2>2, <2>3, <2>4, <3>1
  <2> QED BY <2>1, <2>4, <2>5
<1>7. ASSUME decoder \in {"Read", "End"}, NEW m \in 1..n, Extent(m) <= Pushed
      PROVE  m <= k
  <2> SUFFICES ASSUME k < m PROVE FALSE
    BY <1>2
  <2>1. k < n /\ k + 1 \in 0..n /\ m \in 0..n /\ k + 1 <= m
    BY <1>2
  <2>2. Short(b)
    BY <1>1, <1>7 DEF WireInv
  <2>3. PICK e : e = encode(sent.frames[k + 1])
    OBVIOUS
  <2>4. EndOf(sent, k + 1) = EndOf(sent, k) + Len(e) /\ e \in Seq(Nat)
    BY <1>1, <1>2, <2>1, <2>3, FrameAhead
  <2>5. EndOf(sent, k + 1) <= EndOf(sent, m) /\ EndOf(sent, m) \in Nat
    BY <1>1, <1>2, <2>1, StreamParts
  <2>6. Len(b) < Len(e) /\ Len(e) \in Nat
    BY <1>6, <2>1, <2>2, <2>3, <2>4
  <2>7. Extent(m) = EndOf(sent, m) /\ Pushed = Len(w) - Len(unread)
    BY <1>1 DEF Extent, EndOf, Pushed
  <2>8. Pushed = EndOf(sent, k) + Len(b)
    BY <1>3, <1>4, <2>7
  <2> QED BY <1>3, <1>4, <1>7, <2>4, <2>5, <2>6, <2>7, <2>8
<1>8. ASSUME decoder \in {"UnsupportedVersion", "Malformed"}
      PROVE  frames = sent.frames /\ decoder = sent.tail.is
  BY <1>1, <1>2, <1>8, WholeAgree DEF WireInv
<1>9. ASSUME decoder = "End" PROVE sent.tail.is = "Part"
  <2>1. Short(b) /\ unread = <<>>
    BY <1>1, <1>9 DEF WireInv
  <2>2. k = n
    BY <1>2, <1>6, <2>1
  <2>3. PICK t : t = sent.tail.bytes
    OBVIOUS
  <2>4. /\ Len(b) + Len(unread) = Len(t)
        /\ Len(b) >= HEADER_SIZE => Judge(b) = Judge(t)
    BY <1>1, <1>2, <2>2, <2>3, TailAhead
  <2>5. Len(b) = Len(t)
    BY <1>3, <2>1, <2>4
  <2>6. Len(t) < HEADER_SIZE \/ Judge(t) = "Good"
    BY <1>3, <2>1, <2>4, <2>5 DEF Short, HEADER_SIZE
  <2> QED BY <1>2, <2>3, <2>6 DEF Legal, TailIs
<1>10. ASSUME decoder = "Read", Len(b) >= HEADER_SIZE
       PROVE  Judge(b) = "Good" /\ Len(b) < HEADER_SIZE + MAX_PAYLOAD[b[2]]
  <2>1. Judge(b) = "Good" /\ Len(b) < Total(b)
    <3>1. ~ (Len(b) < HEADER_SIZE)
      BY <1>3, <1>10 DEF HEADER_SIZE
    <3> QED BY <1>1, <1>10, <3>1 DEF WireInv, Short
  <2>2. b \in Seq(Nat)
    BY <1>2 DEF Flow
  <2>3. PICK v, m : v = LengthOf(SubSeq(b, 3, 6)) /\ m = MAX_PAYLOAD[b[2]]
    OBVIOUS
  <2>4. v \in Nat /\ Total(b) = 6 + v
    BY <1>10, <2>2, <2>3, HeaderOnly DEF HEADER_SIZE
  <2>5. v <= m /\ m \in Nat
    BY <2>1, <2>3, Verdicts, WireBounds, Zenon
  <2>6. Len(b) < 6 + m
    BY <1>3, <2>1, <2>4, <2>5
  <2> QED BY <2>1, <2>3, <2>6 DEF HEADER_SIZE
<1>11. decoder \in {"Read", "End"} =>
          \A m \in 1..Len(sent.frames) : Extent(m) <= Pushed => m <= Len(frames)
  BY <1>1, <1>7
<1>12. decoder = "Read" /\ Len(buffer) >= HEADER_SIZE =>
          /\ Judge(buffer) = "Good"
          /\ Len(buffer) < HEADER_SIZE + MAX_PAYLOAD[buffer[2]]
  BY <1>1, <1>10
<1> QED BY <1>5, <1>8, <1>9, <1>11, <1>12 DEF FramesAsSent

\* For streams of any length, however they are cut into reads, and for any limits:
\* the engine is handed the frames that were sent, and nothing else.
THEOREM DecoderFaithful == WireSpec => []FramesAsSent
<1> QED BY HandedOn, WireInvariant, PTL

-----------------------------------------------------------------------------
(* The history of a chat, and what is drawn of it.                         *)

Said == [author : {"Local", "Remote", "System"}, length : Nat]

\* f counts the bytes of the first 0 to n entries.
CountsTo(es, f, n) ==
    f = [i \in 0..n |-> IF i = 0 THEN 0 ELSE f[i - 1] + es[i].length]

\* The count exists up to each number of entries.
LEMMA CountExists ==
    ASSUME NEW es, NEW n \in Nat
    PROVE  \E f : CountsTo(es, f, n)
<1> DEFINE T == {i \in Nat : ~ \E f : CountsTo(es, f, i)}
<1> SUFFICES ASSUME T # {} PROVE FALSE
  OBVIOUS
<1>1. PICK m \in T : \A k \in T : m <= k
  BY LeastNat
<1>2. m # 0
  <2>1. CountsTo(es, [i \in 0..0 |-> 0], 0)
    BY DEF CountsTo
  <2> QED BY <2>1
<1>3. m \in Nat /\ m - 1 \in Nat /\ m - 1 \notin T
  BY <1>1, <1>2
<1>4. PICK f : CountsTo(es, f, m - 1)
  BY <1>3
<1> DEFINE g == [i \in 0..m |-> IF i = m THEN f[m - 1] + es[m].length ELSE f[i]]
<1>5. /\ \A i \in 0..(m - 1) : g[i] = f[i]
      /\ g[m] = f[m - 1] + es[m].length
      /\ g = [i \in 0..m |-> g[i]]
  BY <1>3
<1> HIDE DEF g
<1>6. \A i \in 0..(m - 1) : f[i] = IF i = 0 THEN 0 ELSE f[i - 1] + es[i].length
  BY <1>4 DEF CountsTo
<1>7. ASSUME NEW i \in 0..m
      PROVE  g[i] = IF i = 0 THEN 0 ELSE g[i - 1] + es[i].length
  <2>1. i # 0 => i - 1 \in 0..(m - 1)
    BY <1>3
  <2>2. i # 0 => g[i - 1] = f[i - 1]
    BY <1>5, <2>1
  <2>3. CASE i = m
    BY <1>2, <1>5, <2>2, <2>3
  <2>4. CASE i # m
    <3>1. i \in 0..(m - 1)
      BY <1>3, <2>4
    <3> QED BY <1>5, <1>6, <2>2, <3>1
  <2> QED BY <2>3, <2>4
<1>8. CountsTo(es, g, m)
  BY <1>5, <1>7 DEF CountsTo
<1> QED BY <1>1, <1>8

\* Sums is such a count.
LEMMA SumsCount ==
    ASSUME NEW es, Len(es) \in Nat
    PROVE  CountsTo(es, Sums(es), Len(es))
<1>1. \E f : CountsTo(es, f, Len(es))
  BY CountExists
<1> QED BY <1>1 DEF CountsTo, Sums

\* What that says of each entry; no sum is below an earlier one.
LEMMA SumsNext ==
    ASSUME NEW es \in Seq(Said)
    PROVE  /\ Len(es) \in Nat
           /\ Sums(es)[0] = 0
           /\ \A i \in 1..Len(es) : Sums(es)[i] = Sums(es)[i - 1] + es[i].length
           /\ \A i \in 1..Len(es) : es[i] \in Said /\ es[i].length \in Nat
           /\ \A i \in 0..Len(es) : Sums(es)[i] \in Nat
<1>1. Len(es) \in Nat /\ \A i \in 1..Len(es) : es[i] \in Said
  OBVIOUS
<1>2. \A i \in 1..Len(es) : es[i].length \in Nat
  BY <1>1 DEF Said
<1>3. PICK f : f = Sums(es)
  OBVIOUS
<1>4. CountsTo(es, f, Len(es))
  BY <1>1, <1>3, SumsCount
<1>5. f[0] = 0 /\ \A i \in 1..Len(es) : f[i] = f[i - 1] + es[i].length
  BY <1>1, <1>4 DEF CountsTo
<1> DEFINE T == {i \in 0..Len(es) : f[i] \notin Nat}
<1>6. T = {}
  <2> SUFFICES ASSUME T # {} PROVE FALSE
    OBVIOUS
  <2>0. T \subseteq Nat
    BY <1>1
  <2>1. PICK m \in T : \A k \in T : m <= k
    <3> HIDE DEF T
    <3> QED BY <2>0, LeastNat
  <2>2. m \in 1..Len(es)
    BY <1>1, <1>5
  <2>3. m - 1 \in 0..Len(es) /\ m - 1 \notin T
    BY <1>1, <2>1, <2>2
  <2>4. f[m - 1] \in Nat /\ es[m].length \in Nat /\ f[m] = f[m - 1] + es[m].length
    BY <1>2, <1>5, <2>2, <2>3
  <2>5. f[m] \in Nat
    BY <2>4
  <2> QED BY <2>1, <2>5
<1> QED BY <1>1, <1>2, <1>3, <1>5, <1>6

\* Entries that lie in a row within others count what the others' sums differ by.
LEMMA SumsWithin ==
    ASSUME NEW es \in Seq(Said), NEW fs \in Seq(Said), NEW at \in Nat,
           at + Len(fs) <= Len(es),
           \A i \in 1..Len(fs) : fs[i] = es[at + i]
    PROVE  \A i \in 0..Len(fs) : Sums(es)[at + i] = Sums(es)[at] + Sums(fs)[i]
<1>1. PICK e, f : e = Sums(es) /\ f = Sums(fs)
  OBVIOUS
<1>2. PICK L, M : L = Len(es) /\ M = Len(fs)
  OBVIOUS
<1>3. /\ L \in Nat /\ M \in Nat /\ at + M <= L
      /\ f[0] = 0
      /\ \A i \in 1..L : e[i] = e[i - 1] + es[i].length
      /\ \A i \in 1..M : f[i] = f[i - 1] + fs[i].length
      /\ \A i \in 1..L : es[i].length \in Nat
      /\ \A i \in 0..L : e[i] \in Nat
      /\ \A i \in 0..M : f[i] \in Nat
  BY <1>1, <1>2, SumsNext
<1>4. \A i \in 1..M : fs[i].length = es[at + i].length
  BY <1>2
<1> DEFINE T == {i \in 0..M : e[at + i] # e[at] + f[i]}
<1>5. T = {}
  <2> SUFFICES ASSUME T # {} PROVE FALSE
    OBVIOUS
  <2>0. T \subseteq Nat
    BY <1>3
  <2>1. PICK m \in T : \A k \in T : m <= k
    <3> HIDE DEF T
    <3> QED BY <2>0, LeastNat
  <2>2. at \in 0..L /\ e[at] \in Nat
    BY <1>3
  <2>3. 0 \notin T
    BY <1>3, <2>2
  <2>4. m \in 1..M
    <3>1. m \in 0..M /\ m # 0
      BY <2>1, <2>3
    <3> QED BY <1>3, <3>1
  <2>5. m - 1 \in 0..M /\ m - 1 \notin T
    BY <1>3, <2>1, <2>4
  <2>6. e[at + (m - 1)] = e[at] + f[m - 1]
    BY <2>5
  <2>7. at + m \in 1..L /\ (at + m) - 1 = at + (m - 1)
    BY <1>3, <2>4
  <2>8. e[at + m] = e[at + (m - 1)] + es[at + m].length
    BY <1>3, <2>7
  <2>9. f[m] = f[m - 1] + es[at + m].length
    BY <1>3, <1>4, <2>4
  <2>10. f[m - 1] \in Nat /\ es[at + m].length \in Nat
    BY <1>3, <2>5, <2>7
  <2>11. e[at + m] = e[at] + f[m]
    BY <2>2, <2>6, <2>8, <2>9, <2>10
  <2> QED BY <2>1, <2>11
<1> QED BY <1>1, <1>2, <1>5

\* No sum is below an earlier one.
LEMMA SumsGrow ==
    ASSUME NEW es \in Seq(Said), NEW i \in 0..Len(es), NEW j \in 0..Len(es), i <= j
    PROVE  Sums(es)[i] <= Sums(es)[j]
<1>1. PICK fs : fs = SubSeq(es, i + 1, j)
  OBVIOUS
<1>2. i \in Nat /\ j \in Nat /\ Len(es) \in Nat /\ j <= Len(es)
  OBVIOUS
<1>3. /\ fs \in Seq(Said) /\ Len(fs) = j - i
      /\ \A k \in 1..Len(fs) : fs[k] = es[i + k]
  BY <1>1, <1>2
<1>4. i + Len(fs) <= Len(es) /\ j - i \in 0..Len(fs) /\ i + (j - i) = j
  BY <1>2, <1>3
<1>5. Sums(es)[j] = Sums(es)[i] + Sums(fs)[j - i]
  <2>1. \A k \in 0..Len(fs) : Sums(es)[i + k] = Sums(es)[i] + Sums(fs)[k]
    BY <1>2, <1>3, <1>4, SumsWithin, Zenon
  <2> QED BY <1>4, <2>1
<1>6. Sums(fs)[j - i] \in Nat /\ Sums(es)[i] \in Nat
  BY <1>3, <1>4, SumsNext
<1> QED BY <1>5, <1>6

\* What is left after n entries, and the first n of them.
LEMMA DropParts ==
    ASSUME NEW es \in Seq(Said), NEW n \in 0..Len(es)
    PROVE  /\ Drop(es, n) \in Seq(Said)
           /\ Len(Drop(es, n)) = Len(es) - n
           /\ \A i \in 1..(Len(es) - n) : Drop(es, n)[i] = es[n + i]
           /\ Bytes(Drop(es, n)) = Sums(es)[Len(es)] - Sums(es)[n]
           /\ Bytes(SubSeq(es, 1, n)) = Sums(es)[n]
<1>1. PICK fs, gs : fs = Drop(es, n) /\ gs = SubSeq(es, 1, n)
  OBVIOUS
<1>2. n \in Nat /\ Len(es) \in Nat /\ n <= Len(es)
  OBVIOUS
<1>3. /\ fs \in Seq(Said) /\ Len(fs) = Len(es) - n
      /\ \A k \in 1..Len(fs) : fs[k] = es[n + k]
  BY <1>1, <1>2 DEF Drop
<1>4. /\ gs \in Seq(Said) /\ Len(gs) = n
      /\ \A k \in 1..Len(gs) : gs[k] = es[k]
  BY <1>1, <1>2
<1>5. \A k \in 1..Len(gs) : gs[k] = es[0 + k]
  BY <1>2, <1>4
<1>6. Sums(es)[n + Len(fs)] = Sums(es)[n] + Sums(fs)[Len(fs)]
  <2>1. n + Len(fs) <= Len(es) /\ Len(fs) \in 0..Len(fs)
    BY <1>2, <1>3
  <2>2. \A k \in 0..Len(fs) : Sums(es)[n + k] = Sums(es)[n] + Sums(fs)[k]
    BY <1>2, <1>3, <2>1, SumsWithin, Zenon
  <2> QED BY <2>1, <2>2
<1>7. Sums(es)[0 + Len(gs)] = Sums(es)[0] + Sums(gs)[Len(gs)]
  <2>1. 0 \in Nat /\ 0 + Len(gs) <= Len(es) /\ Len(gs) \in 0..Len(gs)
    BY <1>2, <1>4
  <2>2. \A k \in 0..Len(gs) : Sums(es)[0 + k] = Sums(es)[0] + Sums(gs)[k]
    BY <1>4, <1>5, <2>1, SumsWithin, Zenon
  <2> QED BY <2>1, <2>2
<1>8. /\ Sums(es)[0] = 0 /\ Sums(es)[n] \in Nat /\ Sums(es)[Len(es)] \in Nat
      /\ Sums(fs)[Len(fs)] \in Nat /\ Sums(gs)[Len(gs)] \in Nat
  BY <1>2, <1>3, <1>4, SumsNext
<1> QED BY <1>1, <1>2, <1>3, <1>4, <1>6, <1>7, <1>8 DEF Bytes

\* es is the newest part of all, as much of it as the limits allow.
Kept(all, es, total) ==
    /\ all \in Seq(Said)
    /\ Len(es) \in 0..Len(all) /\ es = Drop(all, Len(all) - Len(es))
    /\ total = Bytes(es) /\ Len(es) <= MAX_ENTRIES /\ total <= MAX_BYTES
    /\ \A p \in 0..Len(all) : p < Len(all) - Len(es) =>
          \/ Len(all) - p > MAX_ENTRIES
          \/ Sums(all)[Len(all)] - Sums(all)[p] > MAX_BYTES
    /\ all # <<>> => es # <<>>

\* Where the loop stops: at the first place that fits.
LEMMA EvictedIsLeast ==
    ASSUME NEW es \in Seq(Said), NEW total \in Nat, NEW m \in 0..Len(es),
           Len(es) - m <= MAX_ENTRIES, total - Bytes(SubSeq(es, 1, m)) <= MAX_BYTES
    PROVE  LET n == Evicted(es, total) IN
           /\ n \in 0..Len(es) /\ n <= m
           /\ Len(es) - n <= MAX_ENTRIES /\ total - Sums(es)[n] <= MAX_BYTES
           /\ \A k \in 0..Len(es) : k < n =>
                 Len(es) - k > MAX_ENTRIES \/ total - Sums(es)[k] > MAX_BYTES
<1> DEFINE T == {n \in 0..Len(es) :
            Len(es) - n <= MAX_ENTRIES /\ total - Bytes(SubSeq(es, 1, n)) <= MAX_BYTES}
<1>1. T \subseteq Nat /\ m \in T
  OBVIOUS
<1>2. PICK n : n = Evicted(es, total)
  OBVIOUS
<1>3. n \in T /\ \A k \in T : n <= k
  <2>1. n = Min(T)
    BY <1>2 DEF Evicted
  <2> HIDE DEF T
  <2>2. \E x \in T : \A k \in T : x <= k
    BY <1>1, LeastNat
  <2> QED BY <2>1, <2>2 DEF Min
<1>4. \A k \in 0..Len(es) : Bytes(SubSeq(es, 1, k)) = Sums(es)[k]
  BY DropParts
<1>5. /\ MAX_ENTRIES \in Nat /\ MAX_BYTES \in Nat /\ Len(es) \in Nat
      /\ \A k \in 0..Len(es) : Sums(es)[k] \in Nat
  BY ChatBounds, SumsNext
<1>6. n \in 0..Len(es) /\ Len(es) - n <= MAX_ENTRIES /\ total - Sums(es)[n] <= MAX_BYTES
  BY <1>3, <1>4
<1>7. ASSUME NEW k \in 0..Len(es), k < n
      PROVE  Len(es) - k > MAX_ENTRIES \/ total - Sums(es)[k] > MAX_BYTES
  <2>1. k \notin T
    BY <1>3, <1>6, <1>7
  <2>2. ~ (Len(es) - k <= MAX_ENTRIES) \/ ~ (total - Sums(es)[k] <= MAX_BYTES)
    BY <1>4, <2>1
  <2> QED BY <1>5, <2>2
<1>8. n <= m
  BY <1>1, <1>3
<1> QED BY <1>2, <1>6, <1>7, <1>8

\* A push keeps the newest part.
LEMMA PushKeeps ==
    ASSUME NEW all, NEW es, NEW b, Kept(all, es, b), NEW e \in Said, e.length <= MAX_BYTES
    PROVE  LET a == Append(es, e)
               t == b + e.length
               n == Evicted(a, t)
           IN  Kept(Append(all, e), Drop(a, n), t - Bytes(SubSeq(a, 1, n)))
<1>1. PICK a, t, more, gone : a = Append(es, e) /\ t = b + e.length
                              /\ more = Append(all, e) /\ gone = Len(all) - Len(es)
  OBVIOUS
<1>2. PICK n : n = Evicted(a, t)
  OBVIOUS
<1>3. /\ all \in Seq(Said) /\ Len(all) \in Nat /\ Len(es) \in 0..Len(all) /\ gone \in 0..Len(all)
      /\ es = Drop(all, gone)
  BY <1>1 DEF Kept
<1>0. /\ Len(es) \in Nat /\ gone \in Nat /\ Len(es) <= Len(all)
      /\ gone + Len(es) = Len(all) /\ Len(all) - gone = Len(es)
  BY <1>1, <1>3
<1>4. /\ es \in Seq(Said) /\ \A i \in 1..Len(es) : es[i] = all[gone + i]
  <2>1. /\ Drop(all, gone) \in Seq(Said)
        /\ \A i \in 1..(Len(all) - gone) : Drop(all, gone)[i] = all[gone + i]
    BY <1>3, DropParts
  <2> QED BY <1>0, <1>3, <2>1
<1>5. /\ a \in Seq(Said) /\ Len(a) = Len(es) + 1 /\ a[Len(es) + 1] = e
      /\ \A i \in 1..Len(es) : a[i] = es[i]
      /\ more \in Seq(Said) /\ Len(more) = Len(all) + 1 /\ more[Len(all) + 1] = e
      /\ \A i \in 1..Len(all) : more[i] = all[i]
  BY <1>1, <1>3, <1>4
<1>6. ASSUME NEW i \in 1..Len(a) PROVE a[i] = more[gone + i]
  <2>1. CASE i = Len(es) + 1
    <3>1. gone + i = Len(all) + 1
      BY <1>0, <1>3, <2>1
    <3> QED BY <1>5, <2>1, <3>1
  <2>2. CASE i # Len(es) + 1
    <3>1. i \in 1..Len(es) /\ gone + i \in 1..Len(all)
      BY <1>0, <1>3, <1>5, <2>2
    <3> QED BY <1>4, <1>5, <3>1
  <2> QED BY <2>1, <2>2
<1> DEFINE S == Sums(more)
<1>7. gone + Len(a) = Len(more)
  BY <1>1, <1>3, <1>5
<1>8. \A i \in 0..Len(a) : S[gone + i] = S[gone] + Sums(a)[i]
  <2>1. gone \in Nat /\ gone + Len(a) <= Len(more)
    BY <1>0, <1>5, <1>7
  <2> QED BY <1>5, <1>6, <2>1, SumsWithin, Zenon
<1>9. /\ \A i \in 0..Len(more) : S[i] \in Nat
      /\ S[Len(more)] = S[Len(all)] + e.length /\ e.length \in Nat
  <2>1. /\ \A i \in 0..Len(more) : S[i] \in Nat
        /\ \A i \in 1..Len(more) : S[i] = S[i - 1] + more[i].length
    BY <1>5, SumsNext
  <2>2. Len(more) \in 1..Len(more) /\ Len(more) - 1 = Len(all) /\ more[Len(more)] = e
    BY <1>3, <1>5
  <2>3. e.length \in Nat
    BY DEF Said
  <2> QED BY <2>1, <2>2, <2>3
<1>10. \A i \in 0..Len(all) : S[i] = Sums(all)[i]
  <2>1. \A i \in 1..Len(all) : all[i] = more[0 + i]
    BY <1>3, <1>5
  <2>2. 0 \in Nat /\ 0 + Len(all) <= Len(more)
    BY <1>3, <1>5
  <2>3. \A i \in 0..Len(all) : S[0 + i] = S[0] + Sums(all)[i]
    BY <1>3, <1>5, <2>1, <2>2, SumsWithin
  <2>4. S[0] = 0 /\ \A i \in 0..Len(all) : Sums(all)[i] \in Nat
    BY <1>3, <1>5, SumsNext
  <2> QED BY <1>3, <2>3, <2>4
<1>11. b = S[Len(all)] - S[gone]
  <2>1. b = Bytes(es)
    BY DEF Kept
  <2>2. Bytes(es) = Sums(all)[Len(all)] - Sums(all)[gone]
    BY <1>3, DropParts
  <2> QED BY <1>3, <1>10, <2>1, <2>2
<1>12. /\ t = Sums(a)[Len(a)] /\ t = S[Len(more)] - S[gone]
       /\ \A i \in 0..Len(a) : Sums(a)[i] \in Nat
       /\ t \in Nat
  <2>1. \A i \in 0..Len(a) : Sums(a)[i] \in Nat
    BY <1>5, SumsNext
  <2>2. Len(a) \in 0..Len(a) /\ gone \in 0..Len(more) /\ Len(all) \in 0..Len(more)
    BY <1>3, <1>5
  <2>3. S[Len(more)] = S[gone] + Sums(a)[Len(a)]
    BY <1>7, <1>8, <2>2
  <2>4. Sums(a)[Len(a)] \in Nat /\ S[gone] \in Nat /\ S[Len(all)] \in Nat
    BY <1>9, <2>1, <2>2
  <2>5. S[Len(more)] = S[Len(all)] + e.length /\ e.length \in Nat
    BY <1>9
  <2>6. t = (S[Len(all)] - S[gone]) + e.length
    BY <1>1, <1>11
  <2>7. t = Sums(a)[Len(a)] /\ t = S[Len(more)] - S[gone]
    <3> HIDE DEF S
    <3> QED BY <2>3, <2>4, <2>5, <2>6
  <2> QED BY <2>1, <2>4, <2>7
<1>13. /\ Len(a) - Len(es) <= MAX_ENTRIES
       /\ t - Bytes(SubSeq(a, 1, Len(es))) <= MAX_BYTES /\ Len(es) \in 0..Len(a)
  <2>1. Len(es) \in 0..Len(a) /\ Len(a) - Len(es) = 1 /\ gone + Len(es) = Len(all)
    BY <1>1, <1>3, <1>5
  <2>2. Bytes(SubSeq(a, 1, Len(es))) = Sums(a)[Len(es)]
    BY <1>5, <2>1, DropParts
  <2>3. S[Len(all)] = S[gone] + Sums(a)[Len(es)]
    BY <1>8, <2>1
  <2>4. S[Len(all)] \in Nat /\ S[gone] \in Nat /\ Sums(a)[Len(es)] \in Nat
    BY <1>3, <1>5, <1>9, <1>12, <2>1
  <2>5. t - Bytes(SubSeq(a, 1, Len(es))) = e.length
    BY <1>9, <1>12, <2>2, <2>3, <2>4
  <2>6. 1 <= MAX_ENTRIES
    BY ChatBounds
  <2> QED BY <2>1, <2>5, <2>6
<1>14. /\ n \in 0..Len(a) /\ n <= Len(es)
       /\ Len(a) - n <= MAX_ENTRIES /\ t - Sums(a)[n] <= MAX_BYTES
       /\ \A k \in 0..Len(a) : k < n =>
             Len(a) - k > MAX_ENTRIES \/ t - Sums(a)[k] > MAX_BYTES
  BY <1>2, <1>5, <1>12, <1>13, EvictedIsLeast
<1>15. PICK left, bs : left = Drop(a, n) /\ bs = t - Bytes(SubSeq(a, 1, n))
  OBVIOUS
<1>16. /\ left \in Seq(Said) /\ Len(left) = Len(a) - n
       /\ \A i \in 1..(Len(a) - n) : left[i] = a[n + i]
       /\ Bytes(left) = Sums(a)[Len(a)] - Sums(a)[n] /\ Bytes(SubSeq(a, 1, n)) = Sums(a)[n]
  BY <1>5, <1>14, <1>15, DropParts
<1>17. bs = Bytes(left) /\ bs = t - Sums(a)[n]
  BY <1>12, <1>15, <1>16
<1>18. /\ Len(left) \in 0..Len(more) /\ Len(more) - Len(left) = gone + n
       /\ gone + n \in 0..Len(more) /\ Len(left) > 0
  <2>1. n \in Nat /\ n <= Len(es) /\ Len(left) = (Len(es) + 1) - n
    BY <1>0, <1>5, <1>14, <1>16
  <2>2. Len(more) = gone + (Len(es) + 1)
    BY <1>5, <1>7
  <2> QED BY <1>0, <2>1, <2>2
<1>19. left = Drop(more, Len(more) - Len(left))
  <2>1. /\ Drop(more, gone + n) \in Seq(Said)
        /\ Len(Drop(more, gone + n)) = Len(more) - (gone + n)
        /\ \A i \in 1..(Len(more) - (gone + n)) : Drop(more, gone + n)[i] = more[(gone + n) + i]
    BY <1>5, <1>18, DropParts
  <2>2. Len(more) - (gone + n) = Len(left) /\ Len(left) = Len(a) - n
    BY <1>5, <1>16, <1>18
  <2>3. ASSUME NEW i \in 1..Len(left) PROVE left[i] = more[(gone + n) + i]
    <3>1. n + i \in 1..Len(a) /\ gone + (n + i) = (gone + n) + i
      BY <1>3, <1>5, <1>14, <2>2
    <3>2. left[i] = a[n + i]
      BY <1>16, <2>2
    <3> QED BY <1>6, <3>1, <3>2
  <2>4. \A i \in 1..Len(left) : left[i] = Drop(more, gone + n)[i]
    BY <2>1, <2>2, <2>3
  <2>5. left = Drop(more, gone + n)
    BY <1>16, <2>1, <2>2, <2>4
  <2> QED BY <1>18, <2>5
<1>20. ASSUME NEW p \in 0..Len(more), p < Len(more) - Len(left)
       PROVE  \/ Len(more) - p > MAX_ENTRIES
              \/ S[Len(more)] - S[p] > MAX_BYTES
  <2>1. CASE p < gone
    <3>1. p \in 0..Len(all) /\ p < Len(all) - Len(es)
      BY <1>1, <1>3, <2>1
    <3>2. \/ Len(all) - p > MAX_ENTRIES
          \/ Sums(all)[Len(all)] - Sums(all)[p] > MAX_BYTES
      BY <3>1 DEF Kept
    <3>3. Sums(all)[Len(all)] = S[Len(all)] /\ Sums(all)[p] = S[p]
      BY <1>3, <1>10, <3>1
    <3>6. p \in 0..Len(more) /\ Len(all) \in 0..Len(more)
      BY <1>3, <1>5, <3>1
    <3>4. S[p] \in Nat /\ S[Len(all)] \in Nat /\ MAX_ENTRIES \in Nat /\ MAX_BYTES \in Nat
      BY <1>9, <3>6, ChatBounds
    <3>5. p \in Nat /\ Len(all) \in Nat /\ Len(more) = Len(all) + 1
      BY <1>3, <1>5, <3>1
    <3> HIDE DEF S
    <3>7. S[Len(all)] - S[p] <= S[Len(more)] - S[p]
      BY <1>9, <3>4
    <3>8. CASE Len(all) - p > MAX_ENTRIES
      <4>1. Len(more) - p > MAX_ENTRIES
        BY <3>4, <3>5, <3>8
      <4> QED BY <4>1
    <3>9. CASE S[Len(all)] - S[p] > MAX_BYTES
      <4>1. S[Len(more)] \in Nat
        BY <1>9, <3>4
      <4>2. S[Len(more)] - S[p] > MAX_BYTES
        BY <3>4, <3>7, <3>9, <4>1
      <4> QED BY <4>2
    <3> QED BY <3>2, <3>3, <3>8, <3>9
  <2>2. CASE p >= gone
    <3>1. p - gone \in 0..Len(a) /\ p - gone < n /\ gone + (p - gone) = p
      <4>1. p \in Nat /\ p < gone + n /\ n \in Nat /\ n <= Len(a) /\ Len(a) \in Nat
        BY <1>5, <1>0, <1>14, <1>18, <1>20
      <4> QED BY <1>0, <2>2, <4>1
    <3>2. Len(a) - (p - gone) > MAX_ENTRIES \/ t - Sums(a)[p - gone] > MAX_BYTES
      BY <1>14, <3>1
    <3>3. S[p] = S[gone] + Sums(a)[p - gone]
      BY <1>8, <3>1
    <3>4. Len(a) - (p - gone) = Len(more) - p
      BY <1>3, <1>5, <1>7
    <3>5. S[gone] \in Nat /\ Sums(a)[p - gone] \in Nat /\ S[Len(more)] \in Nat
      BY <1>3, <1>5, <1>9, <1>12, <3>1
    <3> HIDE DEF S
    <3>6. t - Sums(a)[p - gone] = S[Len(more)] - S[p]
      BY <1>12, <3>3, <3>5
    <3> QED BY <3>2, <3>4, <3>6
  <2> QED BY <1>3, <2>1, <2>2
<1>21. left # <<>>
  BY <1>18
<1>22. Len(left) <= MAX_ENTRIES /\ bs <= MAX_BYTES
  BY <1>14, <1>16, <1>17
<1>23. Kept(more, left, bs)
  BY <1>5, <1>17, <1>18, <1>19, <1>20, <1>21, <1>22 DEF Kept
<1> QED BY <1>1, <1>2, <1>15, <1>23

\* Reversal, entry by entry.
LEMMA ReversedEntries ==
    ASSUME NEW s \in Seq(Said)
    PROVE  /\ Reverse(s) \in Seq(Said) /\ Len(Reverse(s)) = Len(s)
           /\ \A i \in 1..Len(s) : Reverse(s)[i] = s[(Len(s) - i) + 1]
<1>1. Len(s) \in Nat /\ \A i \in 1..Len(s) : s[i] \in Said
  OBVIOUS
<1>2. PICK f : f = [i \in 1..Len(s) |-> s[(Len(s) - i) + 1]]
  OBVIOUS
<1>3. \A i \in 1..Len(s) : (Len(s) - i) + 1 \in 1..Len(s)
  BY <1>1
<1>4. f \in [1..Len(s) -> Said]
  BY <1>1, <1>2, <1>3
<1>5. f \in Seq(Said) /\ Len(f) = Len(s)
  BY <1>1, <1>4
<1> QED BY <1>2, <1>5 DEF Reverse

\* Sequences that agree as far as the shorter one goes.
LEMMA PrefixesAgree ==
    ASSUME NEW s \in Seq(Said), NEW t \in Seq(Said), Len(s) <= Len(t),
           \A i \in 1..Len(s) : s[i] = t[i]
    PROVE  SubSeq(s, 1, Len(s)) = SubSeq(t, 1, Len(s))
  OBVIOUS

\* The history, in terms of what is kept.
LEMMA KeptIsExact == Kept(pushed, entries, bytes) => HistoryExact
<1> SUFFICES ASSUME Kept(pushed, entries, bytes) PROVE HistoryExact
  OBVIOUS
<1> DEFINE gone == Len(pushed) - Len(entries)
<1>1. /\ pushed \in Seq(Said) /\ Len(pushed) \in Nat /\ Len(entries) \in 0..Len(pushed)
      /\ entries = Drop(pushed, gone)
  BY DEF Kept
<1>2. gone \in 0..Len(pushed) /\ Len(pushed) - gone = Len(entries) /\ Len(entries) \in Nat
  BY <1>1
<1>3. /\ entries \in Seq(Said)
      /\ \A i \in 1..Len(entries) : entries[i] = pushed[gone + i]
  <2>1. /\ Drop(pushed, gone) \in Seq(Said)
        /\ \A i \in 1..(Len(pushed) - gone) : Drop(pushed, gone)[i] = pushed[gone + i]
    BY <1>1, <1>2, DropParts
  <2> QED BY <1>1, <1>2, <2>1
<1>4. IsSuffix(entries, pushed)
  <2>1. PICK s, t : s = Reverse(entries) /\ t = Reverse(pushed)
    OBVIOUS
  <2>2. /\ s \in Seq(Said) /\ Len(s) = Len(entries)
        /\ \A i \in 1..Len(s) : s[i] = entries[(Len(entries) - i) + 1]
    BY <1>3, <2>1, ReversedEntries
  <2>3. /\ t \in Seq(Said) /\ Len(t) = Len(pushed)
        /\ \A i \in 1..Len(t) : t[i] = pushed[(Len(pushed) - i) + 1]
    BY <1>1, <2>1, ReversedEntries
  <2>4. ASSUME NEW i \in 1..Len(s) PROVE s[i] = t[i]
    <3>1. /\ (Len(entries) - i) + 1 \in 1..Len(entries) /\ i \in 1..Len(t)
          /\ gone + ((Len(entries) - i) + 1) = (Len(pushed) - i) + 1
      BY <1>1, <1>2, <2>2, <2>3
    <3> QED BY <1>3, <2>2, <2>3, <3>1
  <2>5. Len(s) <= Len(t) /\ Len(s) \in Nat /\ Len(t) \in Nat
    BY <1>1, <1>2, <2>2, <2>3
  <2>6. SubSeq(s, 1, Len(s)) = SubSeq(t, 1, Len(s))
    BY <2>2, <2>3, <2>4, <2>5, PrefixesAgree
  <2> QED BY <2>1, <2>5, <2>6 DEF IsSuffix, IsPrefix
<1>5. ASSUME NEW n \in (Len(entries) + 1)..Len(pushed)
      PROVE  n > MAX_ENTRIES \/ Bytes(Drop(pushed, Len(pushed) - n)) > MAX_BYTES
  <2>1. PICK p : p = Len(pushed) - n
    OBVIOUS
  <2>2. p \in 0..Len(pushed) /\ p < Len(pushed) - Len(entries) /\ Len(pushed) - p = n
    BY <1>1, <1>2, <2>1
  <2>3. Bytes(Drop(pushed, p)) = Sums(pushed)[Len(pushed)] - Sums(pushed)[p]
    BY <1>1, <2>2, DropParts
  <2> QED BY <2>1, <2>2, <2>3 DEF Kept
<1> QED BY <1>4, <1>5 DEF HistoryExact, Kept

\* The view of a screen that draws is as the last draw found it.
Drawn ==
    /\ scroll \in Nat /\ max_scroll \in Nat
    /\ screen # "Small" => max_scroll = Monus(Rows, HEIGHT)

ChatInv == Kept(pushed, entries, bytes) /\ Drawn

\* What an entry adds is within what the history holds.
LEMMA EntryFits ==
    ASSUME NEW author \in {"Local", "Remote", "System"}, NEW length \in Nat
    PROVE  Entry(author, length) \in Said /\ Entry(author, length).length <= MAX_BYTES
<1>1. MAX_ENTRY_BYTES \in Nat /\ MAX_BYTES \in Nat /\ MAX_ENTRY_BYTES + 3 <= MAX_BYTES
  BY ChatBounds DEF ELLIPSIS
<1>2. MAX_ENTRY_BYTES % 3 \in Nat /\ MAX_ENTRY_BYTES % 3 <= MAX_ENTRY_BYTES
  BY <1>1
<1>3. Cut(length) \in Nat /\ Cut(length) <= MAX_BYTES
  BY <1>1, <1>2 DEF Cut, ELLIPSIS
<1> QED BY <1>3 DEF Entry, Said

\* An entry appended, and what had to go for it: the newest part is kept.
LEMMA PushStep ==
    ASSUME Kept(pushed, entries, bytes), NEW author \in {"Local", "Remote", "System"},
           NEW length \in Nat, Push(Entry(author, length))
    PROVE  Kept(pushed', entries', bytes')
<1>1. PICK e : e = Entry(author, length)
  OBVIOUS
<1>2. e \in Said /\ e.length <= MAX_BYTES /\ Push(e)
  BY <1>1, EntryFits
<1> QED BY <1>2, PushKeeps DEF Push

\* Rows are counted, whatever the width.
LEMMA RowsCounted ==
    ASSUME NEW all, NEW es, NEW b, Kept(all, es, b), NEW wide
    PROVE  RowsOf(es, wide) \in Nat
<1>1. es \in Seq(Said)
  <2>1. /\ all \in Seq(Said) /\ Len(all) - Len(es) \in 0..Len(all)
        /\ es = Drop(all, Len(all) - Len(es))
    BY DEF Kept
  <2> QED BY <2>1, DropParts
<1>2. Len(es) \in Nat /\ Bytes(es) \in Nat
  BY <1>1, SumsNext DEF Bytes
<1> QED BY <1>2 DEF RowsOf

\* A draw finds the rows there are.
LEMMA DrawStep ==
    ASSUME Kept(pushed', entries', bytes'), scroll' \in Nat, max_scroll \in Nat, Redraw
    PROVE  Drawn'
<1>1. HEIGHT \in Nat
  BY ChatBounds
<1>2. RowsOf(entries', screen' = "Wide") \in Nat
  BY RowsCounted
<1>3. Monus(RowsOf(entries', screen' = "Wide"), HEIGHT) \in Nat
  BY <1>1, <1>2 DEF Monus
<1> QED BY <1>3 DEF Redraw, Drawn, Rows

\* An empty history on a wide screen meets the invariant.
LEMMA ChatInitial == ChatInit => ChatInv
<1> SUFFICES ASSUME ChatInit PROVE ChatInv
  OBVIOUS
<1>1. /\ <<>> \in Seq(Said) /\ Len(<<>>) = 0
  OBVIOUS
<1>2. Sums(<<>>)[0] = 0 /\ Bytes(<<>>) = 0
  BY <1>1, SumsNext DEF Bytes
<1>3. Drop(<<>>, 0) = <<>>
  BY <1>1 DEF Drop
<1>4. MAX_ENTRIES \in Nat /\ MAX_BYTES \in Nat /\ HEIGHT \in Nat
  BY ChatBounds
<1>5. Kept(<<>>, <<>>, 0)
  BY <1>1, <1>2, <1>3, <1>4 DEF Kept
<1>6. Kept(pushed, entries, bytes)
  BY <1>5 DEF ChatInit
<1>7. Rows = 0
  BY <1>1 DEF ChatInit, Rows, RowsOf
<1>8. Drawn
  BY <1>4, <1>7 DEF ChatInit, Drawn, Monus
<1> QED BY <1>6, <1>8 DEF ChatInv

\* Every key, event and resize keeps the invariant, with its redraw.
LEMMA ChatStep == ChatInv /\ [ChatNext]_chatVars => ChatInv'
<1> SUFFICES ASSUME ChatInv, [ChatNext]_chatVars PROVE ChatInv'
  OBVIOUS
<1>1. Kept(pushed, entries, bytes) /\ scroll \in Nat /\ max_scroll \in Nat
  BY DEF ChatInv, Drawn
<1>2. TEXTS \subseteq Nat /\ PAGE \in Nat
  BY ChatBounds
<1>3. ASSUME Kept(pushed', entries', bytes'), scroll' \in Nat, Redraw PROVE ChatInv'
  BY <1>1, <1>3, DrawStep DEF ChatInv
<1>4. CASE EnterText
  <2>1. ASSUME NEW length \in TEXTS, SendText(length) PROVE Kept(pushed', entries', bytes')
    <3>1. Push(Entry("Local", length)) \/ Push(Entry("System", 1))
      BY <2>1 DEF SendText
    <3> QED BY <1>1, <1>2, <3>1, PushStep
  <2>2. ASSUME UNCHANGED <<entries, bytes, pushed, queue>>
        PROVE  Kept(pushed', entries', bytes')
    BY <1>1, <2>2
  <2>3. scroll' = 0 /\ Redraw
    BY <1>4 DEF EnterText
  <2>4. \/ \E length \in TEXTS : SendText(length)
        \/ UNCHANGED <<entries, bytes, pushed, queue>>
    BY <1>4 DEF EnterText
  <2>5. Kept(pushed', entries', bytes')
    BY <2>1, <2>2, <2>4
  <2> QED BY <1>3, <2>3, <2>5
<1>5. CASE MessageShown
  <2>1. PICK length \in TEXTS : Push(Entry("Remote", length))
    BY <1>5 DEF MessageShown
  <2>2. Kept(pushed', entries', bytes')
    BY <1>1, <1>2, <2>1, PushStep
  <2>3. scroll' = 0 /\ Redraw
    BY <1>5 DEF MessageShown
  <2> QED BY <1>3, <2>2, <2>3
<1>6. CASE NoticeShown \/ ClosedShown
  <2>1. Push(Entry("System", 1)) /\ scroll' = scroll /\ Redraw
    BY <1>6 DEF NoticeShown, ClosedShown
  <2>2. Kept(pushed', entries', bytes')
    BY <1>1, <2>1, PushStep
  <2> QED BY <1>1, <1>3, <2>1, <2>2
<1>7. CASE TaskTakes \/ TaskGone \/ UNCHANGED chatVars
  <2>1. UNCHANGED <<entries, bytes, scroll, max_scroll, screen, pushed>>
    BY <1>7 DEF TaskTakes, TaskGone, chatVars
  <2> QED BY <2>1 DEF ChatInv, Drawn, Rows
<1>8. CASE ScrollKey \/ Resize
  <2>1. UNCHANGED <<entries, bytes, pushed>> /\ Redraw
    BY <1>8 DEF ScrollKey, Resize
  <2>2. scroll' \in Nat
    BY <1>1, <1>2, <1>8 DEF ScrollKey, Resize, Lesser, Monus
  <2> QED BY <1>1, <1>3, <2>1, <2>2
<1> QED BY <1>4, <1>5, <1>6, <1>7, <1>8 DEF ChatNext

\* The invariant of the chat view.
LEMMA ChatInvariant == ChatSpec => []ChatInv
<1>1. ChatInit => ChatInv
  BY ChatInitial
<1>2. ChatInv /\ [ChatNext]_chatVars => ChatInv'
  BY ChatStep
<1> QED BY <1>1, <1>2, PTL DEF ChatSpec

\* However many entries are pushed, and whatever the limits: the history is the
\* newest part of what was said, as much of it as they allow.
THEOREM HistoryStaysExact == ChatSpec => []HistoryExact
<1>1. ChatInv => HistoryExact
  BY KeptIsExact DEF ChatInv
<1> QED BY <1>1, ChatInvariant, PTL

\* The rows drawn exist, however stale the position.
THEOREM ScreenStaysInRange == ChatSpec => []ScreenInRange
<1>1. ASSUME ChatInv PROVE ScreenInRange
  <2> SUFFICES ASSUME screen # "Small"
               PROVE  /\ Shown <= Rows
                      /\ Slice.last - Slice.first = Lesser(Rows, HEIGHT)
    BY DEF ScreenInRange
  <2>1. Kept(pushed, entries, bytes) /\ scroll \in Nat /\ max_scroll = Monus(Rows, HEIGHT)
    BY <1>1 DEF ChatInv, Drawn
  <2>2. Rows \in Nat /\ HEIGHT \in Nat
    BY <2>1, RowsCounted, ChatBounds DEF Rows
  <2> QED BY <2>1, <2>2 DEF Shown, Slice, Lesser, Monus
<1> QED BY <1>1, ChatInvariant, PTL
=============================================================================
