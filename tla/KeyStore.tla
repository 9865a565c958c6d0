------------------------------ MODULE KeyStore ------------------------------
(***************************************************************************)
(* The identity profiles of one user: any number of ruxmsg processes over   *)
(* one credential store.  IdentityKeyStore and the profile commands are the *)
(* program's; the store is the operating system's, and may refuse a call,   *)
(* or accept a write and drop it or keep something else.                    *)
(***************************************************************************)
EXTENDS Naturals

CONSTANTS
    PROCESSES,
    PROFILES,
    SEEDS,         \* the identities there are to generate, none of them twice
    Nothing,       \* no entry in the store, or no identity loaded
    Garbage,       \* an entry that is not 32 bytes long
    MAX_LOSSES     \* bound: profiles lost from the store

ASSUME EntriesDiffer ==
    /\ Nothing \notin SEEDS \cup {Garbage}
    /\ Garbage \notin SEEDS
    /\ Nothing \notin PROFILES

ASSUME LossBound == MAX_LOSSES \in Nat

VARIABLES
    stored,      \* the credential store, by profile
    command,     \* the profile command each process is in
    net_key,     \* the identity each process uses
    generated,   \* identities generated so far
    losses,
    interfered,  \* history: processes whose profile was changed since they looked
    raced,       \* history: profiles written by a process in `interfered`
    shown        \* history: the identity the user was last shown for a profile

storeVars == <<stored, command, net_key, generated, losses, interfered, raced, shown>>

Resting == [stage |-> "Resting", profile |-> Nothing, create |-> FALSE, seed |-> Nothing]

StoreInit ==
    /\ stored = [n \in PROFILES |-> Nothing]
    /\ command = [p \in PROCESSES |-> Resting]
    /\ net_key = [p \in PROCESSES |-> Nothing]
    /\ generated = {} /\ losses = 0
    /\ interfered = {} /\ raced = {}
    /\ shown = [n \in PROFILES |-> Nothing]

-----------------------------------------------------------------------------
(* IdentityKeyStore::load                                                   *)

Command(p, n, create) ==
    /\ command[p].stage = "Resting"
    /\ command' = [command EXCEPT ![p] =
          [stage |-> "Load", profile |-> n, create |-> create, seed |-> Nothing]]
    /\ UNCHANGED <<stored, net_key, generated, losses, interfered, raced, shown>>

\* The command ends with an error.
Fail(p) ==
    /\ command' = [command EXCEPT ![p] = Resting]
    /\ UNCHANGED <<stored, net_key, generated, losses, interfered, raced, shown>>

\* The command ends with an identity.
InstallIdentity(p, seed) ==
    /\ command' = [command EXCEPT ![p] = Resting]
    /\ net_key' = [net_key EXCEPT ![p] = seed]
    /\ shown' = [shown EXCEPT ![command[p].profile] = seed]
    /\ UNCHANGED <<stored, generated, losses, interfered, raced>>

Generate(p) ==
    /\ \E seed \in SEEDS \ generated :
          /\ generated' = generated \cup {seed}
          /\ command' = [command EXCEPT ![p].stage = "Set", ![p].seed = seed]
    /\ interfered' = interfered \ {p}
    /\ UNCHANGED <<stored, net_key, losses, raced, shown>>

\* An entry of the wrong length is an error, not an empty profile.
Loaded(p, entry) ==
    CASE entry = Nothing -> IF command[p].create THEN Generate(p) ELSE Fail(p)
      [] entry \in SEEDS -> IF command[p].create THEN Fail(p) ELSE InstallIdentity(p, entry)
      [] OTHER           -> Fail(p)

Load(p) ==
    /\ command[p].stage = "Load"
    /\ Loaded(p, stored[command[p].profile])

\* Mutant: a store that does not answer counts as an empty profile.
LoadFailsOpen(p) == command[p].stage = "Load" /\ Loaded(p, Nothing)

LoadFails(p) == command[p].stage = "Load" /\ Fail(p)

-----------------------------------------------------------------------------
(* IdentityKeyStore::save                                                   *)

Others(p, n) == {q \in PROCESSES \ {p} : command[q].profile = n}

\* set_secret: the entry is what the store made of the write.
Put(p, entry) ==
    LET n == command[p].profile IN
    /\ stored' = [stored EXCEPT ![n] = entry]
    /\ interfered' = interfered \cup Others(p, n)
    /\ raced' = IF p \in interfered THEN raced \cup {n} ELSE raced

Writes(p) == {command[p].seed, Garbage, stored[command[p].profile]}

Set(p) ==
    /\ command[p].stage = "Set"
    /\ \E entry \in Writes(p) : Put(p, entry)
    /\ command' = [command EXCEPT ![p].stage = "ReadBack"]
    /\ UNCHANGED <<net_key, generated, losses, shown>>

\* An error is reported, whatever the store did.
SetFails(p) ==
    /\ command[p].stage = "Set"
    /\ \E entry \in Writes(p) : Put(p, entry)
    /\ command' = [command EXCEPT ![p] = Resting]
    /\ UNCHANGED <<net_key, generated, losses, shown>>

\* Mutant: a write that was reported as done is taken for done.
ReadBackTrusts(p) == command[p].stage = "ReadBack" /\ InstallIdentity(p, command[p].seed)

ReadBack(p) ==
    /\ command[p].stage = "ReadBack"
    /\ IF stored[command[p].profile] = command[p].seed
       THEN InstallIdentity(p, command[p].seed) ELSE Fail(p)

ReadBackFails(p) == command[p].stage = "ReadBack" /\ Fail(p)

-----------------------------------------------------------------------------
(* What the processes and the store go through.                            *)

\* The process ends, in a command or not, and is started again.
Restart(p) ==
    /\ command' = [command EXCEPT ![p] = Resting]
    /\ net_key' = [net_key EXCEPT ![p] = Nothing]
    /\ UNCHANGED <<stored, generated, losses, interfered, raced, shown>>

\* "If the credential-store entry is lost, the identity is lost too."
Lose(n) ==
    /\ losses < MAX_LOSSES
    /\ losses' = losses + 1
    /\ stored' = [stored EXCEPT ![n] = Nothing]
    /\ shown' = [shown EXCEPT ![n] = Nothing]
    /\ interfered' = interfered \cup {q \in PROCESSES : command[q].profile = n}
    /\ UNCHANGED <<command, net_key, generated, raced>>

StoreNext ==
    \/ \E p \in PROCESSES :
          \/ \E n \in PROFILES, create \in BOOLEAN : Command(p, n, create)
          \/ Load(p) \/ LoadFails(p)
          \/ Set(p) \/ SetFails(p)
          \/ ReadBack(p) \/ ReadBackFails(p)
          \/ Restart(p)
    \/ \E n \in PROFILES : Lose(n)

StoreSpec == StoreInit /\ [][StoreNext]_storeVars

-----------------------------------------------------------------------------
(* Properties.                                                              *)

\* Types; above all, an entry of the wrong length is never used as an identity.
StoreTypeOK ==
    /\ stored \in [PROFILES -> SEEDS \cup {Nothing, Garbage}]
    /\ command \in [PROCESSES ->
          [stage : {"Resting", "Load", "Set", "ReadBack"},
           profile : PROFILES \cup {Nothing}, create : BOOLEAN, seed : SEEDS \cup {Nothing}]]
    /\ net_key \in [PROCESSES -> SEEDS \cup {Nothing}]
    /\ generated \subseteq SEEDS /\ losses \in Nat
    /\ interfered \subseteq PROCESSES /\ raced \subseteq PROFILES
    /\ shown \in [PROFILES -> SEEDS \cup {Nothing}]

\* "Loading the same profile gives you the same fingerprint across launches":
\* the identity the user was last shown for a profile is the one the store
\* holds, through failed and dropped writes, deaths in the middle of a command
\* and restarts, as long as two processes do not create the profile at once.
SameAcrossLaunches ==
    \A n \in PROFILES \ raced : shown[n] # Nothing => stored[n] = shown[n]

\* "Fails if the profile already exists": no command replaces an identity that
\* is in the store, not even one the user was never shown, unless another
\* process wrote between the look and the write.
IdentityNeverReplaced ==
    [][\A n \in PROFILES :
          /\ stored[n] \in SEEDS
          /\ stored'[n] # stored[n]
          => stored'[n] = Nothing \/ n \in raced']_storeVars
=============================================================================
