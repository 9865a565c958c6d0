------------------------------- MODULE Config -------------------------------
(***************************************************************************)
(* The configuration file: how it is opened, looked at and read while its   *)
(* owner may be editing it, what its key bindings and numbers may be, and   *)
(* what the keys of the chat view then mean.  A key's name in the file is   *)
(* the sequence of its parts, <<"ctrl", "r">>; its letter case is ignored,  *)
(* and that it has at most 16 characters is taken for granted.              *)
(***************************************************************************)
EXTENDS Naturals, SequencesExt

CONSTANTS
    MAX_CONFIG_BYTES,
    FILES,       \* what the path may lead to
    LETTERS,     \* letters on the keyboard, with c, d, f and r
    MAX_EDITS    \* bound: edits of the file while it is loaded

MIN_TICK_MS == 100
MAX_TICK_MS == 1000

ASSUME ConfigBounds ==
    {MAX_CONFIG_BYTES, MAX_EDITS} \subseteq Nat /\ {"c", "d", "f", "r"} \subseteq LETTERS

VARIABLES
    file,      \* the file at the path
    loading,   \* "Start", "Opened", "Checked" or "Loaded"
    config,    \* the configuration in effect
    warned,    \* whether the file was ignored with a warning
    edits

configVars == <<file, loading, config, warned, edits>>

-----------------------------------------------------------------------------
(* parse_key.                                                              *)

Key(key, ctrl, alt) == [key |-> key, ctrl |-> ctrl, alt |-> alt]

Modifiers == {"ctrl", "alt"}
Named == {"esc", "up", "down", "pageup", "pagedown", "home", "end"}
FunctionKeys == {"f1", "f2", "f3", "f4", "f5", "f6", "f7", "f8", "f9", "f10", "f11", "f12"}

\* "char" is a character that is not a letter.
OtherKeys == {"enter", "backspace", "char"}

ASSUME LettersAreNotNames == LETTERS \cap (Named \cup FunctionKeys \cup OtherKeys) = {}

\* What a name that begins with an f stands for is a number, so the letter f
\* itself is not a key, not even with Ctrl or Alt.
Letters == LETTERS \ {"f"}

HasPrefix(text, prefix) == \E i \in 1..(Len(text) - 1) : text[i] = prefix

KeyOf(text) == Key(Last(text), HasPrefix(text, "ctrl"), HasPrefix(text, "alt"))

Reserved(key) == key.ctrl /\ key.key \in {"c", "d"}

\* Mutant: a letter may be bound without Ctrl or Alt.
ValidKeyBare(text) ==
    /\ text # <<>>
    /\ \A i \in 1..(Len(text) - 1) : text[i] \in Modifiers
    /\ Last(text) \in Named \cup FunctionKeys \cup Letters
    /\ ~Reserved(KeyOf(text))

\* Prefixes, as often as one likes, and a name; "a bare letter would swallow
\* typing".
ValidKey(text) ==
    /\ text # <<>>
    /\ \A i \in 1..(Len(text) - 1) : text[i] \in Modifiers
    /\ \/ Last(text) \in Named \cup FunctionKeys
       \/ Last(text) \in Letters /\ (KeyOf(text).ctrl \/ KeyOf(text).alt)
    /\ ~Reserved(KeyOf(text))

-----------------------------------------------------------------------------
(* parse.                                                                  *)

Default ==
    [keys |-> [leave     |-> Key("esc", FALSE, FALSE),
               rekey     |-> Key("r", TRUE, FALSE),
               scroll_up |-> Key("up", FALSE, FALSE),
               scroll_down |-> Key("down", FALSE, FALSE),
               page_up   |-> Key("pageup", FALSE, FALSE),
               page_down |-> Key("pagedown", FALSE, FALSE)],
     tick_ms |-> 250]

Actions == DOMAIN Default.keys

\* The file binds some of the actions; the others keep their keys.
KeyMap(f) == [a \in Actions |-> IF a \in DOMAIN f.keys THEN KeyOf(f.keys[a]) ELSE Default.keys[a]]

Distinct(f) == \A a, b \in Actions : a # b => KeyMap(f)[a] # KeyMap(f)[b]

TickInRange(f) == f.tick_ms \in MIN_TICK_MS..MAX_TICK_MS

\* One schema, whose colours and border are names from a list.
Parses(f) ==
    /\ f.toml
    /\ \A a \in DOMAIN f.keys : ValidKey(f.keys[a])
    /\ Distinct(f)
    /\ TickInRange(f)

Parsed(f) == [keys |-> KeyMap(f), tick_ms |-> f.tick_ms]

-----------------------------------------------------------------------------
(* load_from, at startup.                                                  *)

ConfigInit ==
    /\ file = [kind |-> "Missing"]
    /\ loading = "Start"
    /\ config = Default /\ warned = FALSE
    /\ edits = 0

\* Any failure yields the defaults.
Ignore ==
    /\ loading' = "Loaded" /\ warned' = TRUE
    /\ UNCHANGED <<config, edits>>

\* A symbolic link is not followed, and a FIFO does not block.
OpenFile ==
    /\ loading = "Start"
    /\ file' \in FILES \cup {[kind |-> "Missing"], [kind |-> "Link"]}
    /\ CASE file'.kind = "Missing" -> loading' = "Loaded" /\ UNCHANGED <<config, warned, edits>>
         [] file'.kind = "Link"    -> Ignore
         [] OTHER                  -> loading' = "Opened" /\ UNCHANGED <<config, warned, edits>>

\* "A regular file owned by you, ... not writable by group or others."
Safe(f) == f.kind = "Regular" /\ f.private

Stat ==
    /\ loading = "Opened"
    /\ IF Safe(file) /\ file.size <= MAX_CONFIG_BYTES
       THEN loading' = "Checked" /\ UNCHANGED <<config, warned, edits>>
       ELSE Ignore
    /\ UNCHANGED file

\* Its owner writes to the file, or changes its mode, meanwhile.
Edit ==
    /\ loading \in {"Opened", "Checked"}
    /\ file.kind = "Regular" /\ edits < MAX_EDITS
    /\ edits' = edits + 1
    /\ file' \in {f \in FILES : f.kind = "Regular"}
    /\ UNCHANGED <<loading, config, warned>>

\* One byte more than allowed is read, to notice that there are more.
ReadFile ==
    /\ loading = "Checked"
    /\ IF file.size <= MAX_CONFIG_BYTES /\ file.utf8 /\ Parses(file)
       THEN config' = Parsed(file) /\ loading' = "Loaded" /\ UNCHANGED <<warned, edits>>
       ELSE Ignore
    /\ UNCHANGED file

\* The metadata, or the bytes, cannot be read.
LoadError ==
    /\ loading \in {"Opened", "Checked"}
    /\ Ignore
    /\ UNCHANGED file

ConfigNext == OpenFile \/ Stat \/ Edit \/ ReadFile \/ LoadError

ConfigSpec == ConfigInit /\ [][ConfigNext]_configVars

-----------------------------------------------------------------------------
(* What a key of the chat view does, by the order in which it is asked.     *)

\* The keys there are to press.
Pressable ==
    {Key(k, ctrl, alt) :
        k \in Named \cup FunctionKeys \cup LETTERS \cup OtherKeys,
        ctrl \in BOOLEAN, alt \in BOOLEAN}

CtrlC(key) == key.key = "c" /\ key.ctrl

Types(key) == key.key \in LETTERS \cup {"char"} /\ ~key.ctrl /\ ~key.alt

Scrolls(key) == {a \in Actions \ {"leave", "rekey"} : config.keys[a] = key}

\* chat_key, while no prompt is shown.
Meaning(key) ==
    IF key = config.keys.leave \/ CtrlC(key) THEN "leave"
    ELSE IF key.key = "enter" THEN "send"
    ELSE IF key = config.keys.rekey THEN "rekey"
    ELSE IF key.key = "backspace" THEN "erase"
    ELSE IF Types(key) THEN "type"
    ELSE IF Scrolls(key) # {} THEN CHOOSE a \in Scrolls(key) : TRUE
    ELSE "nothing"

-----------------------------------------------------------------------------
(* Properties.                                                              *)

\* The application starts with a configuration it can run on, whatever is in
\* the file and whoever writes to it while it is read: a tick of no
\* milliseconds would end the program.
ConfigUsable ==
    /\ config.tick_ms \in MIN_TICK_MS..MAX_TICK_MS
    /\ config # Default => loading = "Loaded" /\ ~warned

\* "The same key cannot be assigned to multiple actions", and Enter, Backspace,
\* typing and Ctrl-C "cannot be rebound": under every configuration that loads,
\* each action can be reached by its key, and the fixed keys do what they do
\* without a configuration, however the order of the questions falls.
KeysMeanOneThing ==
    loading = "Loaded" =>
        /\ \A a \in Actions : Meaning(config.keys[a]) = a
        /\ \A key \in Pressable :
              /\ key.key = "enter" => Meaning(key) = "send"
              /\ key.key = "backspace" => Meaning(key) = "erase"
              /\ Types(key) => Meaning(key) = "type"
              /\ CtrlC(key) => Meaning(key) = "leave"
=============================================================================
