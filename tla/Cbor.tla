-------------------------------- MODULE Cbor --------------------------------
(***************************************************************************)
(* The payload of a frame: the pass over its CBOR items before anything is  *)
(* built from them, and the check that they are one deterministic map.      *)
(***************************************************************************)
EXTENDS Naturals, SequencesExt

CONSTANTS
    MAX_CBOR_NESTING,
    PAYLOADS            \* the payloads given to the validator

ASSUME CborBounds == MAX_CBOR_NESTING \in Nat \ {0} /\ PAYLOADS \subseteq Seq(0..255)

VARIABLES
    input,       \* the payload
    position,    \* bytes of it read
    remaining,   \* items left in each open container, the root first
    verdict      \* "None", "Scan", "Structured", "Accepted" or "Refused"

cborVars == <<input, position, remaining, verdict>>

CborInit == input = <<>> /\ position = 0 /\ remaining = <<>> /\ verdict = "None"

-----------------------------------------------------------------------------
(* validate_cbor_structure: one item in a step.                            *)

Unsigned == 0
Negative == 1
Strings  == {2, 3}
Array    == 4
Map      == 5

Major(byte) == byte \div 32
Additional(byte) == byte % 32

\* Bytes of an argument that does not fit the first one.
Width == [a \in 24..27 |-> CASE a = 24 -> 1 [] a = 25 -> 2 [] a = 26 -> 4 [] a = 27 -> 8]

BigEndian(bs) == FoldLeft(LAMBDA value, byte : value * 256 + byte, 0, bs)

\* No argument of half the width would do.
Shortest(bs) ==
    IF Len(bs) = 1 THEN bs[1] >= 24 ELSE \E i \in 1..(Len(bs) \div 2) : bs[i] # 0

Encoded(p, at, a) == SubSeq(p, at + 1, at + Width[a])

\* read_cbor_argument; reserved and indefinite lengths have no argument.
HasArgument(p, at, a) ==
    \/ a < 24
    \/ a \in DOMAIN Width /\ at + Width[a] <= Len(p) /\ Shortest(Encoded(p, at, a))

Argument(p, at, a) == IF a < 24 THEN a ELSE BigEndian(Encoded(p, at, a))

Behind(at, a) == IF a < 24 THEN at ELSE at + Width[a]

\* Containers that are full are left.
Open(stack) == SubSeq(stack, 1, Max({0} \cup {i \in DOMAIN stack : stack[i] # 0}))

Counted(stack) == [stack EXCEPT ![Len(stack)] = @ - 1]

\* Mutant: the limit is looked at after the container has been entered.
RoomLate(stack) == Len(stack) <= MAX_CBOR_NESTING

Room(stack) == Len(stack) < MAX_CBOR_NESTING

Receive ==
    /\ verdict = "None"
    /\ input' \in PAYLOADS
    /\ remaining' = <<1>>
    /\ verdict' = "Scan"
    /\ UNCHANGED position

Items(major, n) == IF major = Map THEN 2 * n ELSE n

\* What follows the first byte at `at` is there, in the shortest form, of a kind
\* RUXMSG has a use for and not nested too deep.
Admitted(p, at, stack) ==
    /\ at < Len(p)
    /\ LET major == Major(p[at + 1])
           a     == Additional(p[at + 1])
           n     == Argument(p, at + 1, a) IN
       /\ HasArgument(p, at + 1, a)
       /\ \/ major \in {Unsigned, Negative}
          \/ major \in Strings /\ Behind(at + 1, a) + n <= Len(p)
          \/ major \in {Array, Map} /\ (n = 0 \/ Room(stack))

ScanItem ==
    /\ verdict = "Scan" /\ Open(remaining) # <<>>
    /\ LET stack == Counted(Open(remaining)) IN
       /\ Admitted(input, position, stack)
       /\ LET major == Major(input[position + 1])
              a     == Additional(input[position + 1])
              n     == Argument(input, position + 1, a) IN
          /\ position' = Behind(position + 1, a) + (IF major \in Strings THEN n ELSE 0)
          /\ remaining' = IF major \in {Array, Map} /\ n > 0
                          THEN Append(stack, Items(major, n)) ELSE stack
    /\ UNCHANGED <<input, verdict>>

ScanRefused ==
    /\ verdict = "Scan" /\ Open(remaining) # <<>>
    /\ ~Admitted(input, position, Counted(Open(remaining)))
    /\ verdict' = "Refused"
    /\ UNCHANGED <<input, position, remaining>>

\* The root is full: the payload must be at its end.
ScanEnd ==
    /\ verdict = "Scan" /\ Open(remaining) = <<>>
    /\ verdict' = IF position = Len(input) THEN "Structured" ELSE "Refused"
    /\ UNCHANGED <<input, position, remaining>>

-----------------------------------------------------------------------------
(* The grammar, for items within a depth of containers: the end of the item *)
(* behind `at`, or 0.                                                       *)

\* The least value that needs an argument of this width.
Least(a) ==
    CASE a < 24 -> 0 [] a = 24 -> 24 [] a = 25 -> 2^8 [] a = 26 -> 2^16 [] a = 27 -> 2^32

ArgumentIsLeast(p, at, a) ==
    \/ a < 24
    \/ /\ a \in DOMAIN Width /\ at + Width[a] <= Len(p)
       /\ Argument(p, at, a) >= Least(a)

RECURSIVE ItemEnd(_, _, _), ItemsEnd(_, _, _, _)

ItemEnd(p, at, depth) ==
    IF at >= Len(p) THEN 0
    ELSE LET major == Major(p[at + 1])
             a     == Additional(p[at + 1])
             n     == Argument(p, at + 1, a)
             next  == Behind(at + 1, a) IN
         CASE ~ArgumentIsLeast(p, at + 1, a) -> 0
           [] ArgumentIsLeast(p, at + 1, a) /\ major \in {Unsigned, Negative} -> next
           [] ArgumentIsLeast(p, at + 1, a) /\ major \in Strings ->
                 IF next + n <= Len(p) THEN next + n ELSE 0
           [] ArgumentIsLeast(p, at + 1, a) /\ major \in {Array, Map} ->
                 IF n = 0 THEN next
                 ELSE IF depth = 0 THEN 0
                 ELSE ItemsEnd(p, next, Items(major, n), depth - 1)
           [] OTHER -> 0

ItemsEnd(p, at, n, depth) ==
    IF n = 0 THEN at
    ELSE LET end == ItemEnd(p, at, depth) IN
         IF end = 0 THEN 0 ELSE ItemsEnd(p, end, n - 1, depth)

WellFormed(p) == p # <<>> /\ ItemEnd(p, 0, MAX_CBOR_NESTING - 1) = Len(p)

-----------------------------------------------------------------------------
(* validate_cbor_map_payload: what a well-formed payload still has to be.  *)

\* Where the n-th item of the top-level map begins.
RECURSIVE ItemAt(_, _)
ItemAt(p, n) ==
    IF n = 1 THEN Behind(1, Additional(p[1]))
    ELSE ItemEnd(p, ItemAt(p, n - 1), MAX_CBOR_NESTING)

IsMap(p) == Major(p[1]) = Map

KeyBytes(p) == [i \in 1..Argument(p, 1, Additional(p[1])) |-> ItemAt(p, 2 * i - 1)]

KeysUnsigned(p) == \A i \in DOMAIN KeyBytes(p) : Major(p[KeyBytes(p)[i] + 1]) = Unsigned

Keys(p) == [i \in DOMAIN KeyBytes(p) |->
               Argument(p, KeyBytes(p)[i] + 1, Additional(p[KeyBytes(p)[i] + 1]))]

NoDuplicate(keys) == Cardinality(ToSet(keys)) = Len(keys)

\* Sorted by key and encoded again, the map must be the payload: every item is
\* in its shortest form already, so only the order of the entries can differ.
ReencodesTo(keys) == SortSeq(keys, <=) = keys

ValidateMap ==
    /\ verdict = "Structured"
    /\ verdict' = IF /\ IsMap(input) /\ KeysUnsigned(input)
                     /\ NoDuplicate(Keys(input)) /\ ReencodesTo(Keys(input))
                  THEN "Accepted" ELSE "Refused"
    /\ UNCHANGED <<input, position, remaining>>

CborNext == Receive \/ ScanItem \/ ScanEnd \/ ScanRefused \/ ValidateMap

-----------------------------------------------------------------------------
(* Properties.                                                              *)

\* "Verifies that the payload is one complete deterministic CBOR map".  The loop
\* with its stack of counters, which stands in for a recursive parser so that no
\* payload can exhaust the thread's stack, and the re-encoding after it accept
\* exactly what the grammar says: one map and not a byte more, in the shortest
\* form, nested no deeper than the limit, its keys unsigned and strictly
\* ascending, so that no field can be given twice and no two orders of the
\* fields are both accepted.  The loop's own stack stays within the limit.
AcceptedCanonical ==
    /\ verdict \in {"Accepted", "Refused"} =>
          (verdict = "Accepted" <=>
              /\ WellFormed(input) /\ IsMap(input) /\ KeysUnsigned(input)
              /\ \A i \in 2..Len(Keys(input)) : Keys(input)[i - 1] < Keys(input)[i])
    /\ Len(remaining) <= MAX_CBOR_NESTING /\ position <= Len(input)
=============================================================================
