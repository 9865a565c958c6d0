------------------------------ MODULE MCParts -------------------------------
(***************************************************************************)
(* Model-checking instances of the parts of the program that do not need a  *)
(* peer: the key store, the frame decoder, padding, the payload validator,  *)
(* the chat view and the configuration.  They share no state, so a behaviour *)
(* is one of one part, and the others rest.                                 *)
(***************************************************************************)
EXTENDS KeyStore, Wire, Padding, Cbor, Chat, Config

VARIABLE part

partVars == <<storeVars, wireVars, padVars, cborVars, chatVars, configVars, part>>

Init ==
    /\ part \in {"store", "wire", "padding", "cbor", "chat", "config"}
    /\ StoreInit /\ WireInit /\ PadInit /\ CborInit /\ ChatInit /\ ConfigInit

Next ==
    \/ /\ part = "store" /\ StoreNext
       /\ UNCHANGED <<wireVars, padVars, cborVars, chatVars, configVars, part>>
    \/ /\ part = "wire" /\ WireNext
       /\ UNCHANGED <<storeVars, padVars, cborVars, chatVars, configVars, part>>
    \/ /\ part = "padding" /\ PadNext
       /\ UNCHANGED <<storeVars, wireVars, cborVars, chatVars, configVars, part>>
    \/ /\ part = "cbor" /\ CborNext
       /\ UNCHANGED <<storeVars, wireVars, padVars, chatVars, configVars, part>>
    \/ /\ part = "chat" /\ ChatNext
       /\ UNCHANGED <<storeVars, wireVars, padVars, cborVars, configVars, part>>
    \/ /\ part = "config" /\ ConfigNext
       /\ UNCHANGED <<storeVars, wireVars, padVars, cborVars, chatVars, part>>

Spec == Init /\ [][Next]_partVars

-----------------------------------------------------------------------------
(* Frames: small limits, a payload that reads like a header, an empty one;  *)
(* behind them nothing, a piece of a frame, or a header to refuse, by its   *)
(* version, its type, or a length too large in its last, its third or its   *)
(* first byte.                                                              *)

Limits == (1 :> 2) @@ (2 :> 1) @@ (3 :> 7) @@ (4 :> 2) @@ (5 :> 1)

Likeness == [type |-> 3, payload |-> <<1, 3, 0, 0, 0, 0, 0>>]
Empty    == [type |-> 1, payload |-> <<>>]
Short    == [type |-> 5, payload |-> <<2>>]

UpToTwo == BoundedSeq({Likeness, Empty, Short}, 2)

Trailing(bs, is) == [bytes |-> bs, is |-> is]

Tails == {Trailing(<<>>, "Part"), Trailing(<<1, 3, 0, 0, 0, 2, 1>>, "Part"),
          Trailing(<<2, 3, 0, 0, 0, 0>>, "UnsupportedVersion"),
          Trailing(<<1, 6, 0, 0, 0, 0>>, "Malformed"),
          Trailing(<<1, 2, 0, 0, 0, 2>>, "Malformed"),
          Trailing(<<1, 3, 0, 0, 1, 1>>, "Malformed"),
          Trailing(<<1, 3, 1, 0, 0, 1>>, "Malformed")}

-----------------------------------------------------------------------------
(* Content lengths around every change of a header, the ones for which a    *)
(* quantum is skipped, and ones that are too large.                         *)

Contents ==
    (0..30) \cup (205..215) \cup (225..262) \cup (462..468) \cup (65530..65540)
        \cup {1048560, 1048600}

-----------------------------------------------------------------------------
(* Payloads: everything short over one byte of each kind, and longer ones    *)
(* over the bytes that nest, count and order.                               *)

Nesting == {0, 1, 24, 65, 129, 161}

AnyKind == Nesting \cup {23, 25, 32, 128, 160, 162, 191, 192}

Payloads ==
    BoundedSeq(AnyKind, 3)
        \cup {<<first>> \o rest : first \in {129, 161, 162}, rest \in [1..3 -> Nesting]}
        \cup {<<first>> \o rest : first \in {161, 162}, rest \in [1..4 -> Nesting]}

-----------------------------------------------------------------------------
(* Files that bind two actions, to keys of every kind, and one that is out  *)
(* of bounds in each other respect.                                         *)

Texts ==
    {<<"esc">>, <<"up">>, <<"ctrl", "up">>, <<"r">>, <<"ctrl", "r">>, <<"alt", "r">>,
     <<"alt", "alt", "ctrl", "r">>, <<"ctrl", "c">>, <<"alt", "c">>, <<"ctrl", "d">>,
     <<"ctrl", "f">>, <<"f1">>, <<"f13">>}

Binding(keys) ==
    [kind |-> "Regular", private |-> TRUE, size |-> 1, utf8 |-> TRUE, toml |-> TRUE,
     keys |-> keys, tick_ms |-> 250]

Plain == Binding([rekey |-> <<"f1">>])

Files ==
    {Binding([leave |-> a, rekey |-> b]) : a, b \in Texts}
        \cup {Binding([leave |-> a, scroll_up |-> b]) : a, b \in Texts}
        \cup {Binding([page_up |-> a, scroll_up |-> b]) : a, b \in Texts}
        \cup {[Plain EXCEPT !.tick_ms = ms] : ms \in {0, 99, 100, 1000, 1001}}
        \cup {[Plain EXCEPT !.private = FALSE], [Plain EXCEPT !.size = 3],
              [Plain EXCEPT !.utf8 = FALSE], [Plain EXCEPT !.toml = FALSE],
              [Plain EXCEPT !.kind = "Fifo"]}
=============================================================================
