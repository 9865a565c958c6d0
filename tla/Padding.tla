------------------------------ MODULE Padding -------------------------------
(***************************************************************************)
(* DataSender::encrypt by the sizes it deals with: the search for the       *)
(* padding, the sizes of the encodings, and the frame that is built after   *)
(* the sending chain has moved on.  What the chain and the counter do is    *)
(* module DataSession.                                                      *)
(***************************************************************************)
EXTENDS Integers

CONSTANT CONTENTS    \* the lengths of the contents given to encrypt

ASSUME ContentLengths == CONTENTS \subseteq Nat

DEFAULT_PADDING_QUANTUM == 256
AEAD_TAG_SIZE  == 16
MAX_CONTENT    == 65536
MAX_FRAME_SIZE == 1048576

VARIABLES
    content,     \* length of the content
    padding,     \* length of the padding tried
    sending,     \* "Ready", "Pad", "Padded", "Committed", "Sent", "Refused"
                 \* or "Lost": the chain has moved on and there is no frame
    payload      \* length of the DATA payload

padVars == <<content, padding, sending, payload>>

PadInit == content = 0 /\ padding = 0 /\ sending = "Ready" /\ payload = 0

-----------------------------------------------------------------------------
(* Encoded sizes.                                                          *)

\* The header of a CBOR byte string.
bstr_header_len(n) ==
    CASE n <= 23                 -> 1
      [] 23 < n /\ n <= 255      -> 2
      [] 255 < n /\ n <= 65535   -> 3
      [] OTHER                   -> 5

bstr(n) == bstr_header_len(n) + n

\* A map of two, its keys, and the content; the padding and the tag.
Fixed(n) == 3 + bstr(n)

Ciphertext(n, p) == Fixed(n) + bstr(p) + AEAD_TAG_SIZE

Fits(n, p) == Ciphertext(n, p) % DEFAULT_PADDING_QUANTUM = 0

\* An unsigned integer of 64 bits takes one of these many bytes.
UintSizes == {1, 2, 3, 5, 9}

\* encode_payload: a map of four, its keys, the session, the direction, the
\* counter and the ciphertext.
PayloadSize(n, p, counter) == 5 + bstr(16) + 1 + counter + bstr(Ciphertext(n, p))

-----------------------------------------------------------------------------
(* encrypt.                                                                *)

TooLarge(n) == n > MAX_CONTENT

Encrypt(n) ==
    /\ sending = "Ready"
    /\ content' = n
    /\ sending' = IF TooLarge(n) THEN "Refused" ELSE "Pad"
    /\ UNCHANGED <<padding, payload>>

\* Mutant: the search jumps with the header of the byte string.
PadMoreSkips == IF padding = 23 THEN 25 ELSE padding + 1

PadMore == padding + 1

\* DataPlaintext::padded: the next length is tried.
Pad ==
    /\ sending = "Pad"
    /\ ~Fits(content, padding)
    /\ padding' = PadMore
    /\ sending' = IF padding' > MAX_FRAME_SIZE THEN "Refused" ELSE "Pad"
    /\ UNCHANGED <<content, payload>>

Padded ==
    /\ sending = "Pad"
    /\ Fits(content, padding)
    /\ sending' = "Padded"
    /\ UNCHANGED <<content, padding, payload>>

\* The plaintext is encrypted; the chain and the counter move on.
Commit ==
    /\ sending = "Padded"
    /\ sending' = "Committed"
    /\ \E counter \in UintSizes : payload' = PayloadSize(content, padding, counter)
    /\ UNCHANGED <<content, padding>>

\* Frame::new checks the length of the payload.
BuildFrame ==
    /\ sending = "Committed"
    /\ sending' = IF payload > MAX_FRAME_SIZE THEN "Lost" ELSE "Sent"
    /\ UNCHANGED <<content, padding, payload>>

PadNext ==
    \/ \E n \in CONTENTS : Encrypt(n)
    \/ Pad \/ Padded \/ Commit \/ BuildFrame

PadSpec == PadInit /\ [][PadNext]_padVars

-----------------------------------------------------------------------------
(* Properties.                                                              *)

\* "The sender chooses the smallest padding length such that ... is a multiple
\* of 256": no shorter padding fits, although the padding's own header grows on
\* the way, so that some ciphertexts are a whole quantum longer than the
\* plaintext needs; the search ends within 278 bytes.
PaddingLeast ==
    /\ \A p \in 0..(padding - 1) : ~Fits(content, p)
    /\ padding <= 278
    /\ sending \in {"Padded", "Committed", "Sent"} => Fits(content, padding)

\* "Commit chain and counter only after everything succeeds": the frame is
\* built after the commit, and can fail by its size; it never does, so no
\* message key is used up without a frame, and an allowed content is always sent.
CommittedIsSent ==
    /\ sending # "Lost"
    /\ sending = "Refused" => content > MAX_CONTENT
=============================================================================
