-------------------------------- MODULE Wire --------------------------------
(***************************************************************************)
(* Frames on a byte stream: Frame's header and limits, and the incremental  *)
(* decoder of a connection task, fed with reads of any size.  A byte is a   *)
(* number; a limit is smaller than the program's.                           *)
(***************************************************************************)
EXTENDS Naturals, SequencesExt

CONSTANTS
    READ_CHUNK,
    MAX_PAYLOAD,   \* MessageType::max_payload, by message type
    SENT,          \* the frames the peer's program may send, in order
    TAILS          \* what may follow them: bytes, and what they are

HEADER_SIZE == 6
V1 == 1

ASSUME WireBounds ==
    /\ READ_CHUNK \in Nat \ {0}
    /\ \A t \in DOMAIN MAX_PAYLOAD :
          t \in 1..255 /\ MAX_PAYLOAD[t] \in Nat /\ MAX_PAYLOAD[t] < 256 * 256 * 256

VARIABLES
    sent,      \* what was written: the frames, and what follows them
    unread,    \* bytes written and not yet read
    buffer,    \* FrameDecoder::buffer
    frames,    \* frames handed to the engine
    decoder    \* "Read" (awaits the stream), "Drain" (next_frame is due),
               \* an error, or "End"; "Connect" before

wireVars == <<sent, unread, buffer, frames, decoder>>

Silence == [frames |-> <<>>, tail |-> [bytes |-> <<>>, is |-> "Part"]]

WireInit ==
    /\ sent = Silence
    /\ unread = <<>> /\ buffer = <<>> /\ frames = <<>>
    /\ decoder = "Connect"

-----------------------------------------------------------------------------
(* Frame.                                                                  *)

LengthBytes(n) ==
    <<n \div 16777216, (n \div 65536) % 256, (n \div 256) % 256, n % 256>>

LengthOf(b) == 16777216 * b[1] + 65536 * b[2] + 256 * b[3] + b[4]

check_length(type, length) == length <= MAX_PAYLOAD[type]

encode(f) == <<V1, f.type>> \o LengthBytes(Len(f.payload)) \o f.payload

\* parse_header, by what the decoder tells apart.
Judge(header) ==
    CASE header[1] # V1 -> "UnsupportedVersion"
      [] header[1] = V1 /\ header[2] \notin DOMAIN MAX_PAYLOAD -> "Malformed"
      [] OTHER -> IF check_length(header[2], LengthOf(SubSeq(header, 3, 6)))
                  THEN "Good" ELSE "Malformed"

Total(b) == HEADER_SIZE + LengthOf(SubSeq(b, 3, 6))

decode(b) == [type |-> b[2], payload |-> SubSeq(b, HEADER_SIZE + 1, Total(b))]

-----------------------------------------------------------------------------
(* The connection: accepted or dialed, and then read to its end.            *)

\* The bytes of the first n frames, for each n.
Streams(fs) ==
    LET stream[n \in 0..Len(fs)] ==
            IF n = 0 THEN <<>> ELSE stream[n - 1] \o encode(fs[n])
    IN  stream

Written(s) == Streams(s.frames)[Len(s.frames)] \o s.tail.bytes

\* What a tail is, as far as it goes.
TailIs(b) == IF Len(b) < HEADER_SIZE \/ Judge(b) = "Good" THEN "Part" ELSE Judge(b)

\* A program sends frames that Frame::new has accepted; a tail has no whole one.
ASSUME WireInputs ==
    /\ SENT \subseteq Seq([type : DOMAIN MAX_PAYLOAD, payload : Seq(Nat)])
    /\ \A fs \in SENT : \A i \in 1..Len(fs) : check_length(fs[i].type, Len(fs[i].payload))
    /\ \A tail \in TAILS :
          /\ tail.bytes \in Seq(Nat) /\ tail.is = TailIs(tail.bytes)
          /\ Len(tail.bytes) < HEADER_SIZE \/ Judge(tail.bytes) # "Good"
                \/ Len(tail.bytes) < Total(tail.bytes)

Connected ==
    /\ decoder = "Connect"
    /\ \E s \in [frames : SENT, tail : TAILS] : sent' = s /\ unread' = Written(s)
    /\ decoder' = "Read"
    /\ UNCHANGED <<buffer, frames>>

\* Task::run: a read returns as much as has arrived.
ReadChunk ==
    /\ decoder = "Read"
    /\ \E n \in 1..Len(unread) :
          /\ n <= READ_CHUNK
          /\ buffer' = buffer \o SubSeq(unread, 1, n)
          /\ unread' = SubSeq(unread, n + 1, Len(unread))
    /\ decoder' = "Drain"
    /\ UNCHANGED <<sent, frames>>

\* The end of the stream is never a frame.
ReadEnd ==
    /\ decoder = "Read" /\ unread = <<>>
    /\ decoder' = "End"
    /\ UNCHANGED <<sent, unread, buffer, frames>>

Await ==
    /\ decoder' = "Read"
    /\ UNCHANGED <<sent, unread, buffer, frames>>

Refuse(verdict) ==
    /\ decoder' = verdict
    /\ UNCHANGED <<sent, unread, buffer, frames>>

Take ==
    /\ frames' = Append(frames, decode(buffer))
    /\ buffer' = SubSeq(buffer, Total(buffer) + 1, Len(buffer))
    /\ UNCHANGED <<sent, unread, decoder>>

\* Mutant: the header is judged when the frame is complete.
NextFrameLate ==
    /\ decoder = "Drain"
    /\ IF Len(buffer) < HEADER_SIZE \/ Len(buffer) < Total(buffer) THEN Await
       ELSE IF Judge(buffer) = "Good" THEN Take ELSE Refuse(Judge(buffer))

\* drain_frames and next_frame: frames are taken until one is incomplete.
NextFrame ==
    /\ decoder = "Drain"
    /\ \/ Len(buffer) < HEADER_SIZE /\ Await
       \/ /\ Len(buffer) >= HEADER_SIZE
          /\ \/ Judge(buffer) # "Good" /\ Refuse(Judge(buffer))
             \/ /\ Judge(buffer) = "Good"
                /\ IF Len(buffer) < Total(buffer) THEN Await ELSE Take

WireNext == Connected \/ ReadChunk \/ ReadEnd \/ NextFrame

WireSpec == WireInit /\ [][WireNext]_wireVars

-----------------------------------------------------------------------------
(* Properties.                                                              *)

\* Bytes of the first n frames.
Extent(n) == Len(Streams(sent.frames)[n])

Pushed == Len(Written(sent)) - Len(unread)

\* Whatever the cuts, and whatever a payload looks like, the engine is handed
\* the frames that were sent, in order, each as soon as its last byte is there,
\* and nothing after them: what follows is refused for what it is, or awaited.
\* "Version, type and length are checked from the header before any payload is
\* read": no byte is awaited behind a header that will be refused, so what is
\* buffered during a wait stays below one frame of the announced type.
FramesAsSent ==
    /\ IsPrefix(frames, sent.frames)
    /\ decoder \in {"Read", "End"} =>
          \A n \in 1..Len(sent.frames) : Extent(n) <= Pushed => n <= Len(frames)
    /\ decoder \in {"UnsupportedVersion", "Malformed"} =>
          frames = sent.frames /\ decoder = sent.tail.is
    /\ decoder = "End" => sent.tail.is = "Part"
    /\ decoder = "Read" /\ Len(buffer) >= HEADER_SIZE =>
          /\ Judge(buffer) = "Good"
          /\ Len(buffer) < HEADER_SIZE + MAX_PAYLOAD[buffer[2]]
=============================================================================
