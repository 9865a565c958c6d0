-------------------------------- MODULE Chat --------------------------------
(***************************************************************************)
(* One conversation in the chat view: its bounded scrollback, what the user *)
(* types and where the user has scrolled to, while messages and notices     *)
(* come in.  Texts are their lengths; the limits are smaller than the       *)
(* program's.  Prompts and the rest of the application are module App.      *)
(***************************************************************************)
EXTENDS Naturals, SequencesExt

CONSTANTS
    MAX_ENTRIES,
    MAX_BYTES,
    MAX_ENTRY_BYTES,
    MESSAGE_QUEUE,   \* messages a connection's handle takes in advance
    PAGE,            \* rows of a page key
    HEIGHT,          \* rows of the message area
    TEXTS,           \* lengths of the texts that are shown
    WIDE_CHARS,      \* of these, those of three-byte characters
    MAX_PUSHED       \* bound: entries pushed in all

ELLIPSIS == 3

\* The entry that was just pushed always stays.
ASSUME ChatBounds ==
    /\ {MAX_BYTES, MAX_ENTRY_BYTES, MESSAGE_QUEUE, PAGE, HEIGHT, MAX_PUSHED} \subseteq Nat
    /\ MAX_ENTRIES \in Nat \ {0}
    /\ MAX_ENTRY_BYTES + ELLIPSIS <= MAX_BYTES
    /\ TEXTS \subseteq Nat \ {0} /\ WIDE_CHARS \subseteq TEXTS

VARIABLES
    entries,     \* Scrollback::entries
    bytes,       \* Scrollback::bytes
    queue,       \* messages the handle has taken and the task has not
    task,        \* whether the connection task runs
    status,      \* Peer::status, once the chat has been entered
    scroll,      \* ChatView::scroll
    max_scroll,  \* ChatView::max_scroll, as the last draw left it
    screen,      \* "Wide" (a row for each entry), "Narrow" (a row for each
                 \* byte) or "Small" (nothing is drawn)
    pushed       \* history: every entry pushed

chatVars == <<entries, bytes, queue, task, status, scroll, max_scroll, screen, pushed>>

ChatInit ==
    /\ entries = <<>> /\ bytes = 0
    /\ queue = 0 /\ task = TRUE /\ status = "Connected"
    /\ scroll = 0 /\ max_scroll = 0 /\ screen = "Wide"
    /\ pushed = <<>>

-----------------------------------------------------------------------------
(* Scrollback.                                                             *)

\* An entry that is too long is cut where a character begins.
Cut(length) ==
    IF length <= MAX_ENTRY_BYTES THEN length
    ELSE (IF length \in WIDE_CHARS THEN MAX_ENTRY_BYTES - (MAX_ENTRY_BYTES % 3)
          ELSE MAX_ENTRY_BYTES) + ELLIPSIS

Entry(author, length) == [author |-> author, length |-> Cut(length)]

\* The bytes of the first n entries, for each n.
Sums(es) ==
    LET sum[n \in 0..Len(es)] == IF n = 0 THEN 0 ELSE sum[n - 1] + es[n].length
    IN  sum

Bytes(es) == Sums(es)[Len(es)]

Drop(es, n) == SubSeq(es, n + 1, Len(es))

\* Mutant: the new entry counts only when the next one is pushed.
EvictedUncounted(es, total) ==
    Min({n \in 0..Len(es) :
            /\ Len(es) - n <= MAX_ENTRIES
            /\ total - Last(es).length - Bytes(SubSeq(es, 1, n)) <= MAX_BYTES})

\* How many entries the loop takes from the front.
Evicted(es, total) ==
    Min({n \in 0..Len(es) :
            Len(es) - n <= MAX_ENTRIES /\ total - Bytes(SubSeq(es, 1, n)) <= MAX_BYTES})

\* Scrollback::push.
Push(e) ==
    LET all   == Append(entries, e)
        total == bytes + e.length
        n     == Evicted(all, total) IN
    /\ Len(pushed) < MAX_PUSHED
    /\ entries' = Drop(all, n)
    /\ bytes' = total - Bytes(SubSeq(all, 1, n))
    /\ pushed' = Append(pushed, e)

-----------------------------------------------------------------------------
(* The view.                                                               *)

Monus(a, b) == IF a > b THEN a - b ELSE 0

Lesser(a, b) == IF a < b THEN a ELSE b

RowsOf(es, wide) == IF wide THEN Len(es) ELSE Bytes(es)

Rows == RowsOf(entries, screen = "Wide")

\* Mutant: the scroll position is used as it is kept.
ShownKept == scroll

\* draw_messages: the position may be beyond what there is to scroll by now.
Shown == Lesser(scroll, max_scroll)

Slice == LET end == Rows - Shown IN [first |-> Monus(end, HEIGHT), last |-> end]

\* Every key, event and resize ends with a draw.
Redraw ==
    max_scroll' = IF screen' = "Small" THEN max_scroll
                  ELSE Monus(RowsOf(entries', screen' = "Wide"), HEIGHT)

-----------------------------------------------------------------------------
(* What happens in a chat.                                                 *)

\* send_text: refused unless connected, and by a full or closed queue; an error
\* becomes a notice.
SendText(length) ==
    IF status = "Connected" /\ task /\ queue < MESSAGE_QUEUE
    THEN /\ queue' = queue + 1
         /\ Push(Entry("Local", length))
    ELSE /\ Push(Entry("System", 1))
         /\ UNCHANGED queue

\* Enter; blank input is not sent, and only resets the position.
EnterText ==
    /\ \/ \E length \in TEXTS : SendText(length)
       \/ UNCHANGED <<entries, bytes, pushed, queue>>
    /\ scroll' = 0
    /\ UNCHANGED <<task, status, screen>>
    /\ Redraw

\* The chat is open, so a message brings the view to the bottom.
MessageShown ==
    /\ status = "Connected"
    /\ \E length \in TEXTS : Push(Entry("Remote", length))
    /\ scroll' = 0
    /\ UNCHANGED <<queue, task, status, screen>>
    /\ Redraw

\* A failed rekey, a dropped or refused message, or the rekey key where there is
\* nothing to rekey: the view stays where it is.
NoticeShown ==
    /\ Push(Entry("System", 1))
    /\ UNCHANGED <<queue, task, status, scroll, screen>>
    /\ Redraw

ClosedShown ==
    /\ ~task /\ status = "Connected"
    /\ status' = "Closed"
    /\ Push(Entry("System", 1))
    /\ UNCHANGED <<queue, task, scroll, screen>>
    /\ Redraw

\* The task takes a message, or has come to its end.
TaskTakes ==
    /\ task /\ queue > 0
    /\ queue' = queue - 1
    /\ UNCHANGED <<entries, bytes, task, status, scroll, max_scroll, screen, pushed>>

TaskGone ==
    /\ task
    /\ task' = FALSE /\ queue' = 0
    /\ UNCHANGED <<entries, bytes, status, scroll, max_scroll, screen, pushed>>

\* The keys for a row or a page, up and down.
ScrollKey ==
    /\ \E rows \in {1, PAGE} :
          scroll' \in {Lesser(scroll + rows, max_scroll), Monus(scroll, rows)}
    /\ UNCHANGED <<entries, bytes, queue, task, status, screen, pushed>>
    /\ Redraw

Resize ==
    /\ screen' \in {"Wide", "Narrow", "Small"}
    /\ UNCHANGED <<entries, bytes, queue, task, status, scroll, pushed>>
    /\ Redraw

ChatNext ==
    \/ EnterText \/ MessageShown \/ NoticeShown \/ ClosedShown
    \/ TaskTakes \/ TaskGone
    \/ ScrollKey \/ Resize

ChatSpec == ChatInit /\ [][ChatNext]_chatVars

-----------------------------------------------------------------------------
(* Properties.                                                              *)

\* "Bounded to 1,000 entries and 256 KiB per conversation": what is kept is the
\* newest part of everything that was said, as much of it as the limits allow
\* and no less, and the count of bytes never drifts from the entries.
HistoryExact ==
    /\ IsSuffix(entries, pushed)
    /\ bytes = Bytes(entries)
    /\ Len(entries) <= MAX_ENTRIES /\ bytes <= MAX_BYTES
    /\ \A n \in (Len(entries) + 1)..Len(pushed) :
          n > MAX_ENTRIES \/ Bytes(Drop(pushed, Len(pushed) - n)) > MAX_BYTES
    /\ pushed # <<>> => entries # <<>>

\* What is drawn lies within the rows there are, and fills the area whenever
\* there are enough of them, although the position is only kept relative to the
\* end and goes stale when entries are evicted or the terminal changes.
ScreenInRange ==
    screen # "Small" =>
        /\ Shown <= Rows
        /\ Slice.last - Slice.first = Lesser(Rows, HEIGHT)
=============================================================================
