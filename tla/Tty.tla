-------------------------------- MODULE Tty --------------------------------
(***************************************************************************)
(* The terminal (fs/tty.c, fs/kbd.c): the line buffer and the cursor,      *)
(* shared by TASK_FS and the keyboard interrupt, which comes between any   *)
(* two accesses of the task to tty.                                        *)
(*                                                                         *)
(* One process reads, others write, place the cursor and set the mode.     *)
(* TASK_FS serves them one at a time; pc is where it is in tty_read or     *)
(* tty_putc.  What the screen shows is left out: wild says that a          *)
(* character was written outside of it, or anything outside of its memory. *)
(* A key is the code of its character.                                     *)
(***************************************************************************)
EXTENDS Integers, Sequences

CONSTANTS
    BUFSIZE,                  \* of in_buf
    ROWS, COLS,               \* 24 and 80 in the code
    VIDEO,                    \* cells of video memory; 16384
    Key,                      \* what the keyboard has
    MaxRead                   \* bound: bytes a read asks for

NL == 10                      \* '\n'
BS == 8                       \* '\b'
EOT == 4                      \* C('D')
ETX == 3                      \* C('C')

(* The code's sizes satisfy the last lines: all that the buffer holds may  *)
(* be erased on the screen while the task scrolls it, and video memory has *)
(* more than twice the cells that tty uses.                                *)
ASSUME TtyAssumption ==
    /\ Key \subseteq 1 .. 255 /\ MaxRead \in Nat
    /\ {BUFSIZE, ROWS, COLS} \subseteq Nat \ {0, 1}
    /\ ROWS >= 3
    /\ BUFSIZE - 1 <= (ROWS - 3) * COLS
    /\ VIDEO \in Nat /\ VIDEO >= 2 * ROWS * COLS

VARIABLES
    in_buf, buf_head, count,  \* struct s_tty
    line, echo,               \* its mode's two bits
    pos,                      \* its cursor
    caps,                     \* CAPSLOCK in kbdgetc's shift
    masked,                   \* IRQ_KBD is disabled
    pc, r, n, target,         \* TASK_FS: where it is, what it has read of tty
    reader,                   \* the process that reads
    queue,                    \* what was typed and neither erased nor read
    overtaken,                \* a line came before its reader slept
    wild

inputVars  == <<in_buf, buf_head, count, queue>>
screenVars == <<pos, wild>>
vars == <<inputVars, screenVars, line, echo, caps, masked, pc, r, n, target, reader, overtaken>>

Init ==
    /\ in_buf = [k \in 0 .. BUFSIZE - 1 |-> 0] /\ buf_head = 0 /\ count = 0
    /\ line = TRUE /\ echo = TRUE
    /\ pos = 0 /\ wild = FALSE
    /\ caps = FALSE /\ masked = FALSE
    /\ pc = "idle" /\ r = 0 /\ n = 0 /\ target = 0
    /\ reader = "program" /\ queue = <<>> /\ overtaken = FALSE

Bottom == (ROWS - 1) * COLS

-----------------------------------------------------------------------------
(* tty_putc as a whole, as the interrupt runs it: where it leaves the      *)
(* cursor, and where it writes.  At the first cell a backspace is a        *)
(* character like others.                                                  *)
Advanced(p, ch) ==
    IF ch = NL THEN p + COLS - (p % COLS)
    ELSE IF ch = BS /\ p > 0 THEN p - 1
    ELSE p + 1

ScrolledAt(p) == IF p = Bottom THEN p - COLS ELSE p

Scrolled(p) == IF p >= Bottom THEN p - COLS ELSE p

Cells == 0 .. (ROWS + 1) * COLS - 1      \* the 25 rows of the display

Echo(ch) ==
    IF echo THEN /\ pos' = Scrolled(Advanced(pos, ch))
                 /\ wild' = (wild \/ (ch # NL /\ pos \notin Cells))
            ELSE UNCHANGED screenVars

(* With CAPSLOCK, the first test takes every code up to 'a' for a small    *)
(* letter: the code may become negative, which ttyintr takes for no data.  *)
kbdgetc(k) ==
    IF ~caps THEN k
    ELSE IF 97 >= k /\ k <= 122 THEN k - 32
    ELSE k

WakesEnd(c) == c = EOT \/ ~line

Wakes(c) == c = NL \/ c = EOT \/ ~line

(* wake_up(&tty) finds the reader asleep, or too early.                    *)
WakeReader ==
    /\ reader' = IF reader = "asleep" THEN "call" ELSE reader
    /\ overtaken' = (reader = "told")

Erase ==
    /\ IF count = 0 THEN UNCHANGED <<count, queue, screenVars>>
       ELSE /\ count' = count - 1
            /\ queue' = SubSeq(queue, 1, Len(queue) - 1)
            /\ Echo(BS)
    /\ UNCHANGED <<in_buf, buf_head, reader, overtaken>>

Accept(c) ==
    /\ in_buf' = [in_buf EXCEPT ![(buf_head + count) % BUFSIZE] = c]
    /\ count' = count + 1 /\ queue' = Append(queue, c)
    /\ Echo(c)
    /\ IF Wakes(c) THEN WakeReader ELSE UNCHANGED <<reader, overtaken>>
    /\ UNCHANGED buf_head

Accepted(c) == c > 0 /\ c # ETX /\ ~(c = BS /\ line) /\ count < BUFSIZE - 1

(* One turn of ttyintr's loop; a key that is not accepted changes nothing. *)
ttyintr(k) ==
    /\ ~masked
    /\ IF kbdgetc(k) = BS /\ line THEN Erase
       ELSE Accepted(kbdgetc(k)) /\ Accept(kbdgetc(k))
    /\ UNCHANGED <<line, echo, caps, masked, pc, r, n, target>>

CapsLock ==
    /\ ~masked
    /\ caps' = ~caps
    /\ UNCHANGED <<inputVars, screenVars, line, echo, masked, pc, r, n, target, reader, overtaken>>

-----------------------------------------------------------------------------
(* The reader: its call, the sleep a reply of MSG_BESLEEP puts it to.      *)
ReaderMoves(from, to) ==
    /\ reader = from /\ reader' = to
    /\ UNCHANGED <<inputVars, screenVars, line, echo, caps, masked, pc, r, n, target, overtaken>>

Call  == ReaderMoves("program", "call")
Sleep == ReaderMoves("told", "asleep")

Goto(to) == pc' = to /\ UNCHANGED <<line, echo, caps, target>>

(* tty_read finds nothing, or goes on.                                     *)
ReadTest ==
    /\ pc = "idle" /\ reader = "call"
    /\ IF count = 0
       THEN reader' = "told" /\ overtaken' = FALSE
                /\ UNCHANGED <<pc, n, target>>
       ELSE /\ \E k \in 0 .. MaxRead : n' = k /\ target' = k
            /\ pc' = "mask" /\ reader' = "served" /\ UNCHANGED overtaken
    /\ UNCHANGED <<inputVars, screenVars, line, echo, caps, masked, r>>

ReadMaskNot ==
    /\ pc = "mask" /\ Goto("take")
    /\ UNCHANGED <<inputVars, screenVars, masked, r, n, reader, overtaken>>

ReadMask ==
    /\ pc = "mask" /\ Goto("take")
    /\ masked' = TRUE
    /\ UNCHANGED <<inputVars, screenVars, r, n, reader, overtaken>>

(* One turn of the loop, up to the decrement of count, whose load, r, and  *)
(* store are apart.  An EOT ends it, and is eaten if it comes first.       *)
ReadTake ==
    /\ pc = "take"
    /\ LET c == in_buf[buf_head]
       IN  IF n = 0 \/ count = 0 \/ (c = EOT /\ n # target)
           THEN Goto("unmask") /\ UNCHANGED <<inputVars, r, n>>
           ELSE /\ buf_head' = (buf_head + 1) % BUFSIZE
                /\ queue' = Tail(queue)
                /\ r' = count
                /\ n' = IF c = EOT THEN 0 ELSE n - 1
                /\ Goto("drop")
                /\ UNCHANGED <<in_buf, count>>
    /\ UNCHANGED <<screenVars, masked, reader, overtaken>>

ReadDrop ==
    /\ pc = "drop" /\ Goto("take")
    /\ count' = r - 1 /\ r' = 0
    /\ UNCHANGED <<in_buf, buf_head, queue, screenVars, masked, n, reader, overtaken>>

ReadReturn ==
    /\ pc = "unmask" /\ pc' = "idle"
    /\ masked' = FALSE /\ reader' = "program"
    /\ n' = 0 /\ target' = 0
    /\ UNCHANGED <<inputVars, screenVars, line, echo, caps, r, overtaken>>

-----------------------------------------------------------------------------
(* tty_write: a character, step by step.  No program writes a backspace    *)
(* while keys are echoed.                                                  *)
Screen(to) == Goto(to) /\ UNCHANGED <<inputVars, masked, n, reader, overtaken>>

PutChar == pc = "idle" /\ Screen("char") /\ r' = pos /\ UNCHANGED screenVars
PutLine == pc = "idle" /\ Screen("line") /\ r' = pos /\ UNCHANGED screenVars

(* base[pos++]: the store of pos comes before that of the character.       *)
PutStore ==
    /\ pc = "char" /\ Screen("test")
    /\ pos' = r + 1 /\ wild' = (wild \/ r \notin Cells) /\ r' = 0

(* pos is read twice, in either order, before it is stored.                *)
PutBreak ==
    /\ pc = "line" /\ Screen("broken")
    /\ \E a, b \in {r, pos} : r' = a + COLS - (b % COLS)
    /\ UNCHANGED screenVars

PutBroken ==
    /\ pc = "broken" /\ Screen("test")
    /\ pos' = r /\ r' = 0 /\ UNCHANGED wild

PutTest ==
    /\ pc = "test" /\ Screen(IF pos >= Bottom THEN "copied" ELSE "idle")
    /\ UNCHANGED <<screenVars, r>>

PutLoad == pc = "copied" /\ Screen("loaded") /\ r' = pos /\ UNCHANGED screenVars

PutScroll ==
    /\ pc = "loaded" /\ Screen("clear")
    /\ pos' = r - COLS /\ r' = 0 /\ UNCHANGED wild

(* memset(base + pos, 0, ROWS * COLS - pos), the length unsigned: pos is   *)
(* read for the one, then for the other, and keys may come in between.     *)
PutMeasure == pc = "clear" /\ Screen("measured") /\ r' = pos /\ UNCHANGED screenVars

PutClear ==
    /\ pc = "measured" /\ Screen("idle")
    /\ \E x \in {<<pos, r>>, <<r, pos>>} :
          wild' = (wild \/ x[1] < 0 \/ x[2] > ROWS * COLS \/ x[1] + ROWS * COLS - x[2] > VIDEO)
    /\ r' = 0 /\ UNCHANGED pos

(* gotoxy and cls.                                                         *)
GotoXY ==
    /\ pc = "idle" /\ Screen("idle")
    /\ \E x \in 0 .. COLS - 1, y \in 0 .. ROWS - 1 : pos' = y * COLS + x
    /\ UNCHANGED <<wild, r>>

SetMode ==
    /\ pc = "idle"
    /\ \E l, e \in BOOLEAN : line' = l /\ echo' = e
    /\ UNCHANGED <<inputVars, screenVars, caps, masked, pc, r, n, target, reader, overtaken>>

Read  == ReadTest \/ ReadMask \/ ReadTake \/ ReadDrop \/ ReadReturn
Write ==
    PutStore \/ PutBreak \/ PutBroken \/ PutTest \/ PutLoad \/ PutScroll \/ PutMeasure \/ PutClear
Other == PutChar \/ PutLine \/ GotoXY \/ SetMode      \* calls of other processes

Type == \E k \in Key : ttyintr(k)

Next ==
    \/ Type \/ CapsLock \/ Call \/ Sleep \/ Read
    \/ Write \/ Other

(* TASK_FS and the reader run on.                                          *)
Fairness == WF_vars(Read \/ Write) /\ WF_vars(Sleep)

Spec     == Init /\ [][Next]_vars
FairSpec == Spec /\ Fairness

-----------------------------------------------------------------------------
(* The ring holds what was typed and neither erased nor read, in order,    *)
(* also while the task is taking from it: keys may come before it masks    *)
(* the interrupt and after (tty_read, ttyintr).                            *)
RingIsQueue ==
    /\ Len(queue) = IF pc = "drop" THEN count - 1 ELSE count
    /\ \A k \in 1 .. Len(queue) : in_buf[(buf_head + k - 1) % BUFSIZE] = queue[k]

(* However the task and the interrupt share pos, no character is written   *)
(* outside of the display's rows and nothing outside of video memory, and  *)
(* the cursor is back on the screen when the task is done.  Keys between   *)
(* memset's two reads of pos make it clear more than the screen, but less  *)
(* than the screen once more (tty_putc, tty_gotoxy).                       *)
CursorOnScreen ==
    /\ ~wild /\ pos >= 0
    /\ pc = "idle" => pos <= ROWS * COLS

(* A line that has come to its end is read or erased, unless its end came  *)
(* between tty_read's -2 and the sleep: then the reader sleeps on, with a  *)
(* full buffer for good.  recvmsg takes the lowest slot first, so others   *)
(* must stop calling in the end (tty_read, ttyintr, wake_up).              *)
HasEnd == \E k \in 1 .. Len(queue) : queue[k] \in {NL, EOT}

LineIsRead ==
    <>[][~Other]_vars =>
        (reader # "program" /\ HasEnd /\ ~overtaken ~> reader = "program" \/ ~HasEnd)
=============================================================================
