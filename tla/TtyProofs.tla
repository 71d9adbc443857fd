----------------------------- MODULE TtyProofs -----------------------------
(***************************************************************************)
(* Proofs about the terminal, for every size of line buffer and screen     *)
(* that TtyAssumption allows, and every keyboard.                          *)
(***************************************************************************)
EXTENDS Tty, TLAPS

LEMMA ModIs ==
  ASSUME NEW m \in Nat \ {0}, NEW x \in 0 .. 2 * m - 1
  PROVE  x % m = IF x < m THEN x ELSE x - m
OBVIOUS

LEMMA ModRange ==
  ASSUME NEW m \in Nat \ {0}, NEW x \in Nat
  PROVE  x % m \in 0 .. m - 1
OBVIOUS

LEMMA ModNext ==
  ASSUME NEW m \in Nat \ {0}, NEW h \in 0 .. m - 1, NEW k \in 1 .. m - 1
  PROVE  /\ (h + 1) % m \in 0 .. m - 1
         /\ (((h + 1) % m) + k - 1) % m = (h + (k + 1) - 1) % m
<1>1. CASE h + 1 < m
  BY <1>1
<1>2. CASE h + 1 = m
  <2>1. (h + 1) % m = 0
    BY <1>2
  <2>2. (k - 1) % m = k - 1
    OBVIOUS
  <2>3. (m + (k - 1)) % m = k - 1
    OBVIOUS
  <2>4. h + (k + 1) - 1 = m + (k - 1) /\ 0 + k - 1 = k - 1
    BY <1>2
  <2> QED BY <2>1, <2>2, <2>3, <2>4
<1> QED BY <1>1, <1>2

LEMMA Sizes ==
  /\ COLS \in Nat /\ COLS > 1 /\ Bottom \in Nat
  /\ ROWS * COLS = Bottom + COLS
  /\ (ROWS + 1) * COLS = Bottom + 2 * COLS
  /\ BUFSIZE - 1 <= Bottom - 2 * COLS
  /\ BUFSIZE \in Nat /\ BUFSIZE > 1
  /\ VIDEO \in Nat /\ VIDEO >= 2 * (Bottom + COLS)
BY TtyAssumption DEF Bottom

-----------------------------------------------------------------------------
(* The ring, and its types.                                                *)
RingInv ==
    /\ in_buf \in [0 .. BUFSIZE - 1 -> Int]
    /\ buf_head \in 0 .. BUFSIZE - 1
    /\ count \in 0 .. BUFSIZE - 1
    /\ queue \in Seq(Int)
    /\ RingIsQueue

Pcs == {"idle", "mask", "take", "drop", "unmask", "char", "line", "broken", "test", "copied",
        "loaded", "clear", "measured"}

(* The interrupt is masked while the task takes from the ring: what it has *)
(* read of count stays so.                                                 *)
TaskInv ==
    /\ pc \in Pcs
    /\ pc \in {"take", "drop", "unmask"} => masked
    /\ pc = "drop" => r = count /\ count > 0

(* How far the interrupt may yet move the cursor back with what it has.    *)
Erasable == IF ~echo THEN 0 ELSE IF line THEN count ELSE BUFSIZE - 1 - count

(* The last cell the cursor can be at: a character or a line further than  *)
(* the display while tty_putc has not scrolled.                            *)
Furthest ==
    IF pc \in {"test", "copied", "loaded"} THEN Bottom + 2 * COLS - 1 ELSE Bottom + COLS - 1

ScreenInv ==
    /\ ~wild
    /\ pos \in 0 .. Furthest
    /\ pc \in {"char", "line"} => r \in 0 .. Bottom + COLS - 1
    /\ pc = "broken" => r \in 0 .. Bottom + 2 * COLS - 1
    /\ pc = "measured" => r \in 0 .. Bottom + COLS - 1
    /\ pc = "copied" => pos >= COLS + Erasable
    /\ pc = "loaded" => r \in COLS .. Bottom + 2 * COLS - 1

IInv == RingInv /\ TaskInv /\ ScreenInv

LEMMA KeyIsInt == ASSUME NEW k \in Key PROVE kbdgetc(k) \in Int
BY TtyAssumption DEF kbdgetc

-----------------------------------------------------------------------------
(* A character is added behind the last of the queue.                      *)
LEMMA AcceptRing ==
  ASSUME RingInv, NEW c \in Int, count < BUFSIZE - 1, Accept(c), pc # "drop", pc' = pc
  PROVE  RingInv'
<1>1. PICK at : at = [k \in 1 .. count + 1 |-> (buf_head + k - 1) % BUFSIZE]
  OBVIOUS
<1>2. ASSUME NEW k \in 1 .. count + 1 PROVE at[k] \in 0 .. BUFSIZE - 1
  <2>1. buf_head + k - 1 \in Nat /\ BUFSIZE \in Nat \ {0}
    BY Sizes DEF RingInv
  <2> QED BY <1>1, <2>1, ModRange
<1>3. ASSUME NEW k \in 1 .. count PROVE at[k] # at[count + 1]
  <2>1. /\ buf_head + k - 1 \in 0 .. 2 * BUFSIZE - 1
        /\ buf_head + (count + 1) - 1 \in 0 .. 2 * BUFSIZE - 1
        /\ BUFSIZE \in Nat \ {0} /\ count - k < BUFSIZE
    BY Sizes DEF RingInv
  <2>2. \A x \in 0 .. 2 * BUFSIZE - 1 : x % BUFSIZE = IF x < BUFSIZE THEN x ELSE x - BUFSIZE
    BY <2>1, ModIs
  <2>3. at[k] = (buf_head + k - 1) % BUFSIZE /\ at[count + 1] = (buf_head + (count + 1) - 1) % BUFSIZE
    BY <1>1 DEF RingInv
  <2>4. /\ buf_head + k - 1 < buf_head + (count + 1) - 1
        /\ (buf_head + (count + 1) - 1) - (buf_head + k - 1) < BUFSIZE
    BY Sizes DEF RingInv
  <2>5. \A x, y \in 0 .. 2 * BUFSIZE - 1 : x < y /\ y - x < BUFSIZE => x % BUFSIZE # y % BUFSIZE
    BY <2>1, <2>2
  <2>6. (buf_head + k - 1) % BUFSIZE # (buf_head + (count + 1) - 1) % BUFSIZE
    BY <2>1, <2>4, <2>5
  <2> QED BY <2>3, <2>6
<1>4. /\ in_buf' = [in_buf EXCEPT ![at[count + 1]] = c]
      /\ count' = count + 1 /\ queue' = Append(queue, c) /\ buf_head' = buf_head
      /\ Len(queue) = count
      /\ \A k \in 1 .. count : in_buf[at[k]] = queue[k]
  <2>1. at[count + 1] = (buf_head + count) % BUFSIZE
    <3>1. at[count + 1] = (buf_head + (count + 1) - 1) % BUFSIZE
      BY <1>1 DEF RingInv
    <3>2. buf_head + (count + 1) - 1 = buf_head + count
      BY DEF RingInv
    <3> QED BY <3>1, <3>2
  <2>2. Len(queue) = count /\ \A k \in 1 .. count : in_buf[at[k]] = queue[k]
    BY <1>1 DEF RingInv, RingIsQueue
  <2> QED BY <2>1, <2>2 DEF Accept
<1>5. /\ Len(queue') = count + 1 /\ queue' \in Seq(Int)
      /\ \A k \in 1 .. count + 1 : queue'[k] = IF k = count + 1 THEN c ELSE queue[k]
  BY <1>4 DEF RingInv
<1>6. \A k \in 1 .. count + 1 : in_buf'[at[k]] = queue'[k]
  <2>1. in_buf'[at[count + 1]] = c
    BY <1>2, <1>4 DEF RingInv
  <2>2. \A k \in 1 .. count : in_buf'[at[k]] = in_buf[at[k]]
    BY <1>2, <1>3, <1>4 DEF RingInv
  <2> QED BY <1>4, <1>5, <2>1, <2>2 DEF RingInv
<1>7. RingIsQueue'
  <2>1. Len(queue') = count' /\ pc' # "drop"
    BY <1>4, <1>5
  <2>2. \A k \in 1 .. Len(queue') : in_buf'[(buf_head' + k - 1) % BUFSIZE] = queue'[k]
    BY <1>1, <1>4, <1>5, <1>6
  <2> QED BY <2>1, <2>2 DEF RingIsQueue
<1>8. in_buf' \in [0 .. BUFSIZE - 1 -> Int]
  BY <1>4 DEF RingInv
<1>9. count' \in 0 .. BUFSIZE - 1
  BY <1>4, Sizes DEF RingInv
<1> QED BY <1>4, <1>5, <1>7, <1>8, <1>9 DEF RingInv

(* The last is taken off it.                                               *)
LEMMA EraseRing ==
  ASSUME RingInv, Erase, pc # "drop", pc' = pc
  PROVE  RingInv'
<1>1. CASE count = 0
  BY <1>1 DEF Erase, RingInv, RingIsQueue
<1>2. CASE count # 0
  <2>1. /\ count' = count - 1 /\ queue' = SubSeq(queue, 1, Len(queue) - 1)
        /\ UNCHANGED <<in_buf, buf_head>> /\ Len(queue) = count
    BY <1>2 DEF Erase, RingInv, RingIsQueue
  <2>2. /\ queue' \in Seq(Int) /\ Len(queue') = count - 1
        /\ \A k \in 1 .. count - 1 : queue'[k] = queue[k]
    BY <1>2, <2>1 DEF RingInv
  <2>3. RingIsQueue'
    <3>1. /\ Len(queue') = count - 1 /\ count - 1 <= Len(queue)
          /\ \A k \in 1 .. count - 1 : k \in 1 .. Len(queue)
      BY <2>1, <2>2 DEF RingInv
    <3>2. \A k \in 1 .. count - 1 : in_buf[(buf_head + k - 1) % BUFSIZE] = queue[k]
      BY <3>1 DEF RingInv, RingIsQueue
    <3> QED BY <2>1, <2>2, <3>1, <3>2 DEF RingIsQueue
  <2>4. count' \in 0 .. BUFSIZE - 1
    BY <1>2, <2>1, Sizes DEF RingInv
  <2> QED BY <2>1, <2>2, <2>3, <2>4 DEF RingInv
<1> QED BY <1>1, <1>2

(* The first is read: the head of the ring moves on, count follows.        *)
LEMMA TakeRing ==
  ASSUME RingInv, ReadTake
  PROVE  RingInv'
<1>1. CASE UNCHANGED inputVars /\ pc' = "unmask"
  BY <1>1 DEF inputVars, ReadTake, RingInv, RingIsQueue
<1>2. CASE /\ buf_head' = (buf_head + 1) % BUFSIZE /\ queue' = Tail(queue) /\ pc' = "drop"
           /\ UNCHANGED <<in_buf, count>> /\ count # 0
  <2>1. Len(queue) = count /\ count \in 1 .. BUFSIZE - 1
    BY <1>2 DEF ReadTake, RingInv, RingIsQueue
  <2>2. /\ queue' \in Seq(Int) /\ Len(queue') = count - 1
        /\ \A k \in 1 .. count - 1 : queue'[k] = queue[k + 1]
    BY <1>2, <2>1 DEF RingInv
  <2>3. buf_head' \in 0 .. BUFSIZE - 1
    BY <1>2, Sizes, ModRange DEF RingInv
  <2>4. ASSUME NEW k \in 1 .. count - 1
        PROVE  in_buf'[(buf_head' + k - 1) % BUFSIZE] = queue'[k]
    <3>1. (buf_head' + k - 1) % BUFSIZE = (buf_head + (k + 1) - 1) % BUFSIZE
      <4>1. k \in 1 .. BUFSIZE - 1 /\ buf_head \in 0 .. BUFSIZE - 1 /\ BUFSIZE \in Nat \ {0}
        BY <2>1, Sizes DEF RingInv
      <4> QED BY <1>2, <4>1, ModNext
    <3>2. k + 1 \in 1 .. Len(queue)
      BY <2>1
    <3>3. in_buf[(buf_head + (k + 1) - 1) % BUFSIZE] = queue[k + 1]
      BY <3>2 DEF RingInv, RingIsQueue
    <3> QED BY <1>2, <2>2, <3>1, <3>3
  <2>5. RingIsQueue'
    BY <1>2, <2>2, <2>4 DEF RingIsQueue
  <2> QED BY <1>2, <2>2, <2>3, <2>5 DEF RingInv
<1> QED BY <1>1, <1>2 DEF ReadTake, Goto

-----------------------------------------------------------------------------
(* Where an echo leaves the cursor.                                        *)
LEMMA EchoMoves ==
  ASSUME NEW p \in Nat, NEW ch, NEW q, q = Scrolled(Advanced(p, ch))
  PROVE  /\ q \in Nat
         /\ q <= p \/ q < Bottom
         /\ q >= Bottom - COLS \/ q >= p - 1
         /\ ch = BS \/ q >= Bottom - COLS \/ q > p
<1>1. p % COLS \in 0 .. COLS - 1
  BY Sizes, ModRange
<1>2. /\ Advanced(p, ch) \in Nat
      /\ Advanced(p, ch) <= p + COLS /\ Advanced(p, ch) >= p - 1
      /\ ch = BS \/ Advanced(p, ch) > p
  BY <1>1, Sizes DEF Advanced, BS, NL
<1> QED BY <1>2, Sizes DEF Scrolled

(* An interrupt keeps the cursor where the task can go on from.            *)
LEMMA EchoScreen ==
  ASSUME IInv, NEW ch, Echo(ch), UNCHANGED <<line, echo, pc, r>>,
         NEW d \in {-1, 1}, count' = count + d, count' \in 0 .. BUFSIZE - 1,
         line => d = IF ch = BS THEN -1 ELSE 1, ~line => d = 1
  PROVE  ScreenInv'
<1> USE Sizes DEF IInv, RingInv, TaskInv
<1>1. pos \in Nat /\ Furthest' = Furthest /\ Furthest \in Bottom .. Bottom + 2 * COLS - 1
  BY DEF ScreenInv, Furthest
<1>2. CASE ~echo
  BY <1>1, <1>2 DEF Echo, screenVars, ScreenInv, Erasable
<1>3. CASE echo
  <2>1. pos' = Scrolled(Advanced(pos, ch)) /\ (wild' => wild \/ pos \notin Cells)
    BY <1>3 DEF Echo
  <2>2. pos \in Cells
    BY <1>1 DEF Cells, ScreenInv
  <2>3. /\ pos' \in Nat /\ (pos' <= pos \/ pos' < Bottom)
        /\ pos' >= Bottom - COLS \/ pos' >= pos - 1
        /\ ch = BS \/ pos' >= Bottom - COLS \/ pos' > pos
    BY <1>1, <2>1, EchoMoves
  <2>4. pos' \in 0 .. Furthest
    BY <1>1, <2>3 DEF ScreenInv
  <2>5. pc = "copied" => pos' >= COLS + Erasable'
    BY <1>3, <2>3 DEF ScreenInv, Erasable
  <2>6. ~wild'
    BY <2>1, <2>2 DEF ScreenInv
  <2> QED BY <1>1, <2>4, <2>5, <2>6 DEF ScreenInv
<1> QED BY <1>2, <1>3
-----------------------------------------------------------------------------
LEMMA InitIInv == Init => IInv
<1> SUFFICES ASSUME Init PROVE IInv
  OBVIOUS
<1> USE Sizes DEF Init
<1>1. RingInv
  BY DEF RingInv, RingIsQueue
<1>2. TaskInv
  BY DEF TaskInv, Pcs
<1>3. ScreenInv
  BY DEF ScreenInv, Furthest
<1> QED BY <1>1, <1>2, <1>3 DEF IInv

LEMMA ttyintrIInv ==
  ASSUME IInv, NEW k \in Key, ttyintr(k)
  PROVE  IInv'
<1> USE DEF ttyintr
<1>1. kbdgetc(k) \in Int
  BY KeyIsInt
<1>2. UNCHANGED <<line, echo, masked, pc, r>> /\ ~masked /\ pc \notin {"take", "drop", "unmask"}
  BY DEF IInv, TaskInv
<1>3. TaskInv'
  BY <1>2 DEF IInv, TaskInv
<1>4. CASE kbdgetc(k) = BS /\ line
  <2>1. RingInv'
    BY <1>2, <1>4, EraseRing DEF IInv
  <2>2. ScreenInv'
    <3>1. CASE count = 0
      BY <1>2, <1>4, <3>1 DEF Erase, screenVars, IInv, ScreenInv, Furthest, Erasable
    <3>2. CASE count # 0
      <4>1. Echo(BS) /\ count' = count + (-1) /\ count' \in 0 .. BUFSIZE - 1
        BY <1>4, <2>1, <3>2 DEF Erase, IInv, RingInv
      <4> QED BY <1>2, <1>4, <4>1, EchoScreen
    <3> QED BY <3>1, <3>2
  <2> QED BY <1>3, <2>1, <2>2 DEF IInv
<1>5. CASE ~(kbdgetc(k) = BS /\ line)
  <2>1. Accepted(kbdgetc(k)) /\ Accept(kbdgetc(k)) /\ count < BUFSIZE - 1
    BY <1>5 DEF Accepted
  <2>2. RingInv'
    BY <1>1, <1>2, <2>1, AcceptRing DEF IInv
  <2>3. Echo(kbdgetc(k)) /\ count' = count + 1 /\ count' \in 0 .. BUFSIZE - 1
    BY <2>1, <2>2 DEF Accept, RingInv
  <2>4. ScreenInv'
    BY <1>2, <1>5, <2>3, EchoScreen
  <2> QED BY <1>3, <2>2, <2>4 DEF IInv
<1> QED BY <1>4, <1>5

(* Steps that leave the ring, or the screen, alone.                        *)
LEMMA RingKept ==
  ASSUME RingInv, UNCHANGED inputVars, (pc = "drop") <=> (pc' = "drop")
  PROVE  RingInv'
BY DEF inputVars, RingInv, RingIsQueue

LEMMA ScreenKept ==
  ASSUME ScreenInv, UNCHANGED screenVars,
         {pc, pc'} \cap {"char", "line", "broken", "test", "copied", "loaded", "measured"} = {}
  PROVE  ScreenInv'
BY DEF screenVars, ScreenInv, Furthest

LEMMA ReadIInv ==
  ASSUME IInv, Read
  PROVE  IInv'
<1> USE Sizes DEF IInv, Goto
<1>1. CASE ReadTest \/ ReadMask \/ ReadReturn
  <2>1. RingInv'
    BY <1>1, RingKept DEF ReadTest, ReadMask, ReadReturn
  <2>2. ScreenInv'
    BY <1>1, ScreenKept DEF ReadTest, ReadMask, ReadReturn
  <2>3. TaskInv'
    BY <1>1 DEF ReadTest, ReadMask, ReadReturn, TaskInv, Pcs
  <2> QED BY <2>1, <2>2, <2>3
<1>2. CASE ReadTake
  <2>1. RingInv'
    BY <1>2, TakeRing
  <2>2. ScreenInv'
    BY <1>2, ScreenKept DEF ReadTake
  <2>3. TaskInv'
    BY <1>2 DEF ReadTake, TaskInv, Pcs, RingInv
  <2> QED BY <2>1, <2>2, <2>3
<1>3. CASE ReadDrop
  <2>1. RingInv'
    <3>1. count' = count - 1 /\ count > 0 /\ pc = "drop" /\ pc' = "take"
          /\ UNCHANGED <<in_buf, buf_head, queue>>
      BY <1>3 DEF ReadDrop, TaskInv
    <3>2. count' \in 0 .. BUFSIZE - 1
      BY <3>1 DEF RingInv
    <3>3. RingIsQueue'
      BY <3>1 DEF RingInv, RingIsQueue
    <3> QED BY <3>1, <3>2, <3>3 DEF RingInv
  <2>2. ScreenInv'
    BY <1>3, ScreenKept DEF ReadDrop
  <2>3. TaskInv'
    BY <1>3 DEF ReadDrop, TaskInv, Pcs
  <2> QED BY <2>1, <2>2, <2>3
<1> QED BY <1>1, <1>2, <1>3 DEF Read

(* tty_putc and the ioctls, in the task.                                   *)
LEMMA WriteIInv ==
  ASSUME IInv, PutChar \/ PutLine \/ Write \/ GotoXY
  PROVE  IInv'
<1> USE Sizes DEF IInv, Screen, Goto
<1>1. UNCHANGED <<inputVars, line, echo, masked>> /\ pc # "drop" /\ pc' # "drop"
  BY DEF PutChar, PutLine, Write, GotoXY, PutStore, PutBreak, PutBroken,
       PutTest, PutLoad, PutScroll, PutMeasure, PutClear
<1>2. RingInv'
  BY <1>1, RingKept
<1>3. TaskInv'
  BY <1>1 DEF TaskInv, Pcs,
       PutChar, PutLine, Write, GotoXY, PutStore, PutBreak, PutBroken,
       PutTest, PutLoad, PutScroll, PutMeasure, PutClear
<1>4. count' = count /\ count \in 0 .. BUFSIZE - 1 /\ Erasable' = Erasable
      /\ Erasable \in 0 .. BUFSIZE - 1
  BY <1>1 DEF inputVars, RingInv, Erasable
<1>5. ScreenInv'
  <2> USE DEF ScreenInv, Furthest, screenVars
  <2>1. CASE PutChar \/ PutLine
    BY <2>1 DEF PutChar, PutLine
  <2>2. CASE PutStore
    <3>1. Cells = 0 .. Bottom + 2 * COLS - 1
      BY DEF Cells
    <3>2. r \in Cells /\ pos' = r + 1 /\ r \in 0 .. Bottom + COLS - 1
      BY <2>2, <3>1 DEF PutStore
    <3>3. ~wild' /\ pc' = "test"
      BY <2>2, <3>2 DEF PutStore
    <3>4. pos' \in 0 .. Bottom + 2 * COLS - 1
      BY <3>2
    <3> QED BY <3>3, <3>4
  <2>3. CASE PutBreak
    <3>1. PICK a, b \in {r, pos} : r' = a + COLS - (b % COLS)
      BY <2>3 DEF PutBreak
    <3>2. a \in 0 .. Bottom + COLS - 1 /\ b \in Nat
      BY <2>3, <3>1 DEF PutBreak
    <3>3. b % COLS \in 0 .. COLS - 1
      <4>1. COLS \in Nat \ {0}
        OBVIOUS
      <4> QED BY <3>2, <4>1, ModRange
    <3>4. r' \in 0 .. Bottom + 2 * COLS - 1
      BY <3>1, <3>2, <3>3
    <3> QED BY <2>3, <3>4 DEF PutBreak
  <2>9. CASE PutBroken
    BY <2>9 DEF PutBroken
  <2>10. CASE PutMeasure
    BY <2>10 DEF PutMeasure
  <2>4. CASE PutTest
    BY <1>4, <2>4 DEF PutTest
  <2>5. CASE PutLoad
    BY <1>4, <2>5 DEF PutLoad
  <2>6. CASE PutScroll
    BY <2>6 DEF PutScroll
  <2>7. CASE PutClear
    <3>1. pos \in 0 .. Bottom + COLS - 1 /\ r \in 0 .. Bottom + COLS - 1
      BY <2>7 DEF PutClear
    <3>2. ASSUME NEW a \in 0 .. Bottom + COLS - 1, NEW b \in 0 .. Bottom + COLS - 1
          PROVE  ~(a < 0) /\ ~(b > ROWS * COLS) /\ ~(a + ROWS * COLS - b > VIDEO)
      OBVIOUS
    <3>3. PICK x \in {<<pos, r>>, <<r, pos>>} :
              wild' = (wild \/ x[1] < 0 \/ x[2] > ROWS * COLS \/ x[1] + ROWS * COLS - x[2] > VIDEO)
      BY <2>7 DEF PutClear
    <3>4. x[1] \in 0 .. Bottom + COLS - 1 /\ x[2] \in 0 .. Bottom + COLS - 1
      BY <3>1, <3>3
    <3>5. ~wild'
      BY <3>2, <3>3, <3>4
    <3> QED BY <2>7, <3>1, <3>5 DEF PutClear
  <2>8. CASE GotoXY
    <3>1. PICK x \in 0 .. COLS - 1, y \in 0 .. ROWS - 1 : pos' = y * COLS + x
      BY <2>8 DEF GotoXY
    <3>2. y * COLS \in 0 .. Bottom
      BY TtyAssumption DEF Bottom
    <3> QED BY <2>8, <3>1, <3>2 DEF GotoXY
  <2> QED BY <2>1, <2>2, <2>3, <2>4, <2>5, <2>6, <2>7, <2>8, <2>9, <2>10 DEF Write
<1> QED BY <1>2, <1>3, <1>5

LEMMA NextIInv == IInv /\ [Next]_vars => IInv'
<1> SUFFICES ASSUME IInv, [Next]_vars PROVE IInv'
  OBVIOUS
<1>1. CASE Type
  BY <1>1, ttyintrIInv DEF Type
<1>2. CASE CapsLock \/ Call \/ Sleep \/ UNCHANGED vars
  <2>1. UNCHANGED <<inputVars, screenVars, line, echo, masked, pc, r>>
    BY <1>2 DEF CapsLock, Call, Sleep, ReaderMoves, vars
  <2>2. RingInv' /\ TaskInv'
    BY <2>1, RingKept DEF IInv, TaskInv, inputVars
  <2>3. ScreenInv'
    BY <2>1 DEF IInv, ScreenInv, Furthest, Erasable, inputVars, screenVars
  <2> QED BY <2>2, <2>3 DEF IInv
<1>3. CASE Read
  BY <1>3, ReadIInv
<1>4. CASE PutChar \/ PutLine \/ Write \/ GotoXY
  BY <1>4, WriteIInv
<1>5. CASE SetMode
  <2>1. pc = "idle" /\ UNCHANGED <<inputVars, screenVars, masked, pc, r>>
    BY <1>5 DEF SetMode
  <2>2. RingInv' /\ TaskInv'
    BY <2>1, RingKept DEF IInv, TaskInv, inputVars
  <2>3. ScreenInv'
    BY <2>1, ScreenKept DEF IInv
  <2> QED BY <2>2, <2>3 DEF IInv
<1> QED BY <1>1, <1>2, <1>3, <1>4, <1>5 DEF Next, Other

LEMMA Invariant == Spec => []IInv
<1> QED BY InitIInv, NextIInv, PTL DEF Spec

(* For every size of in_buf the ring holds what was typed and neither      *)
(* erased nor read, in order, however keys come between the task's steps   *)
(* (tty_read, ttyintr).                                                    *)
THEOREM RingHoldsQueue == Spec => []RingIsQueue
<1>1. IInv => RingIsQueue
  BY DEF IInv, RingInv
<1> QED BY Invariant, <1>1, PTL

(* On every display that is large enough for what the ring may erase, no   *)
(* character is written outside of it, and nothing outside of video        *)
(* memory, however the task and the interrupt share the cursor (tty_putc). *)
THEOREM CursorStays == Spec => []CursorOnScreen
<1>1. IInv => CursorOnScreen
  BY Sizes DEF IInv, ScreenInv, Furthest, CursorOnScreen
<1> QED BY Invariant, <1>1, PTL
=============================================================================
