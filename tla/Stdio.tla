------------------------------- MODULE Stdio -------------------------------
(***************************************************************************)
(* Streams (lib/stdio.c) over read and write (lib/fs.c) and the heap       *)
(* (lib/malloc.c), as a program uses them: stdin, stdout, a file it opens  *)
(* for reading or writing, and blocks of its own.                          *)
(*                                                                         *)
(* The characters of a stream are numbered.  A stream that is written has  *)
(* put that many and its descriptor got those in sink; one that is read is *)
(* at pos in its source.                                                   *)
(***************************************************************************)
EXTENDS Malloc, FiniteSets

CONSTANTS
    BUFSIZ,                   \* characters a buffer takes
    BufUnits,                 \* units of the heap it has
    Want,                     \* units the program asks malloc for
    MaxMine, MaxChars         \* bounds: its blocks; characters of open streams

ASSUME StdioAssumption ==
    /\ {BUFSIZ, BufUnits, MaxMine, MaxChars} \subseteq Nat \ {0}
    /\ Want \subseteq Nat \ {0}

VARIABLES
    heap,
    mine,                     \* the program's blocks
    iob,                      \* _iob
    stray                     \* a character went through a NULL buffer

vars == <<heap, mine, iob, stray>>

Streams == {"in", "out", "file"}

Blank ==
    [flags |-> {}, buf |-> NONE, cnt |-> 0, data |-> <<>>, put |-> 0, sink |-> <<>>, pos |-> 0]

Reader == [Blank EXCEPT !.flags = {"READ"}]
Writer == [Blank EXCEPT !.flags = {"WRITE"}, !.cnt = BUFSIZ]

Init ==
    /\ heap = NoHeap /\ mine = {}
    /\ iob = [f \in Streams |->
                 CASE f = "in" -> Reader [] f = "out" -> Writer [] OTHER -> Blank]
    /\ stray = FALSE

(* What a call works on.                                                   *)
Now == [heap |-> heap, iob |-> iob]

Ends(s) == heap' = s.heap /\ iob' = s.iob /\ UNCHANGED mine

Set(s, f, fp) == [s EXCEPT !.iob[f] = fp]

-----------------------------------------------------------------------------
(* The outcomes of giving a stream its buffer.                             *)
Buffered(s, f) ==
    {[heap |-> m.heap, iob |-> [s.iob EXCEPT ![f].buf = m.at]] : m \in malloc(s.heap, BufUnits)}

(* write takes all, or less of it and the rest is lost.                    *)
Written(fp, k) ==
    [fp EXCEPT !.sink = @ \o SubSeq(fp.data, 1, k), !.data = <<>>, !.cnt = 0,
               !.flags = IF k = fp.cnt THEN @ ELSE @ \cup {"ERR"}]

Discarded(fp) == [fp EXCEPT !.data = <<>>, !.cnt = 0]

FlushKeeps(s, f) == {[s EXCEPT !.iob[f].sink = @ \o s.iob[f].data]}

fflush(s, f) ==
    IF s.iob[f].buf = NONE THEN {[t EXCEPT !.iob[f].cnt = 0] : t \in Buffered(s, f)}
    ELSE IF "WRITE" \in s.iob[f].flags
         THEN {Set(s, f, Written(s.iob[f], k)) : k \in 0 .. s.iob[f].cnt}
         ELSE {Set(s, f, Discarded(s.iob[f]))}

(* The next character goes to the buffer.                                  *)
Stored(fp) == [fp EXCEPT !.cnt = @ + 1, !.put = @ + 1, !.data = Append(@, fp.put + 1)]

Roomed(s, f) == IF s.iob[f].cnt >= BUFSIZ THEN fflush(s, f) ELSE {s}

(* stdout is line buffered.                                                *)
LineEnd(s, f, newline) == IF newline /\ f = "out" THEN fflush(s, f) ELSE {s}

(* Characters the program may still put or read.                           *)
Moved(f) == iob[f].put + iob[f].pos
Left == MaxChars - (Moved("in") + Moved("out") + Moved("file"))

(* fputc, at the end of a line or within.                                  *)
Put(f) ==
    /\ ~stray
    /\ iob[f].flags = {"WRITE"} /\ Left > 0
    /\ \E newline \in BOOLEAN, s \in Roomed(Now, f) :
          /\ stray' = (s.iob[f].buf = NONE)
          /\ IF s.iob[f].buf = NONE THEN Ends(s)
             ELSE \E t \in LineEnd(Set(s, f, Stored(s.iob[f])), f, newline) : Ends(t)

(* goto_xy and tty_color flush stdout, gobang flushes stdin.               *)
Flush(f) ==
    /\ ~stray /\ f # "file"
    /\ \E s \in fflush(Now, f) : Ends(s)
    /\ UNCHANGED stray

-----------------------------------------------------------------------------
(* read gives n characters; none at the end, which a terminal may have     *)
(* before more comes.                                                      *)
Filled(fp, n) ==
    [fp EXCEPT !.cnt = n, !.data = [k \in 1 .. n |-> fp.pos + k], !.pos = @ + n,
               !.flags = IF n = 0 THEN @ \cup {"EOF"} ELSE @]

Failed(fp) == [fp EXCEPT !.cnt = 0, !.data = <<>>, !.flags = @ \cup {"ERR"}]

Consumed(fp) == [fp EXCEPT !.cnt = @ - 1, !.data = Tail(@)]

Least(a, b) == IF a < b THEN a ELSE b

Filling(s, f) == IF s.iob[f].buf = NONE THEN Buffered(s, f) ELSE {s}

(* ffill, which goes on without a buffer; read fails, ends or gives some.  *)
ffill(s, f) ==
    \E t \in Filling(s, f) :
        \/ Ends(Set(t, f, Failed(t.iob[f]))) /\ UNCHANGED stray
        \/ Ends(Set(t, f, Filled(t.iob[f], 0))) /\ UNCHANGED stray
        \/ \E n \in 1 .. Least(BUFSIZ, Left) :
              /\ Ends(Set(t, f, Consumed(Filled(t.iob[f], n))))
              /\ stray' = (t.iob[f].buf = NONE)

(* Reading stdin flushes stdout first.                                     *)
Flushed(s, f) == IF f = "in" /\ s.iob["out"].cnt # 0 THEN fflush(s, "out") ELSE {s}

(* fgetc                                                                   *)
Get(f) ==
    /\ ~stray /\ iob[f].flags = {"READ"}
    /\ \E s \in Flushed(Now, f) :
          IF s.iob[f].cnt > 0 THEN Ends(Set(s, f, Consumed(s.iob[f]))) /\ UNCHANGED stray
          ELSE ffill(s, f)

(* The shell goes on after the end of its input.                           *)
Clearerr ==
    /\ ~stray
    /\ Ends([Now EXCEPT !.iob["in"].flags = {"READ"}])
    /\ UNCHANGED stray

-----------------------------------------------------------------------------
Fopen ==
    /\ ~stray /\ iob["file"].flags = {}
    /\ \E new \in {Reader, Writer} : Ends(Set(Now, "file", new))
    /\ UNCHANGED stray

Unbuffered(h, b) == IF b = NONE THEN h ELSE free(h, b)

(* Nothing is flushed.                                                     *)
Fclose ==
    /\ ~stray /\ iob["file"].flags # {}
    /\ Ends([heap |-> Unbuffered(heap, iob["file"].buf), iob |-> [iob EXCEPT !["file"] = Blank]])
    /\ UNCHANGED stray

(* The program's own blocks.                                               *)
Alloc ==
    /\ ~stray /\ Cardinality(mine) < MaxMine
    /\ \E n \in Want : \E m \in malloc(heap, n) :
          heap' = m.heap /\ mine' = mine \cup ({m.at} \ {NONE})
    /\ UNCHANGED <<iob, stray>>

Free ==
    /\ ~stray
    /\ \E a \in 1 .. LIMIT :
          a \in mine /\ heap' = free(heap, a) /\ mine' = mine \ {a}
    /\ UNCHANGED <<iob, stray>>

Next ==
    \/ \E f \in {"out", "file"} : Put(f)
    \/ \E f \in {"in", "out"} : Flush(f)
    \/ \E f \in {"in", "file"} : Get(f)
    \/ Clearerr \/ Fopen \/ Fclose \/ Alloc \/ Free

Spec == Init /\ [][Next]_vars

-----------------------------------------------------------------------------
Buffers == {iob[f].buf : f \in Streams} \ {NONE}

(* malloc and free (lib/malloc.c), for the streams' buffers and the        *)
(* program's blocks in any order: no two blocks overlap, none leaves what  *)
(* sbrk gave, and free neighbours have been joined.                        *)
HeapTiled == /\ Tiled(heap, mine \cup Buffers)
             /\ mine \cap Buffers = {}

Numbers(a, b) == [k \in 1 .. b - a |-> a + k]

(* What reached a descriptor is in order and without doubles; it and what  *)
(* waits in the buffer are all that was put, unless a write has fallen     *)
(* short; what waits to be got is the source's next characters             *)
(* (lib/stdio.c).                                                          *)
StreamsInOrder ==
    \A f \in Streams :
        /\ \A i, j \in DOMAIN iob[f].sink : i < j => iob[f].sink[i] < iob[f].sink[j]
        /\ iob[f].flags = {"WRITE"} => iob[f].sink \o iob[f].data = Numbers(0, iob[f].put)
        /\ ~stray /\ "READ" \in iob[f].flags =>
              iob[f].data = Numbers(iob[f].pos - iob[f].cnt, iob[f].pos)
=============================================================================
