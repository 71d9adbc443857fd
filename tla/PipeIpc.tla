------------------------------ MODULE PipeIpc ------------------------------
(***************************************************************************)
(* The processes of a shell pipeline on one pipe: the handlers of          *)
(* fs/pipe.c and fs/file.c in the place FsServer leaves open, and calling  *)
(* programs as bin/sh.c starts them: every process begins with both ends,  *)
(* as fork leaves them, closes the ends it has no use for, then reads or   *)
(* writes through the stubs of lib/fs.c.                                   *)
(*                                                                         *)
(* Writer w writes the bytes <<w, 1>> .. <<w, MaxBytes>>, at most CHUNK of *)
(* them in a call.                                                         *)
(***************************************************************************)
EXTENDS FsServer, Sequences, FiniteSets, Functions

CONSTANTS
    Writers, Readers,         \* the programs on the ends; others only close
    PIPESIZE,                 \* include/fs.h
    CHUNK,                    \* the 1024 bytes lib/fs.c moves in one call
    MaxBytes                  \* bound: bytes a writer writes

VARIABLES
    data, head, count,        \* struct pipe
    open,                     \* its readopen ("r") and writeopen ("w")
    ref,                      \* struct file's ref, of either end
    ofile,                    \* the ends each process has open
    iobuf,                    \* sendrecv's buffer in each kernel stack
    over,                     \* the program is done reading or writing
    got,                      \* what a reader has read
    sent                      \* how many bytes a writer has written

pipeVars == <<data, head, count, open, ref, ofile, iobuf>>
progVars == <<over, got, sent>>
allVars  == <<vars, pipeVars, progVars>>

Ends == {"r", "w"}

(* The channel &p->readopen or &p->writeopen.                              *)
ChanOf(e) == IF e = "r" THEN "readopen" ELSE "writeopen"

Least(a, b) == IF a < b THEN a ELSE b

PipeInit ==
    /\ Init
    /\ data = [i \in 0 .. PIPESIZE - 1 |-> NULL]
    /\ head = 0 /\ count = 0
    /\ open = [e \in Ends |-> TRUE]
    /\ ref = [e \in Ends |-> Cardinality(Users)]
    /\ ofile = [u \in Users |-> Ends]
    /\ iobuf = [u \in Users |-> <<>>]
    /\ over = [u \in Users |-> u \notin Writers \cup Readers]
    /\ got = [u \in Users |-> <<>>]
    /\ sent = [u \in Users |-> 0]

-----------------------------------------------------------------------------
(* The programs.                                                           *)

Needs(u) == {e \in Ends : ~over[u] /\ \/ e = "r" /\ u \in Readers
                                      \/ e = "w" /\ u \in Writers}

(* The calls that write the next bytes of w after its first k.             *)
WritesFrom(w, k) ==
    {[op |-> "write", bytes |-> [i \in 1 .. n |-> <<w, k + i>>]] :
        n \in 1 .. Least(CHUNK, MaxBytes - k)}

(* close of an end not needed, or of the last one: a program may stop      *)
(* early.  Reads and writes come after the unneeded ends are closed.       *)
Wants(u) ==
    [op : {"close"}, end : ofile[u]] \cup
    IF ofile[u] = {} \/ ofile[u] # Needs(u) THEN {}
    ELSE IF u \in Readers
         THEN [op : {"read"}, n : 1 .. CHUNK]
         ELSE WritesFrom(u, sent[u])

(* mcopyin fills iobuf for a write.                                        *)
CopyIn(u, r) ==
    iobuf' = IF r.op = "write" THEN [iobuf EXCEPT ![u] = r.bytes] ELSE iobuf

ProgCall(u) ==
    \E r \in Wants(u) :
        /\ UserCall(u, r)
        /\ CopyIn(u, r)
        /\ UNCHANGED <<data, head, count, open, ref, ofile, progVars>>

ProgRetry(u) ==
    /\ UserRetry(u)
    /\ CopyIn(u, asked[u])
    /\ UNCHANGED <<data, head, count, open, ref, ofile, progVars>>

(* mcopyout moves what was read; a result of 0 or less ends the program's  *)
(* loop, and so does the last byte.                                        *)
ProgReturn(u) ==
    /\ UserReturn(u)
    /\ LET r == asked[u]
           i == mbuf[u].i1
       IN  /\ got' = IF r.op = "read" /\ i > 0
                     THEN [got EXCEPT ![u] = @ \o SubSeq(iobuf[u], 1, i)]
                     ELSE got
           /\ sent' = IF r.op = "write" /\ i > 0
                      THEN [sent EXCEPT ![u] = @ + i] ELSE sent
           /\ over' = IF r.op # "close" /\ i # -2
                      THEN [over EXCEPT ![u] = i <= 0 \/ sent'[u] = MaxBytes]
                      ELSE over
    /\ UNCHANGED pipeVars

-----------------------------------------------------------------------------
(* The handlers.                                                           *)

Serving(op) ==
    /\ At(TASK_FS, "serve")
    /\ mbuf[TASK_FS].req.op = op

Caller == mbuf[TASK_FS].source

(* piperead *)
RdBytes(k) == [i \in 1 .. k |-> data[(head + i - 1) % PIPESIZE]]

ReadSome ==
    LET k == Least(mbuf[TASK_FS].req.n, count)
    IN  /\ k > 0
        /\ iobuf' = [iobuf EXCEPT ![Caller] = RdBytes(k)]
        /\ head' = (head + k) % PIPESIZE
        /\ count' = count - k
        /\ FsServeWith(k, NULL, {ChanOf("w")})
        /\ UNCHANGED <<data, open, ref, ofile>>

(* Mutant: fs_sleep is not set.                                            *)
ReadNoneNowhere ==
    /\ count = 0
    /\ IF open["w"] THEN FsServeWith(-2, NULL, {}) ELSE FsServeWith(0, NULL, {})
    /\ UNCHANGED pipeVars

ReadNone ==
    /\ count = 0
    /\ IF open["w"] THEN FsServeWith(-2, ChanOf("r"), {})
                    ELSE FsServeWith(0, NULL, {})
    /\ UNCHANGED pipeVars

FsRead ==
    /\ Serving("read")
    /\ "r" \in ofile[Caller]
    /\ ReadSome \/ ReadNone

(* pipewrite *)
WriteRefused ==
    /\ ~open["r"]
    /\ FsServeWith(-1, NULL, {})
    /\ UNCHANGED pipeVars

(* Mutant: the ring's head is left out.                                    *)
PutAtCount(s, k) ==
    [i \in DOMAIN data |->
        LET j == (i - count) % PIPESIZE
        IN  IF j < k THEN s[j + 1] ELSE data[i]]

Put(s, k) ==
    [i \in DOMAIN data |->
        LET j == (i - head - count) % PIPESIZE
        IN  IF j < k THEN s[j + 1] ELSE data[i]]

Room == PIPESIZE - count

WriteSome ==
    LET s == iobuf[Caller]
        n == Len(mbuf[TASK_FS].req.bytes)
        k == Least(n, Room)
    IN  /\ open["r"]
        /\ data' = Put(s, k)
        /\ count' = count + k
        /\ IF k = 0 THEN FsServeWith(-2, ChanOf("w"), {ChanOf("r")})
                    ELSE FsServeWith(k, NULL, {ChanOf("r")})
        /\ UNCHANGED <<head, open, ref, ofile, iobuf>>

FsWrite ==
    /\ Serving("write")
    /\ "w" \in ofile[Caller]
    /\ WriteRefused \/ WriteSome

(* Mutant: an end is never closed.                                         *)
HeldElsewhereToo(e) == ref[e] >= 1

HeldElsewhere(e) == ref[e] > 1

(* Mutant: an end that closes wakes its own side.                          *)
OtherSame(e) == e

Other(e) == IF e = "w" THEN "r" ELSE "w"

(* do_close, fileclose, pipeclose *)
FsClose ==
    LET e == mbuf[TASK_FS].req.end
    IN  /\ Serving("close")
        /\ e \in ofile[Caller]
        /\ ref' = [ref EXCEPT ![e] = @ - 1]
        /\ ofile' = [ofile EXCEPT ![Caller] = @ \ {e}]
        /\ IF HeldElsewhere(e)
           THEN FsServeWith(0, NULL, {}) /\ UNCHANGED open
           ELSE /\ open' = [open EXCEPT ![e] = FALSE]
                /\ FsServeWith(0, NULL, {ChanOf(Other(e))})
        /\ UNCHANGED <<data, head, count, iobuf>>

-----------------------------------------------------------------------------
Rest == UNCHANGED <<pipeVars, progVars>>

ProgStep(u) ==
    \/ ProgCall(u) \/ ProgRetry(u) \/ ProgReturn(u)
    \/ UserRecv(u) /\ Rest

FsHandler == (FsRead \/ FsWrite \/ FsClose) /\ UNCHANGED progVars

ServerStep == FsHandler \/ (FsRecv /\ Rest) \/ (FsReply /\ Rest)

PipeNext == (\E u \in Users : ProgStep(u)) \/ ServerStep

PipeSpec == PipeInit /\ [][PipeNext]_allVars

(* The programs of a pipeline go on until they have closed both ends.      *)
PipeFairSpec ==
    PipeSpec /\ WF_allVars(ServerStep) /\ \A u \in Users : WF_allVars(ProgStep(u))
-----------------------------------------------------------------------------
(* What the constants of FsServer are here.                                *)
PipeRequest ==
    [op : {"close"}, end : Ends] \cup [op : {"read"}, n : 1 .. CHUNK] \cup
    UNION {WritesFrom(w, k) : w \in Writers, k \in 0 .. MaxBytes}

PipeBlocking == {r \in PipeRequest : r.op # "close"}
PipeResult   == -1 .. CHUNK
PipeChan     == {ChanOf(e) : e \in Ends}

(* ptable has finitely many slots, and some process has made the pipe.     *)
ASSUME PipeIpcAssumption ==
    /\ IsFiniteSet(Proc) /\ Users # {} /\ Writers \cup Readers \subseteq Users
    /\ {PIPESIZE, CHUNK} \subseteq Nat \ {0} /\ MaxBytes \in Nat
    /\ Request = PipeRequest /\ Blocking = PipeBlocking
    /\ Result = PipeResult /\ Chan = PipeChan

-----------------------------------------------------------------------------
(* The result of u's call while it is on its way to u.                     *)
InFlight(u) ==
    LET m == mbuf[IF Answered(u) THEN u ELSE TASK_FS]
    IN  IF (Answered(u) \/ InService(u)) /\ m.i1 > 0 THEN m.i1 ELSE 0

Accepted(w) ==
    IF asked[w] # NULL /\ asked[w].op = "write" THEN sent[w] + InFlight(w)
                                              ELSE sent[w]

Contents == RdBytes(count)

(* All that reader u has taken out of the pipe, in order.                  *)
Stream(u) ==
    IF asked[u] # NULL /\ asked[u].op = "read"
    THEN got[u] \o SubSeq(iobuf[u], 1, InFlight(u)) ELSE got[u]

(* The sequences accepted bytes are in: the pipe's, and one for each       *)
(* reader.                                                                 *)
Holds == [x \in Readers \cup {TASK_FS} |-> IF x = TASK_FS THEN Contents ELSE Stream(x)]

(* The ring and the reference counts are in range, and an end is open      *)
(* exactly while some process holds it (fileclose, pipeclose).             *)
PipeTypeOK ==
    /\ data \in [0 .. PIPESIZE - 1 -> (Writers \X (1 .. MaxBytes)) \cup {NULL}]
    /\ head \in 0 .. PIPESIZE - 1 /\ count \in 0 .. PIPESIZE
    /\ \A e \in Ends : /\ ref[e] = Cardinality({u \in Users : e \in ofile[u]})
                       /\ open[e] <=> ref[e] > 0

(* Every byte a write has accepted is in the pipe or was taken by one      *)
(* reader, once; nothing else is there; the bytes of a writer keep their   *)
(* order.  This holds through retries after MSG_BESLEEP, partial results   *)
(* and the wrap of the ring (pipewrite, piperead, mcopyin, mcopyout).      *)
BytesOnceInOrder ==
    /\ UNION {Range(Holds[x]) : x \in DOMAIN Holds}
         = {b \in Writers \X (1 .. MaxBytes) : b[2] <= Accepted(b[1])}
    /\ \A x, y \in DOMAIN Holds : \A i \in DOMAIN Holds[x], j \in DOMAIN Holds[y] :
          Holds[x][i] = Holds[y][j] => x = y /\ i = j
    /\ \A r \in Readers :
          LET s == Holds[r] \o Contents
          IN  \A i, j \in DOMAIN s : i < j /\ s[i][1] = s[j][1] => s[i][2] < s[j][2]

(* Nobody sleeps on the pipe when there is something to do: a sleeping     *)
(* reader means an empty pipe that may yet be written, a sleeping writer a *)
(* full one that may yet be read.                                          *)
NoLostWakeup ==
    \A p \in Proc : state[p] = "SLEEPING" =>
        /\ tmp[p] = ChanOf("r") => count = 0 /\ open["w"]
        /\ tmp[p] = ChanOf("w") => count = PIPESIZE /\ open["r"]

(* With these handlers the loop is still the one of FsServer.              *)
ImplementsFsServer == Spec

(* Unless MSG_BESLEEP puts the server to sleep, a pipeline comes to its    *)
(* end: whoever sleeps is woken, by bytes, by room or by a close, and all  *)
(* the processes close their ends.                                         *)
PipelineFinishes == []OnlyCallersSleep => <>(\A u \in Users : ofile[u] = {})
=============================================================================
