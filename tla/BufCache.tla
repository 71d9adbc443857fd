------------------------------ MODULE BufCache ------------------------------
(***************************************************************************)
(* The buffer cache (fs/cache.c) and the disk driver under it (fs/ide.c),  *)
(* as the operations TASK_FS, their only user, makes on them.  A call of   *)
(* iderw is several steps, between which the disk may interrupt: io says   *)
(* where in it the task is.                                                *)
(*                                                                         *)
(* A sector's content is abstract: the words in it that matter, by index.  *)
(* Errors of the drive are left out.                                       *)
(***************************************************************************)
EXTENDS Naturals, SequencesExt

CONSTANTS
    NBUF,                     \* number of buffers
    Sector,                   \* sectors of the disk
    Index,                    \* places in a sector
    Disk0                     \* what the disk holds at boot

ASSUME BufCacheAssumption ==
    /\ NBUF \in Nat \ {0}
    /\ Sector \subseteq Nat \ {0}
    /\ Disk0 \in [Sector -> [Index -> Nat]]

VARIABLES
    lru,                      \* cache.head's list, most recently released first
    sector, valid, dirty,     \* fields and flags of each struct buf
    data,
    idequeue,                 \* the requests, the one being served first
    disk,                     \* contents of the sectors
    io                        \* where in iderw the task is

bufVars == <<lru, sector, valid, dirty, data, idequeue, disk, io>>

Buf   == 1 .. NBUF
NoDev == 0                    \* dev is -1: the buffer has no sector yet
Zeros == [i \in Index |-> 0]
NoIo  == [at |-> "none", b |-> 0]

(* binit leaves the last buffer at the front.                              *)
Lru0 == Reverse([i \in Buf |-> i])

BufInit ==
    /\ lru = Lru0
    /\ sector = [b \in Buf |-> NoDev]
    /\ valid = [b \in Buf |-> FALSE] /\ dirty = [b \in Buf |-> FALSE]
    /\ data = [b \in Buf |-> Zeros]
    /\ idequeue = <<>>
    /\ disk = Disk0
    /\ io = NoIo

(* The machine is started again; only the disk stays.                      *)
BufRestart ==
    /\ lru' = Lru0
    /\ sector' = [b \in Buf |-> NoDev]
    /\ valid' = [b \in Buf |-> FALSE] /\ dirty' = [b \in Buf |-> FALSE]
    /\ data' = [b \in Buf |-> Zeros]
    /\ idequeue' = <<>>
    /\ io' = NoIo
    /\ UNCHANGED disk

-----------------------------------------------------------------------------
(* iderw: the request is linked and, if it is the only one, started with   *)
(* interrupts on.  A buffer that needs no transfer makes none.             *)
Iderw(b, v, d) ==
    IF v /\ ~d
    THEN UNCHANGED <<idequeue, io>>
    ELSE /\ idequeue' = Append(idequeue, b)
         /\ io' = [at |-> "issued", b |-> b]

ServingAlways(b) == TRUE

Serving(b) == idequeue # <<>> /\ Head(idequeue) = b

(* Under cli, the task sleeps unless the interrupt was faster.              *)
IdeSleep ==
    /\ io.at = "issued" /\ Serving(io.b)
    /\ io' = [io EXCEPT !.at = "asleep"]
    /\ UNCHANGED <<lru, sector, valid, dirty, data, idequeue, disk>>

IdeReturn ==
    /\ \/ io.at = "issued" /\ ~Serving(io.b)
       \/ io.at = "woken"
    /\ io' = NoIo
    /\ UNCHANGED <<lru, sector, valid, dirty, data, idequeue, disk>>

(* wake_up(b)                                                              *)
Wakes(b) ==
    io' = IF io = [at |-> "asleep", b |-> b] THEN [io EXCEPT !.at = "woken"]
                                             ELSE io

(* The interrupt at the end of a transfer.  A write has sent its data in   *)
(* idestart; the task has waited since and cannot have changed them.       *)
IdeIntr ==
    /\ idequeue # <<>>
    /\ LET b == Head(idequeue)
       IN  /\ idequeue' = Tail(idequeue)
           /\ IF dirty[b]
              THEN /\ disk' = [disk EXCEPT ![sector[b]] = data[b]]
                   /\ UNCHANGED data
              ELSE /\ data' = [data EXCEPT ![b] = disk[sector[b]]]
                   /\ UNCHANGED disk
           /\ valid' = [valid EXCEPT ![b] = TRUE]
           /\ dirty' = [dirty EXCEPT ![b] = FALSE]
           /\ Wakes(b)
    /\ UNCHANGED <<lru, sector>>

-----------------------------------------------------------------------------
Cached(s) == {b \in Buf : sector[b] = s}

FlagsKept(b) == UNCHANGED <<valid, dirty>>

(* A buffer that gets another sector loses its flags.                      *)
FlagsCleared(b) ==
    /\ valid' = [valid EXCEPT ![b] = FALSE]
    /\ dirty' = [dirty EXCEPT ![b] = FALSE]

(* bread, and bget in it.  The buffer is not taken off the list: the last  *)
(* one is the next victim although its holder has not released it.         *)
BreadHit(b, s) ==
    /\ b \in Cached(s)
    /\ Iderw(b, valid[b], dirty[b])
    /\ UNCHANGED <<lru, sector, valid, dirty, data, disk>>

BreadMiss(b, s) ==
    /\ Cached(s) = {} /\ b = Last(lru)
    /\ sector' = [sector EXCEPT ![b] = s]
    /\ FlagsCleared(b)
    /\ Iderw(b, valid'[b], dirty'[b])
    /\ UNCHANGED <<lru, data, disk>>

BwriteClean(b) ==
    /\ Iderw(b, valid[b], dirty[b])
    /\ UNCHANGED <<lru, sector, valid, dirty, data, disk>>

Bwrite(b) ==
    /\ dirty' = [dirty EXCEPT ![b] = TRUE]
    /\ Iderw(b, valid[b], TRUE)
    /\ UNCHANGED <<lru, sector, valid, data, disk>>

(* To the front of the list.                                               *)
Brelse(b) ==
    /\ \E i \in DOMAIN lru : lru[i] = b /\ lru' = <<b>> \o RemoveAt(lru, i)
    /\ UNCHANGED <<sector, valid, dirty, data, idequeue, disk, io>>
=============================================================================
