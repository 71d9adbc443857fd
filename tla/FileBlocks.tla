----------------------------- MODULE FileBlocks -----------------------------
(***************************************************************************)
(* The blocks of a file (fs/inode.c: balloc, bfree, bmap, readi, writei,   *)
(* itrunc, iupdate, iget) on the buffer cache, for one open file and       *)
(* transfers of one whole block.                                           *)
(*                                                                         *)
(* A call runs as the list of the cache operations it has yet to make and  *)
(* of what it does with a buffer in between; todo is that list, held the   *)
(* buffers it has read and not released, the latest first.                 *)
(***************************************************************************)
EXTENDS BufCache

CONSTANTS
    NDIRECT, NINDIRECT,       \* include/fs.h
    SB, BM, IB,               \* sectors of the superblock, bitmap and inode
    Blocks,                   \* data blocks; block b is bit b of the bitmap
    Value                     \* what a block may be filled with

ASSUME FileBlocksAssumption == NDIRECT \in Nat /\ NINDIRECT \in Nat /\ Value \subseteq Nat

(* What mkfs makes: parts that do not overlap, sectors wide enough for     *)
(* what is kept in them, an empty file, and room for one as large as can   *)
(* be, with its indirect block.                                            *)
ASSUME LayoutAssumption ==
    /\ Blocks \cup {SB, BM, IB} \subseteq Sector /\ Blocks \cap {SB, BM, IB} = {}
    /\ SB # BM /\ SB # IB /\ BM # IB
    /\ Blocks \cup (0 .. NDIRECT + 1) \cup (0 .. NINDIRECT - 1) \subseteq Index
    /\ Disk0[BM] = [i \in Index |-> 0] /\ Disk0[IB] = [i \in Index |-> 0]
    /\ IsFiniteSet(Blocks) /\ Cardinality(Blocks) > NDIRECT + NINDIRECT

VARIABLES
    addrs, size,              \* struct inode
    todo, held, got,          \* the call under way; got is addr or b + bi
    written,                  \* what the file holds, as its users know it
    lost                      \* a buffer in use was given another sector

fileVars == <<addrs, size, todo, held, got, written, lost>>
vars     == <<bufVars, fileVars>>

MAXFILE  == NDIRECT + NINDIRECT
SizeWord == NDIRECT + 1       \* where the inode's sector keeps the size
Word     == 0                 \* where a data block keeps its value

Init ==
    /\ BufInit
    /\ addrs = [i \in 0 .. NDIRECT |-> 0] /\ size = 0
    /\ todo = <<>> /\ held = <<>> /\ got = 0
    /\ written = [i \in 0 .. MAXFILE - 1 |-> 0]
    /\ lost = FALSE

-----------------------------------------------------------------------------
(* What the functions do, in order.                                        *)
Bread(s)  == <<[op |-> "bread", x |-> s]>>
BreadGot  == <<[op |-> "breadgot"]>>
Release   == <<[op |-> "brelse"]>>
Write     == <<[op |-> "bwrite"]>>
Do(f, v)  == <<[op |-> f, x |-> v]>>

readsb    == Bread(SB) \o Release
balloc    == readsb \o Bread(BM) \o Do("pick", 0)
bzeroNot(b) == <<>>

bzero(b)  == Bread(b) \o Do("fill", 0) \o Write \o Release
bfree(b)  == readsb \o Bread(BM) \o Do("clear", b) \o Write \o Release
iupdate   == Bread(IB) \o Do("inode", 0) \o Write \o Release

Addr(i) == IF addrs[i] = 0 THEN balloc \o Do("setaddr", i) ELSE Do("useaddr", i)

bmap(bn) ==
    IF bn < NDIRECT THEN Addr(bn)
    ELSE Addr(NDIRECT) \o BreadGot \o Do("look", bn - NDIRECT)

readi(bn) == bmap(bn) \o BreadGot \o Do("copy", bn) \o Release

writei(bn, v) ==
    bmap(bn) \o BreadGot \o Do("fill", v) \o Write \o Release
        \o IF bn + 1 > size THEN Do("grow", bn + 1) \o iupdate ELSE <<>>

FreeDirect(i) ==
    IF addrs[i] = 0 THEN <<>> ELSE bfree(addrs[i]) \o Do("unset", i)

itrunc ==
    FlattenSeq([k \in 1 .. NDIRECT |-> FreeDirect(k - 1)])
        \o (IF addrs[NDIRECT] = 0 THEN <<>>
            ELSE Bread(addrs[NDIRECT])
                   \o FlattenSeq([i \in 1 .. NINDIRECT |-> Do("freeword", i - 1)])
                   \o Release \o bfree(addrs[NDIRECT]) \o Do("unset", NDIRECT))
        \o Do("grow", 0) \o iupdate

-----------------------------------------------------------------------------
(* The calls of the file's users.  After a loss the contents are anything: *)
(* the model stops there.                                                  *)
Begin(steps) ==
    /\ todo = <<>> /\ ~lost
    /\ todo' = steps
    /\ UNCHANGED <<addrs, size, held, got, lost>>

iget == Bread(IB) \o Do("load", 0) \o Release

CallWrite ==
    \E bn \in 0 .. MAXFILE - 1, v \in Value :
        /\ bn <= size
        /\ Begin(writei(bn, v))
        /\ written' = [written EXCEPT ![bn] = v]
        /\ UNCHANGED bufVars

CallRead ==
    \E bn \in 0 .. MAXFILE - 1 :
        /\ bn < size
        /\ Begin(readi(bn))
        /\ UNCHANGED <<bufVars, written>>

CallTruncate ==
    /\ Begin(itrunc)
    /\ written' = [i \in 0 .. MAXFILE - 1 |-> 0]
    /\ UNCHANGED bufVars

(* The file is closed and opened; the machine may be started again between.*)
Reopen ==
    /\ Begin(iget)
    /\ BufRestart \/ UNCHANGED bufVars
    /\ UNCHANGED written

Call == CallWrite \/ CallRead \/ CallTruncate \/ Reopen

-----------------------------------------------------------------------------
(* The steps of a call.                                                    *)
Now(f) == todo # <<>> /\ io.at = "none" /\ Head(todo).op = f
Arg    == Head(todo).x
Rest   == Tail(todo)
Top    == Head(held)

Read(s) ==
    /\ \E b \in Buf :
          /\ BreadHit(b, s) \/ BreadMiss(b, s)
          /\ held' = <<b>> \o held
          /\ lost' = (lost \/ (sector'[b] # sector[b] /\ Contains(held, b)))
    /\ todo' = Rest
    /\ UNCHANGED <<addrs, size, got, written>>

StepRead ==
    \/ Now("bread") /\ Read(Arg)
    \/ Now("breadgot") /\ Read(got)

StepWrite ==
    /\ Now("bwrite")
    /\ Bwrite(Top)
    /\ todo' = Rest
    /\ UNCHANGED <<addrs, size, held, got, written, lost>>

StepRelease ==
    /\ Now("brelse")
    /\ Brelse(Top)
    /\ held' = Tail(held)
    /\ todo' = Rest
    /\ UNCHANGED <<addrs, size, got, written, lost>>

(* What is done with the latest buffer: a word of it is changed.           *)
Change(i, v, rest) ==
    /\ data' = [data EXCEPT ![Top][i] = v]
    /\ todo' = rest
    /\ UNCHANGED <<lru, sector, valid, dirty, idequeue, disk, io>>
    /\ UNCHANGED <<addrs, size, held, written, lost>>

Free == {b \in Blocks : data[Top][b] = 0}
Lowest(S) == CHOOSE x \in S : \A y \in S : x <= y

(* balloc takes the first free block and zeroes it.                        *)
StepPick ==
    /\ Now("pick") /\ Free # {}
    /\ LET b == Lowest(Free)
       IN  /\ Change(b, 1, Write \o Release \o bzero(b) \o Rest)
           /\ got' = b

StepClear ==
    /\ Now("clear") /\ data[Top][Arg] = 1
    /\ Change(Arg, 0, Rest)
    /\ UNCHANGED got

StepFill ==
    /\ Now("fill")
    /\ data' = [data EXCEPT ![Top] = [Zeros EXCEPT ![Word] = Arg]]
    /\ todo' = Rest
    /\ UNCHANGED <<lru, sector, valid, dirty, idequeue, disk, io>>
    /\ UNCHANGED <<addrs, size, held, got, written, lost>>

(* memcpy of the inode into its sector.                                    *)
StepInode ==
    /\ Now("inode")
    /\ data' = [data EXCEPT ![Top] =
                  [i \in Index |-> IF i \in DOMAIN addrs THEN addrs[i]
                                   ELSE IF i = SizeWord THEN size ELSE @[i]]]
    /\ todo' = Rest
    /\ UNCHANGED <<lru, sector, valid, dirty, idequeue, disk, io>>
    /\ UNCHANGED <<addrs, size, held, got, written, lost>>

(* bmap in the indirect block: the word, or a new block for it.            *)
StepLook ==
    /\ Now("look")
    /\ IF data[Top][Arg] # 0
       THEN got' = data[Top][Arg] /\ todo' = Release \o Rest
       ELSE UNCHANGED got /\ todo' = balloc \o Do("setword", Arg) \o Write \o Release \o Rest
    /\ UNCHANGED <<bufVars, addrs, size, held, written, lost>>

StepSetWord ==
    /\ Now("setword")
    /\ Change(Arg, got, Rest)
    /\ UNCHANGED got

(* itrunc looks at the word only when it gets there.                       *)
StepFreeWord ==
    /\ Now("freeword")
    /\ todo' = (IF data[Top][Arg] # 0 THEN bfree(data[Top][Arg]) ELSE <<>>) \o Rest
    /\ UNCHANGED <<bufVars, addrs, size, held, got, written, lost>>

(* What is done with the inode in memory.                                  *)
StepMemory ==
    /\ \/ Now("setaddr") /\ addrs' = [addrs EXCEPT ![Arg] = got] /\ UNCHANGED <<size, got>>
       \/ Now("useaddr") /\ got' = addrs[Arg] /\ UNCHANGED <<addrs, size>>
       \/ Now("unset")   /\ addrs' = [addrs EXCEPT ![Arg] = 0] /\ UNCHANGED <<size, got>>
       \/ Now("grow")    /\ size' = Arg /\ UNCHANGED <<addrs, got>>
       \/ Now("load")    /\ addrs' = [i \in DOMAIN addrs |-> data[Top][i]]
                         /\ size' = data[Top][SizeWord]
                         /\ UNCHANGED got
       \/ Now("copy")    /\ UNCHANGED <<addrs, size, got>>
    /\ todo' = Rest
    /\ UNCHANGED <<bufVars, held, written, lost>>

Step ==
    \/ StepRead \/ StepWrite \/ StepRelease \/ StepPick \/ StepClear \/ StepFill
    \/ StepInode \/ StepLook \/ StepSetWord \/ StepFreeWord \/ StepMemory

Driver == (IdeSleep \/ IdeReturn) /\ UNCHANGED fileVars
Disk   == IdeIntr /\ UNCHANGED fileVars

Next == Call \/ Step \/ Driver \/ Disk

Spec == Init /\ [][Next]_vars

(* The task runs when it can, and the disk ends every transfer.            *)
FairSpec == Spec /\ WF_vars(Step \/ Driver) /\ WF_vars(Disk)

-----------------------------------------------------------------------------
Used == {b \in Blocks : disk[BM][b] = 1}

Pointers ==
    {<<IB, i>> : i \in 0 .. NDIRECT} \cup
    {<<disk[IB][NDIRECT], i>> : i \in IF disk[IB][NDIRECT] = 0 THEN {} ELSE 0 .. NINDIRECT - 1}

To(p) == disk[p[1]][p[2]]

(* Each buffer is in the list once, a sector in one buffer at most, and a  *)
(* buffer that nobody holds has what is on the disk (bget, bread, bwrite,  *)
(* brelse, ideintr).                                                       *)
CacheCoherent ==
    /\ {lru[i] : i \in DOMAIN lru} = Buf /\ Len(lru) = NBUF
    /\ \A a, b \in Buf : sector[a] = sector[b] /\ sector[a] # NoDev => a = b
    /\ \A b \in Buf :
           valid[b] /\ sector[b] \in Sector /\ ~Contains(held, b) => data[b] = disk[sector[b]]

(* What a read copies out of a block is what was last written there.       *)
ReadsBack == ~lost /\ Now("copy") => data[Top][Word] = written[Arg]

(* Between calls each block in use is in the file at one place, and each   *)
(* place of the file has a block in use; within a call balloc finds a free *)
(* block and bfree frees a used one, so that neither panics (itrunc, bmap).*)
BlocksSound ==
    ~lost =>
        /\ todo = <<>> =>
              /\ {To(p) : p \in Pointers} \ {0} = Used
              /\ \A p, q \in Pointers : To(p) = To(q) /\ To(p) # 0 => p = q
        /\ Now("pick") => Free # {}
        /\ Now("clear") => data[Top][Arg] = 1

(* A buffer between its bread and its brelse keeps its sector.             *)
HeldStays == ~lost

(* Every call of the file's users comes to its end: the task is woken for  *)
(* each transfer, however early the interrupt (iderw, ideintr).            *)
CallEnds == (todo # <<>>) ~> (todo = <<>>)
=============================================================================
