------------------------------- MODULE FsTree -------------------------------
(***************************************************************************)
(* The directory tree (fs/inode.c, fs/do_fs.c): inodes in memory and on    *)
(* disk, directory entries and blocks, under the calls that use paths, and *)
(* a machine that may stop between any two writes to the disk.             *)
(*                                                                         *)
(* TASK_FS ends a call before it takes the next, so a call is one step     *)
(* here.  Its functions take and give back the whole state, st; st.was     *)
(* collects what the disk held after each write of the call, which is what *)
(* a stop in the call may leave.  The buffer cache is transparent, and a   *)
(* file or directory has one block at most (FileBlocks has the rest).      *)
(***************************************************************************)
EXTENDS Naturals, FiniteSets, SequencesExt

CONSTANTS
    Users,                    \* processes, each with one descriptor
    Inum, Block,              \* numbers of inodes and data blocks
    NSLOT,                    \* bound: entries a directory has room for
    Name, Path                \* file names; the paths that are used

ROOTINO == 1                  \* 0 means unused dir item

ASSUME FsTreeAssumption ==
    /\ Inum \subseteq Nat \ {0} /\ ROOTINO \in Inum
    /\ Block \subseteq Nat \ {0} /\ 1 \in Block
    /\ NSLOT \in Nat /\ NSLOT >= 2
    /\ Path \subseteq [abs : BOOLEAN, names : Seq(Name)]
    /\ {".", ".."} \subseteq Name

VARIABLES
    disk,                     \* dinodes, directory blocks and bitmap
    ref, mem,                 \* struct inode, by number: ref and the copy
    file, cwd                 \* the inode each process has open; its cwd

vars == <<disk, ref, mem, file, cwd>>

Slots   == 0 .. NSLOT - 1
NoEntry == [name |-> ".", inum |-> 0]
Unused  == [type |-> "none", nlink |-> 0, size |-> 0, addr |-> 0]
Blank   == [k \in Slots |-> NoEntry]

(* What tool/mkfs.c makes: the root directory with its dots.               *)
Init ==
    /\ disk = [dino |-> [i \in Inum |->
                  IF i = ROOTINO THEN [type |-> "dir", nlink |-> 1, size |-> 2, addr |-> 1]
                                 ELSE Unused],
               blk |-> [b \in Block |->
                  IF b = 1 THEN [Blank EXCEPT ![0] = [name |-> ".", inum |-> ROOTINO],
                                              ![1] = [name |-> "..", inum |-> ROOTINO]]
                           ELSE Blank],
               used |-> {1}]
    /\ ref = [i \in Inum |-> 0] /\ mem = [i \in Inum |-> Unused]
    /\ file = [p \in Users |-> 0] /\ cwd = [p \in Users |-> 0]

Now == [disk |-> disk, was |-> {disk}, ref |-> ref, mem |-> mem]

Lowest(S) == CHOOSE x \in S : \A y \in S : x <= y

-----------------------------------------------------------------------------
(* Inodes.                                                                 *)
Written(st, d) == [st EXCEPT !.disk = d, !.was = @ \cup {d}]

iget(st, i) ==
    [st EXCEPT !.ref[i] = @ + 1,
               !.mem[i] = IF st.ref[i] > 0 THEN @ ELSE st.disk.dino[i]]

idupNot(st, i) == st

idup(st, i) == [st EXCEPT !.ref[i] = @ + 1]

iupdate(st, i) == Written(st, [st.disk EXCEPT !.dino[i] = st.mem[i]])

bzero(st, b) == Written(st, [st.disk EXCEPT !.blk[b] = Blank])

ballocUnmarked(st, b) == bzero(st, b)

balloc(st, b) == bzero(Written(st, [st.disk EXCEPT !.used = @ \cup {b}]), b)

bfree(st, b) == Written(st, [st.disk EXCEPT !.used = @ \ {b}])

(* The block goes first, then the inode.                                   *)
itrunc(st, i) ==
    LET freed == IF st.mem[i].addr = 0 THEN st ELSE bfree(st, st.mem[i].addr)
    IN  iupdate([freed EXCEPT !.mem[i].addr = 0, !.mem[i].size = 0], i)

(* The last user of an inode without links frees it.                       *)
iput(st, i) ==
    LET gone == IF st.ref[i] = 1 /\ st.mem[i].nlink = 0
                THEN iupdate([itrunc(st, i) EXCEPT !.mem[i].type = "none"], i)
                ELSE st
    IN  [gone EXCEPT !.ref[i] = @ - 1, !.mem[i] = IF st.ref[i] = 1 THEN Unused ELSE @]

FreeInum(st) == {i \in Inum : st.disk.dino[i].type = "none"}

(* ialloc, for the inode it finds.                                         *)
ialloc(st, i, type) ==
    iget(Written(st, [st.disk EXCEPT !.dino[i] = [Unused EXCEPT !.type = type]]), i)

(* nlink++ and nlink--, on disk at once.                                   *)
More(st, i)  == iupdate([st EXCEPT !.mem[i].nlink = @ + 1], i)
Fewer(st, i) == iupdate([st EXCEPT !.mem[i].nlink = @ - 1], i)

-----------------------------------------------------------------------------
(* Directories.                                                            *)
Entry(st, dp, k) == st.disk.blk[st.mem[dp].addr][k]

Holding(st, dp, name) ==
    {k \in 0 .. st.mem[dp].size - 1 :
        Entry(st, dp, k).inum # 0 /\ Entry(st, dp, k).name = name}

(* The entry dirlookup finds, and the number in it; 0 for none.            *)
Found(st, dp, name) ==
    IF Holding(st, dp, name) = {} THEN 0
    ELSE Entry(st, dp, Lowest(Holding(st, dp, name))).inum

(* writei on a directory or a file: room, the data, then the size.         *)
bmap(st, i) ==
    LET b == Lowest(Block \ st.disk.used)
    IN  IF st.mem[i].addr # 0 THEN st ELSE [balloc(st, b) EXCEPT !.mem[i].addr = b]

Put(st, i, k, e) ==
    IF st.mem[i].type # "dir" THEN st
    ELSE Written(st, [st.disk EXCEPT !.blk[st.mem[i].addr][k] = e])

Sized(st, i, k) ==
    IF k < st.mem[i].size THEN st ELSE iupdate([st EXCEPT !.mem[i].size = k + 1], i)

writei(st, i, k, e) == Sized(Put(bmap(st, i), i, k, e), i, k)

Gaps(st, dp) == {k \in 0 .. st.mem[dp].size - 1 : Entry(st, dp, k).inum = 0}

(* dirlink, for a name that is not present.                                *)
dirlink(st, dp, name, i) ==
    writei(st, dp,
           IF Gaps(st, dp) = {} THEN st.mem[dp].size ELSE Lowest(Gaps(st, dp)),
           [name |-> name, inum |-> i])

-----------------------------------------------------------------------------
(* Paths.  A walk is at inode ip, 0 once it has failed.                    *)
At(st, i) == [st |-> st, ip |-> i]
Fail(st)  == At(st, 0)

IsDir(w) == w.st.mem[w.ip].type = "dir"

(* One name of a path.  Where the path goes through what is not a          *)
(* directory, namex returns without iput.                                  *)
Enter(w, name) ==
    IF w.ip = 0 THEN w
    ELSE IF ~IsDir(w) THEN Fail(w.st)
    ELSE LET i == Found(w.st, w.ip, name)
         IN  IF i = 0 THEN Fail(iput(w.st, w.ip))
                      ELSE At(iput(iget(w.st, i), w.ip), i)

(* A process without a cwd gets the root's, before anything else.          *)
Home(p) == IF cwd[p] = 0 THEN iget(Now, ROOTINO) ELSE Now
Cwd(p)  == IF cwd[p] = 0 THEN ROOTINO ELSE cwd[p]

Start(st, p, path) ==
    IF path.abs THEN At(iget(st, ROOTINO), ROOTINO) ELSE At(idup(st, Cwd(p)), Cwd(p))

namei(st, p, path) == FoldLeft(Enter, Start(st, p, path), path.names)

DirOnly(w) == IF w.ip # 0 /\ ~IsDir(w) THEN Fail(w.st) ELSE w

nameiparent(st, p, path) ==
    IF path.names = <<>> THEN Fail(iput(Start(st, p, path).st, Start(st, p, path).ip))
    ELSE DirOnly(FoldLeft(Enter, Start(st, p, path), Front(path.names)))

(* A new inode i in directory dp: its link count, its dots, its name.      *)
Dots(st, i, dp) ==
    IF st.mem[i].type # "dir" THEN st
    ELSE dirlink(dirlink(More(st, dp), i, ".", i), i, "..", dp)

Born(st, i, dp, name, type) ==
    LET made == More(ialloc(st, i, type), i)
    IN  At(iput(dirlink(Dots(made, i, dp), dp, name, i), dp), i)

(* The name is taken: only a file may be asked for again.                  *)
Present(w, type) ==
    IF type = "file" /\ w.st.mem[w.ip].type = "file" THEN w ELSE Fail(iput(w.st, w.ip))

CreateIn(w, name, type) ==
    LET i == Found(w.st, w.ip, name)
    IN  IF w.ip = 0 THEN w
        ELSE IF i = 0 THEN Born(w.st, Lowest(FreeInum(w.st)), w.ip, name, type)
        ELSE Present(At(iput(iget(w.st, i), w.ip), i), type)

icreate(st, p, path, type) ==
    CreateIn(nameiparent(st, p, path), Last(path.names), type)

-----------------------------------------------------------------------------
(* The calls.  Each ends, or the machine stops on the way and starts again *)
(* with what was on the disk.                                              *)
Ends(p, st, f, c) ==
    /\ disk' = st.disk /\ ref' = st.ref /\ mem' = st.mem
    /\ file' = [file EXCEPT ![p] = f]
    /\ cwd' = [cwd EXCEPT ![p] = c]

Stops(st) ==
    /\ disk' \in st.was
    /\ ref' = [i \in Inum |-> 0] /\ mem' = [i \in Inum |-> Unused]
    /\ file' = [p \in Users |-> 0] /\ cwd' = [p \in Users |-> 0]

Finish(p, st, f, c) == Ends(p, st, f, c) \/ Stops(st)

(* Bound: without a free inode or block, a call that needs one panics; the *)
(* model does not make it.                                                 *)
Room == FreeInum(Now) # {} /\ Block \ disk.used # {}

(* O_CREATE keeps the reference icreate returns and takes another.         *)
Reopened(made, p, path) == IF made.ip = 0 THEN made ELSE namei(made.st, p, path)

Opened(w, p, mode) ==
    IF w.ip = 0 THEN w
    ELSE IF (IsDir(w) /\ mode # "read") \/ file[p] # 0 THEN Fail(iput(w.st, w.ip))
    ELSE w

do_open(p, path, mode) ==
    Opened(IF mode # "create" THEN namei(Home(p), p, path)
           ELSE Reopened(icreate(Home(p), p, path, "file"), p, path),
           p, mode)

Open(p) ==
    \E path \in Path, mode \in {"read", "write", "create"} :
        /\ mode = "create" => Room
        /\ \E w \in {do_open(p, path, mode)} :
               Finish(p, w.st, IF w.ip = 0 THEN file[p] ELSE w.ip, Cwd(p))

Close(p) ==
    /\ file[p] # 0
    /\ Finish(p, iput(Now, file[p]), 0, cwd[p])

WriteFile(p) ==
    /\ file[p] # 0 /\ mem[file[p]].type = "file" /\ Room
    /\ Finish(p, writei(Now, file[p], 0, NoEntry), file[p], cwd[p])

(* mkdir and mknod.                                                        *)
Make(p) ==
    \E path \in Path, type \in {"dir", "dev"} :
        /\ Room
        /\ \E w \in {icreate(Home(p), p, path, type)} :
               Finish(p, IF w.ip = 0 THEN w.st ELSE iput(w.st, w.ip), file[p], Cwd(p))

LinkLateIn(w, name, ip) ==
    IF w.ip = 0 THEN w.st
    ELSE IF Found(w.st, w.ip, name) # 0 THEN iput(w.st, w.ip)
    ELSE iput(More(dirlink(w.st, w.ip, name, ip), ip), w.ip)

LinkLate(st, p, ip, path) == LinkLateIn(nameiparent(st, p, path), Last(path.names), ip)

(* The link is counted, then entered; undone if it cannot be entered.      *)
LinkIn(w, name, ip) ==
    LET i == Found(w.st, w.ip, name)
    IN  IF w.ip = 0 THEN Fewer(w.st, ip)
        ELSE IF i # 0 THEN Fewer(iput(iput(iget(w.st, i), i), w.ip), ip)
        ELSE iput(dirlink(w.st, w.ip, name, ip), w.ip)

LinkTo(st, p, ip, path) == LinkIn(nameiparent(More(st, ip), p, path), Last(path.names), ip)

MayLinkAny(w) == TRUE

MayLink(w) == ~IsDir(w)

Link(p) ==
    \E target, path \in Path : \E w \in {namei(Home(p), p, target)} :
        Finish(p, IF w.ip = 0 THEN w.st
                  ELSE iput(IF MayLink(w) THEN LinkTo(w.st, p, w.ip, path) ELSE w.st, w.ip),
               file[p], Cwd(p))

IsEmpty(st, i) == \A k \in 2 .. st.mem[i].size - 1 : Entry(st, i, k).inum = 0

(* The entry goes first, then the counts.                                  *)
Removed(st, dp, k, i) ==
    LET cleared == writei(st, dp, k, NoEntry)
        parent  == IF st.mem[i].type = "dir" THEN Fewer(cleared, dp) ELSE cleared
    IN  iput(Fewer(iput(parent, dp), i), i)

do_unlink(st, dp, name) ==
    LET i    == Found(st, dp, name)
        with == iget(st, i)
    IN  IF name \in {".", ".."} \/ i = 0 THEN iput(st, dp)
        ELSE IF with.mem[i].type = "dir" /\ ~IsEmpty(with, i) THEN iput(iput(with, i), dp)
        ELSE Removed(with, dp, Lowest(Holding(st, dp, name)), i)

Unlink(p) ==
    \E path \in Path : \E w \in {nameiparent(Home(p), p, path)} :
        Finish(p, IF w.ip = 0 THEN w.st ELSE do_unlink(w.st, w.ip, Last(path.names)),
               file[p], Cwd(p))

Chdir(p) ==
    \E path \in Path : \E w \in {namei(Home(p), p, path)} :
        IF w.ip = 0 THEN Finish(p, w.st, file[p], Cwd(p))
        ELSE IF ~IsDir(w) THEN Finish(p, iput(w.st, w.ip), file[p], Cwd(p))
        ELSE Finish(p, iput(w.st, Cwd(p)), file[p], w.ip)

Exit(p) ==
    LET closed == IF file[p] = 0 THEN Now ELSE iput(Now, file[p])
    IN  Finish(p, IF cwd[p] = 0 THEN closed ELSE iput(closed, cwd[p]), 0, 0)

Next ==
    \E p \in Users :
        \/ Open(p) \/ Close(p) \/ WriteFile(p) \/ Make(p) \/ Link(p)
        \/ Unlink(p) \/ Chdir(p) \/ Exit(p)

Spec == Init /\ [][Next]_vars

-----------------------------------------------------------------------------
(* What a fresh look at the disk finds.                                    *)
Dirs == {d \in Inum : disk.dino[d].type = "dir" /\ disk.dino[d].nlink > 0}

EntryOf(d, k) == disk.blk[disk.dino[d].addr][k]

Entries(d) ==
    {EntryOf(d, k) : k \in 0 .. disk.dino[d].size - 1} \ {NoEntry}

Named(d) == {e \in Entries(d) : e.name \notin {".", ".."}}

NamesOf(i) == UNION {{<<d, e.name>> : e \in {x \in Named(d) : x.inum = i}} : d \in Dirs}

Subdirs(d) == {e \in Named(d) : disk.dino[e.inum].type = "dir"}

Holders(i) == Cardinality({p \in Users : file[p] = i}) + Cardinality({p \in Users : cwd[p] = i})

(* The links to an inode there are: its names, root's own, and for a       *)
(* directory the dots of its children.                                     *)
Links(i) ==
    Cardinality(NamesOf(i)) + (IF i = ROOTINO THEN 1 ELSE 0)
        + IF i \in Dirs THEN Cardinality(Subdirs(i)) ELSE 0

(* What a directory names is an inode in use, wherever the machine has     *)
(* stopped, and its link count is at least the number of its links: the    *)
(* count is raised before and lowered after the entry it stands for        *)
(* (do_link, do_unlink, icreate), so a stop can only leave it too high.    *)
LinksCovered ==
    \A i \in Inum : NamesOf(i) # {} \/ i = ROOTINO =>
        disk.dino[i].type # "none" /\ disk.dino[i].nlink >= Links(i)

(* A directory has one name, and its dots lead to itself and to the        *)
(* directory that names it: the tree has no cycles (do_link, icreate).     *)
DirTree ==
    \A d \in Dirs : \A e \in Subdirs(d) :
        /\ NamesOf(e.inum) = {<<d, e.name>>}
        /\ EntryOf(e.inum, 0) = [name |-> ".", inum |-> e.inum]
        /\ EntryOf(e.inum, 1) = [name |-> "..", inum |-> d]

(* A block belongs to one file or directory that is named or open, and is  *)
(* marked in the bitmap (balloc, bfree, itrunc, iput).                     *)
BlocksOwned ==
    LET dino(i) == IF ref[i] > 0 THEN mem[i] ELSE disk.dino[i]
        alive   == {i \in Inum : dino(i).nlink > 0 \/ ref[i] > 0}
    IN  \A i \in alive : dino(i).addr # 0 =>
            /\ dino(i).addr \in disk.used
            /\ \A j \in alive : dino(j).addr = dino(i).addr => i = j

(* An open file and a cwd have their reference; an inode that is          *)
(* referenced is not freed or recycled, and between calls its copy in      *)
(* memory is what the disk has (iget, iput, idup, iupdate, do_chdir).      *)
HeldIsLive ==
    \A i \in Inum :
        /\ ref[i] >= Holders(i)
        /\ ref[i] > 0 => mem[i].type # "none" /\ mem[i] = disk.dino[i]

(* An inode is freed only after the last entry that refers to it is gone,  *)
(* the dots of a directory somebody is still in among them (itrunc).       *)
LastEntryErased ==
    \A d \in Inum : (d \in Dirs \/ ref[d] > 0) /\ disk.dino[d].type = "dir" =>
        \A e \in Entries(d) : disk.dino[e.inum].type # "none"
=============================================================================
