----------------------------- MODULE FileTable -----------------------------
(***************************************************************************)
(* Descriptors, open files, pipes' pages and inode references (fs/do_fs.c, *)
(* fs/file.c, fs/pipe.c, with iget, idup and iput of fs/inode.c).          *)
(*                                                                         *)
(* TASK_FS ends a call before it takes the next, so a call is one step.    *)
(* Its functions take and give back the whole state, st.  A panic, and a   *)
(* fault (which trap returns from, to fault again), leave the task where   *)
(* it is for ever: st.stuck.  A dup of what is past ofile's end takes some *)
(* other field for a file: wild, and nothing is said from there on.        *)
(***************************************************************************)
EXTENDS Naturals, FiniteSets

CONSTANTS
    Procs,                    \* slots of ptable
    Inum, Dirs,               \* inodes that paths lead to; directories
    Page,                     \* pages kalloc1 has
    NFILE, NOFILE, NINODE,    \* sizes of files[], ofile[], inodes[]
    MaxLost                   \* bound: references that are never given back

ROOTINO == 1

ASSUME FileTableAssumption ==
    /\ Inum \subseteq Nat \ {0} /\ Dirs \subseteq Inum /\ ROOTINO \in Dirs
    /\ 0 \notin Page /\ Procs # {} /\ IsFiniteSet(Procs)
    /\ {NFILE, NOFILE, NINODE, MaxLost} \subseteq Nat

VARIABLES
    files,                    \* files[]
    ofile, cwd, live,         \* of each slot; the slots in use
    iref,                     \* struct inode's ref, by number; 0: not in memory
    pipes,                    \* struct pipe on each page, or NoPipe
    lost,                     \* references icreate and namex have dropped
    stuck, wild

vars == <<files, ofile, cwd, live, iref, pipes, lost, stuck, wild>>

NULL     == 0
Files    == 1 .. NFILE
RESERVED == NFILE + 1         \* (struct file *)1
Fds      == 0 .. NOFILE - 1

Closed == [readopen |-> FALSE, writeopen |-> FALSE]

Init ==
    /\ files = [f \in Files |-> [type |-> "none", ref |-> 0, writable |-> FALSE, pipe |-> 0, ip |-> 0]]
    /\ ofile = [p \in Procs |-> [d \in Fds |-> NULL]]
    /\ cwd = [p \in Procs |-> 0]
    /\ \E p \in Procs : live = {p}
    /\ iref = [i \in Inum |-> 0] /\ lost = [i \in Inum |-> 0]
    /\ pipes = [g \in Page |-> Closed]
    /\ stuck = FALSE /\ wild = FALSE

Now ==
    [files |-> files, ofile |-> ofile, cwd |-> cwd, iref |-> iref, pipes |-> pipes,
     lost |-> lost, stuck |-> stuck]

(* A call ends, or is where the task is stuck.                             *)
Ends(st) ==
    /\ files' = st.files /\ ofile' = st.ofile /\ cwd' = st.cwd /\ iref' = st.iref
    /\ pipes' = st.pipes /\ lost' = st.lost /\ stuck' = st.stuck
    /\ UNCHANGED wild

Done(st) == Ends(st) /\ UNCHANGED live

Halt(st) == [st EXCEPT !.stuck = TRUE]

Lowest(S) == CHOOSE x \in S : \A y \in S : x <= y

-----------------------------------------------------------------------------
(* Inodes.                                                                 *)
Full(st) == Cardinality({i \in Inum : st.iref[i] > 0}) = NINODE

idup(st, i) == IF st.stuck THEN st ELSE [st EXCEPT !.iref[i] = @ + 1]

iget(st, i) == IF st.iref[i] = 0 /\ Full(st) THEN Halt(st) ELSE idup(st, i)

iput(st, i) == IF st.stuck THEN st ELSE [st EXCEPT !.iref[i] = @ - 1]

(* Nobody has the reference any more.                                      *)
Lose(st, i) == IF st.stuck THEN st ELSE [st EXCEPT !.lost[i] = @ + 1]

(* namex gives a process its cwd before it looks at the path.              *)
Home(st, p) ==
    IF st.cwd[p] # 0 THEN st
    ELSE [iget(st, ROOTINO) EXCEPT !.cwd[p] = IF iget(st, ROOTINO).stuck THEN 0 ELSE ROOTINO]

-----------------------------------------------------------------------------
(* Files and pipes.                                                        *)
FreeFiles(st)  == {f \in Files : st.files[f].ref = 0}
FreeFds(st, p) == {d \in Fds : st.ofile[p][d] = NULL}

fdalloc(st, p) == Lowest(FreeFds(st, p))

filedup(st, f) ==
    IF st.stuck THEN st
    ELSE IF f \notin Files THEN Halt(st)
    ELSE [st EXCEPT !.files[f].ref = @ + 1]

pipecloseOther(st, g, writable) ==
    IF writable THEN [st EXCEPT !.pipes[g].readopen = FALSE]
                ELSE [st EXCEPT !.pipes[g].writeopen = FALSE]

(* The page goes back, by kfree1, when both ends are closed.               *)
pipeclose(st, g, writable) ==
    IF writable THEN [st EXCEPT !.pipes[g].writeopen = FALSE]
                ELSE [st EXCEPT !.pipes[g].readopen = FALSE]

(* The last user is gone: of file f, which keeps all but its type.         *)
Released(st, f) ==
    CASE st.files[f].type = "pipe"  -> pipeclose(st, st.files[f].pipe, st.files[f].writable)
      [] st.files[f].type = "inode" -> iput(st, st.files[f].ip)
      [] OTHER -> st

fileclose(st, f) ==
    IF st.stuck THEN st
    ELSE IF f \notin Files THEN Halt(st)
    ELSE IF st.files[f].ref > 1 THEN [st EXCEPT !.files[f].ref = @ - 1]
    ELSE [Released(st, f) EXCEPT !.files[f].ref = 0, !.files[f].type = "none"]

Emptied(st, p, d) == IF st.stuck THEN st ELSE [st EXCEPT !.ofile[p][d] = NULL]

CloseAt(st, p, d) == Emptied(fileclose(st, st.ofile[p][d]), p, d)

-----------------------------------------------------------------------------
(* The calls of a process.                                                 *)
Calls(p) == p \in live /\ ~stuck /\ ~wild

(* Without a free file or descriptor the inode goes back, and the file too.*)
OpenInode(st, p, i) ==
    IF st.stuck THEN st
    ELSE IF FreeFiles(st) = {} \/ FreeFds(st, p) = {} THEN iput(st, i)
    ELSE LET f == Lowest(FreeFiles(st))
         IN  [st EXCEPT !.files[f] = [@ EXCEPT !.type = "inode", !.ref = 1, !.ip = i],
                        !.ofile[p][fdalloc(st, p)] = f]

(* O_CREATE: icreate refuses a directory, and namei takes the inode again. *)
Open(p) ==
    /\ Calls(p)
    /\ \E i \in Inum, mode \in {"read", "write", "create"}, st \in {Home(Now, p)} :
           /\ mode = "create" => lost[i] < MaxLost
           /\ Done(IF i \in Dirs /\ mode = "create" THEN st
                   ELSE IF i \in Dirs /\ mode = "write" THEN iput(iget(st, i), i)
                   ELSE IF mode = "create" THEN OpenInode(iget(Lose(iget(st, i), i), i), p, i)
                   ELSE OpenInode(iget(st, i), p, i))

(* Any call whose path goes through a file: namex returns without iput.    *)
WalkThrough(p) ==
    /\ Calls(p)
    /\ \E i \in Inum \ Dirs, st \in {Home(Now, p)} :
           /\ lost[i] < MaxLost
           /\ Done(Lose(iget(st, i), i))

Close(p) ==
    /\ Calls(p)
    /\ \E d \in Fds : ofile[p][d] # NULL /\ Done(CloseAt(Now, p, d))

(* The new descriptor is marked, then the file is counted, in use or not.  *)
DupOf(st, p, d) ==
    LET n      == fdalloc(st, p)
        marked == [st EXCEPT !.ofile[p][n] = RESERVED]
        duped  == filedup(marked, marked.ofile[p][d])
    IN  IF duped.stuck THEN duped ELSE [duped EXCEPT !.ofile[p][n] = duped.ofile[p][d]]

Dup(p) ==
    /\ Calls(p)
    /\ \E d \in Fds : FreeFds(Now, p) # {} /\ Done(DupOf(Now, p, d))

(* do_dup does not look whether fd is in ofile: past its end are cwd, the  *)
(* process's name, other slots.  filedup counts a field of that up, if it  *)
(* does not fault or panic, and the new descriptor names no file.          *)
DupOutside(p) ==
    /\ Calls(p) /\ FreeFds(Now, p) # {}
    /\ wild' = TRUE
    /\ UNCHANGED <<files, ofile, cwd, live, iref, pipes, lost, stuck>>

ChdirKeeps(st, p, i) == [st EXCEPT !.cwd[p] = i]

ChdirTo(st, p, i) ==
    IF st.stuck THEN st
    ELSE IF i \notin Dirs THEN iput(st, i)
    ELSE [iput(st, st.cwd[p]) EXCEPT !.cwd[p] = i]

Chdir(p) ==
    /\ Calls(p)
    /\ \E i \in Inum, st \in {Home(Now, p)} : Done(ChdirTo(iget(st, i), p, i))

(* seek looks at ip, of a pipe's end too, which may never have had one.    *)
Seek(p) ==
    /\ Calls(p)
    /\ \E d \in Fds :
           /\ ofile[p][d] # NULL
           /\ Done(IF ofile[p][d] = RESERVED \/ files[ofile[p][d]].ip = 0 THEN Halt(Now) ELSE Now)

(* pipealloc, given two files and a page; without them all goes back.      *)
pipealloc(st, rf, wf, g) ==
    [st EXCEPT !.files[rf] = [@ EXCEPT !.type = "pipe", !.ref = 1, !.writable = FALSE, !.pipe = g],
               !.files[wf] = [@ EXCEPT !.type = "pipe", !.ref = 1, !.writable = TRUE, !.pipe = g],
               !.pipes[g] = [readopen |-> TRUE, writeopen |-> TRUE]]

PipeUnclosed(st, p, rf, wf) ==
    IF FreeFds(st, p) = {} THEN st
    ELSE [st EXCEPT !.ofile[p][fdalloc(st, p)] = RESERVED]

(* Too few descriptors: both files are closed.  The mark of the first      *)
(* stays, as do_pipe takes it from the table of current, which is TASK_FS. *)
PipeFails(st, p, rf, wf) ==
    LET marked == IF FreeFds(st, p) = {} THEN st
                  ELSE [st EXCEPT !.ofile[p][fdalloc(st, p)] = RESERVED]
    IN  fileclose(fileclose(marked, rf), wf)

PipeTo(st, p, rf, wf) ==
    LET fd0 == fdalloc(st, p)
        fd1 == Lowest(FreeFds(st, p) \ {fd0})
    IN  IF Cardinality(FreeFds(st, p)) < 2 THEN PipeFails(st, p, rf, wf)
        ELSE [st EXCEPT !.ofile[p][fd0] = rf, !.ofile[p][fd1] = wf]

Pipe(p) ==
    /\ Calls(p)
    /\ \E g \in {x \in Page : pipes[x] = Closed}, rf, wf \in FreeFiles(Now) :
           /\ rf = Lowest(FreeFiles(Now)) /\ wf # rf
           /\ wf = Lowest(FreeFiles(Now) \ {rf})
           /\ Done(PipeTo(pipealloc(Now, rf, wf, g), p, rf, wf))

-----------------------------------------------------------------------------
(* What task_mm asks for: FSFORK and FSEXIT.                               *)
ForkAt(st, p, q, d) ==
    IF st.stuck THEN st
    ELSE IF st.ofile[p][d] = NULL THEN [st EXCEPT !.ofile[q][d] = NULL]
    ELSE LET duped == filedup(st, st.ofile[p][d])
         IN  IF duped.stuck THEN duped ELSE [duped EXCEPT !.ofile[q][d] = st.ofile[p][d]]

(* After so many turns of the loop over ofile.                             *)
ForkTurns(st, p, q) ==
    LET After[n \in 0 .. NOFILE] ==
            IF n = 0 THEN st ELSE ForkAt(After[n - 1], p, q, n - 1)
    IN  After

ForkFiles(st, p, q) == ForkTurns(st, p, q)[NOFILE]

ForkCwd(st, p, q) ==
    IF st.stuck \/ st.cwd[p] = 0 THEN st
    ELSE [idup(st, st.cwd[p]) EXCEPT !.cwd[q] = st.cwd[p]]

Fork(p) ==
    /\ Calls(p)
    /\ \E q \in Procs \ live : \E st \in {ForkCwd(ForkFiles(Now, p, q), p, q)} :
           /\ Ends(st)
           /\ live' = IF st.stuck THEN live ELSE live \cup {q}

ExitAt(st, p, d) == IF st.ofile[p][d] = NULL THEN st ELSE CloseAt(st, p, d)

ExitTurns(st, p) ==
    LET After[n \in 0 .. NOFILE] ==
            IF n = 0 THEN st ELSE ExitAt(After[n - 1], p, n - 1)
    IN  After

ExitFiles(st, p) == ExitTurns(st, p)[NOFILE]

ExitCwd(st, p) ==
    IF st.stuck \/ st.cwd[p] = 0 THEN st
    ELSE [iput(st, st.cwd[p]) EXCEPT !.cwd[p] = 0]

Exit(p) ==
    /\ Calls(p)
    /\ \E st \in {ExitCwd(ExitFiles(Now, p), p)} :
           /\ Ends(st)
           /\ live' = IF st.stuck THEN live ELSE live \ {p}

Next ==
    \E p \in Procs :
        \/ Open(p) \/ WalkThrough(p) \/ Close(p) \/ Dup(p) \/ DupOutside(p)
        \/ Chdir(p) \/ Seek(p) \/ Pipe(p) \/ Fork(p) \/ Exit(p)

Spec == Init /\ [][Next]_vars

-----------------------------------------------------------------------------
Refs(f) == {x \in Procs \X Fds : ofile[x[1]][x[2]] = f}

(* A file's count is the number of descriptors that name it, of all        *)
(* processes, also where a call has failed half way; so a file is reused   *)
(* when and only when its last descriptor is gone, unless a descriptor     *)
(* outside of ofile has been duplicated (filealloc, filedup, fileclose,    *)
(* do_pipe, do_dup, do_fsfork, do_fsexit).                                 *)
FilesCounted ==
    ~wild => \A f \in Files :
        /\ files[f].ref = Cardinality(Refs(f))
        /\ files[f].type = "none" <=> files[f].ref = 0

(* An end of a pipe is open as long as a file in use stands for it, and    *)
(* only one does; so the pipe's page goes back once, after the last user   *)
(* (pipealloc, pipeclose, kfree1).                                         *)
PipesOwned ==
    ~wild => \A g \in Page : \A w \in BOOLEAN :
        LET ends == {f \in Files : files[f].type = "pipe" /\ files[f].pipe = g
                                       /\ files[f].writable = w}
            open == IF w THEN pipes[g].writeopen ELSE pipes[g].readopen
        IN  Cardinality(ends) = IF open THEN 1 ELSE 0

(* An inode stays in memory for its open files, its cwds and what icreate  *)
(* and namex have dropped, no longer: only those fill inodes[] for good.   *)
InodesHeld ==
    ~wild => \A i \in Inum :
        iref[i] = Cardinality({f \in Files : files[f].type = "inode" /\ files[f].ip = i})
                    + Cardinality({p \in Procs : cwd[p] = i}) + lost[i]
=============================================================================
