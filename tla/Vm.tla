--------------------------------- MODULE Vm ---------------------------------
(***************************************************************************)
(* Pages and address spaces (mm/vm.c, mm/exec.c, the memory of mm/proc.c   *)
(* and of allocproc): who owns each page under fork, exec, exit, wait and  *)
(* sbrk when memory runs out, and while TASK_FS takes and gives pages for  *)
(* pipes.                                                                  *)
(*                                                                         *)
(* Both tasks use kfreelist and may be preempted anywhere, and exec waits  *)
(* for TASK_FS to read the program: a step here is one kalloc1, or half a  *)
(* kfree1, with what follows up to the next.  TASK_MM ends a call before   *)
(* it takes the next; job is where it is.                                  *)
(*                                                                         *)
(* Addresses count pages.  Past KBASE are the kernel's, mapped in every    *)
(* space by one table; VSIZE is where u32 wraps.                           *)
(***************************************************************************)
EXTENDS Naturals, FiniteSets, Sequences

CONSTANTS
    Procs,
    NPAGE,                    \* pages past the kernel's own, by number
    NPTENTRIES,               \* pages a table maps
    KBASE, VSIZE,
    Image, Grow,              \* sizes of programs; what sbrk is asked for
    MaxPipe                   \* bound: pages TASK_FS has for pipes

Nobody == 0                      \* no slot: what fork and exec have made so far

ASSUME VmAssumption ==
    /\ {NPAGE, NPTENTRIES, KBASE, VSIZE} \subseteq Nat \ {0} /\ VSIZE > KBASE
    /\ NPAGE >= 5 /\ Nobody \notin Procs /\ MaxPipe \in Nat
    /\ Image \subseteq 1 .. KBASE - 2 /\ Grow \subseteq 0 .. VSIZE - 1

VARIABLES
    free,                     \* kfreelist
    state, brk, stack,        \* of each slot of ptable; it has a user stack
    kstack, space,            \* its kernel stack, and what its pgdir leads to
    torn,                     \* slots whose pages and brk have come apart
    job,                      \* TASK_MM: the call it serves
    pipes,                    \* pages TASK_FS has for pipes
    giving, head,             \* of each task: the page its kfree1 has linked
                              \* and to which head, before it stores kfreelist
    corrupt,                  \* that store has undone another's
    panic

slotVars == <<state, brk, stack, torn>>
pageVars == <<kstack, space>>
freeing  == <<giving, head, corrupt>>
vars == <<free, slotVars, pageVars, job, pipes, freeing, panic>>

Page  == 1 .. NPAGE
Vpage == 0 .. KBASE - 1
PDX(v) == v \div NPTENTRIES
NTABLE == PDX(KBASE - 1) + 1
Table == 0 .. NTABLE - 1
Slot  == Procs \cup {Nobody}

NoSpace ==
    [dir |-> 0, kern |-> 0, tab |-> [i \in Table |-> 0], map |-> [v \in Vpage |-> 0]]

Mapped(s) == {v \in Vpage : s.map[v] # 0}

Hand(g) == {g} \ {0}          \* the page g, if it is one

(* Mutant: freevm stops at KBASE.                                          *)
freevmLow(s) == ({s.dir} \cup {s.map[v] : v \in Vpage} \cup {s.tab[i] : i \in Table}) \ {0}

(* What freevm gives back.                                                 *)
freevm(s) ==
    ({s.dir, s.kern} \cup {s.map[v] : v \in Vpage} \cup {s.tab[i] : i \in Table}) \ {0}

Idle ==
    [pc |-> "idle", call |-> "none", p |-> Nobody, q |-> Nobody, at |-> 0, end |-> 0, size |-> 0,
     got |-> 0, give |-> {}, missed |-> FALSE]

Init ==
    \E p \in Procs :
        /\ free = [k \in 1 .. NPAGE - 5 |-> k + 5]
        /\ state = [q \in Procs |-> IF q = p THEN "live" ELSE "unused"]
        /\ kstack = [q \in Slot |-> IF q = p THEN 1 ELSE 0]
        /\ space = [q \in Slot |->
              IF q = p THEN [NoSpace EXCEPT !.dir = 2, !.kern = 3, !.tab[0] = 5, !.map[0] = 4]
              ELSE NoSpace]
        /\ brk = [q \in Procs |-> IF q = p THEN 1 ELSE 0]
        /\ stack = [q \in Procs |-> FALSE] /\ torn = {}
        /\ job = Idle /\ pipes = {}
        /\ giving = [t \in {"mm", "fs"} |-> 0] /\ head = [t \in {"mm", "fs"} |-> 0]
        /\ corrupt = FALSE /\ panic = FALSE

Runs == ~panic /\ ~corrupt

At(pc) == Runs /\ job.pc = pc

-----------------------------------------------------------------------------
(* The free list.                                                          *)
None == free = <<>>

kalloc1 == ~None /\ free' = Tail(free)

HeadOf(f) == IF f = <<>> THEN 0 ELSE Head(f)

(* kfree1 links the page to the head, lets interrupts in, and only then    *)
(* makes it the head.                                                      *)
kfree1Link(t, S) ==
    /\ giving[t] = 0
    /\ \E g \in S : giving' = [giving EXCEPT ![t] = g]
    /\ head' = [head EXCEPT ![t] = HeadOf(free)]
    /\ UNCHANGED <<free, slotVars, pageVars, job, pipes, corrupt, panic>>

(* Is the head what it was, nothing is amiss; else what the other task has *)
(* taken will be given out again, or what it has given back is lost.       *)
kfree1Store(t) ==
    /\ giving[t] # 0
    /\ free' = <<giving[t]>> \o free
    /\ corrupt' = (head[t] # HeadOf(free))
    /\ giving' = [giving EXCEPT ![t] = 0] /\ head' = [head EXCEPT ![t] = 0]
    /\ UNCHANGED <<slotVars, pageVars, panic>>

-----------------------------------------------------------------------------
(* TASK_MM gives back the pages of a space and a kernel stack, in any      *)
(* order, and is done.                                                     *)
GiveAll(S) == IF S = {} THEN Idle ELSE [Idle EXCEPT !.pc = "give", !.give = S]

GiveLink == At("give") /\ kfree1Link("mm", job.give)

GiveStore ==
    /\ At("give") /\ kfree1Store("mm")
    /\ job' = GiveAll(job.give \ {giving["mm"]})
    /\ UNCHANGED pipes

(* A fork or an exec that fails: what is left of the new space and the     *)
(* child's kernel stack go back.                                           *)
Abandon(s) ==
    /\ job' = GiveAll(freevm(s) \cup Hand(kstack[Nobody]))
    /\ space' = [space EXCEPT ![Nobody] = NoSpace]
    /\ kstack' = [kstack EXCEPT ![Nobody] = 0]
    /\ UNCHANGED <<free, slotVars, pipes, freeing, panic>>

-----------------------------------------------------------------------------
(* The calls begin.  One that is refused at once changes nothing: a fork   *)
(* without a page for the kernel stack, or a sbrk past KBASE or to 0.      *)
Calls(p) == At("idle") /\ state[p] = "live"

Call(p, j) ==
    /\ Calls(p)
    /\ job' = j
    /\ UNCHANGED <<slotVars, space, pipes, freeing, panic>>

Fork(p) ==
    \E q \in Procs :
        /\ state[q] = "unused"
        /\ kalloc1 /\ kstack' = [kstack EXCEPT ![Nobody] = Head(free)]
        /\ Call(p, [Idle EXCEPT !.pc = "dir", !.call = "fork", !.p = p, !.q = q])

Exec(p) ==
    \E size \in Image :
        /\ Call(p, [Idle EXCEPT !.pc = "dir", !.call = "exec", !.p = p, !.end = size, !.size = size])
        /\ UNCHANGED <<free, kstack>>

End(addr, len) == (addr + len) % VSIZE

Sbrk(p) ==
    \E len \in Grow :
        /\ End(brk[p], len) \in 1 .. KBASE
        /\ Call(p, [Idle EXCEPT !.pc = "alloc", !.call = "sbrk", !.p = p,
                                !.at = brk[p], !.end = End(brk[p], len)])
        /\ UNCHANGED <<free, kstack>>

(* exit keeps the pages; the parent's wait, which is any other's here,     *)
(* gives them back, and the slot counts as unused from then on.            *)
Exit(p) ==
    /\ Calls(p)
    /\ state' = [state EXCEPT ![p] = "zombie"]
    /\ UNCHANGED <<free, brk, stack, torn, pageVars, job, pipes, freeing, panic>>

Wait(p) ==
    /\ At("idle") /\ state[p] = "zombie"
    /\ job' = GiveAll(freevm(space[p]) \cup Hand(kstack[p]))
    /\ state' = [state EXCEPT ![p] = "unused"]
    /\ kstack' = [kstack EXCEPT ![p] = 0]
    /\ space' = [space EXCEPT ![p] = NoSpace]
    /\ brk' = [brk EXCEPT ![p] = 0] /\ stack' = [stack EXCEPT ![p] = FALSE]
    /\ torn' = torn \ {p}
    /\ UNCHANGED <<free, pipes, freeing, panic>>

-----------------------------------------------------------------------------
(* setupkvm.  Without a page for the kernel's table, pgdir's is lost.      *)
MakeDir ==
    /\ At("dir")
    /\ IF None THEN Abandon(NoSpace)
       ELSE /\ kalloc1
            /\ space' = [space EXCEPT ![Nobody].dir = Head(free)]
            /\ job' = [job EXCEPT !.pc = "kern"]
            /\ UNCHANGED <<slotVars, kstack, pipes, freeing, panic>>

MakeKern ==
    /\ At("kern")
    /\ IF None THEN Abandon(NoSpace)
       ELSE /\ kalloc1
            /\ space' = [space EXCEPT ![Nobody].kern = Head(free)]
            /\ job' = [job EXCEPT !.pc = "alloc"]
            /\ UNCHANGED <<slotVars, kstack, pipes, freeing, panic>>

(* The addresses copyuvm or allocuvm has yet to map, and where.  Mutant:   *)
(* copyuvm stops at brk.                                                   *)
CopyLow == {v \in Mapped(space[job.p]) : v >= job.at /\ v < brk[job.p]}

CopyAll == {v \in Mapped(space[job.p]) : v >= job.at}

Todo == IF job.call = "fork" THEN CopyAll ELSE job.at .. job.end - 1

Into == IF job.call = "sbrk" THEN job.p ELSE Nobody

Lowest(S) == CHOOSE x \in S : \A y \in S : x <= y

(* Without a page sbrk is answered -1, and what it has mapped stays.       *)
SbrkFails ==
    /\ job' = Idle
    /\ torn' = IF job.at = brk[job.p] THEN torn ELSE torn \cup {job.p}
    /\ UNCHANGED <<free, state, brk, stack, pageVars, pipes, freeing, panic>>

AllocPage ==
    /\ At("alloc") /\ Todo # {}
    /\ IF None THEN IF job.call = "sbrk" THEN SbrkFails ELSE Abandon(space[Nobody])
       ELSE /\ kalloc1
            /\ job' = [job EXCEPT !.pc = "enter", !.got = Head(free)]
            /\ UNCHANGED <<slotVars, pageVars, pipes, freeing, panic>>

(* mappages, with a table of its own from walkpgdir where there is none.   *)
Tabled(s, i) == IF s.tab[i] # 0 THEN s ELSE [s EXCEPT !.tab[i] = Head(free)]

EnterPage ==
    LET v == Lowest(Todo)
        s == space[Into]
    IN  /\ At("enter") /\ s.map[v] = 0
        /\ IF s.tab[PDX(v)] # 0 THEN UNCHANGED free ELSE kalloc1
        /\ space' = [space EXCEPT ![Into] = [Tabled(s, PDX(v)) EXCEPT !.map[v] = job.got]]
        /\ job' = [job EXCEPT !.pc = "alloc", !.at = v + 1, !.got = 0]
        /\ UNCHANGED <<slotVars, kstack, pipes, freeing, panic>>

(* Without a table the page is lost.  copyuvm looks at mappages' answer;   *)
(* allocuvm does not, and goes on to the next page.                        *)
EnterMissed ==
    LET v == Lowest(Todo)
    IN  /\ At("enter") /\ space[Into].tab[PDX(v)] = 0 /\ None
        /\ IF job.call = "fork" THEN Abandon(space[Nobody])
           ELSE /\ job' = [job EXCEPT !.pc = "alloc", !.at = v + 1, !.got = 0, !.missed = TRUE]
                /\ torn' = IF job.call = "sbrk" THEN torn \cup {job.p} ELSE torn
                /\ UNCHANGED <<free, state, brk, stack, pageVars, pipes, freeing, panic>>

Panics ==
    /\ panic' = TRUE
    /\ UNCHANGED <<free, slotVars, pageVars, job, pipes, freeing>>

EnterRemap == At("enter") /\ space[Into].map[Lowest(Todo)] # 0 /\ Panics

-----------------------------------------------------------------------------
(* The calls end.                                                          *)
Done(call) == At("alloc") /\ Todo = {} /\ job.call = call

(* The child has what its parent has; who waits in the call.               *)
ForkDone ==
    /\ Done("fork")
    /\ state' = [state EXCEPT ![job.q] = "live"]
    /\ kstack' = [kstack EXCEPT ![job.q] = kstack[Nobody], ![Nobody] = 0]
    /\ space' = [space EXCEPT ![job.q] = space[Nobody], ![Nobody] = NoSpace]
    /\ brk' = [brk EXCEPT ![job.q] = brk[job.p]]
    /\ stack' = [stack EXCEPT ![job.q] = stack[job.p]]
    /\ torn' = IF job.p \in torn THEN torn \cup {job.q} ELSE torn
    /\ job' = Idle
    /\ UNCHANGED <<free, pipes, freeing, panic>>

Loaded == job.end = KBASE     \* it is at the user stack

(* loaduvm walks the tables without making any, to the end of what the     *)
(* file has of the program.                                                *)
Unwalkable(size) == \E v \in 0 .. size - 1 : space[Nobody].tab[PDX(v)] = 0

ExecLoads ==
    /\ Done("exec") /\ ~Loaded
    /\ \E filesz \in 0 .. job.size :
          IF Unwalkable(filesz) THEN Panics
          ELSE /\ job' = [job EXCEPT !.at = KBASE - 2, !.end = KBASE]
               /\ UNCHANGED <<free, slotVars, pageVars, pipes, freeing, panic>>

(* The program cannot be read, before it has pages or after, or its        *)
(* arguments do not fit.                                                   *)
ExecBad ==
    /\ At("alloc") /\ job.call = "exec" /\ (job.at = 0 \/ Todo = {})
    /\ Abandon(space[Nobody])

(* Mutant: mm_current->pgdir is set first.                                 *)
ReplacedLate == space[Nobody]

Replaced == space[job.p]

(* do_exec looks only whether the last page has a table.                   *)
ExecDone ==
    /\ Done("exec") /\ Loaded /\ space[Nobody].tab[PDX(KBASE - 1)] # 0
    /\ space' = [space EXCEPT ![job.p] = space[Nobody], ![Nobody] = NoSpace]
    /\ brk' = [brk EXCEPT ![job.p] = job.size]
    /\ stack' = [stack EXCEPT ![job.p] = TRUE]
    /\ torn' = IF job.missed THEN torn \cup {job.p} ELSE torn \ {job.p}
    /\ job' = GiveAll(freevm(Replaced))
    /\ UNCHANGED <<free, state, kstack, pipes, freeing, panic>>

(* A sum that has wrapped lowers brk and unmaps nothing.                   *)
SbrkDone ==
    /\ Done("sbrk")
    /\ brk' = [brk EXCEPT ![job.p] = job.end]
    /\ torn' = IF job.end < brk[job.p] THEN torn \cup {job.p} ELSE torn
    /\ job' = Idle
    /\ UNCHANGED <<free, state, stack, pageVars, pipes, freeing, panic>>

-----------------------------------------------------------------------------
(* TASK_FS: pipealloc and pipeclose.                                       *)
PipeTake ==
    /\ ~corrupt /\ giving["fs"] = 0 /\ Cardinality(pipes) < MaxPipe
    /\ kalloc1 /\ pipes' = pipes \cup {Head(free)}
    /\ UNCHANGED <<slotVars, pageVars, job, freeing, panic>>

PipeLink == ~corrupt /\ kfree1Link("fs", pipes)

PipeStore ==
    /\ ~corrupt /\ kfree1Store("fs")
    /\ pipes' = pipes \ {giving["fs"]}
    /\ UNCHANGED job

Next ==
    \/ \E p \in Procs : Fork(p) \/ Exec(p) \/ Sbrk(p) \/ Exit(p) \/ Wait(p)
    \/ MakeDir \/ MakeKern \/ AllocPage \/ EnterPage \/ EnterMissed \/ EnterRemap
    \/ ForkDone \/ ExecLoads \/ ExecBad \/ ExecDone \/ SbrkDone
    \/ GiveLink \/ GiveStore \/ PipeTake \/ PipeLink \/ PipeStore

Spec == Init /\ [][Next]_vars

-----------------------------------------------------------------------------
Used == {p \in Procs : state[p] # "unused"}

Own(s) == freevm(space[s]) \cup Hand(kstack[s])

Owned == (UNION {Own(s) : s \in Slot}) \cup Hand(job.got) \cup job.give \cup pipes

(* How many places a page has: on the free list, as a kernel stack, in a   *)
(* space, in TASK_MM's hands, in a pipe.                                   *)
Places(g) ==
    Cardinality({k \in DOMAIN free : free[k] = g})
        + Cardinality({s \in Slot : kstack[s] = g})
        + Cardinality({s \in Slot : space[s].dir = g}) + Cardinality({s \in Slot : space[s].kern = g})
        + Cardinality({x \in Slot \X Table : space[x[1]].tab[x[2]] = g})
        + Cardinality({x \in Slot \X Vpage : space[x[1]].map[x[2]] = g})
        + (IF g = job.got THEN 1 ELSE 0) + (IF g \in job.give THEN 1 ELSE 0)
        + (IF g \in pipes THEN 1 ELSE 0)

(* No page has two owners or is free and owned, whatever call has run out  *)
(* of memory wherever, and whichever task runs between, as long as no      *)
(* kfree1 is overtaken (kalloc1, kfree1, freevm, do_fork, do_exec,         *)
(* do_wait).                                                               *)
PagesOwned == ~corrupt => \A g \in Page : Places(g) <= 1

(* A page is lost only where a kalloc1 has found none: all that fork, exec *)
(* and wait take they give back or hand on, whatever else fails (setupkvm, *)
(* mappages and allocuvm drop pages when memory runs out).                 *)
Lost == Page \ (Owned \cup {free[k] : k \in DOMAIN free})

NothingLost == [][Lost' \subseteq Lost \/ corrupt' \/ (None /\ None')]_vars

(* Where sbrk is, in the space it grows; brk otherwise.                    *)
Reach(p) == IF job.call = "sbrk" /\ job.p = p THEN job.at ELSE brk[p]

(* A process has the pages up to its brk and its stack, a child what its   *)
(* parent has, with their tables, and no others; but where sbrk has failed *)
(* half way or wrapped, or where sbrk or exec has found no page for a      *)
(* table and gone on (do_sbrk, do_exec, allocuvm, copyuvm).                *)
SpaceMapped ==
    \A p \in Used \ torn :
        /\ Mapped(space[p]) = (0 .. Reach(p) - 1) \cup (IF stack[p] THEN {KBASE - 2, KBASE - 1} ELSE {})
        /\ \A v \in Mapped(space[p]) : space[p].tab[PDX(v)] # 0
        /\ space[p].dir # 0 /\ space[p].kern # 0 /\ kstack[p] # 0
=============================================================================
