----------------------------- MODULE MmService -----------------------------
(***************************************************************************)
(* Process life: the memory task's loop (mm/main.c) with fork, exit, wait  *)
(* (mm/proc.c) and exec (mm/exec.c), and the programs that call it through *)
(* lib/mm.c.  The memory task asks the file-system task to copy, close or  *)
(* read files inside a call; it serves nobody meanwhile, so such a call is *)
(* the boundary between two steps here.  Memory is a fork or an exec that  *)
(* may fail.                                                               *)
(*                                                                         *)
(* A program exits with its own pid as its status, so that a status that   *)
(* reaches the wrong caller shows.                                         *)
(***************************************************************************)
EXTENDS Msg

CONSTANTS
    initproc,         \* the slot of the first program
    Ops,              \* the calls programs other than init make
    NULL,
    MaxPid            \* bound: forks stop when nextpid would exceed it

Users == Proc \ {TASK_MM}
Calls == {"fork", "exit", "wait", "waitnohang", "exec"}

ASSUME MmAssumption ==
    /\ TASK_MM \in Proc /\ initproc \in Users
    /\ Ops \subseteq Calls
    /\ NULL \notin Nat /\ MaxPid \in Nat

VARIABLES
    pc,               \* where each slot is
    asked,            \* the call a program is in
    parent,           \* struct proc's parent
    pid, nextpid,
    newp,             \* do_fork's np
    forked,           \* the pids fork has returned to a program
    reaped            \* the pids wait has returned to anybody

mmVars == <<parent, pid, nextpid, newp>>
progVars == <<forked, reaped>>
vars == <<msgVars, pc, asked, mmVars, progVars>>

(* i1 is the result, i2 the status wait stores.                            *)
MsgOf(u, op) == [type |-> "REQ", source |-> u, op |-> op, chan |-> NULL,
                 i1 |-> 0, i2 |-> 0]

Init ==
    /\ state = [p \in Proc |-> IF p \in {TASK_MM, initproc} THEN "RUNNABLE"
                               ELSE "UNUSED"]
    /\ mbuf = [p \in Proc |-> MsgOf(p, NULL)]
    /\ sendto = [p \in Proc |-> TASK_MM]
    /\ recvfrom = [p \in Proc |-> IF p = TASK_MM THEN ANY ELSE TASK_MM]
    /\ msgstate = [p \in Proc |-> 0]
    /\ tmp = [p \in Proc |-> NULL]
    /\ pc = [p \in Proc |-> IF p = TASK_MM THEN "recv" ELSE "user"]
    /\ asked = [u \in Users |-> NULL]
    /\ parent = [u \in Users |-> NULL]
    /\ pid = [u \in Users |-> IF u = initproc THEN 1 ELSE 0]
    /\ nextpid = 2
    /\ newp = NULL
    /\ forked = [u \in Users |-> {}]
    /\ reaped = {}

Goto(p, l) == pc' = [pc EXCEPT ![p] = l]
At(p, l) == state[p] = "RUNNABLE" /\ pc[p] = l

-----------------------------------------------------------------------------
(* Programs.                                                               *)

Send(u, op) ==
    /\ asked' = [asked EXCEPT ![u] = op]
    /\ SendMsg(u, TASK_MM, MsgOf(u, op))
    /\ Goto(u, "wait")
    /\ UNCHANGED <<mmVars, progVars>>

(* bin/init.c forks once, or gives up, and then waits for ever.            *)
InitOps ==
    IF asked[initproc] = NULL THEN {"fork"}
    ELSE IF forked[initproc] = {} THEN {"exit"} ELSE {"wait"}

UserCall(u, op) ==
    /\ At(u, "user")
    /\ op \in IF u = initproc THEN InitOps ELSE Ops
    /\ Send(u, op)

UserRetry(u) == At(u, "again") /\ Send(u, asked[u])

UserRecv(u) ==
    /\ At(u, "wait")
    /\ msgstate[u] = 0
    /\ RecvMsg(u, TASK_MM)
    /\ Goto(u, "done")
    /\ UNCHANGED <<asked, mmVars, progVars>>

(* A caller whose exec has succeeded is here too: it was never sent a      *)
(* reply (msgstate is still -1), and returns into the new program.         *)
UserReturn(u) ==
    LET m == mbuf[u]
        replied == msgstate[u] = 0
    IN  /\ At(u, "done")
        /\ Goto(u, IF replied /\ m.type = "BESLEEP" THEN "again" ELSE "user")
        /\ forked' = IF replied /\ asked[u] = "fork" /\ m.i1 > 0
                     THEN [forked EXCEPT ![u] = @ \cup {m.i1}] ELSE forked
        /\ reaped' = IF replied /\ asked[u] \in {"wait", "waitnohang"} /\ m.i1 > 0
                     THEN reaped \cup {m.i1} ELSE reaped
        /\ UNCHANGED <<msgVars, asked, mmVars>>

-----------------------------------------------------------------------------
(* The memory task.                                                        *)

MmRecv ==
    /\ At(TASK_MM, "recv")
    /\ RecvMsg(TASK_MM, ANY)
    /\ Goto(TASK_MM, "serve")
    /\ UNCHANGED <<asked, mmVars, progVars>>

Caller == mbuf[TASK_MM].source                 \* mm_current

Serving(op) == At(TASK_MM, "serve") /\ mbuf[TASK_MM].op = op

(* The loop's epilogue for result i, with status s and mm_sleep = c.       *)
Result(i, s, c) ==
    /\ mbuf' = [mbuf EXCEPT ![TASK_MM] =
                   [@ EXCEPT !.type = IF i = -2 THEN "BESLEEP" ELSE "SYSRET",
                             !.i1 = i, !.i2 = s, !.chan = c]]
    /\ Goto(TASK_MM, "reply")

Quiet == UNCHANGED <<sendto, recvfrom, tmp, asked, progVars>>

(* allocproc: the first unused slot.                                       *)
FirstUnused(p) ==
    /\ p \in Users /\ state[p] = "UNUSED"
    /\ \A q \in Users : state[q] = "UNUSED" => p <= q

NoSlot == \A p \in Users : state[p] # "UNUSED"

(* do_fork up to fs_fork.                                                  *)
ForkStart ==
    /\ Serving("fork") /\ nextpid <= MaxPid
    /\ \E p \in Users :
          /\ FirstUnused(p)
          /\ state' = [state EXCEPT ![p] = "EMBRYO"]
          /\ pid' = [pid EXCEPT ![p] = nextpid]
          /\ parent' = [parent EXCEPT ![p] = Caller]
          /\ newp' = p
    /\ nextpid' = nextpid + 1
    /\ Goto(TASK_MM, "forking")
    /\ UNCHANGED <<mbuf, msgstate>> /\ Quiet

(* Mutant: the slot is not given back.                                     *)
(* No slot or no memory: allocproc gives nothing, or copyuvm fails and the *)
(* slot is given back, its pid used up.                                    *)
ForkFail ==
    /\ Serving("fork")
    /\ \/ (NoSlot \/ nextpid > MaxPid) /\ UNCHANGED <<pid, nextpid>>
       \/ /\ nextpid <= MaxPid
          /\ \E p \in Users : FirstUnused(p) /\ pid' = [pid EXCEPT ![p] = nextpid]
          /\ nextpid' = nextpid + 1
    /\ Result(-1, 0, NULL)
    /\ UNCHANGED <<state, msgstate, parent, newp>> /\ Quiet

(* fs_fork has returned.  The child returns from the same call with 0.     *)
ForkEnd ==
    /\ At(TASK_MM, "forking")
    /\ state' = [state EXCEPT ![newp] = "RUNNABLE"]
    /\ mbuf' = [mbuf EXCEPT ![TASK_MM] =
                   [@ EXCEPT !.type = "SYSRET", !.i1 = pid[newp]]]
    /\ pc' = [pc EXCEPT ![TASK_MM] = "reply", ![newp] = "user"]
    /\ forked' = [forked EXCEPT ![newp] = {}]
    /\ newp' = NULL
    /\ UNCHANGED <<msgstate, parent, pid, nextpid, sendto, recvfrom, tmp, asked, reaped>>

(* do_exit up to fs_exit.                                                  *)
ExitStart ==
    /\ Serving("exit")
    /\ state' = [state EXCEPT ![Caller] = "EMBRYO"]
    /\ Goto(TASK_MM, "exiting")
    /\ UNCHANGED <<mbuf, msgstate, mmVars>> /\ Quiet

Children(u) == {p \in Users : parent[p] = u}

(* Mutant: dead children are not handed on.                                *)
HeirOfLiving(p) ==
    IF parent[p] = Caller /\ state[p] # "ZOMBIE" THEN initproc ELSE parent[p]

Heir(p) == IF parent[p] = Caller THEN initproc ELSE parent[p]

(* Mutant: initproc is not told.                                           *)
InitToldNever == state

InitTold == IF \E p \in Children(Caller) : state[p] = "ZOMBIE"
            THEN WakeUp({initproc}) ELSE state

(* The children go to initproc, in one cli() section.                      *)
Reparent ==
    /\ At(TASK_MM, "exiting")
    /\ parent' = [p \in Users |-> Heir(p)]
    /\ state' = InitTold
    /\ Goto(TASK_MM, "dying")
    /\ UNCHANGED <<mbuf, msgstate, pid, nextpid, newp>> /\ Quiet

(* Mutant: the loop goes on to the reply.                                  *)
ExitEndReplies ==
    /\ At(TASK_MM, "dying")
    /\ msgstate' = [msgstate EXCEPT ![Caller] = pid[Caller]]
    /\ state' = [WakeUp({parent[Caller]}) EXCEPT ![Caller] = "ZOMBIE"]
    /\ Goto(TASK_MM, "reply")
    /\ UNCHANGED <<mbuf, mmVars>> /\ Quiet

(* The status is kept in msgstate; the parent may sleep on wait.  There is *)
(* no reply.                                                               *)
ExitEnd ==
    /\ At(TASK_MM, "dying")
    /\ msgstate' = [msgstate EXCEPT ![Caller] = pid[Caller]]
    /\ state' = [WakeUp({parent[Caller]}) EXCEPT ![Caller] = "ZOMBIE"]
    /\ Goto(TASK_MM, "recv")
    /\ UNCHANGED <<mbuf, mmVars>> /\ Quiet

(* Mutant: any dead process will do.                                       *)
ZombiesAll(u) == {p \in Users : state[p] = "ZOMBIE" /\ p # u}

Zombies(u) == {p \in Children(u) : state[p] = "ZOMBIE"}

(* do_wait frees the first dead child ...                                  *)
WaitChild ==
    /\ Serving("wait") \/ Serving("waitnohang")
    /\ \E p \in Zombies(Caller) :
          /\ \A q \in Zombies(Caller) : p <= q
          /\ state' = [state EXCEPT ![p] = "UNUSED"]
          /\ Result(pid[p], msgstate[p], NULL)
    /\ UNCHANGED <<msgstate, mmVars>> /\ Quiet

(* ... or lets the caller sleep.                                           *)
WaitNone ==
    /\ Zombies(Caller) = {}
    /\ \/ Serving("waitnohang") /\ Result(-1, 0, NULL)
       \/ Serving("wait") /\ Result(-2, 0, Caller)
    /\ UNCHANGED <<state, msgstate, mmVars>> /\ Quiet

(* do_exec makes the caller runnable in the new program, without a reply.  *)
ExecDone ==
    /\ Serving("exec")
    /\ state' = [state EXCEPT ![Caller] = "RUNNABLE"]
    /\ Goto(TASK_MM, "recv")
    /\ UNCHANGED <<mbuf, msgstate, mmVars>> /\ Quiet

ExecFail ==
    /\ Serving("exec")
    /\ Result(-1, 0, NULL)
    /\ UNCHANGED <<state, msgstate, mmVars>> /\ Quiet

MmReply ==
    /\ At(TASK_MM, "reply")
    /\ SendMsg(TASK_MM, Caller, [mbuf[TASK_MM] EXCEPT !.source = TASK_MM])
    /\ Goto(TASK_MM, "recv")
    /\ UNCHANGED <<asked, mmVars, progVars>>

-----------------------------------------------------------------------------
UserStep(u) ==
    \/ \E op \in Calls : UserCall(u, op)
    \/ UserRetry(u) \/ UserRecv(u) \/ UserReturn(u)

MmStep ==
    \/ MmRecv \/ ForkStart \/ ForkFail \/ ForkEnd
    \/ ExitStart \/ Reparent \/ ExitEnd
    \/ WaitChild \/ WaitNone \/ ExecDone \/ ExecFail \/ MmReply

Next == (\E u \in Users : UserStep(u)) \/ MmStep

Spec == Init /\ [][Next]_vars

(* Kernel steps go on; init keeps calling wait, the others need not call.  *)
FairSpec ==
    /\ Spec
    /\ WF_vars(MmStep)
    /\ \A u \in Users : WF_vars(UserRetry(u) \/ UserRecv(u) \/ UserReturn(u))
    /\ WF_vars(UserCall(initproc, "wait"))

-----------------------------------------------------------------------------
Live(u) == state[u] \notin {"UNUSED", "ZOMBIE"}

(* A wait call's reply on its way to u.                                    *)
WaitReply(u) ==
    /\ pc[u] = "done" /\ state[u] = "RUNNABLE" /\ msgstate[u] = 0
    /\ asked[u] \in {"wait", "waitnohang"} /\ mbuf[u].i1 > 0

(* Nobody sleeps in wait while a child of his is dead: not when the child  *)
(* dies as he calls, and not when a dead child is handed to initproc.      *)
NoMissedChild ==
    \A u \in Users : state[u] = "SLEEPING" => Zombies(u) = {}

(* The parent of a process lives: do_exit hands the children on before the *)
(* process is dead, so no dead child is left that nobody can wait for and  *)
(* no slot is freed that is still somebody's parent.  A slot that is half  *)
(* made or half dead belongs to the fork or exit in service: failures      *)
(* leave none behind (do_fork).                                            *)
ParentAlive ==
    /\ \A u \in Users : state[u] # "UNUSED" /\ parent[u] # NULL => Live(parent[u])
    /\ \A u \in Users : state[u] = "EMBRYO" <=>
          \/ u = newp /\ pc[TASK_MM] = "forking"
          \/ pc[TASK_MM] \in {"exiting", "dying"} /\ u = Caller

(* wait returns a child of the caller (or one initproc was handed), with   *)
(* that child's status, and no child twice.  The status sits in msgstate,  *)
(* which the message calls write too.                                      *)
WaitReturnsOwnChild ==
    \A u \in Users : WaitReply(u) =>
        LET k == mbuf[u].i1
        IN  /\ mbuf[u].i2 = k
            /\ k \in forked[u] \/ u = initproc
            /\ k \notin reaped
            /\ \A v \in Users : v # u /\ WaitReply(v) => mbuf[v].i1 # k
            /\ \A v \in Users : state[v] # "UNUSED" => pid[v] # k

(* Where u's call is.                                                      *)
InService(u) ==
    \/ /\ pc[TASK_MM] \in {"serve", "forking", "reply"}
       /\ state[TASK_MM] # "RECVING" /\ Caller = u
    \/ /\ pc[TASK_MM] = "recv" /\ state[TASK_MM] = "SENDING"
       /\ sendto[TASK_MM] = u

Outstanding(u) ==
    \/ pc[u] = "wait" /\ state[u] = "RUNNABLE"
    \/ pc[u] = "done" /\ state[u] = "RECVING"

(* The memory task holds exactly the calls whose callers wait, so that     *)
(* each gets one reply, exit none, also when a slot changes hands.  A      *)
(* successful exec, which is not answered either, may leave its caller     *)
(* waiting: where do_exec takes it to be RECVING (mm/exec.c:25) it may be   *)
(* runnable, in the window before its recvmsg.                             *)
NoCallLost ==
    \A u \in Users : asked[u] # "exec" => (Outstanding(u) <=> InService(u))

(* initproc reaps what is handed to it, again and again until nothing is  *)
(* left, unless MSG_BESLEEP puts the memory task itself to sleep.          *)
Awake == state[TASK_MM] # "SLEEPING"

ZombiesReaped ==
    []Awake => []<>(\A u \in Users : state[u] = "ZOMBIE" => parent[u] # initproc)
=============================================================================
