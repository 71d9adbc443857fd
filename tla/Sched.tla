------------------------------- MODULE Sched -------------------------------
(***************************************************************************)
(* The scheduler of kernel/proc.c and the timer of kernel/trap.c.  A       *)
(* process runs while it has the highest credit (counter); the timer takes *)
(* one credit a tick; when nobody but task_idle has credit that counts and *)
(* somebody is runnable, every slot is recharged to its priority.          *)
(*                                                                         *)
(* schedule only asks whether a slot is RUNNABLE: "BLOCKED" stands for     *)
(* SLEEPING, SENDING and RECVING.  "COPIED" is EMBRYO once do_fork has     *)
(* copied the parent's priority and counter.  The memory task serves one   *)
(* fork, exit or wait at a time, in any order.                             *)
(***************************************************************************)
EXTENDS Integers

CONSTANTS
    Proc,             \* the slots of ptable
    Tasks,            \* the slots taskinit fills: IDLE and the server tasks
    initproc,         \* the slot userinit fills
    TaskPriority, UserPriority,      \* 20 and 10
    CounterMax        \* the largest u32

TASK_IDLE == 0
TASK_MM   == 2

ASSUME SchedAssumption ==
    /\ Proc \subseteq Nat
    /\ {TASK_IDLE, TASK_MM} \subseteq Tasks /\ Tasks \subseteq Proc
    /\ initproc \in Proc \ Tasks
    /\ TaskPriority \in Nat /\ UserPriority \in Nat /\ CounterMax \in Nat
    /\ TaskPriority > 1 /\ UserPriority > 1
    /\ TaskPriority <= CounterMax /\ UserPriority <= CounterMax

VARIABLES state, counter, priority, current

vars == <<state, counter, priority, current>>

-----------------------------------------------------------------------------
(* schedule                                                                *)

(* The pass over ptable that starts from best value c: the slot it leaves  *)
(* in current, the first with the highest counter above c.                 *)
Finds(st, cs, c, p) ==
    /\ st[p] = "RUNNABLE" /\ cs[p] > c
    /\ \A q \in Proc : st[q] = "RUNNABLE" =>
          cs[q] <= cs[p] /\ (cs[q] = cs[p] => p <= q)

OnlyIdle(st) == \A p \in Proc \ {TASK_IDLE} : st[p] # "RUNNABLE"

(* schedule keeps the pass's choice unless it is task_idle and somebody    *)
(* else is runnable.                                                       *)
Keep(st, cs) ==
    \E p \in Proc :
        /\ Finds(st, cs, 0, p)
        /\ p # TASK_IDLE \/ OnlyIdle(st)
        /\ current' = p
        /\ counter' = cs

(* Otherwise it recharges every slot and passes again; c keeps its value,  *)
(* so a priority has to exceed task_idle's counter.                        *)
Recharge(st, cs) ==
    /\ Finds(st, cs, 0, TASK_IDLE)
    /\ ~OnlyIdle(st)
    /\ counter' = priority
    /\ \E p \in Proc \ {TASK_IDLE} :
          /\ Finds(st, priority, cs[TASK_IDLE], p)
          /\ current' = p

(* sched() of a process that leaves the slots in states st and the credits *)
(* cs.                                                                     *)
Schedule(st, cs) ==
    /\ state' = st
    /\ Keep(st, cs) \/ Recharge(st, cs)
    /\ UNCHANGED priority

-----------------------------------------------------------------------------
Init ==
    /\ state = [p \in Proc |-> IF p \in Tasks \cup {initproc}
                               THEN "RUNNABLE" ELSE "UNUSED"]
    /\ priority = [p \in Proc |-> CASE p = TASK_IDLE -> 1
                                    [] p \in Tasks \ {TASK_IDLE} -> TaskPriority
                                    [] p = initproc -> UserPriority
                                    [] OTHER -> 0]
    /\ counter = priority
    /\ current \in Proc /\ Finds(state, counter, 0, current)

(* counter--, a u32.                                                       *)
Minus1(n) == IF n = 0 THEN CounterMax ELSE n - 1

(* Mutants: task_idle is charged; nobody is.                               *)
ChargedAlways == [counter EXCEPT ![current] = Minus1(@)]
ChargedNever  == counter

(* The timer interrupt; task_idle is not charged.                          *)
Charged ==
    IF current = TASK_IDLE THEN counter
    ELSE [counter EXCEPT ![current] = Minus1(@)]

Tick == Schedule(state, Charged)

(* hlt returned, whatever the interrupt was: task_idle calls sched.        *)
IdleSched == current = TASK_IDLE /\ Schedule(state, counter)

(* sendmsg, recvmsg or sleep_on blocks the running process.                *)
Block ==
    /\ current # TASK_IDLE
    /\ Schedule([state EXCEPT ![current] = "BLOCKED"], counter)

(* recvmsg takes a message of MSG_BESLEEP from a sender that is waiting:   *)
(* it puts the sender to sleep, who was blocked before, and calls sched()  *)
(* for a caller that goes on being runnable and is not charged.            *)
RecvBeSleep == current \in Proc \ Tasks /\ Schedule(state, counter)

(* wake_up, a message, by a process or an interrupt; no rescheduling.      *)
Wake(p) ==
    /\ state[p] = "BLOCKED"
    /\ state' = [state EXCEPT ![p] = "RUNNABLE"]
    /\ UNCHANGED <<counter, priority, current>>

(* The running memory task moves slot p from one state to another.         *)
MmMoves(p, from, to) ==
    /\ current = TASK_MM
    /\ p \in Proc \ Tasks
    /\ state[p] \in from
    /\ state' = [state EXCEPT ![p] = to]
    /\ UNCHANGED current

NotForking == \A q \in Proc : state[q] \notin {"EMBRYO", "COPIED"}

(* do_fork: allocproc takes the first unused slot.                         *)
AllocProc(p) ==
    /\ NotForking
    /\ \A q \in Proc : q < p => state[q] # "UNUSED"
    /\ MmMoves(p, {"UNUSED"}, "EMBRYO")
    /\ UNCHANGED <<counter, priority>>

(* Mutant: the child keeps the slot's old counter.                         *)
ForkCopyPriority(parent, p) ==
    /\ parent \in Proc \ Tasks /\ state[parent] \in {"BLOCKED", "RUNNABLE"}
    /\ MmMoves(p, {"EMBRYO"}, "COPIED")
    /\ priority' = [priority EXCEPT ![p] = priority[parent]]
    /\ UNCHANGED counter

(* Mutant: the child keeps the slot's old priority.                        *)
ForkCopyCounter(parent, p) ==
    /\ parent \in Proc \ Tasks /\ state[parent] \in {"BLOCKED", "RUNNABLE"}
    /\ MmMoves(p, {"EMBRYO"}, "COPIED")
    /\ counter' = [counter EXCEPT ![p] = counter[parent]]
    /\ UNCHANGED priority

(* It copies the parent's priority and the credit the parent has left.     *)
ForkCopy(parent, p) ==
    /\ parent \in Proc \ Tasks /\ state[parent] \in {"BLOCKED", "RUNNABLE"}
    /\ MmMoves(p, {"EMBRYO"}, "COPIED")
    /\ priority' = [priority EXCEPT ![p] = priority[parent]]
    /\ counter' = [counter EXCEPT ![p] = counter[parent]]

ForkDone(p) == MmMoves(p, {"COPIED"}, "RUNNABLE") /\ UNCHANGED <<counter, priority>>

(* There was no memory for the child.                                      *)
ForkFail(p) == MmMoves(p, {"EMBRYO"}, "UNUSED") /\ UNCHANGED <<counter, priority>>

(* do_exit; the caller may be runnable, preempted before it waits.         *)
Exit(p) ==
    /\ NotForking
    /\ MmMoves(p, {"BLOCKED", "RUNNABLE"}, "ZOMBIE")
    /\ UNCHANGED <<counter, priority>>

(* do_wait frees a slot; its counter and priority stay.                    *)
Reap(p) ==
    /\ NotForking
    /\ MmMoves(p, {"ZOMBIE"}, "UNUSED")
    /\ UNCHANGED <<counter, priority>>

Next ==
    \/ Tick \/ IdleSched \/ Block \/ RecvBeSleep
    \/ \E p \in Proc : \/ Wake(p) \/ AllocProc(p) \/ ForkDone(p) \/ ForkFail(p)
                       \/ Exit(p) \/ Reap(p)
                       \/ \E parent \in Proc : ForkCopy(parent, p)

Spec == Init /\ [][Next]_vars

FairSpec == Spec /\ WF_vars(Tick)          \* the timer keeps ticking
-----------------------------------------------------------------------------
(* Every variable has its type, and task_idle is as taskinit left it.      *)
TypeOK ==
    /\ state \in [Proc -> {"UNUSED", "EMBRYO", "COPIED", "RUNNABLE", "BLOCKED",
                           "ZOMBIE"}]
    /\ counter \in [Proc -> 0 .. CounterMax]
    /\ priority \in [Proc -> 0 .. CounterMax]
    /\ current \in Proc
    /\ state[TASK_IDLE] = "RUNNABLE"
    /\ counter[TASK_IDLE] = 1 /\ priority[TASK_IDLE] = 1

(* The timer never takes a credit that is not there (counter-- of a zero   *)
(* would make a process run for ever), although fork hands out what credit *)
(* the parent has left and recharging reaches unused slots: who runs is    *)
(* runnable and has two, and whoever may come to run has one.              *)
CreditLeft ==
    /\ state[current] = "RUNNABLE"
    /\ current # TASK_IDLE => counter[current] >= 2
    /\ \A p \in Proc : state[p] \in {"RUNNABLE", "BLOCKED", "COPIED"} =>
          counter[p] >= 1 /\ (p # TASK_IDLE => priority[p] >= 2)

(* schedule ends after at most one recharge, whatever it is called for: a  *)
(* tick, a process that blocks, task_idle, or a caller that stays runnable *)
(* (trap, sendmsg, recvmsg, sleep_on, hlt).                                *)
Ends(st, cs) ==
    \/ \E p \in Proc : Finds(st, cs, 0, p) /\ (p # TASK_IDLE \/ OnlyIdle(st))
    \/ \E p \in Proc \ {TASK_IDLE} : Finds(st, priority, cs[TASK_IDLE], p)

ScheduleEnds ==
    /\ Ends(state, Charged)
    /\ Ends(state, counter)
    /\ current # TASK_IDLE =>
          Ends([state EXCEPT ![current] = "BLOCKED"], counter)

(* A runnable process comes to run, if forks end: a child gets the credit  *)
(* its parent has left, so endless forking can keep others waiting.        *)
Forks == \E p \in Proc : ForkDone(p)

NoStarvation ==
    <>[][~Forks]_vars =>
        \A p \in Proc \ {TASK_IDLE} :
            state[p] = "RUNNABLE" ~> (current = p \/ state[p] # "RUNNABLE")
=============================================================================
