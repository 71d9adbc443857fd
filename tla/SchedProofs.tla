---------------------------- MODULE SchedProofs ----------------------------
(***************************************************************************)
(* Proofs about the scheduler.  The type invariant and CreditLeft are      *)
(* inductive together: that the timer never charges an empty counter       *)
(* depends on task_idle's counter being 1 and first in ptable, because     *)
(* this keeps a process with one credit left from being chosen.            *)
(***************************************************************************)
EXTENDS Sched, WellFoundedInduction, TLAPS

IInv == TypeOK /\ CreditLeft

LEMMA IdleSlot == TASK_IDLE \in Proc /\ \A p \in Proc : p \in Nat
  BY SchedAssumption

(* What a call of schedule may be given: credits that are typed and leave  *)
(* task_idle's alone, and states in which nobody has become runnable and   *)
(* whoever may run has a credit.                                           *)
Sound(st, cs) ==
    /\ st \in [Proc -> {"UNUSED", "EMBRYO", "COPIED", "RUNNABLE", "BLOCKED", "ZOMBIE"}]
    /\ cs \in [Proc -> 0 .. CounterMax]
    /\ st[TASK_IDLE] = "RUNNABLE" /\ cs[TASK_IDLE] = 1
    /\ \A p \in Proc : st[p] \in {"RUNNABLE", "BLOCKED", "COPIED"} =>
          cs[p] >= 1 /\ (p # TASK_IDLE => priority[p] >= 2)

(* The slot a pass finds has at least two credits unless it is task_idle.  *)
LEMMA FindsRich ==
  ASSUME NEW st, NEW cs, Sound(st, cs), NEW p \in Proc, Finds(st, cs, 0, p),
         p # TASK_IDLE
  PROVE  cs[p] >= 2
<1>1. cs[TASK_IDLE] <= cs[p] /\ (cs[TASK_IDLE] = cs[p] => p <= TASK_IDLE)
  BY IdleSlot DEF Sound, Finds
<1>2. p \in Nat /\ cs[p] \in Nat /\ cs[TASK_IDLE] = 1
  BY IdleSlot, SchedAssumption DEF Sound
<1>3. ~ (p <= TASK_IDLE)
  BY <1>2 DEF TASK_IDLE
<1> QED BY <1>1, <1>2, <1>3

(* schedule keeps the invariant.                                           *)
LEMMA ScheduleSound ==
  ASSUME IInv, NEW st, NEW cs, Sound(st, cs), Schedule(st, cs)
  PROVE  IInv'
<1>1. state' = st /\ priority' = priority
  BY DEF Schedule
<1>2. CASE Keep(st, cs)
  <2>1. PICK p \in Proc : /\ Finds(st, cs, 0, p)
                          /\ current' = p /\ counter' = cs
    BY <1>2 DEF Keep
  <2>2. TypeOK'
    BY <1>1, <2>1 DEF IInv, TypeOK, Sound
  <2>3. state'[current'] = "RUNNABLE"
    BY <1>1, <2>1 DEF Finds
  <2>4. current' # TASK_IDLE => counter'[current'] >= 2
    BY <2>1, FindsRich
  <2>5. \A q \in Proc : state'[q] \in {"RUNNABLE", "BLOCKED", "COPIED"} =>
            counter'[q] >= 1 /\ (q # TASK_IDLE => priority'[q] >= 2)
    BY <1>1, <2>1 DEF Sound
  <2> QED BY <2>2, <2>3, <2>4, <2>5 DEF IInv, CreditLeft
<1>3. CASE Recharge(st, cs)
  <2>1. PICK p \in Proc \ {TASK_IDLE} :
            Finds(st, priority, cs[TASK_IDLE], p) /\ current' = p
    BY <1>3 DEF Recharge
  <2>2. counter' = priority
    BY <1>3 DEF Recharge
  <2>3. TypeOK'
    BY <1>1, <2>1, <2>2 DEF IInv, TypeOK, Sound
  <2>4. state'[current'] = "RUNNABLE"
    BY <1>1, <2>1 DEF Finds
  <2>5. counter'[current'] >= 2
    BY <2>1, <2>2, <2>4, <1>1 DEF Sound
  <2>6. ASSUME NEW q \in Proc, state'[q] \in {"RUNNABLE", "BLOCKED", "COPIED"}
        PROVE  counter'[q] >= 1 /\ (q # TASK_IDLE => priority'[q] >= 2)
    <3>1. q # TASK_IDLE => priority[q] >= 2
      BY <1>1, <2>6 DEF Sound
    <3>2. priority[TASK_IDLE] = 1 /\ priority[q] \in Int
      BY SchedAssumption DEF IInv, TypeOK
    <3> QED BY <1>1, <2>2, <3>1, <3>2
  <2> QED BY <2>3, <2>4, <2>5, <2>6 DEF IInv, CreditLeft
<1> QED BY <1>2, <1>3 DEF Schedule

(* The credits after a tick, and the states after a block, are sound.      *)
LEMMA CallsSound ==
  ASSUME IInv
  PROVE  /\ Sound(state, Charged)
         /\ Sound(state, counter)
         /\ current # TASK_IDLE =>
               Sound([state EXCEPT ![current] = "BLOCKED"], counter)
<1> USE IdleSlot DEF IInv, TypeOK, CreditLeft, Sound
<1>1. Sound(state, counter)
  OBVIOUS
<1>2. CASE current = TASK_IDLE
  BY <1>1, <1>2 DEF Charged
<1>3. CASE current # TASK_IDLE
  <2>1. counter[current] \in 2 .. CounterMax
    BY <1>3, SchedAssumption
  <2>2. Minus1(counter[current]) \in 1 .. CounterMax
    BY <2>1, SchedAssumption DEF Minus1
  <2>3. Charged = [counter EXCEPT ![current] = Minus1(counter[current])]
    BY <1>3 DEF Charged
  <2>4. Sound(state, Charged)
    BY <1>3, <2>2, <2>3, SchedAssumption
  <2> QED BY <1>1, <1>3, <2>4
<1> QED BY <1>2, <1>3

(* Every step of the memory task that moves a slot keeps the invariant if  *)
(* the slot gets credit before it may run.                                 *)
LEMMA MmMovesSound ==
  ASSUME IInv, NEW p \in Proc, NEW from, NEW to, MmMoves(p, from, to),
         to \in {"UNUSED", "EMBRYO", "ZOMBIE", "RUNNABLE"},
         to = "RUNNABLE" => from = {"COPIED"},
         UNCHANGED <<counter, priority>>
  PROVE  IInv'
<1> USE IdleSlot DEF IInv, TypeOK, MmMoves
<1>1. p # TASK_IDLE /\ p # current
  BY SchedAssumption
<1>2. TypeOK'
  BY <1>1
<1>3. CreditLeft'
  BY <1>1 DEF CreditLeft
<1> QED BY <1>2, <1>3

LEMMA InitIInv == Init => IInv
<1> SUFFICES ASSUME Init PROVE IInv
  OBVIOUS
<1> USE SchedAssumption, IdleSlot DEF Init
<1>0. initproc # TASK_IDLE /\ initproc \notin Tasks /\ 1 \in 0 .. CounterMax /\ 0 \in 0 .. CounterMax
  OBVIOUS
<1>1. priority[TASK_IDLE] = 1 /\ state[TASK_IDLE] = "RUNNABLE"
  OBVIOUS
<1>2. priority \in [Proc -> 0 .. CounterMax]
  BY <1>0
<1>3. \A p \in Proc : state[p] = "RUNNABLE" /\ p # TASK_IDLE => priority[p] >= 2
  BY <1>0
<1>4. \A p \in Proc : state[p] \in {"RUNNABLE", "UNUSED"}
  OBVIOUS
<1>5. TypeOK
  BY <1>1, <1>2 DEF TypeOK
<1>6. Sound(state, counter)
  BY <1>1, <1>2, <1>3, <1>4, <1>5 DEF Sound, TypeOK
<1>7. current # TASK_IDLE => counter[current] >= 2
  BY <1>6, FindsRich
<1>8. state[current] = "RUNNABLE"
  BY DEF Finds
<1> QED BY <1>5, <1>6, <1>7, <1>8 DEF IInv, CreditLeft, Sound

LEMMA NextIInv == IInv /\ [Next]_vars => IInv'
<1> SUFFICES ASSUME IInv, [Next]_vars PROVE IInv'
  OBVIOUS
<1>1. CASE Tick
  BY <1>1, CallsSound, ScheduleSound DEF Tick
<1>2. CASE IdleSched
  BY <1>2, CallsSound, ScheduleSound DEF IdleSched
<1>3. CASE Block
  BY <1>3, CallsSound, ScheduleSound DEF Block
<1>4. ASSUME NEW p \in Proc, Wake(p) PROVE IInv'
  <2>1. TypeOK'
    BY <1>4, IdleSlot DEF Wake, IInv, TypeOK
  <2>2. CreditLeft'
    BY <1>4, IdleSlot DEF Wake, IInv, TypeOK, CreditLeft
  <2> QED BY <2>1, <2>2 DEF IInv
<1>5. ASSUME NEW p \in Proc, AllocProc(p) PROVE IInv'
  BY <1>5, MmMovesSound DEF AllocProc
<1>6. ASSUME NEW p \in Proc, ForkDone(p) PROVE IInv'
  BY <1>6, MmMovesSound DEF ForkDone
<1>7. ASSUME NEW p \in Proc, ForkFail(p) PROVE IInv'
  BY <1>7, MmMovesSound DEF ForkFail
<1>8. ASSUME NEW p \in Proc, Exit(p) PROVE IInv'
  BY <1>8, MmMovesSound DEF Exit
<1>9. ASSUME NEW p \in Proc, Reap(p) PROVE IInv'
  BY <1>9, MmMovesSound DEF Reap
<1>10. ASSUME NEW p \in Proc, NEW parent \in Proc, ForkCopy(parent, p) PROVE IInv'
  <2> USE <1>10, IdleSlot DEF ForkCopy, MmMoves, IInv, TypeOK
  <2>1. p # TASK_IDLE /\ p # current /\ parent # TASK_IDLE
    BY SchedAssumption
  <2>2. TypeOK'
    BY <2>1
  <2>3. counter[parent] >= 1 /\ priority[parent] >= 2
    BY <2>1 DEF CreditLeft
  <2>4. CreditLeft'
    BY <2>1, <2>3 DEF CreditLeft
  <2> QED BY <2>2, <2>4
<1>11. CASE UNCHANGED vars
  BY <1>11 DEF vars, IInv, TypeOK, CreditLeft
<1>12. CASE RecvBeSleep
  BY <1>12, CallsSound, ScheduleSound DEF RecvBeSleep
<1> QED BY <1>1, <1>2, <1>3, <1>4, <1>5, <1>6, <1>7, <1>8, <1>9, <1>10, <1>11, <1>12 DEF Next

LEMMA Invariant == Spec => []IInv
<1> QED BY InitIInv, NextIInv, PTL DEF Spec

(* For every number of slots and every priorities above 1, the scheduler's *)
(* state is well typed and task_idle keeps its one credit.                 *)
THEOREM TypeCorrect == Spec => []TypeOK
<1>1. IInv => TypeOK
  BY DEF IInv
<1> QED BY Invariant, <1>1, PTL

(* The timer never takes a credit that is not there.                       *)
THEOREM CreditNeverUnderflows == Spec => []CreditLeft
<1>1. IInv => CreditLeft
  BY DEF IInv
<1> QED BY Invariant, <1>1, PTL

-----------------------------------------------------------------------------
(* Slots and credits are natural numbers, so that a pass that has anybody  *)
(* to find finds somebody.                                                 *)
LEMMA LeastNat ==
  ASSUME NEW T, T \subseteq Nat, T # {}
  PROVE  \E x \in T : \A y \in T : x <= y
<1>1. PICK L : L = {ss \in Nat \X Nat : ss[1] < ss[2]}
  OBVIOUS
<1>2. IsWellFoundedOn(L, Nat)
  BY <1>1, NatLessThanWellFounded DEF OpToRel
<1>3. PICK x \in T : \A y \in T : ~ (<<y, x>> \in L)
  BY <1>2, WFMin
<1>4. ASSUME NEW y \in T PROVE x <= y
  <2>1. x \in Nat /\ y \in Nat /\ <<y, x>> \notin L
    BY <1>3
  <2> QED BY <1>1, <2>1
<1> QED BY <1>4

LEMMA PassFinds ==
  ASSUME NEW st, NEW cs \in [Proc -> 0 .. CounterMax], NEW c \in Nat,
         NEW q \in Proc, st[q] = "RUNNABLE", cs[q] > c
  PROVE  \E p \in Proc : Finds(st, cs, c, p)
<1> DEFINE R == {p \in Proc : st[p] = "RUNNABLE"}
<1>1. CounterMax \in Nat /\ Proc \subseteq Nat /\ \A p \in Proc : cs[p] \in Nat /\ cs[p] <= CounterMax
  BY SchedAssumption
<1>2. PICK best \in R : \A p \in R : cs[p] <= cs[best]
  <2> DEFINE T == {CounterMax - cs[p] : p \in R}
  <2>1. T \subseteq Nat /\ T # {}
    BY <1>1
  <2>2. PICK x \in T : \A y \in T : x <= y
    BY <2>1, LeastNat
  <2>3. PICK b \in R : x = CounterMax - cs[b]
    BY <2>2
  <2>4. ASSUME NEW p \in R PROVE cs[p] <= cs[b]
    <3>1. CounterMax - cs[b] <= CounterMax - cs[p]
      BY <2>2, <2>3
    <3> QED BY <1>1, <3>1
  <2> QED BY <2>4
<1>3. PICK p \in {a \in R : cs[a] = cs[best]} :
          \A a \in {b \in R : cs[b] = cs[best]} : p <= a
  BY <1>1, LeastNat
<1>4. cs[p] > c
  BY <1>1, <1>2, <1>3
<1> QED BY <1>1, <1>2, <1>3, <1>4 DEF Finds

LEMMA EndsAlways ==
  ASSUME IInv, NEW st, NEW cs, Sound(st, cs)
  PROVE  Ends(st, cs)
<1> USE IdleSlot DEF Sound
<1>1. PICK p \in Proc : Finds(st, cs, 0, p)
  BY PassFinds
<1>2. CASE p # TASK_IDLE \/ OnlyIdle(st)
  BY <1>1, <1>2 DEF Ends
<1>3. CASE p = TASK_IDLE /\ ~OnlyIdle(st)
  <2>1. PICK q \in Proc \ {TASK_IDLE} : st[q] = "RUNNABLE"
    BY <1>3 DEF OnlyIdle
  <2>2. priority[q] >= 2 /\ priority \in [Proc -> 0 .. CounterMax]
    BY <2>1 DEF IInv, TypeOK
  <2>3. cs[TASK_IDLE] = 1 /\ priority[q] > 1
    BY <2>2, SchedAssumption
  <2>4. PICK r \in Proc : Finds(st, priority, cs[TASK_IDLE], r)
    BY <2>1, <2>2, <2>3, PassFinds
  <2>5. r # TASK_IDLE
    BY <2>4 DEF Finds, IInv, TypeOK
  <2> QED BY <2>4, <2>5 DEF Ends
<1> QED BY <1>2, <1>3

(* However many slots there are, schedule ends after one recharge at most: *)
(* it never loops with interrupts off (schedule, kernel/proc.c).           *)
THEOREM SchedulingEnds == Spec => []ScheduleEnds
<1>1. ASSUME IInv PROVE ScheduleEnds
  <2>1. Ends(state, Charged) /\ Ends(state, counter)
    BY <1>1, CallsSound, EndsAlways
  <2>2. ASSUME current # TASK_IDLE
        PROVE  Ends([state EXCEPT ![current] = "BLOCKED"], counter)
    BY <1>1, <2>2, CallsSound, EndsAlways
  <2> QED BY <2>1, <2>2 DEF ScheduleEnds
<1> QED BY Invariant, <1>1, PTL
=============================================================================
