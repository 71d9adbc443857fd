-------------------------- MODULE MmServiceProofs --------------------------
(***************************************************************************)
(* Proofs about process life, for every number of slots and of pids.  The  *)
(* inductive invariant says in which states each place of the code can be  *)
(* reached, what the memory task's message is about, that initproc lives   *)
(* as long as somebody else does, and where every pid is: with a process,  *)
(* on its way to the process that waited, or reaped.                       *)
(***************************************************************************)
EXTENDS MmService, TLAPS

Message == [type : {"REQ", "SYSRET", "BESLEEP"}, source : Proc,
            op : Calls \cup {NULL}, chan : Users \cup {NULL}, i1 : Int, i2 : Int]

States == {"RUNNABLE", "SLEEPING", "SENDING", "RECVING", "UNUSED", "EMBRYO", "ZOMBIE"}

ServerPcs == {"recv", "serve", "forking", "exiting", "dying", "reply"}
CallerPcs == {"user", "again", "wait", "done"}

TypeOK ==
    /\ state \in [Proc -> States]
    /\ mbuf \in [Proc -> Message]
    /\ sendto \in [Proc -> Proc]
    /\ recvfrom \in [Proc -> Proc \cup {ANY}]
    /\ msgstate \in [Proc -> Int]
    /\ tmp \in [Proc -> Users \cup {NULL}]
    /\ pc \in [Proc -> CallerPcs \cup ServerPcs]
    /\ asked \in [Users -> Calls \cup {NULL}]
    /\ parent \in [Users -> Users \cup {NULL}]
    /\ pid \in [Users -> Nat] /\ nextpid \in Nat
    /\ newp \in Users \cup {NULL}
    /\ forked \in [Users -> SUBSET Nat] /\ reaped \in SUBSET Nat

Used(u) == state[u] # "UNUSED"

Running(u) == state[u] \in {"RUNNABLE", "SLEEPING", "SENDING", "RECVING"}

CallerInv(u) ==
    /\ pc[u] \in CallerPcs
    /\ Running(u) /\ pc[u] # "user" => asked[u] \in Calls
    /\ state[u] = "SENDING" => /\ pc[u] = "wait" /\ sendto[u] = TASK_MM
                               /\ mbuf[u].type = "REQ" /\ mbuf[u].source = u
                               /\ mbuf[u].op = asked[u]
    /\ state[u] = "RECVING" => /\ pc[u] = "done" /\ recvfrom[u] = TASK_MM
                               /\ msgstate[u] = -1
    /\ state[u] = "SLEEPING" => pc[u] = "done" /\ tmp[u] = u

(* The memory task has a message of Caller.                                *)
Busy == pc[TASK_MM] # "recv" /\ state[TASK_MM] # "RECVING"

(* Its reply may put u to sleep.                                           *)
MayWait(u) == mbuf[TASK_MM].type = "BESLEEP" => mbuf[TASK_MM].chan = u /\ Zombies(u) = {}

ServerInv ==
    /\ pc[TASK_MM] \in ServerPcs
    /\ state[TASK_MM] \in {"RUNNABLE", "SLEEPING", "SENDING", "RECVING"}
    /\ pc[TASK_MM] = "recv" => state[TASK_MM] # "RECVING"
    /\ pc[TASK_MM] = "serve" => state[TASK_MM] \in {"RUNNABLE", "RECVING"}
    /\ pc[TASK_MM] \notin {"recv", "serve"} => state[TASK_MM] = "RUNNABLE"
    /\ state[TASK_MM] = "RECVING" => recvfrom[TASK_MM] = ANY
    /\ Busy => Caller \in Users /\ mbuf[TASK_MM].op = asked[Caller] /\ asked[Caller] \in Calls
    /\ pc[TASK_MM] = "reply" => MayWait(Caller)
    /\ state[TASK_MM] = "SENDING" => sendto[TASK_MM] \in Users /\ MayWait(sendto[TASK_MM])
    /\ pc[TASK_MM] = "forking" => asked[Caller] = "fork"
    /\ pc[TASK_MM] \in {"exiting", "dying"} => asked[Caller] = "exit"

(* A call in service is one that is waited for; only exec may leave its    *)
(* caller waiting.                                                         *)
CallsInv ==
    \A u \in Users : /\ InService(u) => Outstanding(u)
                     /\ asked[u] # "exec" /\ Outstanding(u) => InService(u)

(* A reply to u is on its way, or lies with u.                             *)
Replied(u) ==
    \/ InService(u) /\ pc[TASK_MM] \in {"reply", "recv"}
    \/ pc[u] = "done" /\ state[u] \in {"RUNNABLE", "SLEEPING"} /\ msgstate[u] = 0

ResultOf(u) == IF InService(u) THEN mbuf[TASK_MM] ELSE mbuf[u]

Gets(u, ops, k) == Replied(u) /\ asked[u] \in ops /\ ResultOf(u).i1 = k /\ k > 0

(* u has forked the process k and has not been told, or will be told.      *)
Forks(u, k) == \/ Gets(u, {"fork"}, k)
               \/ pc[TASK_MM] = "forking" /\ Caller = u /\ pid[newp] = k

Waited == {"wait", "waitnohang"}

Reaps(u, k) == Gets(u, Waited, k)

ParentInv ==
    /\ ParentAlive
    /\ pc[TASK_MM] = "dying" => \A p \in Users : Used(p) => parent[p] # Caller
    /\ pc[TASK_MM] = "forking" => \A p \in Users : Used(p) => parent[p] # newp
    /\ pc[TASK_MM] = "forking" => newp \in Users \ {initproc}

(* initproc dies, if at all, alone.                                        *)
InitInv ==
    /\ Used(initproc) /\ parent[initproc] = NULL
    /\ state[initproc] = "ZOMBIE" => asked[initproc] = "exit"
    /\ asked[initproc] = "exit" => forked[initproc] = {}
    /\ \/ forked[initproc] # {} \/ \E k \in Nat : Forks(initproc, k)
       \/ \A u \in Users \ {initproc} : ~Used(u)

PidInv ==
    /\ \A u \in Users : Used(u) => pid[u] \in 1 .. nextpid - 1 /\ pid[u] \notin reaped
    /\ \A u, v \in Users : Used(u) /\ Used(v) /\ pid[u] = pid[v] => u = v
    /\ \A k \in reaped : k < nextpid
    /\ \A u \in Users : state[u] = "ZOMBIE" => msgstate[u] = pid[u]
    /\ \A p \in Users : Used(p) /\ parent[p] \notin {NULL, initproc}
          => pid[p] \in forked[parent[p]] \/ Forks(parent[p], pid[p])

WaitInv ==
    /\ \A u \in Users, k \in Nat : Reaps(u, k) =>
          /\ ResultOf(u).i2 = k /\ k < nextpid /\ k \notin reaped
          /\ k \in forked[u] \/ u = initproc
          /\ \A v \in Users : Used(v) => pid[v] # k
    /\ \A u, v \in Users, k \in Nat : Reaps(u, k) /\ Reaps(v, k) => u = v

LifeInv == NoMissedChild /\ ParentInv /\ InitInv /\ PidInv /\ WaitInv

IInv == TypeOK /\ ServerInv /\ (\A u \in Users : CallerInv(u)) /\ CallsInv /\ LifeInv

-----------------------------------------------------------------------------
LEMMA Slots ==
  /\ TASK_MM \in Proc /\ TASK_MM \notin Users /\ Users \subseteq Proc /\ initproc \in Users
  /\ NULL \notin Users /\ NULL \notin Proc /\ \A p \in Proc : p # ANY /\ p \in Nat
  /\ \A p \in Proc : p # TASK_MM => p \in Users
<1>1. \A p \in Proc : p \in Nat /\ p # ANY
  BY ProcAssumption DEF ANY
<1>2. NULL \notin Nat
  BY MmAssumption
<1>3. TASK_MM \in Proc /\ initproc \in Users
  BY MmAssumption
<1> QED BY <1>1, <1>2, <1>3 DEF Users

LEMMA MsgIs ==
  ASSUME NEW u \in Proc, NEW op \in Calls \cup {NULL}
  PROVE  /\ MsgOf(u, op) \in Message /\ MsgOf(u, op).type = "REQ"
         /\ MsgOf(u, op).source = u /\ MsgOf(u, op).op = op
BY DEF MsgOf, Message

LEMMA InitIInv == Init => IInv
<1> SUFFICES ASSUME Init PROVE IInv
  OBVIOUS
<1> USE Slots DEF Init
<1>1. TypeOK
  <2>1. \A p \in Proc : MsgOf(p, NULL) \in Message
    BY MsgIs
  <2> QED BY <2>1 DEF TypeOK, States, CallerPcs, ServerPcs
<1>2. /\ pc[TASK_MM] = "recv" /\ state[TASK_MM] = "RUNNABLE" /\ newp = NULL /\ reaped = {}
      /\ state[initproc] = "RUNNABLE" /\ \A u \in Users \ {initproc} : state[u] = "UNUSED"
      /\ \A u \in Users : pc[u] = "user" /\ parent[u] = NULL /\ asked[u] = NULL /\ forked[u] = {}
  OBVIOUS
<1>3. \A u \in Users : ~InService(u) /\ ~Outstanding(u) /\ ~Replied(u)
  BY <1>2 DEF InService, Outstanding, Replied
<1>4. ServerInv
  BY <1>2 DEF ServerInv, ServerPcs, Busy
<1>5. \A u \in Users : CallerInv(u)
  BY <1>2 DEF CallerInv, CallerPcs
<1>6. CallsInv /\ NoMissedChild
  BY <1>2, <1>3 DEF CallsInv, NoMissedChild
<1>7. ParentInv /\ InitInv
  BY <1>2 DEF ParentInv, ParentAlive, InitInv, Used
<1>8. PidInv /\ WaitInv
  <2>1. pid[initproc] = 1 /\ nextpid = 2
    OBVIOUS
  <2>2. \A u \in Users : Used(u) => u = initproc
    BY <1>2 DEF Used
  <2>3. PidInv
    <3>1. \A u \in Users : Used(u) => pid[u] \in 1 .. nextpid - 1 /\ pid[u] \notin reaped
      <4>1. \A u \in Users : Used(u) => pid[u] = 1 /\ pid[u] \notin reaped
        BY <1>2, <2>1, <2>2, Zenon
      <4>2. 1 \in 1 .. nextpid - 1
        BY <2>1
      <4> QED BY <4>1, <4>2, Zenon
    <3>2. \A u \in Users : state[u] # "ZOMBIE" /\ parent[u] = NULL
      BY <1>2
    <3> QED BY <1>2, <2>2, <3>1, <3>2 DEF PidInv
  <2>4. WaitInv
    BY <1>3 DEF WaitInv, Reaps, Gets
  <2> QED BY <2>3, <2>4
<1> QED BY <1>1, <1>4, <1>5, <1>6, <1>7, <1>8 DEF IInv, LifeInv

-----------------------------------------------------------------------------
(* Steps that move messages.                                               *)
SameLife == \A u \in Users : state'[u] = state[u] \/ (Running(u) /\ Running(u)')

SameReplies ==
    \A u \in Users : /\ Replied(u)' <=> Replied(u)
                     /\ Replied(u) => /\ ResultOf(u).i1' = ResultOf(u).i1
                                      /\ ResultOf(u).i2' = ResultOf(u).i2
                                      /\ asked'[u] = asked[u]

(* What the memory task is in the middle of.                               *)
SamePlace ==
    \/ /\ pc[TASK_MM] \notin {"forking", "exiting", "dying"}
       /\ pc'[TASK_MM] \notin {"forking", "exiting", "dying"}
    \/ pc'[TASK_MM] = pc[TASK_MM] /\ Caller' = Caller

LEMMA SameLifeIs ==
  ASSUME SameLife, NEW u \in Users
  PROVE  /\ Used(u)' <=> Used(u)
         /\ state'[u] = "ZOMBIE" <=> state[u] = "ZOMBIE"
         /\ state'[u] = "EMBRYO" <=> state[u] = "EMBRYO"
         /\ Live(u)' <=> Live(u)
BY DEF SameLife, Running, Used, Live

LEMMA SameZombies ==
  ASSUME SameLife, parent' = parent, NEW u \in Users
  PROVE  Zombies(u)' = Zombies(u)
BY SameLifeIs DEF Zombies, Children

LEMMA SameForks ==
  ASSUME SameReplies, SamePlace, UNCHANGED <<pid, newp>>, NEW u \in Users, NEW k
  PROVE  /\ Forks(u, k)' <=> Forks(u, k)
         /\ Reaps(u, k)' <=> Reaps(u, k)
         /\ Reaps(u, k) => ResultOf(u).i2' = ResultOf(u).i2
<1>1. Gets(u, {"fork"}, k)' <=> Gets(u, {"fork"}, k)
  BY DEF SameReplies, Gets
<1>2. Gets(u, Waited, k)' <=> Gets(u, Waited, k)
  BY DEF SameReplies, Gets
<1> QED BY <1>1, <1>2 DEF Forks, Reaps, SamePlace, SameReplies, Gets

LEMMA MessageKeeps ==
  ASSUME TypeOK, LifeInv, SameLife, SameReplies, SamePlace, UNCHANGED <<mmVars, progVars>>,
         \A u \in Users : state'[u] = "SLEEPING" => state[u] = "SLEEPING" \/ Zombies(u) = {},
         \A u \in Users : state[u] = "ZOMBIE" => msgstate'[u] = msgstate[u] /\ asked'[u] = asked[u],
         asked'[initproc] = "exit" => forked[initproc] = {}
  PROVE  LifeInv'
<1> USE Slots
<1>1. /\ UNCHANGED <<parent, pid, nextpid, newp, forked, reaped>>
      /\ NoMissedChild /\ ParentInv /\ InitInv /\ PidInv /\ WaitInv
  BY DEF mmVars, progVars, LifeInv
<1>2. \A u \in Users : /\ Used(u)' <=> Used(u)
                       /\ state'[u] = "ZOMBIE" <=> state[u] = "ZOMBIE"
                       /\ state'[u] = "EMBRYO" <=> state[u] = "EMBRYO"
                       /\ Live(u)' <=> Live(u)
  BY SameLifeIs
<1>3. \A u \in Users : \A k :
          /\ Forks(u, k)' <=> Forks(u, k)
          /\ Reaps(u, k)' <=> Reaps(u, k)
          /\ Reaps(u, k) => ResultOf(u).i2' = ResultOf(u).i2
  BY <1>1, SameForks
<1>4. NoMissedChild'
  BY <1>1, SameZombies DEF NoMissedChild
<1>5. ParentInv'
  <2>1. ParentAlive'
    <3>1. ASSUME NEW u \in Users, Used(u)', parent'[u] # NULL PROVE Live(parent[u])'
      <4>1. PICK w : w = parent[u]
        OBVIOUS
      <4>2. w \in Users /\ Live(w)
        BY <1>1, <1>2, <3>1, <4>1 DEF ParentInv, ParentAlive, Used, TypeOK
      <4> QED BY <1>1, <1>2, <4>1, <4>2 DEF Live
    <3>2. \A u \in Users : state'[u] = "EMBRYO" <=>
              \/ u = newp' /\ pc'[TASK_MM] = "forking"
              \/ pc'[TASK_MM] \in {"exiting", "dying"} /\ u = Caller'
      BY <1>1, <1>2 DEF ParentInv, ParentAlive, SamePlace
    <3> QED BY <3>1, <3>2 DEF ParentAlive, Used
  <2> QED BY <1>1, <1>2, <2>1 DEF ParentInv, SamePlace
<1>6. InitInv'
  BY <1>1, <1>2, <1>3 DEF InitInv
<1>7. PidInv'
  <2>1. ASSUME NEW p \in Users, Used(p), parent[p] \notin {NULL, initproc}
        PROVE  pid[p] \in forked[parent[p]] \/ Forks(parent[p], pid[p])'
    <3>1. parent[p] \in Users
      BY <2>1 DEF TypeOK
    <3>2. pid[p] \in forked[parent[p]] \/ Forks(parent[p], pid[p])
      BY <1>1, <2>1 DEF PidInv
    <3>3. PICK w, k : w = parent[p] /\ k = pid[p]
      OBVIOUS
    <3>4. k \in forked[w] \/ Forks(w, k)'
      BY <1>3, <3>1, <3>2, <3>3
    <3> QED BY <1>1, <3>3, <3>4 DEF Forks, Gets
  <2>2. \A u \in Users : state'[u] = "ZOMBIE" => msgstate'[u] = pid'[u]
    BY <1>1, <1>2 DEF PidInv
  <2> QED BY <1>1, <1>2, <2>1, <2>2 DEF PidInv
<1>8. WaitInv'
  BY <1>1, <1>2, <1>3 DEF WaitInv
<1> QED BY <1>4, <1>5, <1>6, <1>7, <1>8 DEF LifeInv

-----------------------------------------------------------------------------
(* A program's call, first or again.                                       *)
LEMMA SendKeeps ==
  ASSUME IInv, NEW u \in Users, NEW op \in Calls, At(u, "user") \/ At(u, "again"), Send(u, op),
         u = initproc /\ op = "exit" => forked[initproc] = {}
  PROVE  IInv'
<1> USE Slots DEF Send, SendMsg, Goto, At
<1>1. /\ TypeOK /\ ServerInv /\ CallsInv /\ LifeInv /\ \A v \in Users : CallerInv(v)
      /\ u \in Proc /\ u # TASK_MM /\ pc' = [pc EXCEPT ![u] = "wait"]
      /\ asked' = [asked EXCEPT ![u] = op] /\ UNCHANGED <<mmVars, progVars>>
      /\ UNCHANGED <<parent, pid, nextpid, newp, forked, reaped>>
      /\ state[u] = "RUNNABLE" /\ pc[u] \in {"user", "again"}
  BY DEF IInv, mmVars, progVars
<1>2. ~InService(u) /\ ~Outstanding(u) /\ ~Replied(u)
  BY <1>1 DEF CallsInv, Outstanding, Replied
<1>3. PICK m : m = MsgOf(u, op)
  OBVIOUS
<1>4. m \in Message /\ m.type = "REQ" /\ m.source = u /\ m.op = op
  BY <1>1, <1>3, MsgIs
<1>5. asked'[initproc] = "exit" => forked[initproc] = {}
  BY <1>1 DEF TypeOK, LifeInv, InitInv
<1>6. CASE Deliver(u, TASK_MM, m)
  <2>1. /\ state[TASK_MM] = "RECVING" /\ pc[TASK_MM] = "serve"
        /\ state' = [state EXCEPT ![TASK_MM] = "RUNNABLE"]
        /\ mbuf' = [mbuf EXCEPT ![TASK_MM] = m]
        /\ msgstate' = [msgstate EXCEPT ![TASK_MM] = 0, ![u] = 0]
        /\ tmp' = tmp /\ sendto' = sendto /\ recvfrom' = recvfrom
    BY <1>1, <1>4, <1>6 DEF Deliver, Awaits, ReleasedState, ReleasedTmp, ServerInv, ServerPcs, TypeOK
  <2>2. TypeOK'
    BY <1>1, <1>4, <2>1 DEF TypeOK, States, CallerPcs
  <2>3. /\ mbuf'[TASK_MM] = m /\ state'[TASK_MM] = "RUNNABLE" /\ pc'[TASK_MM] = "serve"
        /\ asked'[u] = op /\ Caller' = u
    BY <1>1, <1>4, <2>1 DEF TypeOK, Caller
  <2>4. ServerInv'
    BY <1>4, <2>3 DEF ServerInv, ServerPcs, Busy
  <2>5. ASSUME NEW v \in Users
        PROVE  /\ v # u => /\ pc'[v] = pc[v] /\ asked'[v] = asked[v] /\ msgstate'[v] = msgstate[v]
               /\ state'[v] = state[v] /\ mbuf'[v] = mbuf[v]
               /\ ~InService(v) /\ (InService(v)' <=> v = u)
    BY <1>1, <2>1, <2>3 DEF TypeOK, InService, Caller
  <2>6. ASSUME NEW v \in Users PROVE CallerInv(v)'
    BY <1>1, <2>1, <2>5 DEF TypeOK, CallerInv, CallerPcs, Running
  <2>7. CallsInv'
    BY <1>1, <2>3, <2>5 DEF TypeOK, CallsInv, Outstanding
  <2>8. SameLife /\ SamePlace
    <3>1. SameLife
      BY <2>5 DEF SameLife
    <3>2. SamePlace
      BY <2>1, <2>3 DEF SamePlace
    <3> QED BY <3>1, <3>2
  <2>9. SameReplies
    <3>1. ASSUME NEW v \in Users, v # u
          PROVE  (Replied(v)' <=> Replied(v)) /\ (Replied(v) => ResultOf(v)' = ResultOf(v))
      BY <2>1, <2>3, <2>5, <3>1 DEF Replied, ResultOf
    <3>2. ~Replied(u)'
      BY <1>1, <2>3, <2>5 DEF TypeOK, Replied
    <3> QED BY <1>2, <2>5, <3>1, <3>2 DEF SameReplies
  <2>10. LifeInv'
    BY <1>1, <1>5, <2>5, <2>8, <2>9, MessageKeeps
  <2> QED BY <2>2, <2>4, <2>6, <2>7, <2>10 DEF IInv
<1>7. CASE BlockSending(u, TASK_MM, m)
  <2>1. /\ state' = [state EXCEPT ![u] = "SENDING"] /\ mbuf' = [mbuf EXCEPT ![u] = m]
        /\ sendto' = [sendto EXCEPT ![u] = TASK_MM] /\ msgstate' = [msgstate EXCEPT ![u] = -1]
        /\ tmp' = tmp /\ recvfrom' = recvfrom
    BY <1>7 DEF BlockSending
  <2>2. TypeOK'
    BY <1>1, <1>4, <2>1 DEF TypeOK, States, CallerPcs
  <2>3. /\ mbuf'[TASK_MM] = mbuf[TASK_MM] /\ state'[TASK_MM] = state[TASK_MM]
        /\ pc'[TASK_MM] = pc[TASK_MM] /\ Caller' = Caller /\ sendto'[TASK_MM] = sendto[TASK_MM]
        /\ recvfrom'[TASK_MM] = recvfrom[TASK_MM]
    BY <1>1, <2>1 DEF TypeOK, Caller
  <2>4. ASSUME NEW v \in Users
        PROVE  /\ v # u => /\ pc'[v] = pc[v] /\ asked'[v] = asked[v] /\ msgstate'[v] = msgstate[v]
                           /\ state'[v] = state[v] /\ mbuf'[v] = mbuf[v]
                           /\ sendto'[v] = sendto[v]
               /\ InService(v)' <=> InService(v)
    BY <1>1, <2>1, <2>3 DEF TypeOK, InService, Caller
  <2>5. /\ state'[u] = "SENDING" /\ pc'[u] = "wait" /\ sendto'[u] = TASK_MM /\ mbuf'[u] = m
        /\ asked'[u] = op
    BY <1>1, <2>1 DEF TypeOK
  <2>6. SameLife /\ SamePlace
    <3>1. SameLife
      BY <1>1, <2>4, <2>5 DEF SameLife, Running
    <3>2. SamePlace
      BY <2>3 DEF SamePlace
    <3> QED BY <3>1, <3>2
  <2>7. ServerInv'
    <3>1. Busy /\ Caller \in Users => Caller # u
      BY <1>1, <1>2 DEF ServerInv, ServerPcs, Busy, InService, LifeInv, ParentInv, ParentAlive
    <3>2. Busy' <=> Busy
      BY <2>3 DEF Busy
    <3>3. \A v \in Users : MayWait(v) => MayWait(v)'
      BY <1>1, <2>3, <2>6, SameZombies DEF MayWait
    <3> QED BY <1>1, <2>3, <2>4, <3>1, <3>2, <3>3 DEF ServerInv, ServerPcs, Busy
  <2>8. ASSUME NEW v \in Users PROVE CallerInv(v)'
    <3>1. CASE v = u
      BY <1>4, <2>5, <3>1 DEF CallerInv, CallerPcs
    <3>2. CASE v # u
      BY <1>1, <2>1, <2>4, <3>2 DEF CallerInv, Running
    <3> QED BY <3>1, <3>2
  <2>9. CallsInv'
    BY <1>1, <1>2, <2>4, <2>5 DEF CallsInv, Outstanding
  <2>10. SameReplies
    <3>1. ASSUME NEW v \in Users, v # u
          PROVE  (Replied(v)' <=> Replied(v)) /\ ResultOf(v)' = ResultOf(v)
      BY <2>3, <2>4, <3>1 DEF Replied, ResultOf
    <3>2. ~Replied(u)'
      BY <1>2, <2>4, <2>5 DEF Replied
    <3> QED BY <1>2, <2>4, <3>1, <3>2 DEF SameReplies
  <2>11. LifeInv'
    BY <1>1, <1>5, <2>4, <2>5, <2>6, <2>10, MessageKeeps
  <2> QED BY <2>2, <2>7, <2>8, <2>9, <2>11 DEF IInv
<1> QED BY <1>3, <1>6, <1>7

(* A caller receives its reply, or waits for it.                           *)
LEMMA UserRecvKeeps ==
  ASSUME IInv, NEW u \in Users, UserRecv(u)
  PROVE  IInv'
<1> USE Slots DEF UserRecv, RecvMsg, Goto, At
<1>1. /\ TypeOK /\ ServerInv /\ CallsInv /\ LifeInv /\ \A v \in Users : CallerInv(v)
      /\ u \in Proc /\ u # TASK_MM /\ pc' = [pc EXCEPT ![u] = "done"]
      /\ UNCHANGED <<mmVars, progVars>>
      /\ UNCHANGED <<asked, parent, pid, nextpid, newp, forked, reaped>>
      /\ state[u] = "RUNNABLE" /\ pc[u] = "wait" /\ asked[u] \in Calls
  <2>1. asked[u] \in Calls
    BY DEF IInv, CallerInv, Running
  <2> QED BY <2>1 DEF IInv, mmVars, progVars
<1>2. Outstanding(u) /\ (asked'[initproc] = "exit" => forked[initproc] = {})
  BY <1>1 DEF Outstanding, LifeInv, InitInv
<1>3. CASE BlockReceiving(u, TASK_MM)
  <2>1. /\ state' = [state EXCEPT ![u] = "RECVING"] /\ mbuf' = mbuf
        /\ recvfrom' = [recvfrom EXCEPT ![u] = TASK_MM] /\ msgstate' = [msgstate EXCEPT ![u] = -1]
        /\ sendto' = sendto /\ tmp' = tmp
    BY <1>3 DEF BlockReceiving
  <2>2. TypeOK'
    BY <1>1, <2>1 DEF TypeOK, States, CallerPcs
  <2>3. /\ mbuf'[TASK_MM] = mbuf[TASK_MM] /\ state'[TASK_MM] = state[TASK_MM]
        /\ pc'[TASK_MM] = pc[TASK_MM] /\ Caller' = Caller /\ sendto'[TASK_MM] = sendto[TASK_MM]
        /\ recvfrom'[TASK_MM] = recvfrom[TASK_MM]
    BY <1>1, <2>1 DEF TypeOK, Caller
  <2>4. ASSUME NEW v \in Users
        PROVE  /\ v # u => /\ pc'[v] = pc[v] /\ msgstate'[v] = msgstate[v]
                           /\ state'[v] = state[v] /\ recvfrom'[v] = recvfrom[v]
               /\ InService(v)' <=> InService(v)
    BY <1>1, <2>1, <2>3 DEF TypeOK, InService, Caller
  <2>5. /\ state'[u] = "RECVING" /\ pc'[u] = "done" /\ recvfrom'[u] = TASK_MM
        /\ msgstate'[u] = -1
    BY <1>1, <2>1 DEF TypeOK
  <2>6. SameLife
    BY <1>1, <2>4, <2>5 DEF SameLife, Running
  <2>7. SamePlace
    BY <2>3 DEF SamePlace
  <2>8. ServerInv'
    <3>1. Busy' <=> Busy
      BY <2>3 DEF Busy
    <3>2. \A v \in Users : MayWait(v) => MayWait(v)'
      BY <1>1, <2>3, <2>6, SameZombies DEF MayWait
    <3> QED BY <1>1, <2>3, <3>1, <3>2 DEF ServerInv, ServerPcs, Busy
  <2>9. ASSUME NEW v \in Users PROVE CallerInv(v)'
    <3>1. CASE v = u
      BY <1>1, <2>5, <3>1 DEF CallerInv, CallerPcs
    <3>2. CASE v # u
      BY <1>1, <2>1, <2>4, <3>2 DEF CallerInv, Running
    <3> QED BY <3>1, <3>2
  <2>10. CallsInv'
    BY <1>1, <1>2, <2>4, <2>5 DEF CallsInv, Outstanding
  <2>11. SameReplies
    BY <1>1, <2>1, <2>3, <2>4, <2>5 DEF SameReplies, Replied, ResultOf
  <2>12. LifeInv'
    BY <1>1, <1>2, <2>4, <2>5, <2>6, <2>7, <2>11, MessageKeeps
  <2> QED BY <2>2, <2>8, <2>9, <2>10, <2>12 DEF IInv
<1>4. CASE TakeFirst(u, TASK_MM)
  <2>1. Take(u, TASK_MM) /\ state[TASK_MM] = "SENDING" /\ sendto[TASK_MM] = u
    BY <1>4 DEF TakeFirst, Senders
  <2>2. PICK s : s = ReleasedState(mbuf[TASK_MM])
    OBVIOUS
  <2>3. /\ mbuf' = [mbuf EXCEPT ![u] = mbuf[TASK_MM]]
        /\ msgstate' = [msgstate EXCEPT ![TASK_MM] = 0, ![u] = 0]
        /\ state' = [state EXCEPT ![TASK_MM] = s] /\ s \in {"RUNNABLE", "SLEEPING"}
        /\ tmp' = [tmp EXCEPT ![TASK_MM] = ReleasedTmp(TASK_MM, mbuf[TASK_MM])]
        /\ ReleasedTmp(TASK_MM, mbuf[TASK_MM]) \in Users \cup {NULL}
        /\ UNCHANGED <<sendto, recvfrom>> /\ pc[TASK_MM] = "recv"
    BY <1>1, <2>1, <2>2 DEF Take, ReleasedState, ReleasedTmp, ServerInv, ServerPcs, TypeOK, Message
  <2>4. TypeOK'
    BY <1>1, <2>3 DEF TypeOK, States, CallerPcs
  <2>5. state'[TASK_MM] = s /\ pc'[TASK_MM] = "recv" /\ mbuf'[u] = mbuf[TASK_MM]
        /\ pc'[u] = "done" /\ state'[u] = "RUNNABLE" /\ msgstate'[u] = 0
    BY <1>1, <2>3 DEF TypeOK
  <2>6. ASSUME NEW v \in Users
        PROVE  /\ v # u => /\ pc'[v] = pc[v] /\ msgstate'[v] = msgstate[v]
                           /\ mbuf'[v] = mbuf[v]
               /\ state'[v] = state[v] /\ tmp'[v] = tmp[v]
               /\ ~InService(v)' /\ (InService(v) <=> v = u)
    BY <1>1, <2>1, <2>3, <2>5 DEF TypeOK, InService
  <2>7. SameLife
    BY <2>6 DEF SameLife
  <2>8. SamePlace
    BY <2>3, <2>5 DEF SamePlace
  <2>9. ServerInv'
    BY <2>3, <2>5 DEF ServerInv, ServerPcs, Busy
  <2>10. ASSUME NEW v \in Users PROVE CallerInv(v)'
    <3>1. CASE v = u
      BY <1>1, <2>5, <3>1 DEF CallerInv, CallerPcs
    <3>2. CASE v # u
      <4>1. sendto'[v] = sendto[v] /\ recvfrom'[v] = recvfrom[v]
        BY <2>3
      <4> QED BY <1>1, <2>6, <3>2, <4>1 DEF CallerInv, Running
    <3> QED BY <3>1, <3>2
  <2>11. CallsInv'
    BY <1>1, <2>5, <2>6 DEF CallsInv, Outstanding
  <2>12. SameReplies
    <3>1. Replied(u) /\ Replied(u)' /\ ResultOf(u)' = ResultOf(u)
      BY <2>3, <2>5, <2>6 DEF Replied, ResultOf
    <3>2. ASSUME NEW v \in Users, v # u
          PROVE  (Replied(v)' <=> Replied(v)) /\ ResultOf(v)' = ResultOf(v)
      BY <2>6, <3>2 DEF Replied, ResultOf
    <3> QED BY <1>1, <3>1, <3>2 DEF SameReplies
  <2>13. LifeInv'
    BY <1>1, <1>2, <2>6, <2>7, <2>8, <2>12, MessageKeeps
  <2> QED BY <2>4, <2>9, <2>10, <2>11, <2>13 DEF IInv
<1> QED BY <1>3, <1>4

(* The memory task takes a call, or waits for one.                         *)
LEMMA MmRecvKeeps ==
  ASSUME IInv, MmRecv
  PROVE  IInv'
<1> USE Slots DEF MmRecv, RecvMsg, Goto, At
<1>1. /\ TypeOK /\ ServerInv /\ CallsInv /\ LifeInv /\ \A v \in Users : CallerInv(v)
      /\ pc' = [pc EXCEPT ![TASK_MM] = "serve"]
      /\ UNCHANGED <<mmVars, progVars>>
      /\ UNCHANGED <<asked, parent, pid, nextpid, newp, forked, reaped>>
      /\ state[TASK_MM] = "RUNNABLE" /\ pc[TASK_MM] = "recv"
  BY DEF IInv, mmVars, progVars
<1>2. asked'[initproc] = "exit" => forked[initproc] = {}
  BY <1>1 DEF LifeInv, InitInv
<1>3. \A v \in Users : ~InService(v) /\ pc'[v] = pc[v]
  BY <1>1 DEF InService, TypeOK
<1>4. pc'[TASK_MM] = "serve" /\ SamePlace
  BY <1>1 DEF TypeOK, SamePlace
<1>5. CASE BlockReceiving(TASK_MM, ANY)
  <2>1. /\ state' = [state EXCEPT ![TASK_MM] = "RECVING"] /\ mbuf' = mbuf
        /\ recvfrom' = [recvfrom EXCEPT ![TASK_MM] = ANY] /\ msgstate' = [msgstate EXCEPT ![TASK_MM] = -1]
        /\ sendto' = sendto /\ tmp' = tmp
    BY <1>5 DEF BlockReceiving
  <2>2. TypeOK'
    BY <1>1, <2>1 DEF TypeOK, States, ServerPcs
  <2>3. /\ state'[TASK_MM] = "RECVING" /\ recvfrom'[TASK_MM] = ANY
        /\ \A v \in Users : /\ ~InService(v)' /\ state'[v] = state[v] /\ msgstate'[v] = msgstate[v]
                            /\ recvfrom'[v] = recvfrom[v]
    BY <1>1, <1>4, <2>1 DEF TypeOK, InService
  <2>4. ServerInv'
    BY <1>4, <2>3 DEF ServerInv, ServerPcs, Busy
  <2>5. ASSUME NEW v \in Users PROVE CallerInv(v)'
    BY <1>1, <1>3, <2>1, <2>3 DEF CallerInv, Running
  <2>6. CallsInv'
    BY <1>1, <1>3, <2>3 DEF CallsInv, Outstanding
  <2>7. SameLife
    BY <2>3 DEF SameLife
  <2>8. SameReplies
    BY <1>1, <1>3, <2>1, <2>3 DEF SameReplies, Replied, ResultOf
  <2>9. LifeInv'
    BY <1>1, <1>2, <1>4, <2>3, <2>7, <2>8, MessageKeeps
  <2> QED BY <2>2, <2>4, <2>5, <2>6, <2>9 DEF IInv
<1>6. CASE TakeFirst(TASK_MM, ANY)
  <2>1. PICK u \in Users : Take(TASK_MM, u) /\ state[u] = "SENDING"
    BY <1>1, <1>6 DEF TakeFirst, Senders
  <2>2. /\ mbuf[u].type = "REQ" /\ mbuf[u].source = u /\ mbuf[u].op = asked[u] /\ asked[u] \in Calls
        /\ u \in Proc /\ u # TASK_MM /\ pc[u] = "wait"
    BY <1>1, <2>1 DEF CallerInv, Running
  <2>3. /\ state' = [state EXCEPT ![u] = "RUNNABLE"] /\ mbuf' = [mbuf EXCEPT ![TASK_MM] = mbuf[u]]
        /\ msgstate' = [msgstate EXCEPT ![u] = 0, ![TASK_MM] = 0]
        /\ tmp' = tmp /\ UNCHANGED <<sendto, recvfrom>>
    BY <1>1, <2>1, <2>2 DEF Take, ReleasedState, ReleasedTmp, TypeOK
  <2>4. TypeOK'
    BY <1>1, <2>2, <2>3 DEF TypeOK, States, ServerPcs
  <2>5. /\ mbuf'[TASK_MM] = mbuf[u] /\ state'[TASK_MM] = "RUNNABLE" /\ Caller' = u
    BY <1>1, <2>2, <2>3 DEF TypeOK, Caller
  <2>6. ASSUME NEW v \in Users
        PROVE  /\ v # u => state'[v] = state[v] /\ msgstate'[v] = msgstate[v]
               /\ mbuf'[v] = mbuf[v] /\ (InService(v)' <=> v = u)
    BY <1>1, <1>4, <2>2, <2>3, <2>5 DEF TypeOK, InService, Caller
  <2>7. state'[u] = "RUNNABLE"
    BY <1>1, <2>2, <2>3 DEF TypeOK
  <2>8. ServerInv'
    BY <1>1, <1>4, <2>2, <2>5 DEF ServerInv, ServerPcs, Busy
  <2>9. ASSUME NEW v \in Users PROVE CallerInv(v)'
    <3>1. CASE v = u
      BY <1>1, <1>3, <2>2, <2>7, <3>1 DEF CallerInv, CallerPcs
    <3>2. CASE v # u
      <4>1. sendto'[v] = sendto[v] /\ recvfrom'[v] = recvfrom[v] /\ tmp'[v] = tmp[v]
        BY <2>3
      <4> QED BY <1>1, <1>3, <2>6, <3>2, <4>1 DEF CallerInv, Running
    <3> QED BY <3>1, <3>2
  <2>10. CallsInv'
    BY <1>1, <1>3, <2>2, <2>6, <2>7 DEF CallsInv, Outstanding
  <2>11. SameLife
    BY <2>1, <2>6, <2>7 DEF SameLife, Running
  <2>12. SameReplies
    <3>1. ~Replied(u) /\ ~Replied(u)'
      BY <1>3, <1>4, <2>2 DEF Replied
    <3>2. ASSUME NEW v \in Users, v # u
          PROVE  (Replied(v)' <=> Replied(v)) /\ ResultOf(v)' = ResultOf(v)
      BY <1>3, <2>6, <3>2 DEF Replied, ResultOf
    <3> QED BY <1>1, <3>1, <3>2 DEF SameReplies
  <2>13. LifeInv'
    BY <1>1, <1>2, <1>4, <2>1, <2>6, <2>7, <2>11, <2>12, MessageKeeps
  <2> QED BY <2>4, <2>8, <2>9, <2>10, <2>13 DEF IInv
<1> QED BY <1>5, <1>6

(* A caller returns, and knows the process it forked or reaped.            *)
LEMMA UserReturnKeeps ==
  ASSUME IInv, NEW u \in Users, UserReturn(u)
  PROVE  IInv'
<1> USE Slots
<1>1. /\ TypeOK /\ ServerInv /\ CallsInv /\ \A v \in Users : CallerInv(v)
      /\ NoMissedChild /\ ParentInv /\ InitInv /\ PidInv /\ WaitInv
      /\ u \in Proc /\ u # TASK_MM /\ state[u] = "RUNNABLE" /\ pc[u] = "done"
  BY DEF IInv, LifeInv, UserReturn, At
<1>2. /\ UNCHANGED <<state, mbuf, sendto, recvfrom, msgstate, tmp, asked>>
      /\ UNCHANGED <<parent, pid, nextpid, newp>>
  BY DEF UserReturn, mmVars, msgVars
<1>3. PICK l \in {"again", "user"} : pc' = [pc EXCEPT ![u] = l]
  BY DEF UserReturn, Goto
<1>4. pc'[u] \in {"again", "user"} /\ \A p \in Proc : p # u => pc'[p] = pc[p]
  BY <1>1, <1>3 DEF TypeOK
<1>5. ~InService(u)
  BY <1>1 DEF CallsInv, Outstanding
<1>6. pc'[TASK_MM] = pc[TASK_MM] /\ Caller' = Caller
  BY <1>1, <1>2, <1>4 DEF Caller
<1>7. \A v \in Users : (InService(v)' <=> InService(v)) /\ ResultOf(v)' = ResultOf(v)
  BY <1>1, <1>2, <1>6 DEF InService, Caller, ResultOf
<1>8. ~Replied(u)' /\ \A v \in Users \ {u} : Replied(v)' <=> Replied(v)
  BY <1>1, <1>2, <1>4, <1>5, <1>6, <1>7 DEF Replied
<1>9. ~(pc[TASK_MM] = "forking" /\ Caller = u)
  BY <1>1, <1>5 DEF ServerInv, InService
<1>10. ASSUME NEW v \in Users, NEW k
       PROVE  /\ v # u => (Forks(v, k)' <=> Forks(v, k)) /\ (Reaps(v, k)' <=> Reaps(v, k))
              /\ v = u => ~Forks(v, k)' /\ ~Reaps(v, k)'
  <2>1. CASE v = u
    BY <1>6, <1>8, <1>9, <2>1 DEF Forks, Reaps, Gets
  <2>2. CASE v # u
    BY <1>2, <1>6, <1>7, <1>8, <2>2 DEF Forks, Reaps, Gets
  <2> QED BY <2>1, <2>2
<1>12. mbuf[u].i1 \in Int
  BY <1>1 DEF TypeOK, Message
<1>13. PICK i \in Int : i = mbuf[u].i1
  BY <1>12
<1>14. \A ops : \A k : Gets(u, ops, k) <=> msgstate[u] = 0 /\ asked[u] \in ops /\ i = k /\ k > 0
  BY <1>1, <1>5, <1>13 DEF Gets, Replied, ResultOf
<1>15. /\ forked' = IF Gets(u, {"fork"}, i) THEN [forked EXCEPT ![u] = @ \cup {i}] ELSE forked
       /\ reaped' = IF Reaps(u, i) THEN reaped \cup {i} ELSE reaped
  BY <1>13, <1>14 DEF UserReturn, Reaps, Waited
<1>16. /\ \A v \in Users : forked[v] \subseteq forked'[v]
       /\ \A v \in Users \ {u} : forked'[v] = forked[v]
       /\ asked[u] = "exit" => forked'[u] = forked[u]
       /\ \A k : Forks(u, k) => k \in forked'[u]
  <2>1. CASE Gets(u, {"fork"}, i)
    BY <1>1, <1>9, <1>14, <1>15, <2>1 DEF TypeOK, Forks
  <2>2. CASE ~Gets(u, {"fork"}, i)
    BY <1>1, <1>9, <1>14, <1>15, <2>2 DEF TypeOK, Forks
  <2> QED BY <2>1, <2>2
<1>17. \A k \in reaped' : k \in reaped \/ (k = i /\ Reaps(u, k) /\ k \in Nat)
  BY <1>15, <1>14 DEF Reaps
<1>18. TypeOK'
  <2>1. forked' \in [Users -> SUBSET Nat] /\ reaped' \in SUBSET Nat
    <3>1. Gets(u, {"fork"}, i) \/ Reaps(u, i) => i \in Nat
      BY <1>14 DEF Reaps
    <3> QED BY <1>1, <1>15, <3>1 DEF TypeOK
  <2>2. pc' \in [Proc -> CallerPcs \cup ServerPcs]
    BY <1>1, <1>3 DEF TypeOK, CallerPcs
  <2> QED BY <1>1, <1>2, <2>1, <2>2 DEF TypeOK
<1>19. \A v \in Users : /\ Used(v)' <=> Used(v)
                        /\ Live(v)' <=> Live(v)
                        /\ Zombies(v)' = Zombies(v)
  BY <1>2 DEF Used, Live, Zombies, Children
<1>20. ServerInv'
  <2>1. Busy' <=> Busy
    BY <1>2, <1>6 DEF Busy
  <2>2. \A v \in Users : MayWait(v) => MayWait(v)'
    BY <1>2, <1>19 DEF MayWait
  <2> QED BY <1>1, <1>2, <1>6, <2>1, <2>2 DEF ServerInv, Busy
<1>21. ASSUME NEW v \in Users PROVE CallerInv(v)'
  <2>1. CASE v = u
    BY <1>1, <1>2, <1>4, <2>1 DEF CallerInv, CallerPcs, Running
  <2>2. CASE v # u
    BY <1>1, <1>2, <1>4, <2>2 DEF CallerInv, Running
  <2> QED BY <2>1, <2>2
<1>22. CallsInv'
  <2>1. ~Outstanding(u)' /\ \A v \in Users \ {u} : Outstanding(v)' <=> Outstanding(v)
    BY <1>1, <1>2, <1>4 DEF Outstanding
  <2> QED BY <1>1, <1>2, <1>5, <1>7, <2>1 DEF CallsInv
<1>23. NoMissedChild'
  BY <1>1, <1>2, <1>19 DEF NoMissedChild
<1>24. ParentInv'
  BY <1>1, <1>2, <1>6, <1>19 DEF ParentInv, ParentAlive, Used, Live
<1>25. InitInv'
  <2>1. asked'[initproc] = "exit" => forked'[initproc] = {}
    BY <1>1, <1>2, <1>16 DEF InitInv
  <2>2. ASSUME NEW k \in Nat, Forks(initproc, k) PROVE forked'[initproc] # {} \/ Forks(initproc, k)'
    BY <1>10, <1>16, <2>2
  <2> QED BY <1>1, <1>2, <1>16, <1>19, <2>1, <2>2 DEF InitInv
<1>26. PidInv'
  <2>1. \A v \in Users : Used(v) => pid[v] \in 1 .. nextpid - 1 /\ pid[v] \notin reaped'
    <3>1. \A v \in Users : Used(v) => pid[v] \in 1 .. nextpid - 1 /\ pid[v] \notin reaped
      BY <1>1 DEF PidInv
    <3>2. \A k \in Nat : Reaps(u, k) => \A v \in Users : Used(v) => pid[v] # k
      BY <1>1 DEF WaitInv
    <3> QED BY <1>17, <3>1, <3>2, Zenon
  <2>2. \A k \in reaped' : k < nextpid
    BY <1>1, <1>17 DEF PidInv, WaitInv
  <2>3. ASSUME NEW p \in Users, Used(p), parent[p] \notin {NULL, initproc}
        PROVE  pid[p] \in forked'[parent[p]] \/ Forks(parent[p], pid[p])'
    <3>1. PICK w \in Users : w = parent[p]
      BY <1>1, <2>3 DEF TypeOK
    <3>2. PICK k : k = pid[p]
      OBVIOUS
    <3>3. k \in forked[w] \/ Forks(w, k)
      BY <1>1, <2>3, <3>1, <3>2 DEF PidInv
    <3>4. k \in forked'[w] \/ Forks(w, k)'
      BY <1>10, <1>16, <3>3
    <3> QED BY <1>2, <3>1, <3>2, <3>4 DEF Forks, Gets
  <2> QED BY <1>1, <1>2, <1>19, <2>1, <2>2, <2>3 DEF PidInv
<1>27. WaitInv'
  <2>1. ASSUME NEW v \in Users, NEW k \in Nat, Reaps(v, k)'
        PROVE  /\ v # u /\ Reaps(v, k)
               /\ ResultOf(v).i2' = k /\ k < nextpid' /\ k \notin reaped'
               /\ k \in forked'[v] \/ v = initproc
               /\ \A w \in Users : Used(w)' => pid'[w] # k
    <3>1. v # u /\ Reaps(v, k)
      BY <1>10, <2>1
    <3>2. k \notin reaped'
      BY <1>1, <1>17, <3>1 DEF WaitInv
    <3>3. ResultOf(v)' = ResultOf(v)
      BY <1>7
    <3> QED BY <1>1, <1>2, <1>16, <1>19, <3>1, <3>2, <3>3 DEF WaitInv
  <2> QED BY <1>1, <2>1 DEF WaitInv
<1> QED BY <1>18, <1>20, <1>21, <1>22, <1>23, <1>24, <1>25, <1>26, <1>27 DEF IInv, LifeInv

LEMMA UserStepKeeps ==
  ASSUME IInv, NEW u \in Users, UserStep(u)
  PROVE  IInv'
<1>1. ASSUME NEW op \in Calls, UserCall(u, op) PROVE IInv'
  <2>1. u = initproc /\ op = "exit" => forked[initproc] = {}
    BY <1>1 DEF UserCall, InitOps
  <2> QED BY <1>1, <2>1, SendKeeps DEF UserCall
<1>2. CASE UserRetry(u)
  <2>1. asked[u] \in Calls /\ (u = initproc /\ asked[u] = "exit" => forked[initproc] = {})
    BY <1>2 DEF UserRetry, At, IInv, CallerInv, Running, LifeInv, InitInv
  <2> QED BY <1>2, <2>1, SendKeeps DEF UserRetry
<1> QED BY <1>1, <1>2, UserRecvKeeps, UserReturnKeeps DEF UserStep

(* The memory task answers, at once or when the caller receives.           *)
LEMMA MmReplyKeeps ==
  ASSUME IInv, MmReply
  PROVE  IInv'
<1> USE Slots
<1>1. /\ TypeOK /\ ServerInv /\ CallsInv /\ LifeInv /\ \A v \in Users : CallerInv(v)
      /\ pc' = [pc EXCEPT ![TASK_MM] = "recv"]
      /\ UNCHANGED <<mmVars, progVars>>
      /\ UNCHANGED <<asked, parent, pid, nextpid, newp, forked, reaped>>
      /\ state[TASK_MM] = "RUNNABLE" /\ pc[TASK_MM] = "reply"
  BY DEF IInv, MmReply, Goto, At, mmVars, progVars
<1>2. asked'[initproc] = "exit" => forked[initproc] = {}
  BY <1>1 DEF LifeInv, InitInv
<1>3. PICK u \in Users : u = Caller
  BY <1>1 DEF ServerInv, Busy
<1>4. /\ \A v \in Users : (InService(v) <=> v = u) /\ pc'[v] = pc[v]
      /\ Outstanding(u) /\ MayWait(u) /\ u \in Proc /\ u # TASK_MM
      /\ asked[u] \in Calls
  <2>1. \A v \in Users : (InService(v) <=> v = u) /\ pc'[v] = pc[v]
    BY <1>1, <1>3 DEF InService, TypeOK
  <2> QED BY <1>1, <1>3, <2>1 DEF CallsInv, ServerInv, Busy
<1>5. pc'[TASK_MM] = "recv" /\ SamePlace
  BY <1>1 DEF TypeOK, SamePlace
<1>6. PICK m : m = [mbuf[TASK_MM] EXCEPT !.source = TASK_MM]
  OBVIOUS
<1>7. /\ m \in Message /\ m.type = mbuf[TASK_MM].type /\ m.chan = mbuf[TASK_MM].chan
      /\ m.i1 = mbuf[TASK_MM].i1 /\ m.i2 = mbuf[TASK_MM].i2
  <2>1. mbuf[TASK_MM] \in Message
    BY <1>1 DEF TypeOK
  <2> QED BY <1>6, <2>1 DEF Message
<1>8. m.type = "BESLEEP" => m.chan = u /\ Zombies(u) = {}
  BY <1>4, <1>7 DEF MayWait
<1>9. SendMsg(TASK_MM, u, m)
  BY <1>3, <1>6 DEF MmReply
<1>10. CASE Deliver(TASK_MM, u, m)
  <2>1. PICK s, c : s = ReleasedState(m) /\ c = ReleasedTmp(u, m)
    OBVIOUS
  <2>2. /\ s \in {"RUNNABLE", "SLEEPING"} /\ c \in Users \cup {NULL}
        /\ s = "SLEEPING" => c = u /\ Zombies(u) = {}
    BY <1>1, <1>4, <1>8, <2>1 DEF ReleasedState, ReleasedTmp, TypeOK
  <2>3. /\ state' = [state EXCEPT ![u] = s] /\ mbuf' = [mbuf EXCEPT ![u] = m]
        /\ msgstate' = [msgstate EXCEPT ![u] = 0, ![TASK_MM] = 0]
        /\ tmp' = [tmp EXCEPT ![u] = c] /\ sendto' = sendto /\ recvfrom' = recvfrom
        /\ state[u] = "RECVING" /\ pc[u] = "done"
    BY <1>1, <1>10, <2>1 DEF Deliver, Awaits, CallerInv
  <2>4. TypeOK'
    BY <1>1, <1>4, <1>7, <2>2, <2>3 DEF TypeOK, States, ServerPcs
  <2>5. state'[TASK_MM] = "RUNNABLE" /\ \A v \in Users : ~InService(v)'
    BY <1>1, <1>4, <1>5, <2>3 DEF TypeOK, InService
  <2>6. ASSUME NEW v \in Users, v # u
        PROVE  /\ state'[v] = state[v] /\ mbuf'[v] = mbuf[v] /\ msgstate'[v] = msgstate[v]
               /\ tmp'[v] = tmp[v] /\ sendto'[v] = sendto[v] /\ recvfrom'[v] = recvfrom[v]
    BY <1>1, <2>3, <2>6 DEF TypeOK
  <2>7. state'[u] = s /\ mbuf'[u] = m /\ msgstate'[u] = 0 /\ tmp'[u] = c
    BY <1>1, <1>4, <2>3 DEF TypeOK
  <2>8. SameLife
    BY <2>2, <2>3, <2>6, <2>7 DEF SameLife, Running
  <2>9. ServerInv'
    BY <1>5, <2>5 DEF ServerInv, ServerPcs, Busy
  <2>10. ASSUME NEW v \in Users PROVE CallerInv(v)'
    <3>1. CASE v = u
      BY <1>1, <1>4, <2>2, <2>3, <2>7, <3>1 DEF CallerInv, CallerPcs
    <3>2. CASE v # u
      BY <1>1, <1>4, <2>6, <3>2 DEF CallerInv, Running
    <3> QED BY <3>1, <3>2
  <2>11. CallsInv'
    <3>1. ~Outstanding(u)' /\ \A v \in Users \ {u} : Outstanding(v)' <=> Outstanding(v)
      BY <1>4, <2>2, <2>3, <2>6, <2>7 DEF Outstanding
    <3> QED BY <1>1, <1>4, <2>5, <3>1 DEF CallsInv
  <2>12. SameReplies
    <3>1. /\ Replied(u) /\ Replied(u)' /\ ResultOf(u).i1' = ResultOf(u).i1
          /\ ResultOf(u).i2' = ResultOf(u).i2
      <4>1. Replied(u) /\ Replied(u)'
        BY <1>1, <1>4, <2>2, <2>3, <2>7 DEF Replied
      <4> QED BY <1>4, <1>7, <2>5, <2>7, <4>1 DEF ResultOf
    <3>2. ASSUME NEW v \in Users, v # u
          PROVE  (Replied(v)' <=> Replied(v)) /\ ResultOf(v)' = ResultOf(v)
      BY <1>4, <2>5, <2>6, <3>2 DEF Replied, ResultOf
    <3> QED BY <1>1, <3>1, <3>2 DEF SameReplies
  <2>13. \A v \in Users : /\ state'[v] = "SLEEPING" => state[v] = "SLEEPING" \/ Zombies(v) = {}
                          /\ state[v] = "ZOMBIE" => msgstate'[v] = msgstate[v] /\ asked'[v] = asked[v]
    BY <1>1, <2>2, <2>3, <2>6, <2>7
  <2>14. LifeInv'
    BY <1>1, <1>2, <1>5, <2>8, <2>12, <2>13, MessageKeeps
  <2> QED BY <2>4, <2>9, <2>10, <2>11, <2>14 DEF IInv
<1>11. CASE BlockSending(TASK_MM, u, m)
  <2>1. /\ state' = [state EXCEPT ![TASK_MM] = "SENDING"] /\ mbuf' = [mbuf EXCEPT ![TASK_MM] = m]
        /\ sendto' = [sendto EXCEPT ![TASK_MM] = u] /\ msgstate' = [msgstate EXCEPT ![TASK_MM] = -1]
        /\ tmp' = tmp /\ recvfrom' = recvfrom
    BY <1>11 DEF BlockSending
  <2>2. TypeOK'
    BY <1>1, <1>4, <1>7, <2>1 DEF TypeOK, States, ServerPcs
  <2>3. state'[TASK_MM] = "SENDING" /\ sendto'[TASK_MM] = u /\ mbuf'[TASK_MM] = m
    BY <1>1, <1>4, <2>1 DEF TypeOK
  <2>4. ASSUME NEW v \in Users
        PROVE  /\ state'[v] = state[v] /\ mbuf'[v] = mbuf[v] /\ msgstate'[v] = msgstate[v]
               /\ sendto'[v] = sendto[v] /\ tmp'[v] = tmp[v] /\ recvfrom'[v] = recvfrom[v]
               /\ InService(v)' <=> v = u
    BY <1>1, <1>5, <2>1, <2>3 DEF TypeOK, InService
  <2>5. SameLife
    BY <2>4 DEF SameLife
  <2>6. ServerInv'
    <3>1. MayWait(u)'
      <4>1. Zombies(u)' = Zombies(u)
        BY <1>1, <2>5, SameZombies
      <4> QED BY <1>8, <2>3, <4>1 DEF MayWait
    <3> QED BY <1>5, <2>3, <3>1 DEF ServerInv, ServerPcs, Busy
  <2>7. ASSUME NEW v \in Users PROVE CallerInv(v)'
    BY <1>1, <1>4, <2>4 DEF CallerInv, Running
  <2>8. CallsInv'
    <3>1. \A v \in Users : Outstanding(v)' <=> Outstanding(v)
      BY <1>4, <2>4 DEF Outstanding
    <3> QED BY <1>1, <1>4, <2>4, <3>1 DEF CallsInv
  <2>9. SameReplies
    <3>1. ASSUME NEW v \in Users
          PROVE  /\ Replied(v)' <=> Replied(v)
                 /\ ResultOf(v).i1' = ResultOf(v).i1 /\ ResultOf(v).i2' = ResultOf(v).i2
      <4>1. Replied(v)' <=> Replied(v)
        BY <1>1, <1>4, <1>5, <2>4 DEF Replied
      <4>2. CASE v = u
        BY <1>4, <1>7, <2>3, <2>4, <4>1, <4>2 DEF ResultOf
      <4>3. CASE v # u
        BY <1>4, <2>4, <4>1, <4>3 DEF ResultOf
      <4> QED BY <4>1, <4>2, <4>3
    <3> QED BY <1>1, <3>1 DEF SameReplies
  <2>10. LifeInv'
    BY <1>1, <1>2, <1>5, <2>4, <2>5, <2>9, MessageKeeps
  <2> QED BY <2>2, <2>6, <2>7, <2>8, <2>10 DEF IInv
<1> QED BY <1>9, <1>10, <1>11 DEF SendMsg

-----------------------------------------------------------------------------
(* The memory task serves a call.                                          *)
LEMMA ServingIs ==
  ASSUME IInv, state[TASK_MM] = "RUNNABLE", pc[TASK_MM] \in {"serve", "forking"},
         NEW c, c = Caller
  PROVE  /\ c \in Users /\ c \in Proc /\ c # TASK_MM
         /\ asked[c] = mbuf[TASK_MM].op /\ asked[c] \in Calls
         /\ mbuf[TASK_MM] \in Message /\ mbuf[TASK_MM].source = c
         /\ \A v \in Users : InService(v) <=> v = c
         /\ Outstanding(c) /\ state[c] \in {"RUNNABLE", "RECVING"} /\ ~Replied(c)
<1> USE Slots
<1>1. TypeOK /\ ServerInv /\ CallsInv /\ \A v \in Users : CallerInv(v)
  BY DEF IInv
<1>2. /\ c \in Users /\ c \in Proc /\ c # TASK_MM
      /\ asked[c] = mbuf[TASK_MM].op /\ asked[c] \in Calls
  BY <1>1 DEF ServerInv, Busy
<1>3. \A v \in Users : InService(v) <=> v = c
  BY <1>2 DEF InService
<1>4. Outstanding(c) /\ state[c] \in {"RUNNABLE", "RECVING"}
  BY <1>1, <1>2, <1>3 DEF CallsInv, Outstanding
<1>5. ~Replied(c)
  BY <1>1, <1>2, <1>4 DEF Replied, Outstanding
<1>6. mbuf[TASK_MM] \in Message /\ mbuf[TASK_MM].source = c
  BY <1>1 DEF TypeOK, Caller
<1> QED BY <1>2, <1>3, <1>4, <1>5, <1>6

(* It makes its message the answer n.                                      *)
Answers(n) ==
    /\ n \in Message /\ n.source = Caller /\ n.op = mbuf[TASK_MM].op
    /\ mbuf' = [mbuf EXCEPT ![TASK_MM] = n]
    /\ n.type = "BESLEEP" => n.chan = Caller /\ Zombies(Caller) = {}
    /\ state'[TASK_MM] = "RUNNABLE" /\ pc'[TASK_MM] = "reply"
    /\ UNCHANGED <<msgstate, asked, sendto, recvfrom, tmp>>
    /\ \A v \in Users :
          \/ state'[v] = state[v] /\ pc'[v] = pc[v]
          \/ v # Caller /\ ~Running(v) /\ ~Running(v)' /\ pc'[v] = pc[v]
          \/ v # Caller /\ ~Running(v) /\ state'[v] = "RUNNABLE" /\ pc'[v] = "user"
    /\ \A v \in Users : state'[v] = "ZOMBIE" => state[v] = "ZOMBIE"

LEMMA AnswersIs ==
  ASSUME IInv, state[TASK_MM] = "RUNNABLE", pc[TASK_MM] \in {"serve", "forking"},
         NEW n, Answers(n), NEW c, c = Caller
  PROVE  /\ Caller' = c /\ Replied(c)' /\ ResultOf(c)' = n
         /\ \A v \in Users \ {c} : (Replied(v)' <=> Replied(v)) /\ ResultOf(v)' = ResultOf(v)
         /\ \A v \in Users : CallerInv(v)'
         /\ CallsInv' /\ (parent' = parent => ServerInv')
<1> USE Slots
<1>1. /\ c \in Users /\ c \in Proc /\ c # TASK_MM
      /\ asked[c] = mbuf[TASK_MM].op /\ asked[c] \in Calls
      /\ \A v \in Users : InService(v) <=> v = c
      /\ Outstanding(c) /\ state[c] \in {"RUNNABLE", "RECVING"} /\ ~Replied(c)
  BY ServingIs
<1>2. TypeOK /\ CallsInv /\ \A v \in Users : CallerInv(v)
  BY DEF IInv
<1>3. mbuf'[TASK_MM] = n /\ Caller' = c /\ \A v \in Users : mbuf'[v] = mbuf[v]
  BY <1>2 DEF Answers, TypeOK, Caller
<1>4. \A v \in Users : InService(v)' <=> v = c
  BY <1>3 DEF Answers, InService
<1>5. ASSUME NEW v \in Users PROVE Outstanding(v)' <=> Outstanding(v)
  BY DEF Answers, Outstanding, Running
<1>6. ASSUME NEW v \in Users \ {c} PROVE (Replied(v)' <=> Replied(v)) /\ ResultOf(v)' = ResultOf(v)
  <2>1. ~InService(v) /\ ~InService(v)' /\ mbuf'[v] = mbuf[v]
    BY <1>1, <1>3, <1>4
  <2>2. Replied(v)' <=> Replied(v)
    BY <2>1 DEF Answers, Replied, Running
  <2> QED BY <2>1, <2>2 DEF ResultOf
<1>7. Replied(c)' /\ ResultOf(c)' = n
  BY <1>1, <1>3, <1>4 DEF Answers, Replied, ResultOf
<1>8. ASSUME NEW v \in Users PROVE CallerInv(v)'
  <2>1. /\ CallerInv(v) /\ mbuf'[v] = mbuf[v] /\ asked'[v] = asked[v]
        /\ sendto'[v] = sendto[v] /\ recvfrom'[v] = recvfrom[v] /\ tmp'[v] = tmp[v]
        /\ msgstate'[v] = msgstate[v]
    BY <1>2, <1>3 DEF Answers
  <2>2. CASE state'[v] = state[v] /\ pc'[v] = pc[v]
    BY <2>1, <2>2 DEF CallerInv, Running
  <2>3. CASE ~Running(v) /\ pc'[v] = pc[v] /\ ~Running(v)'
    BY <2>1, <2>3 DEF CallerInv, Running
  <2>4. CASE ~Running(v) /\ state'[v] = "RUNNABLE" /\ pc'[v] = "user"
    BY <2>4 DEF CallerInv, Running, CallerPcs
  <2> QED BY <2>2, <2>3, <2>4 DEF Answers
<1>9. CallsInv'
  BY <1>2, <1>1, <1>4, <1>5 DEF CallsInv, Answers
<1>10. ASSUME parent' = parent PROVE ServerInv'
  <2>1. n.type = "BESLEEP" => n.chan = c /\ Zombies(c)' = {}
    BY <1>1, <1>10 DEF Answers, Zombies, Children
  <2> QED BY <1>1, <1>3, <2>1 DEF Answers, ServerInv, ServerPcs, Busy, MayWait
<1> QED BY <1>3, <1>6, <1>7, <1>8, <1>9, <1>10

LEMMA PidsStay ==
  ASSUME NEW a \in Nat, NEW b \in Nat, b >= a
  PROVE  \A j \in 1 .. a - 1 : j \in 1 .. b - 1
OBVIOUS

(* An answer that hands out no pid: the call has failed, or sleeps.        *)
Fails(n) ==
    /\ Answers(n) /\ n.i1 <= 0
    /\ UNCHANGED <<state, parent, newp, asked, forked, reaped>>
    /\ pc' = [pc EXCEPT ![TASK_MM] = "reply"]
    /\ pid' \in [Users -> Nat] /\ nextpid' \in Nat /\ nextpid' >= nextpid
    /\ \A v \in Users : Used(v) => pid'[v] = pid[v]

LEMMA FailKeeps ==
  ASSUME IInv, At(TASK_MM, "serve"), NEW n, Fails(n)
  PROVE  IInv'
<1> USE Slots
<1>1. /\ TypeOK /\ ServerInv /\ NoMissedChild /\ ParentInv /\ InitInv /\ PidInv /\ WaitInv
      /\ state[TASK_MM] = "RUNNABLE" /\ pc[TASK_MM] = "serve"
      /\ Answers(n) /\ pc'[TASK_MM] = "reply"
      /\ UNCHANGED <<state, parent, newp, asked, forked, reaped>>
  BY DEF IInv, LifeInv, At, Fails, Answers
<1>2. PICK c : c = Caller
  OBVIOUS
<1>3. c \in Users /\ ~Replied(c) /\ \A v \in Users : InService(v) <=> v = c
  BY <1>1, <1>2, ServingIs
<1>4. /\ Replied(c)' /\ ResultOf(c)' = n
      /\ \A v \in Users \ {c} : (Replied(v)' <=> Replied(v)) /\ ResultOf(v)' = ResultOf(v)
      /\ \A v \in Users : CallerInv(v)'
      /\ CallsInv' /\ ServerInv'
  BY <1>1, <1>2, AnswersIs
<1>5. ASSUME NEW v \in Users, NEW k
      PROVE  /\ Forks(v, k)' <=> Forks(v, k)
             /\ Reaps(v, k)' <=> Reaps(v, k)
             /\ Reaps(v, k) => ResultOf(v)' = ResultOf(v)
  <2>1. CASE v = c
    <3>1. n.i1 \in Int /\ n.i1 <= 0
      BY DEF Fails, Answers, Message
    <3>2. \A ops : ~Gets(c, ops, k) /\ ~Gets(c, ops, k)'
      BY <1>3, <1>4, <3>1 DEF Gets
    <3> QED BY <1>1, <2>1, <3>2 DEF Forks, Reaps
  <2>2. CASE v # c
    BY <1>1, <1>4, <2>2 DEF Forks, Reaps, Gets
  <2> QED BY <2>1, <2>2
<1>6. TypeOK'
  <2>1. UNCHANGED <<msgstate, sendto, recvfrom, tmp>> /\ mbuf' \in [Proc -> Message]
    BY <1>1 DEF Answers, TypeOK
  <2>2. /\ pc' \in [Proc -> CallerPcs \cup ServerPcs]
        /\ pid' \in [Users -> Nat] /\ nextpid' \in Nat
    BY <1>1 DEF Fails, TypeOK, ServerPcs
  <2> QED BY <1>1, <2>1, <2>2 DEF TypeOK
<1>7. \A v \in Users : /\ Used(v)' <=> Used(v)
                       /\ Live(v)' <=> Live(v)
                       /\ Zombies(v)' = Zombies(v)
                       /\ Used(v) => pid'[v] = pid[v]
                       /\ msgstate'[v] = msgstate[v]
  BY <1>1 DEF Used, Live, Zombies, Children, Fails, Answers
<1>8. NoMissedChild'
  BY <1>1, <1>7 DEF NoMissedChild
<1>9. ParentInv'
  BY <1>1, <1>7 DEF ParentInv, ParentAlive, Used, Live
<1>10. InitInv'
  BY <1>1, <1>5, <1>7 DEF InitInv
<1>11. nextpid \in Nat /\ nextpid' \in Nat /\ nextpid' >= nextpid
  BY <1>1 DEF TypeOK, Fails
<1>12. PidInv'
  <2>1. \A v \in Users : Used(v) => pid'[v] \in 1 .. nextpid' - 1 /\ pid'[v] \notin reaped
    <3>1. \A j \in 1 .. nextpid - 1 : j \in 1 .. nextpid' - 1
      BY <1>11, PidsStay
    <3>2. \A v \in Users : Used(v) => pid[v] \in 1 .. nextpid - 1 /\ pid[v] \notin reaped
      BY <1>1 DEF PidInv
    <3> QED BY <1>7, <3>1, <3>2, Zenon
  <2>2. \A k \in reaped : k < nextpid'
    BY <1>1, <1>11 DEF PidInv, TypeOK
  <2>3. ASSUME NEW p \in Users, Used(p), parent[p] \notin {NULL, initproc}
        PROVE  (pid[p] \in forked[parent[p]] \/ Forks(parent[p], pid[p]))'
    <3>1. PICK w \in Users : w = parent[p]
      BY <1>1, <2>3 DEF TypeOK
    <3>2. PICK k : k = pid[p] /\ k = pid'[p]
      BY <1>7, <2>3
    <3>3. k \in forked[w] \/ Forks(w, k)
      BY <1>1, <2>3, <3>1, <3>2 DEF PidInv
    <3>4. k \in forked[w] \/ Forks(w, k)'
      BY <1>5, <3>3
    <3>5. parent'[p] = w
      BY <1>1, <3>1
    <3> QED BY <1>1, <3>1, <3>2, <3>4, <3>5 DEF Forks, Gets
  <2>4. \A v \in Users : Used(v) /\ state[v] = "ZOMBIE" => msgstate'[v] = pid'[v]
    BY <1>1, <1>7 DEF PidInv
  <2>5. \A v \in Users : state[v] = "ZOMBIE" => Used(v)
    BY DEF Used
  <2> QED BY <1>1, <1>7, <2>1, <2>2, <2>3, <2>4, <2>5 DEF PidInv
<1>13. WaitInv'
  <2>1. ASSUME NEW v \in Users, NEW k \in Nat, Reaps(v, k)'
        PROVE  /\ Reaps(v, k)
               /\ ResultOf(v).i2' = k /\ k < nextpid' /\ k \notin reaped'
               /\ k \in forked'[v] \/ v = initproc
               /\ \A w \in Users : Used(w)' => pid'[w] # k
    <3>1. Reaps(v, k) /\ ResultOf(v)' = ResultOf(v)
      BY <1>5, <2>1
    <3> QED BY <1>1, <1>7, <1>11, <3>1 DEF WaitInv
  <2> QED BY <1>1, <2>1 DEF WaitInv
<1> QED BY <1>4, <1>6, <1>8, <1>9, <1>10, <1>12, <1>13 DEF IInv, LifeInv

(* The memory task's answer as the loop's epilogue forms it.               *)
LEMMA ResultIs ==
  ASSUME IInv, At(TASK_MM, "serve"), NEW i \in Int, NEW s \in Int, NEW ch \in Users \cup {NULL},
         Result(i, s, ch), UNCHANGED msgstate, Quiet,
         i = -2 => ch = Caller /\ Zombies(Caller) = {},
         \A v \in Users : state'[v] = state[v] \/ (state[v] = "ZOMBIE" /\ state'[v] = "UNUSED"),
         state'[TASK_MM] = state[TASK_MM]
  PROVE  \E n : /\ Answers(n) /\ n.i1 = i /\ n.i2 = s
                /\ pc' = [pc EXCEPT ![TASK_MM] = "reply"] /\ pc'[TASK_MM] = "reply"
                /\ \A v \in Users : pc'[v] = pc[v]
<1> USE Slots
<1>1. TypeOK /\ mbuf[TASK_MM] \in Message /\ state[TASK_MM] = "RUNNABLE"
  BY DEF IInv, TypeOK, At
<1>2. PICK n : n = [mbuf[TASK_MM] EXCEPT !.type = IF i = -2 THEN "BESLEEP" ELSE "SYSRET",
                                         !.i1 = i, !.i2 = s, !.chan = ch]
  OBVIOUS
<1>3. /\ n \in Message /\ n.source = Caller /\ n.op = mbuf[TASK_MM].op /\ n.i1 = i /\ n.i2 = s
      /\ n.chan = ch /\ n.type = IF i = -2 THEN "BESLEEP" ELSE "SYSRET"
  BY <1>1, <1>2 DEF Message, Caller
<1>4. /\ mbuf' = [mbuf EXCEPT ![TASK_MM] = n] /\ pc' = [pc EXCEPT ![TASK_MM] = "reply"]
      /\ UNCHANGED <<msgstate, asked, sendto, recvfrom, tmp>>
  BY <1>1, <1>2 DEF Result, Goto, Quiet
<1>5. pc'[TASK_MM] = "reply" /\ \A v \in Users : pc'[v] = pc[v]
  BY <1>1, <1>4 DEF TypeOK
<1>6. \A v \in Users : state[v] = "ZOMBIE" => v # Caller
  BY <1>1, ServingIs DEF At
<1>7. Answers(n)
  BY <1>1, <1>3, <1>4, <1>5, <1>6 DEF Answers, Running
<1> QED BY <1>3, <1>4, <1>5, <1>7

LEMMA FailsKeep ==
  ASSUME IInv, ForkFail \/ ExecFail \/ WaitNone
  PROVE  IInv'
<1> USE Slots
<1>1. /\ TypeOK /\ At(TASK_MM, "serve") /\ UNCHANGED <<state, msgstate, parent, newp>> /\ Quiet
      /\ state'[TASK_MM] = state[TASK_MM]
  BY DEF IInv, ForkFail, ExecFail, WaitNone, Serving, mmVars
<1>2. PICK c \in Users : c = Caller
  BY <1>1, ServingIs DEF At
<1>3. PICK i \in {-1, -2}, ch \in Users \cup {NULL} :
          Result(i, 0, ch) /\ (i = -2 => ch = c /\ Zombies(c) = {})
  BY <1>2 DEF ForkFail, ExecFail, WaitNone
<1>4. PICK n : /\ Answers(n) /\ n.i1 = i
               /\ pc' = [pc EXCEPT ![TASK_MM] = "reply"]
  BY <1>1, <1>2, <1>3, ResultIs
<1>5. /\ pid' \in [Users -> Nat] /\ nextpid' \in Nat /\ nextpid' >= nextpid
      /\ \A v \in Users : Used(v) => pid'[v] = pid[v]
  <2>1. CASE UNCHANGED <<pid, nextpid>>
    BY <1>1, <2>1 DEF TypeOK
  <2>2. CASE /\ \E p \in Users : FirstUnused(p) /\ pid' = [pid EXCEPT ![p] = nextpid]
             /\ nextpid' = nextpid + 1
    BY <1>1, <2>2 DEF TypeOK, FirstUnused, Used
  <2> QED BY <2>1, <2>2 DEF ForkFail, ExecFail, WaitNone, mmVars
<1>6. UNCHANGED <<asked, forked, reaped>>
  BY <1>1 DEF Quiet, progVars
<1>7. Fails(n)
  BY <1>1, <1>3, <1>4, <1>5, <1>6 DEF Fails
<1> QED BY <1>1, <1>7, FailKeeps

(* A dead child is reported to its parent, and its slot is free.           *)
LEMMA WaitChildKeeps ==
  ASSUME IInv, WaitChild
  PROVE  IInv'
<1> USE Slots
<1>1. /\ TypeOK /\ ServerInv /\ NoMissedChild /\ ParentInv /\ InitInv /\ PidInv /\ WaitInv
      /\ At(TASK_MM, "serve") /\ state[TASK_MM] = "RUNNABLE" /\ pc[TASK_MM] = "serve"
      /\ UNCHANGED <<msgstate, asked, sendto, recvfrom, tmp>> /\ Quiet
      /\ UNCHANGED <<parent, pid, nextpid, newp, forked, reaped>>
  BY DEF IInv, LifeInv, WaitChild, Serving, At, Quiet, mmVars, progVars
<1>2. PICK c : c = Caller
  OBVIOUS
<1>3. /\ c \in Users /\ ~Replied(c) /\ \A v \in Users : InService(v) <=> v = c
      /\ asked[c] = mbuf[TASK_MM].op /\ state[c] \in {"RUNNABLE", "RECVING"}
  BY <1>1, <1>2, ServingIs
<1>4. asked[c] \in Waited
  BY <1>3 DEF WaitChild, Serving, Waited
<1>5. PICK p \in Users : /\ parent[p] = c /\ state[p] = "ZOMBIE"
                         /\ state' = [state EXCEPT ![p] = "UNUSED"]
                         /\ Result(pid[p], msgstate[p], NULL)
  BY <1>2 DEF WaitChild, Zombies, Children
<1>6. /\ p # c /\ p # initproc /\ p # TASK_MM /\ p \in Proc
      /\ state'[TASK_MM] = "RUNNABLE" /\ state'[p] = "UNUSED"
      /\ \A v \in Users \ {p} : state'[v] = state[v]
  BY <1>1, <1>3, <1>5 DEF InitInv, TypeOK
<1>7. PICK k \in Nat : k = pid[p]
  BY <1>1 DEF TypeOK
<1>8. /\ msgstate[p] = k /\ k >= 1 /\ k < nextpid /\ k \notin reaped
      /\ \A v \in Users : Used(v) /\ v # p => pid[v] # k
      /\ c # initproc => k \in forked[c]
  <2>1. k \in 1 .. nextpid - 1 /\ k \notin reaped
    BY <1>1, <1>5, <1>7 DEF PidInv, Used
  <2>2. msgstate[p] = k /\ \A v \in Users : Used(v) /\ v # p => pid[v] # k
    BY <1>1, <1>5, <1>7 DEF PidInv, Used
  <2>3. c # initproc => k \in forked[c]
    <3>1. c # initproc => k \in forked[c] \/ Forks(c, k)
      BY <1>1, <1>3, <1>5, <1>7 DEF PidInv, Used
    <3>2. ~Forks(c, k)
      BY <1>1, <1>3 DEF Forks, Gets
    <3> QED BY <3>1, <3>2
  <2>4. nextpid \in Nat
    BY <1>1 DEF TypeOK
  <2> QED BY <2>1, <2>2, <2>3, <2>4
<1>9. PICK n : /\ Answers(n) /\ n.i1 = k /\ n.i2 = k
               /\ pc' = [pc EXCEPT ![TASK_MM] = "reply"] /\ pc'[TASK_MM] = "reply"
               /\ \A v \in Users : pc'[v] = pc[v]
  <2>1. \A v \in Users : state'[v] = state[v] \/ (state[v] = "ZOMBIE" /\ state'[v] = "UNUSED")
    BY <1>5, <1>6
  <2>2. k \in Int /\ Result(k, k, NULL) /\ k # -2
    BY <1>5, <1>7, <1>8
  <2> QED BY <1>1, <1>6, <2>1, <2>2, ResultIs
<1>10. /\ Replied(c)' /\ ResultOf(c)' = n
       /\ \A v \in Users \ {c} : (Replied(v)' <=> Replied(v)) /\ ResultOf(v)' = ResultOf(v)
       /\ \A v \in Users : CallerInv(v)'
       /\ CallsInv' /\ ServerInv'
  BY <1>1, <1>2, <1>9, AnswersIs
<1>11. ASSUME NEW v \in Users, NEW j
       PROVE  /\ Forks(v, j)' <=> Forks(v, j)
              /\ Reaps(v, j)' <=> Reaps(v, j) \/ (v = c /\ j = k)
              /\ v # c => ResultOf(v)' = ResultOf(v)
              /\ ~Reaps(c, j)
  <2>1. CASE v = c
    <3>1. ~Gets(c, {"fork"}, j) /\ ~Gets(c, {"fork"}, j)'
      BY <1>1, <1>3, <1>4, <1>10 DEF Gets, Waited
    <3>2. ~Reaps(c, j) /\ (Reaps(c, j)' <=> j = k)
      BY <1>1, <1>3, <1>4, <1>8, <1>9, <1>10 DEF Reaps, Gets
    <3> QED BY <1>1, <1>9, <2>1, <3>1, <3>2 DEF Forks
  <2>2. CASE v # c
    BY <1>1, <1>3, <1>9, <1>10, <2>2 DEF Forks, Reaps, Gets
  <2> QED BY <2>1, <2>2
<1>12. TypeOK'
  <2>1. mbuf' \in [Proc -> Message] /\ pc' \in [Proc -> CallerPcs \cup ServerPcs]
    BY <1>1, <1>9 DEF Answers, TypeOK, ServerPcs
  <2>2. state' \in [Proc -> States]
    BY <1>1, <1>5 DEF TypeOK, States
  <2> QED BY <1>1, <2>1, <2>2 DEF TypeOK
<1>13. \A v \in Users : /\ Used(v)' <=> Used(v) /\ v # p
                        /\ Live(v)' <=> Live(v)
                        /\ Zombies(v)' \subseteq Zombies(v)
                        /\ state'[v] = "ZOMBIE" => state[v] = "ZOMBIE"
                        /\ state'[v] = "EMBRYO" <=> state[v] = "EMBRYO"
                        /\ state'[v] = "SLEEPING" <=> state[v] = "SLEEPING"
  BY <1>1, <1>5, <1>6 DEF Used, Live, Zombies, Children
<1>14. NoMissedChild'
  BY <1>1, <1>13 DEF NoMissedChild
<1>15. ParentInv'
  <2>1. \A v \in Users : Used(v) /\ parent[v] # NULL => parent[v] \in Users /\ Live(parent[v])
    BY <1>1 DEF ParentInv, ParentAlive, Used, TypeOK
  <2>2. \A v \in Users : Used(v)' /\ parent[v] # NULL => Live(parent[v])'
    BY <1>1, <1>13, <2>1 DEF Live
  <2>3. \A v \in Users : state'[v] # "EMBRYO"
    BY <1>1, <1>13 DEF ParentInv, ParentAlive
  <2> QED BY <1>1, <1>9, <2>2, <2>3 DEF ParentInv, ParentAlive, Used
<1>16. InitInv'
  BY <1>1, <1>6, <1>11, <1>13 DEF InitInv
<1>17. PidInv'
  <2>1. ASSUME NEW q \in Users, Used(q), parent[q] \notin {NULL, initproc}
        PROVE  (pid[q] \in forked[parent[q]] \/ Forks(parent[q], pid[q]))'
    <3>1. PICK w \in Users : w = parent[q]
      BY <1>1, <2>1 DEF TypeOK
    <3>2. PICK j : j = pid[q]
      OBVIOUS
    <3>3. j \in forked[w] \/ Forks(w, j)
      BY <1>1, <2>1, <3>1, <3>2 DEF PidInv
    <3>4. j \in forked[w] \/ Forks(w, j)'
      BY <1>11, <3>3
    <3>5. parent'[q] = w /\ pid'[q] = j
      BY <1>1, <3>1, <3>2
    <3> QED BY <1>1, <3>1, <3>2, <3>4, <3>5 DEF Forks, Gets
  <2> QED BY <1>1, <1>13, <2>1 DEF PidInv
<1>18. WaitInv'
  <2>1. ASSUME NEW v \in Users, NEW j \in Nat, Reaps(v, j)'
        PROVE  /\ ResultOf(v).i2' = j /\ j < nextpid' /\ j \notin reaped'
               /\ j \in forked'[v] \/ v = initproc
               /\ \A w \in Users : Used(w)' => pid'[w] # j
    <3>1. CASE v = c
      BY <1>1, <1>8, <1>9, <1>10, <1>11, <1>13, <2>1, <3>1
    <3>2. CASE v # c
      <4>1. Reaps(v, j) /\ ResultOf(v)' = ResultOf(v)
        BY <1>11, <2>1, <3>2
      <4> QED BY <1>1, <1>13, <4>1 DEF WaitInv
    <3> QED BY <3>1, <3>2
  <2>2. ASSUME NEW v \in Users, NEW w \in Users, NEW j \in Nat, Reaps(v, j)', Reaps(w, j)'
        PROVE  v = w
    <3>1. \A x \in Users : ~Reaps(x, k)
      BY <1>1, <1>5, <1>7 DEF WaitInv, Used
    <3>2. /\ Reaps(v, j) \/ (v = c /\ j = k)
          /\ Reaps(w, j) \/ (w = c /\ j = k)
      BY <1>11, <2>2
    <3> QED BY <1>1, <3>1, <3>2 DEF WaitInv
  <2> QED BY <2>1, <2>2 DEF WaitInv
<1> QED BY <1>10, <1>12, <1>14, <1>15, <1>16, <1>17, <1>18 DEF IInv, LifeInv

(* A fork starts: the child's slot is taken, with the next pid.            *)
LEMMA ForkStartKeeps ==
  ASSUME IInv, ForkStart
  PROVE  IInv'
<1> USE Slots
<1>1. /\ TypeOK /\ ServerInv /\ CallsInv /\ \A v \in Users : CallerInv(v)
      /\ NoMissedChild /\ ParentInv /\ InitInv /\ PidInv /\ WaitInv
      /\ state[TASK_MM] = "RUNNABLE" /\ pc[TASK_MM] = "serve"
      /\ UNCHANGED <<msgstate, mbuf, asked, sendto, recvfrom, tmp, forked, reaped>>
      /\ nextpid' = nextpid + 1 /\ pc' = [pc EXCEPT ![TASK_MM] = "forking"]
  BY DEF IInv, LifeInv, ForkStart, Serving, At, Quiet, progVars, Goto
<1>2. PICK c : c = Caller
  OBVIOUS
<1>3. /\ c \in Users /\ ~Replied(c) /\ \A v \in Users : InService(v) <=> v = c
      /\ asked[c] = mbuf[TASK_MM].op /\ state[c] \in {"RUNNABLE", "RECVING"}
  BY <1>1, <1>2, ServingIs
<1>4. asked[c] = "fork" /\ Caller' = c
  BY <1>1, <1>2, <1>3 DEF ForkStart, Serving, Caller
<1>5. PICK p \in Users : /\ state[p] = "UNUSED" /\ state' = [state EXCEPT ![p] = "EMBRYO"]
                         /\ pid' = [pid EXCEPT ![p] = nextpid]
                         /\ parent' = [parent EXCEPT ![p] = c]
                         /\ newp' = p
  BY <1>2 DEF ForkStart, FirstUnused
<1>6. /\ p # c /\ p # initproc /\ p # TASK_MM /\ p \in Proc
      /\ state'[TASK_MM] = "RUNNABLE" /\ state'[p] = "EMBRYO"
      /\ pid'[p] = nextpid /\ parent'[p] = c
      /\ \A v \in Users \ {p} : state'[v] = state[v] /\ pid'[v] = pid[v] /\ parent'[v] = parent[v]
  BY <1>1, <1>3, <1>5 DEF InitInv, TypeOK, Used
<1>7. pc'[TASK_MM] = "forking" /\ \A v \in Users : pc'[v] = pc[v]
  BY <1>1 DEF TypeOK
<1>8. \A v \in Users : /\ InService(v)' <=> v = c
                       /\ Outstanding(v)' <=> Outstanding(v)
                       /\ ResultOf(v)' = ResultOf(v)
                       /\ Replied(v)' <=> Replied(v)
  <2>1. ASSUME NEW v \in Users PROVE (InService(v)' <=> v = c) /\ ResultOf(v)' = ResultOf(v)
    BY <1>1, <1>3, <1>4, <1>6, <1>7 DEF InService, ResultOf
  <2>2. ASSUME NEW v \in Users PROVE Outstanding(v)' <=> Outstanding(v)
    BY <1>1, <1>5, <1>6, <1>7 DEF Outstanding
  <2>3. ASSUME NEW v \in Users PROVE Replied(v)' <=> Replied(v)
    BY <1>1, <1>3, <1>5, <1>6, <1>7, <2>1 DEF Replied
  <2> QED BY <2>1, <2>2, <2>3
<1>9. ASSUME NEW v \in Users, NEW j
      PROVE  /\ Forks(v, j)' <=> Forks(v, j) \/ (v = c /\ j = nextpid)
             /\ Reaps(v, j)' <=> Reaps(v, j)
  <2>1. \A ops : Gets(v, ops, j)' <=> Gets(v, ops, j)
    BY <1>1, <1>8 DEF Gets
  <2>2. /\ (pc'[TASK_MM] = "forking" /\ Caller' = v /\ pid'[newp'] = j) <=> (v = c /\ j = nextpid)
        /\ pc[TASK_MM] # "forking"
    BY <1>1, <1>4, <1>5, <1>6, <1>7
  <2> QED BY <2>1, <2>2 DEF Forks, Reaps
<1>10. nextpid \in Nat /\ nextpid >= 1
  <2>1. pid[initproc] \in 1 .. nextpid - 1
    BY <1>1 DEF InitInv, PidInv
  <2> QED BY <1>1, <2>1 DEF TypeOK
<1>11. TypeOK'
  BY <1>1, <1>3, <1>5, <1>10 DEF TypeOK, States, ServerPcs
<1>12. \A v \in Users : /\ Used(v)' <=> Used(v) \/ v = p
                        /\ v # p => (Live(v)' <=> Live(v))
                        /\ Zombies(v)' = Zombies(v)
                        /\ state'[v] = "ZOMBIE" <=> state[v] = "ZOMBIE"
                        /\ state'[v] = "EMBRYO" => v = p \/ state[v] = "EMBRYO"
                        /\ state'[v] = "SLEEPING" <=> state[v] = "SLEEPING"
  <2>1. ASSUME NEW v \in Users PROVE Zombies(v)' = Zombies(v)
    BY <1>5, <1>6 DEF Zombies, Children
  <2> QED BY <1>5, <1>6, <2>1 DEF Used, Live
<1>13. ServerInv'
  BY <1>1, <1>3, <1>4, <1>6, <1>7 DEF ServerInv, ServerPcs, Busy
<1>14. ASSUME NEW v \in Users PROVE CallerInv(v)'
  <2>1. CASE v = p
    BY <1>1, <1>6, <1>7, <2>1 DEF CallerInv, Running
  <2>2. CASE v # p
    BY <1>1, <1>6, <1>7, <2>2 DEF CallerInv, Running
  <2> QED BY <2>1, <2>2
<1>15. CallsInv'
  BY <1>1, <1>3, <1>8 DEF CallsInv
<1>16. NoMissedChild'
  BY <1>1, <1>12 DEF NoMissedChild
<1>17. ParentInv'
  <2>1. \A v \in Users : Used(v) /\ parent[v] # NULL => parent[v] \in Users /\ Live(parent[v])
    BY <1>1 DEF ParentInv, ParentAlive, Used, TypeOK
  <2>2. Live(c)' /\ ~Live(p)
    BY <1>3, <1>5, <1>6 DEF Live
  <2>3. ASSUME NEW v \in Users, Used(v)', parent'[v] # NULL
        PROVE  Live(parent[v])' /\ parent'[v] # p
    <3>1. CASE v = p
      BY <1>6, <2>2, <3>1 DEF Live
    <3>2. CASE v # p
      <4>1. PICK w \in Users : w = parent[v] /\ Live(w)
        BY <1>6, <1>12, <2>1, <2>3, <3>2
      <4>2. w # p /\ Live(w)' /\ parent'[v] = w
        BY <1>6, <1>12, <2>2, <3>2, <4>1
      <4> QED BY <4>2 DEF Live
    <3> QED BY <3>1, <3>2
  <2>4. \A v \in Users : state'[v] = "EMBRYO" <=> v = p
    BY <1>1, <1>6, <1>12 DEF ParentInv, ParentAlive
  <2>5. ParentAlive'
    BY <1>5, <1>7, <2>3, <2>4 DEF ParentAlive, Used
  <2>6. \A v \in Users : Used(v)' => parent'[v] # p
    BY <2>3
  <2> QED BY <1>5, <1>6, <1>7, <2>5, <2>6 DEF ParentInv
<1>18. InitInv'
  <2>1. forked[initproc] # {} \/ \E k \in Nat : Forks(initproc, k)'
    <3>1. CASE \A v \in Users \ {initproc} : ~Used(v)
      <4>1. c = initproc
        BY <1>3, <3>1 DEF Used
      <4> QED BY <1>9, <1>10, <4>1
    <3>2. CASE \E k \in Nat : Forks(initproc, k)
      BY <1>9, <3>2
    <3> QED BY <1>1, <3>1, <3>2 DEF InitInv
  <2>2. forked' = forked /\ asked' = asked /\ parent'[initproc] = NULL
    BY <1>1, <1>6 DEF InitInv
  <2>3. /\ asked[initproc] = "exit" => forked[initproc] = {}
        /\ state'[initproc] = "ZOMBIE" => asked[initproc] = "exit"
        /\ Used(initproc)'
    BY <1>1, <1>12 DEF InitInv
  <2> QED BY <2>1, <2>2, <2>3 DEF InitInv
<1>19. PidInv'
  <2>1. \A v \in Users \ {p} : Used(v)' => pid'[v] \in 1 .. nextpid - 1 /\ pid'[v] \notin reaped
    BY <1>1, <1>6, <1>12 DEF PidInv
  <2>2. \A v \in Users : Used(v)' => pid'[v] \in 1 .. nextpid' - 1 /\ pid'[v] \notin reaped
    <3>1. nextpid \in 1 .. nextpid' - 1 /\ \A j \in 1 .. nextpid - 1 : j \in 1 .. nextpid' - 1
      BY <1>1, <1>10
    <3>2. nextpid \notin reaped
      BY <1>1, <1>10 DEF PidInv
    <3> QED BY <1>6, <2>1, <3>1, <3>2, Zenon
  <2>3. \A u, v \in Users : Used(u)' /\ Used(v)' /\ pid'[u] = pid'[v] => u = v
    <3>1. nextpid \notin 1 .. nextpid - 1
      BY <1>10
    <3>2. \A v \in Users \ {p} : Used(v)' => pid'[v] # pid'[p]
      BY <1>6, <2>1, <3>1
    <3> QED BY <1>1, <1>6, <1>12, <3>2 DEF PidInv
  <2>4. \A k \in reaped : k < nextpid'
    BY <1>1, <1>10 DEF PidInv, TypeOK
  <2>5. ASSUME NEW q \in Users, Used(q)', parent'[q] \notin {NULL, initproc}
        PROVE  (pid[q] \in forked[parent[q]] \/ Forks(parent[q], pid[q]))'
    <3>1. PICK w \in Users : w = parent'[q]
      BY <1>11, <2>5 DEF TypeOK
    <3>2. PICK j : j = pid'[q]
      OBVIOUS
    <3>3. j \in forked[w] \/ Forks(w, j)'
      <4>1. CASE q = p
        BY <1>6, <1>9, <3>1, <3>2, <4>1
      <4>2. CASE q # p
        <5>1. j \in forked[w] \/ Forks(w, j)
          BY <1>1, <1>6, <1>12, <2>5, <3>1, <3>2, <4>2 DEF PidInv
        <5> QED BY <1>9, <5>1
      <4> QED BY <4>1, <4>2
    <3> QED BY <1>1, <3>1, <3>2, <3>3 DEF Forks, Gets
  <2>6. \A v \in Users : state'[v] = "ZOMBIE" => msgstate'[v] = pid'[v]
    BY <1>1, <1>5, <1>6, <1>12 DEF PidInv
  <2> QED BY <1>1, <2>2, <2>3, <2>4, <2>5, <2>6 DEF PidInv
<1>20. WaitInv'
  <2>1. ASSUME NEW v \in Users, NEW j \in Nat, Reaps(v, j)'
        PROVE  /\ Reaps(v, j) /\ ResultOf(v).i2' = j /\ j < nextpid' /\ j \notin reaped'
               /\ j \in forked'[v] \/ v = initproc
               /\ \A w \in Users : Used(w)' => pid'[w] # j
    <3>1. Reaps(v, j) /\ ResultOf(v)' = ResultOf(v)
      BY <1>8, <1>9, <2>1
    <3>2. j < nextpid
      BY <1>1, <3>1 DEF WaitInv
    <3>3. j < nextpid' /\ j # nextpid
      BY <1>1, <1>10, <3>2
    <3> QED BY <1>1, <1>6, <1>12, <3>1, <3>3 DEF WaitInv
  <2> QED BY <1>1, <2>1 DEF WaitInv
<1> QED BY <1>11, <1>13, <1>14, <1>15, <1>16, <1>17, <1>18, <1>19, <1>20 DEF IInv, LifeInv

(* The fork is done: the child runs, and the caller will be told its pid.  *)
LEMMA ForkEndKeeps ==
  ASSUME IInv, ForkEnd
  PROVE  IInv'
<1> USE Slots
<1>1. /\ TypeOK /\ ServerInv /\ NoMissedChild /\ ParentInv /\ InitInv /\ PidInv /\ WaitInv
      /\ state[TASK_MM] = "RUNNABLE" /\ pc[TASK_MM] = "forking"
      /\ UNCHANGED <<msgstate, parent, pid, nextpid, sendto, recvfrom, tmp, asked, reaped>>
  BY DEF IInv, LifeInv, ForkEnd, At
<1>2. PICK c : c = Caller
  OBVIOUS
<1>3. /\ c \in Users /\ ~Replied(c) /\ \A v \in Users : InService(v) <=> v = c
      /\ asked[c] = "fork" /\ state[c] \in {"RUNNABLE", "RECVING"}
      /\ mbuf[TASK_MM] \in Message /\ mbuf[TASK_MM].source = c
  BY <1>1, <1>2, ServingIs DEF ServerInv
<1>4. PICK p \in Users \ {initproc} : p = newp
  BY <1>1 DEF ParentInv
<1>5. /\ p \in Users /\ p # initproc /\ p # TASK_MM /\ p \in Proc
      /\ state[p] = "EMBRYO" /\ p # c
      /\ \A v \in Users : state[v] = "EMBRYO" <=> v = p
      /\ \A v \in Users : Used(v) => parent[v] # p
  BY <1>1, <1>3, <1>4 DEF ParentInv, ParentAlive
<1>6. /\ state' = [state EXCEPT ![p] = "RUNNABLE"]
      /\ pc' = [pc EXCEPT ![TASK_MM] = "reply", ![p] = "user"]
      /\ forked' = [forked EXCEPT ![p] = {}] /\ newp' = NULL
      /\ mbuf' = [mbuf EXCEPT ![TASK_MM] = [@ EXCEPT !.type = "SYSRET", !.i1 = pid[p]]]
  BY <1>4 DEF ForkEnd
<1>7. /\ state'[TASK_MM] = "RUNNABLE" /\ state'[p] = "RUNNABLE" /\ pc'[TASK_MM] = "reply"
      /\ pc'[p] = "user" /\ forked'[p] = {}
      /\ \A v \in Users \ {p} : state'[v] = state[v] /\ pc'[v] = pc[v] /\ forked'[v] = forked[v]
  BY <1>1, <1>5, <1>6 DEF TypeOK
<1>8. PICK k \in Nat : k = pid[p]
  BY <1>1, <1>5 DEF TypeOK
<1>9. k >= 1
  <2>1. k \in 1 .. nextpid - 1
    BY <1>1, <1>5, <1>8 DEF PidInv, Used
  <2> QED BY <1>1, <2>1 DEF TypeOK
<1>10. PICK n : n = [mbuf[TASK_MM] EXCEPT !.type = "SYSRET", !.i1 = k]
  OBVIOUS
<1>11. /\ n \in Message /\ n.source = c /\ n.op = mbuf[TASK_MM].op /\ n.i1 = k
       /\ n.type = "SYSRET"
  <2>1. PICK m \in Message : m = mbuf[TASK_MM] /\ m.source = c
    BY <1>3
  <2>2. n = [m EXCEPT !.type = "SYSRET", !.i1 = k] /\ k \in Int
    BY <1>8, <1>10, <2>1
  <2>3. n \in Message /\ n.source = m.source /\ n.op = m.op /\ n.i1 = k /\ n.type = "SYSRET"
    BY <2>2 DEF Message
  <2> QED BY <2>1, <2>3
<1>12. mbuf' = [mbuf EXCEPT ![TASK_MM] = n]
  BY <1>1, <1>6, <1>8, <1>10 DEF TypeOK
<1>13. Answers(n)
  BY <1>1, <1>2, <1>5, <1>7, <1>11, <1>12 DEF Answers, Running
<1>14. /\ Replied(c)' /\ ResultOf(c)' = n
       /\ \A v \in Users \ {c} : (Replied(v)' <=> Replied(v)) /\ ResultOf(v)' = ResultOf(v)
       /\ \A v \in Users : CallerInv(v)'
       /\ CallsInv' /\ ServerInv'
  BY <1>1, <1>2, <1>13, AnswersIs
<1>15. ASSUME NEW v \in Users, NEW j
       PROVE  /\ Forks(v, j)' <=> Forks(v, j)
              /\ Reaps(v, j)' <=> Reaps(v, j)
              /\ Reaps(v, j) => ResultOf(v)' = ResultOf(v)
              /\ ~Reaps(c, j)
  <2>1. CASE v = c
    <3>1. Gets(c, {"fork"}, j)' <=> j = k
      BY <1>1, <1>3, <1>9, <1>11, <1>14 DEF Gets
    <3>2. ~Gets(c, {"fork"}, j) /\ ~Reaps(c, j)
      BY <1>3 DEF Gets, Reaps
    <3>3. ~Reaps(c, j)'
      BY <1>1, <1>3 DEF Gets, Reaps, Waited
    <3> QED BY <1>1, <1>2, <1>4, <1>7, <1>8, <2>1, <3>1, <3>2, <3>3 DEF Forks
  <2>2. CASE v # c
    <3>1. \A ops : Gets(v, ops, j)' <=> Gets(v, ops, j)
      BY <1>1, <1>14, <2>2 DEF Gets
    <3>2. ~Gets(c, Waited, j)
      BY <1>3 DEF Gets
    <3> QED BY <1>2, <1>7, <1>14, <2>2, <3>1, <3>2 DEF Forks, Reaps
  <2> QED BY <2>1, <2>2
<1>16. TypeOK'
  BY <1>1, <1>5, <1>6, <1>11, <1>12 DEF TypeOK, States, ServerPcs, CallerPcs
<1>17. \A v \in Users : /\ Used(v)' <=> Used(v)
                        /\ Live(v)' <=> Live(v)
                        /\ Zombies(v)' = Zombies(v)
                        /\ state'[v] = "ZOMBIE" <=> state[v] = "ZOMBIE"
                        /\ state'[v] # "EMBRYO"
                        /\ state'[v] = "SLEEPING" <=> state[v] = "SLEEPING"
  <2>1. ASSUME NEW v \in Users PROVE Zombies(v)' = Zombies(v)
    BY <1>1, <1>5, <1>7 DEF Zombies, Children
  <2> QED BY <1>5, <1>7, <2>1 DEF Used, Live
<1>18. NoMissedChild'
  BY <1>1, <1>17 DEF NoMissedChild
<1>19. ParentInv'
  <2>1. \A v \in Users : Used(v) /\ parent[v] # NULL => parent[v] \in Users /\ Live(parent[v])
    BY <1>1 DEF ParentInv, ParentAlive, Used, TypeOK
  <2>2. \A v \in Users : Used(v)' /\ parent[v] # NULL => Live(parent[v])'
    BY <1>1, <1>17, <2>1 DEF Live
  <2> QED BY <1>1, <1>7, <1>17, <2>2 DEF ParentInv, ParentAlive, Used
<1>20. InitInv'
  <2>1. forked'[initproc] = forked[initproc]
    BY <1>4, <1>7
  <2> QED BY <1>1, <1>15, <1>17, <2>1 DEF InitInv
<1>21. PidInv'
  <2>1. ASSUME NEW q \in Users, Used(q), parent[q] \notin {NULL, initproc}
        PROVE  (pid[q] \in forked[parent[q]] \/ Forks(parent[q], pid[q]))'
    <3>1. PICK w \in Users : w = parent[q]
      BY <1>1, <2>1 DEF TypeOK
    <3>2. PICK j : j = pid[q]
      OBVIOUS
    <3>3. j \in forked[w] \/ Forks(w, j)
      BY <1>1, <2>1, <3>1, <3>2 DEF PidInv
    <3>4. w # p
      BY <1>5, <2>1, <3>1
    <3>5. j \in forked'[w] \/ Forks(w, j)'
      BY <1>7, <1>15, <3>3, <3>4
    <3>6. parent'[q] = w /\ pid'[q] = j
      BY <1>1, <3>1, <3>2
    <3> QED BY <1>1, <3>5, <3>6 DEF Forks, Gets
  <2> QED BY <1>1, <1>17, <2>1 DEF PidInv
<1>22. WaitInv'
  <2>1. ASSUME NEW v \in Users, NEW j \in Nat, Reaps(v, j)'
        PROVE  /\ Reaps(v, j) /\ ResultOf(v).i2' = j /\ j < nextpid' /\ j \notin reaped'
               /\ j \in forked'[v] \/ v = initproc
               /\ \A w \in Users : Used(w)' => pid'[w] # j
    <3>1. Reaps(v, j) /\ ResultOf(v)' = ResultOf(v)
      BY <1>15, <2>1
    <3>2. v # p
      <4>1. ~InService(p) /\ ~Replied(p)
        BY <1>3, <1>5 DEF Replied
      <4> QED BY <3>1, <4>1 DEF Reaps, Gets
    <3> QED BY <1>1, <1>7, <1>17, <3>1, <3>2 DEF WaitInv
  <2> QED BY <1>1, <2>1 DEF WaitInv
<1> QED BY <1>14, <1>16, <1>18, <1>19, <1>20, <1>21, <1>22 DEF IInv, LifeInv

(* An exit starts: the caller is half dead.                                *)
LEMMA ExitStartKeeps ==
  ASSUME IInv, ExitStart
  PROVE  IInv'
<1> USE Slots
<1>1. /\ TypeOK /\ ServerInv /\ CallsInv /\ \A v \in Users : CallerInv(v)
      /\ NoMissedChild /\ ParentInv /\ InitInv /\ PidInv /\ WaitInv
      /\ state[TASK_MM] = "RUNNABLE" /\ pc[TASK_MM] = "serve"
      /\ UNCHANGED <<mbuf, asked, sendto, recvfrom, tmp, pid, nextpid, newp, forked, reaped>>
      /\ UNCHANGED <<msgstate, parent>>
      /\ pc' = [pc EXCEPT ![TASK_MM] = "exiting"]
  BY DEF IInv, LifeInv, ExitStart, Serving, At, Quiet, mmVars, progVars, Goto
<1>2. PICK c : c = Caller
  OBVIOUS
<1>3. /\ c \in Users /\ c \in Proc /\ c # TASK_MM /\ ~Replied(c)
      /\ \A v \in Users : InService(v) <=> v = c
      /\ asked[c] = mbuf[TASK_MM].op /\ state[c] \in {"RUNNABLE", "RECVING"}
  BY <1>1, <1>2, ServingIs
<1>4. asked[c] = "exit" /\ Caller' = c /\ state' = [state EXCEPT ![c] = "EMBRYO"]
  BY <1>1, <1>2, <1>3 DEF ExitStart, Serving, Caller
<1>5. /\ state'[TASK_MM] = "RUNNABLE" /\ pc'[TASK_MM] = "exiting" /\ state'[c] = "EMBRYO"
      /\ \A v \in Users : pc'[v] = pc[v] /\ (v # c => state'[v] = state[v])
  BY <1>1, <1>3, <1>4 DEF TypeOK
<1>6. \A v \in Users : /\ ~InService(v)'
                       /\ Outstanding(v)' <=> Outstanding(v) /\ v # c
                       /\ Replied(v)' <=> Replied(v)
                       /\ Replied(v) => ResultOf(v)' = ResultOf(v)
  <2>1. ASSUME NEW v \in Users PROVE ~InService(v)'
    BY <1>5 DEF InService
  <2>2. ASSUME NEW v \in Users PROVE Outstanding(v)' <=> Outstanding(v) /\ v # c
    BY <1>5 DEF Outstanding
  <2>3. ASSUME NEW v \in Users PROVE Replied(v)' <=> Replied(v)
    BY <1>1, <1>3, <1>5, <2>1 DEF Replied
  <2>4. ASSUME NEW v \in Users, Replied(v) PROVE ResultOf(v)' = ResultOf(v)
    BY <1>1, <1>3, <2>1, <2>4 DEF ResultOf
  <2> QED BY <2>1, <2>2, <2>3, <2>4
<1>7. ASSUME NEW v \in Users, NEW j
      PROVE  /\ Forks(v, j)' <=> Forks(v, j)
             /\ Reaps(v, j)' <=> Reaps(v, j)
             /\ Reaps(v, j) => ResultOf(v)' = ResultOf(v)
  <2>1. \A ops : /\ Gets(v, ops, j)' <=> Gets(v, ops, j)
                 /\ Gets(v, ops, j) => ResultOf(v)' = ResultOf(v)
    BY <1>1, <1>6 DEF Gets
  <2> QED BY <1>1, <1>5, <2>1 DEF Forks, Reaps
<1>8. TypeOK'
  BY <1>1, <1>3, <1>4 DEF TypeOK, States, ServerPcs
<1>9. \A v \in Users : /\ Used(v)' <=> Used(v)
                       /\ Live(v)' <=> Live(v)
                       /\ Zombies(v)' = Zombies(v)
                       /\ state'[v] = "ZOMBIE" <=> state[v] = "ZOMBIE"
                       /\ state'[v] = "EMBRYO" <=> v = c
                       /\ state'[v] = "SLEEPING" => state[v] = "SLEEPING"
  <2>1. ASSUME NEW v \in Users PROVE Zombies(v)' = Zombies(v)
    BY <1>1, <1>3, <1>5 DEF Zombies, Children
  <2>2. \A v \in Users : state[v] # "EMBRYO"
    BY <1>1 DEF ParentInv, ParentAlive
  <2> QED BY <1>3, <1>5, <2>1, <2>2 DEF Used, Live
<1>10. ServerInv'
  BY <1>1, <1>3, <1>4, <1>5 DEF ServerInv, ServerPcs, Busy
<1>11. ASSUME NEW v \in Users PROVE CallerInv(v)'
  <2>1. CASE v = c
    BY <1>1, <1>5, <2>1 DEF CallerInv, Running
  <2>2. CASE v # c
    BY <1>1, <1>5, <2>2 DEF CallerInv, Running
  <2> QED BY <2>1, <2>2
<1>12. CallsInv'
  BY <1>1, <1>3, <1>6 DEF CallsInv
<1>13. NoMissedChild'
  BY <1>1, <1>9 DEF NoMissedChild
<1>14. ParentInv'
  <2>1. \A v \in Users : Used(v) /\ parent[v] # NULL => parent[v] \in Users /\ Live(parent[v])
    BY <1>1 DEF ParentInv, ParentAlive, Used, TypeOK
  <2>2. \A v \in Users : Used(v)' /\ parent[v] # NULL => Live(parent[v])'
    BY <1>1, <1>9, <2>1 DEF Live
  <2> QED BY <1>1, <1>4, <1>5, <1>9, <2>2 DEF ParentInv, ParentAlive, Used
<1>15. InitInv'
  BY <1>1, <1>7, <1>9 DEF InitInv
<1>16. PidInv'
  <2>1. ASSUME NEW q \in Users, Used(q), parent[q] \notin {NULL, initproc}
        PROVE  (pid[q] \in forked[parent[q]] \/ Forks(parent[q], pid[q]))'
    <3>1. PICK w \in Users : w = parent[q]
      BY <1>1, <2>1 DEF TypeOK
    <3>2. PICK j : j = pid[q]
      OBVIOUS
    <3>3. j \in forked[w] \/ Forks(w, j)
      BY <1>1, <2>1, <3>1, <3>2 DEF PidInv
    <3>4. j \in forked'[w] \/ Forks(w, j)'
      BY <1>1, <1>7, <3>3
    <3>5. parent'[q] = w /\ pid'[q] = j
      BY <1>1, <3>1, <3>2
    <3> QED BY <1>1, <3>4, <3>5 DEF Forks, Gets
  <2> QED BY <1>1, <1>9, <2>1 DEF PidInv
<1>17. WaitInv'
  <2>1. ASSUME NEW v \in Users, NEW j \in Nat, Reaps(v, j)'
        PROVE  /\ Reaps(v, j) /\ ResultOf(v).i2' = j /\ j < nextpid' /\ j \notin reaped'
               /\ j \in forked'[v] \/ v = initproc
               /\ \A w \in Users : Used(w)' => pid'[w] # j
    <3>1. Reaps(v, j) /\ ResultOf(v)' = ResultOf(v)
      BY <1>7, <2>1
    <3> QED BY <1>1, <1>9, <3>1 DEF WaitInv
  <2> QED BY <1>1, <2>1 DEF WaitInv
<1> QED BY <1>8, <1>10, <1>11, <1>12, <1>13, <1>14, <1>15, <1>16, <1>17 DEF IInv, LifeInv

(* A step of a process that is neither in service nor replied to moves no  *)
(* call.                                                                   *)
SameCalls ==
    \A v \in Users : /\ Replied(v)' <=> Replied(v)
                     /\ Replied(v) => ResultOf(v)' = ResultOf(v)
                     /\ Outstanding(v)' <=> Outstanding(v)
                     /\ InService(v)' <=> InService(v)

LEMMA SameCallsIs ==
  ASSUME UNCHANGED <<mbuf, asked, pid, newp>>, SameCalls,
         pc[TASK_MM] # "forking", pc'[TASK_MM] # "forking",
         NEW v \in Users, NEW j
  PROVE  /\ Forks(v, j)' <=> Forks(v, j)
         /\ Reaps(v, j)' <=> Reaps(v, j)
         /\ Reaps(v, j) => ResultOf(v)' = ResultOf(v)
<1>1. \A ops : /\ Gets(v, ops, j)' <=> Gets(v, ops, j)
               /\ Gets(v, ops, j) => ResultOf(v)' = ResultOf(v)
  BY DEF SameCalls, Gets
<1> QED BY <1>1 DEF Forks, Reaps

LEMMA ExitingIs ==
  ASSUME IInv, state[TASK_MM] = "RUNNABLE", pc[TASK_MM] \in {"exiting", "dying"},
         NEW c, c = Caller
  PROVE  /\ c \in Users /\ c \in Proc /\ c # TASK_MM
         /\ asked[c] = "exit" /\ state[c] = "EMBRYO"
         /\ \A v \in Users : state[v] = "EMBRYO" <=> v = c
         /\ \A v \in Users : ~InService(v) /\ (state[v] = "SLEEPING" => tmp[v] = v /\ pc[v] = "done")
         /\ ~Replied(c)
         /\ \A v \in Users : Used(v) => v = c \/ c # initproc
<1> USE Slots
<1>1. TypeOK /\ ServerInv /\ ParentInv /\ InitInv /\ \A v \in Users : CallerInv(v)
  BY DEF IInv, LifeInv
<1>2. c \in Users /\ c \in Proc /\ c # TASK_MM /\ asked[c] = "exit"
  BY <1>1 DEF ServerInv, Busy
<1>3. state[c] = "EMBRYO" /\ \A v \in Users : state[v] = "EMBRYO" <=> v = c
  BY <1>1, <1>2 DEF ParentInv, ParentAlive
<1>4. \A v \in Users : ~InService(v) /\ (state[v] = "SLEEPING" => tmp[v] = v /\ pc[v] = "done")
  BY <1>1 DEF InService, CallerInv
<1>5. ~Replied(c)
  BY <1>2, <1>3, <1>4 DEF Replied
<1>6. ASSUME c = initproc, NEW v \in Users, Used(v) PROVE v = c
  <2>1. \A k : ~Forks(c, k)
    BY <1>1, <1>2, <1>5 DEF Forks, Gets
  <2> QED BY <1>1, <1>2, <1>6, <2>1 DEF InitInv
<1> QED BY <1>2, <1>3, <1>4, <1>5, <1>6

(* The children of the process that exits go to initproc.                  *)
LEMMA ReparentKeeps ==
  ASSUME IInv, Reparent
  PROVE  IInv'
<1> USE Slots
<1>1. /\ TypeOK /\ ServerInv /\ CallsInv /\ \A v \in Users : CallerInv(v)
      /\ NoMissedChild /\ ParentInv /\ InitInv /\ PidInv /\ WaitInv
      /\ state[TASK_MM] = "RUNNABLE" /\ pc[TASK_MM] = "exiting"
      /\ UNCHANGED <<mbuf, asked, sendto, recvfrom, tmp, pid, nextpid, newp, forked, reaped>>
      /\ msgstate' = msgstate
      /\ pc' = [pc EXCEPT ![TASK_MM] = "dying"]
  BY DEF IInv, LifeInv, Reparent, At, Quiet, mmVars, progVars, Goto
<1>2. PICK c : c = Caller
  OBVIOUS
<1>3. /\ c \in Users /\ c \in Proc /\ c # TASK_MM /\ asked[c] = "exit" /\ state[c] = "EMBRYO"
      /\ \A v \in Users : state[v] = "EMBRYO" <=> v = c
      /\ \A v \in Users : ~InService(v) /\ (state[v] = "SLEEPING" => tmp[v] = v /\ pc[v] = "done")
      /\ ~Replied(c)
      /\ \A v \in Users : Used(v) => v = c \/ c # initproc
  BY <1>1, <1>2, ExitingIs
<1>4. pc'[TASK_MM] = "dying" /\ Caller' = c /\ \A v \in Users : pc'[v] = pc[v]
  BY <1>1, <1>2 DEF TypeOK, Caller
<1>5. parent' = [p \in Users |-> IF parent[p] = c THEN initproc ELSE parent[p]]
  BY <1>2 DEF Reparent, Heir
<1>6. /\ state' \in [Proc -> States] /\ state'[TASK_MM] = "RUNNABLE"
      /\ \A v \in Users : \/ state'[v] = state[v]
                          \/ v = initproc /\ state[v] = "SLEEPING" /\ state'[v] = "RUNNABLE"
      /\ state'[initproc] = "SLEEPING" => \A p \in Users : parent[p] = c => state[p] # "ZOMBIE"
  <2>1. state' = IF \E p \in Children(c) : state[p] = "ZOMBIE" THEN WakeUp({initproc}) ELSE state
    BY <1>2 DEF Reparent, InitTold
  <2>2. CASE \E p \in Children(c) : state[p] = "ZOMBIE"
    <3>1. state' = [p \in Proc |-> IF state[p] = "SLEEPING" /\ tmp[p] = initproc
                                   THEN "RUNNABLE" ELSE state[p]]
      BY <2>1, <2>2 DEF WakeUp
    <3>2. state' \in [Proc -> States] /\ state'[TASK_MM] = "RUNNABLE"
      BY <1>1, <3>1 DEF TypeOK, States
    <3>3. \A v \in Users : \/ state'[v] = state[v]
                           \/ v = initproc /\ state[v] = "SLEEPING" /\ state'[v] = "RUNNABLE"
      BY <1>3, <3>1
    <3>4. state'[initproc] # "SLEEPING"
      BY <1>3, <3>1
    <3> QED BY <3>2, <3>3, <3>4
  <2>3. CASE ~(\E p \in Children(c) : state[p] = "ZOMBIE")
    BY <1>1, <2>1, <2>3 DEF Children, TypeOK
  <2> QED BY <2>2, <2>3
<1>7. SameCalls
  <2>1. ASSUME NEW v \in Users PROVE ~InService(v)'
    BY <1>4 DEF InService
  <2>2. ASSUME NEW v \in Users PROVE Outstanding(v)' <=> Outstanding(v)
    BY <1>3, <1>4, <1>6 DEF Outstanding
  <2>3. ASSUME NEW v \in Users PROVE Replied(v)' <=> Replied(v)
    BY <1>1, <1>3, <1>4, <1>6, <2>1 DEF Replied
  <2>4. ASSUME NEW v \in Users PROVE ResultOf(v)' = ResultOf(v)
    BY <1>1, <1>3, <2>1 DEF ResultOf
  <2> QED BY <1>3, <2>1, <2>2, <2>3, <2>4 DEF SameCalls
<1>8. ASSUME NEW v \in Users, NEW j
      PROVE  /\ Forks(v, j)' <=> Forks(v, j)
             /\ Reaps(v, j)' <=> Reaps(v, j)
             /\ Reaps(v, j) => ResultOf(v)' = ResultOf(v)
  BY <1>1, <1>4, <1>7, SameCallsIs
<1>9. TypeOK'
  <2>1. pc' \in [Proc -> CallerPcs \cup ServerPcs]
    BY <1>1 DEF TypeOK, ServerPcs
  <2>2. parent' \in [Users -> Users \cup {NULL}]
    BY <1>1, <1>5 DEF TypeOK
  <2> QED BY <1>1, <1>6, <2>1, <2>2 DEF TypeOK
<1>10. \A v \in Users : /\ Used(v)' <=> Used(v)
                        /\ Live(v)' <=> Live(v)
                        /\ state'[v] = "ZOMBIE" <=> state[v] = "ZOMBIE"
                        /\ state'[v] = "EMBRYO" <=> v = c
                        /\ state'[v] = "SLEEPING" => state[v] = "SLEEPING"
  BY <1>3, <1>6 DEF Used, Live
<1>11. ServerInv'
  BY <1>1, <1>3, <1>4, <1>6 DEF ServerInv, ServerPcs, Busy
<1>12. ASSUME NEW v \in Users PROVE CallerInv(v)'
  <2>1. CASE state'[v] = state[v]
    BY <1>1, <1>4, <2>1 DEF CallerInv, Running
  <2>2. CASE state[v] = "SLEEPING" /\ state'[v] = "RUNNABLE"
    BY <1>1, <1>4, <2>2 DEF CallerInv, Running
  <2> QED BY <1>6, <2>1, <2>2
<1>13. CallsInv'
  BY <1>1, <1>7 DEF CallsInv, SameCalls
<1>14. NoMissedChild'
  <2> SUFFICES ASSUME NEW u \in Users, state'[u] = "SLEEPING", NEW p \in Users,
                      parent'[p] = u, state'[p] = "ZOMBIE"
               PROVE  FALSE
    BY DEF NoMissedChild, Zombies, Children
  <2>1. state[u] = "SLEEPING" /\ state[p] = "ZOMBIE"
    BY <1>10
  <2>2. parent[p] # u
    BY <1>1, <2>1 DEF NoMissedChild, Zombies, Children
  <2>3. parent[p] = c /\ u = initproc
    BY <1>5, <2>2
  <2> QED BY <1>6, <2>1, <2>3
<1>15. Live(initproc)
  <2>1. \A k : asked[initproc] = "exit" => ~Forks(initproc, k)
    BY <1>1 DEF Forks, Gets
  <2>2. Used(c) /\ (c = initproc => state[initproc] # "ZOMBIE")
    BY <1>3 DEF Used
  <2>3. state[initproc] # "ZOMBIE" /\ Used(initproc)
    BY <1>1, <1>3, <2>1, <2>2 DEF InitInv
  <2> QED BY <2>3 DEF Used, Live
<1>16. ASSUME NEW v \in Users, Used(v), parent'[v] # NULL
       PROVE  parent'[v] # c /\ Live(parent[v])'
  <2>1. PICK w : w = parent'[v]
    OBVIOUS
  <2>2. w # c /\ w \in Users /\ Live(w)
    <3>1. CASE parent[v] = c
      <4>1. c # initproc
        BY <1>1, <1>3, <1>16, <3>1 DEF InitInv
      <4> QED BY <1>3, <1>5, <1>15, <1>16, <2>1, <3>1, <4>1
    <3>2. CASE parent[v] # c
      BY <1>1, <1>5, <1>16, <2>1, <3>2 DEF ParentInv, ParentAlive, Used, TypeOK
    <3> QED BY <3>1, <3>2
  <2>3. Live(w)'
    BY <1>10, <2>2
  <2> QED BY <2>1, <2>2, <2>3 DEF Live
<1>17. ParentInv'
  <2>1. ParentAlive'
    BY <1>1, <1>4, <1>10, <1>16 DEF ParentAlive, Used
  <2>2. \A v \in Users : Used(v)' => parent'[v] # c
    BY <1>3, <1>10, <1>16
  <2> QED BY <1>4, <2>1, <2>2 DEF ParentInv
<1>18. InitInv'
  <2>1. parent'[initproc] = NULL
    BY <1>1, <1>3, <1>5 DEF InitInv
  <2> QED BY <1>1, <1>8, <1>10, <2>1 DEF InitInv
<1>19. PidInv'
  <2>1. ASSUME NEW q \in Users, Used(q), parent'[q] \notin {NULL, initproc}
        PROVE  (pid[q] \in forked[parent[q]] \/ Forks(parent[q], pid[q]))'
    <3>1. PICK w \in Users : w = parent[q] /\ w = parent'[q]
      BY <1>1, <1>5, <2>1 DEF TypeOK
    <3>2. PICK j : j = pid[q]
      OBVIOUS
    <3>3. j \in forked[w] \/ Forks(w, j)
      BY <1>1, <2>1, <3>1, <3>2 DEF PidInv
    <3>4. j \in forked'[w] \/ Forks(w, j)'
      BY <1>1, <1>8, <3>3
    <3>5. parent'[q] = w /\ pid'[q] = j
      BY <1>1, <3>1, <3>2
    <3> QED BY <1>1, <3>4, <3>5 DEF Forks, Gets
  <2> QED BY <1>1, <1>10, <2>1 DEF PidInv
<1>20. WaitInv'
  <2>1. ASSUME NEW v \in Users, NEW j \in Nat, Reaps(v, j)'
        PROVE  /\ Reaps(v, j) /\ ResultOf(v).i2' = j /\ j < nextpid' /\ j \notin reaped'
               /\ j \in forked'[v] \/ v = initproc
               /\ \A w \in Users : Used(w)' => pid'[w] # j
    <3>1. Reaps(v, j) /\ ResultOf(v)' = ResultOf(v)
      BY <1>8, <2>1
    <3> QED BY <1>1, <1>10, <3>1 DEF WaitInv
  <2> QED BY <1>1, <2>1 DEF WaitInv
<1> QED BY <1>9, <1>11, <1>12, <1>13, <1>14, <1>17, <1>18, <1>19, <1>20 DEF IInv, LifeInv

(* The exit ends: the caller is a dead child.                              *)
LEMMA ExitEndKeeps ==
  ASSUME IInv, ExitEnd
  PROVE  IInv'
<1> USE Slots
<1>1. /\ TypeOK /\ ServerInv /\ CallsInv /\ \A v \in Users : CallerInv(v)
      /\ NoMissedChild /\ ParentInv /\ InitInv /\ PidInv /\ WaitInv
      /\ state[TASK_MM] = "RUNNABLE" /\ pc[TASK_MM] = "dying"
      /\ UNCHANGED <<mbuf, asked, sendto, recvfrom, tmp, pid, nextpid, newp, forked, reaped>>
      /\ parent' = parent
      /\ pc' = [pc EXCEPT ![TASK_MM] = "recv"]
  BY DEF IInv, LifeInv, ExitEnd, At, Quiet, mmVars, progVars, Goto
<1>2. PICK c : c = Caller
  OBVIOUS
<1>3. /\ c \in Users /\ c \in Proc /\ c # TASK_MM /\ asked[c] = "exit" /\ state[c] = "EMBRYO"
      /\ \A v \in Users : state[v] = "EMBRYO" <=> v = c
      /\ \A v \in Users : ~InService(v) /\ (state[v] = "SLEEPING" => tmp[v] = v /\ pc[v] = "done")
      /\ ~Replied(c)
  BY <1>1, <1>2, ExitingIs
<1>4. pc'[TASK_MM] = "recv" /\ \A v \in Users : pc'[v] = pc[v]
  BY <1>1 DEF TypeOK
<1>5. msgstate' = [msgstate EXCEPT ![c] = pid[c]]
  BY <1>2 DEF ExitEnd
<1>6. /\ state' \in [Proc -> States] /\ state'[TASK_MM] = "RUNNABLE" /\ state'[c] = "ZOMBIE"
      /\ \A v \in Users : v # c =>
            \/ state'[v] = state[v] /\ (state[v] = "SLEEPING" => v # parent[c])
            \/ state[v] = "SLEEPING" /\ state'[v] = "RUNNABLE"
  <2>1. PICK w : w = parent[c]
    OBVIOUS
  <2>2. state' = [[p \in Proc |-> IF state[p] = "SLEEPING" /\ tmp[p] = w
                                  THEN "RUNNABLE" ELSE state[p]] EXCEPT ![c] = "ZOMBIE"]
    BY <1>2, <2>1 DEF ExitEnd, WakeUp
  <2>3. state' \in [Proc -> States] /\ state'[TASK_MM] = "RUNNABLE" /\ state'[c] = "ZOMBIE"
    BY <1>1, <1>3, <2>2 DEF TypeOK, States
  <2>4. \A v \in Users : v # c =>
            \/ state'[v] = state[v] /\ (state[v] = "SLEEPING" => v # w)
            \/ state[v] = "SLEEPING" /\ state'[v] = "RUNNABLE"
    BY <1>1, <1>3, <2>2
  <2> QED BY <2>1, <2>3, <2>4
<1>7. /\ msgstate'[c] = pid[c] /\ msgstate' \in [Proc -> Int]
      /\ \A v \in Users : v # c => msgstate'[v] = msgstate[v]
  BY <1>1, <1>3, <1>5 DEF TypeOK
<1>8. SameCalls
  <2>1. ASSUME NEW v \in Users PROVE ~InService(v)'
    BY <1>4, <1>6 DEF InService
  <2>2. ASSUME NEW v \in Users PROVE Outstanding(v)' <=> Outstanding(v)
    BY <1>3, <1>4, <1>6 DEF Outstanding
  <2>3. ASSUME NEW v \in Users PROVE Replied(v)' <=> Replied(v)
    BY <1>3, <1>4, <1>6, <1>7, <2>1 DEF Replied
  <2>4. ASSUME NEW v \in Users PROVE ResultOf(v)' = ResultOf(v)
    BY <1>1, <1>3, <2>1 DEF ResultOf
  <2> QED BY <1>3, <2>1, <2>2, <2>3, <2>4 DEF SameCalls
<1>9. ASSUME NEW v \in Users, NEW j
      PROVE  /\ Forks(v, j)' <=> Forks(v, j)
             /\ Reaps(v, j)' <=> Reaps(v, j)
             /\ Reaps(v, j) => ResultOf(v)' = ResultOf(v)
  BY <1>1, <1>4, <1>8, SameCallsIs
<1>10. TypeOK'
  <2>1. pc' \in [Proc -> CallerPcs \cup ServerPcs]
    BY <1>1 DEF TypeOK, ServerPcs
  <2> QED BY <1>1, <1>6, <1>7, <2>1 DEF TypeOK
<1>11. \A v \in Users : /\ Used(v)' <=> Used(v)
                        /\ v # c => (Live(v)' <=> Live(v))
                        /\ v # c => (state'[v] = "ZOMBIE" <=> state[v] = "ZOMBIE")
                        /\ state'[v] # "EMBRYO"
                        /\ state'[v] = "SLEEPING" => state[v] = "SLEEPING" /\ v # parent[c]
  BY <1>3, <1>6 DEF Used, Live
<1>12. ServerInv'
  BY <1>4, <1>6 DEF ServerInv, ServerPcs, Busy
<1>13. ASSUME NEW v \in Users PROVE CallerInv(v)'
  <2>1. CASE v = c
    BY <1>1, <1>4, <1>6, <2>1 DEF CallerInv, Running
  <2>2. CASE v # c /\ state'[v] = state[v]
    BY <1>1, <1>4, <1>7, <2>2 DEF CallerInv, Running
  <2>3. CASE state[v] = "SLEEPING" /\ state'[v] = "RUNNABLE"
    BY <1>1, <1>4, <2>3 DEF CallerInv, Running
  <2> QED BY <1>6, <2>1, <2>2, <2>3
<1>14. CallsInv'
  BY <1>1, <1>8 DEF CallsInv, SameCalls
<1>15. NoMissedChild'
  <2> SUFFICES ASSUME NEW u \in Users, state'[u] = "SLEEPING", NEW p \in Users,
                      parent'[p] = u, state'[p] = "ZOMBIE"
               PROVE  FALSE
    BY DEF NoMissedChild, Zombies, Children
  <2>1. state[u] = "SLEEPING" /\ u # parent[c]
    BY <1>11
  <2>2. p # c /\ parent[p] = u /\ state[p] = "ZOMBIE"
    BY <1>1, <1>11, <2>1
  <2> QED BY <1>1, <2>1, <2>2 DEF NoMissedChild, Zombies, Children
<1>16. ParentInv'
  <2>1. ASSUME NEW v \in Users, Used(v)', parent'[v] # NULL PROVE Live(parent[v])'
    <3>1. PICK w : w = parent[v]
      OBVIOUS
    <3>2. w # c /\ w \in Users /\ Live(w)
      BY <1>1, <1>2, <1>11, <2>1, <3>1 DEF ParentInv, ParentAlive, Used, TypeOK
    <3>3. Live(w)' /\ parent'[v] = w
      BY <1>1, <1>11, <3>1, <3>2
    <3> QED BY <3>3 DEF Live
  <2> QED BY <1>4, <1>11, <2>1 DEF ParentInv, ParentAlive, Used
<1>17. InitInv'
  <2>1. state'[initproc] = "ZOMBIE" => asked[initproc] = "exit"
    BY <1>1, <1>3, <1>11 DEF InitInv
  <2> QED BY <1>1, <1>9, <1>11, <2>1 DEF InitInv
<1>18. PidInv'
  <2>1. ASSUME NEW q \in Users, Used(q), parent[q] \notin {NULL, initproc}
        PROVE  (pid[q] \in forked[parent[q]] \/ Forks(parent[q], pid[q]))'
    <3>1. PICK w \in Users : w = parent[q]
      BY <1>1, <2>1 DEF TypeOK
    <3>2. PICK j : j = pid[q]
      OBVIOUS
    <3>3. j \in forked[w] \/ Forks(w, j)
      BY <1>1, <2>1, <3>1, <3>2 DEF PidInv
    <3>4. j \in forked'[w] \/ Forks(w, j)'
      BY <1>1, <1>9, <3>3
    <3>5. parent'[q] = w /\ pid'[q] = j
      BY <1>1, <3>1, <3>2
    <3> QED BY <1>1, <3>4, <3>5 DEF Forks, Gets
  <2>2. \A v \in Users : state'[v] = "ZOMBIE" => msgstate'[v] = pid[v]
    BY <1>1, <1>7, <1>11 DEF PidInv
  <2> QED BY <1>1, <1>11, <2>1, <2>2 DEF PidInv
<1>19. WaitInv'
  <2>1. ASSUME NEW v \in Users, NEW j \in Nat, Reaps(v, j)'
        PROVE  /\ Reaps(v, j) /\ ResultOf(v).i2' = j /\ j < nextpid' /\ j \notin reaped'
               /\ j \in forked'[v] \/ v = initproc
               /\ \A w \in Users : Used(w)' => pid'[w] # j
    <3>1. Reaps(v, j) /\ ResultOf(v)' = ResultOf(v)
      BY <1>9, <2>1
    <3> QED BY <1>1, <1>11, <3>1 DEF WaitInv
  <2> QED BY <1>1, <2>1 DEF WaitInv
<1> QED BY <1>10, <1>12, <1>13, <1>14, <1>15, <1>16, <1>17, <1>18, <1>19 DEF IInv, LifeInv

(* A successful exec is not answered.                                      *)
LEMMA ExecDoneKeeps ==
  ASSUME IInv, ExecDone
  PROVE  IInv'
<1> USE Slots
<1>1. /\ TypeOK /\ ServerInv /\ CallsInv /\ LifeInv /\ \A v \in Users : CallerInv(v)
      /\ state[TASK_MM] = "RUNNABLE" /\ pc[TASK_MM] = "serve"
      /\ UNCHANGED <<mbuf, asked, sendto, recvfrom, tmp, msgstate>>
      /\ UNCHANGED <<mmVars, progVars>>
      /\ UNCHANGED <<parent, pid, nextpid, newp, forked, reaped>>
      /\ pc' = [pc EXCEPT ![TASK_MM] = "recv"]
  BY DEF IInv, ExecDone, Serving, At, Quiet, mmVars, progVars, Goto
<1>2. PICK c : c = Caller
  OBVIOUS
<1>3. /\ c \in Users /\ c \in Proc /\ c # TASK_MM /\ ~Replied(c)
      /\ \A v \in Users : InService(v) <=> v = c
      /\ asked[c] = mbuf[TASK_MM].op /\ state[c] \in {"RUNNABLE", "RECVING"}
      /\ Outstanding(c) /\ asked[c] \in Calls
  BY <1>1, <1>2, ServingIs
<1>4. asked[c] = "exec" /\ state' = [state EXCEPT ![c] = "RUNNABLE"]
  BY <1>2, <1>3 DEF ExecDone, Serving
<1>5. /\ state'[TASK_MM] = "RUNNABLE" /\ pc'[TASK_MM] = "recv" /\ state'[c] = "RUNNABLE"
      /\ \A v \in Users : pc'[v] = pc[v] /\ (v # c => state'[v] = state[v])
  BY <1>1, <1>3, <1>4 DEF TypeOK
<1>6. TypeOK'
  BY <1>1, <1>3, <1>4 DEF TypeOK, States, ServerPcs
<1>7. ServerInv'
  BY <1>5 DEF ServerInv, ServerPcs, Busy
<1>8. \A v \in Users : ~InService(v)'
  BY <1>5 DEF InService
<1>9. ASSUME NEW v \in Users PROVE CallerInv(v)'
  <2>1. CASE v = c
    BY <1>1, <1>3, <1>5, <2>1 DEF CallerInv, Running
  <2>2. CASE v # c
    BY <1>1, <1>5, <2>2 DEF CallerInv, Running
  <2> QED BY <2>1, <2>2
<1>10. CallsInv'
  <2>1. \A v \in Users : v # c => (Outstanding(v)' <=> Outstanding(v))
    BY <1>5 DEF Outstanding
  <2> QED BY <1>1, <1>3, <1>4, <1>8, <2>1 DEF CallsInv
<1>11. SameLife
  BY <1>3, <1>5 DEF SameLife, Running
<1>12. SamePlace
  BY <1>1, <1>5 DEF SamePlace
<1>13. SameReplies
  <2>1. ~Replied(c)'
    <3>1. pc[c] = "done" => msgstate[c] = -1
      BY <1>1, <1>3 DEF Outstanding, CallerInv
    <3>2. pc[c] \in {"wait", "done"}
      BY <1>3 DEF Outstanding
    <3> QED BY <1>1, <1>3, <1>5, <1>8, <3>1, <3>2 DEF Replied
  <2>2. ASSUME NEW v \in Users, v # c
        PROVE  (Replied(v)' <=> Replied(v)) /\ ResultOf(v)' = ResultOf(v)
    BY <1>1, <1>3, <1>5, <1>8, <2>2 DEF Replied, ResultOf
  <2> QED BY <1>1, <1>3, <2>1, <2>2 DEF SameReplies
<1>14. asked'[initproc] = "exit" => forked[initproc] = {}
  BY <1>1 DEF LifeInv, InitInv
<1>15. \A v \in Users : state'[v] = "SLEEPING" => state[v] = "SLEEPING"
  BY <1>5
<1>16. LifeInv'
  BY <1>1, <1>11, <1>12, <1>13, <1>14, <1>15, MessageKeeps
<1> QED BY <1>6, <1>7, <1>9, <1>10, <1>16 DEF IInv

-----------------------------------------------------------------------------
LEMMA NextIInv == IInv /\ [Next]_vars => IInv'
<1> SUFFICES ASSUME IInv, [Next]_vars PROVE IInv'
  OBVIOUS
<1>1. ASSUME NEW u \in Users, UserStep(u) PROVE IInv'
  BY <1>1, UserStepKeeps
<1>2. CASE MmStep
  BY <1>2, MmRecvKeeps, ForkStartKeeps, FailsKeep, ForkEndKeeps, ExitStartKeeps, ReparentKeeps,
     ExitEndKeeps, WaitChildKeeps, ExecDoneKeeps, MmReplyKeeps DEF MmStep
<1>3. CASE UNCHANGED vars
  BY <1>3 DEF vars, msgVars, mmVars, progVars, IInv, TypeOK, ServerInv, Busy, Caller, MayWait,
     Zombies, Children, CallerInv, Running, CallsInv, InService, Outstanding, LifeInv,
     NoMissedChild, ParentInv, ParentAlive, Live, InitInv, PidInv, WaitInv, Used, Forks, Reaps,
     Gets, Replied, ResultOf
<1> QED BY <1>1, <1>2, <1>3 DEF Next

LEMMA InvIsInvariant == Spec => []IInv
<1> QED BY InitIInv, NextIInv, PTL DEF Spec

-----------------------------------------------------------------------------
(* A parent lives at least as long as its children are in the table, and a *)
(* slot that is half made or half dead belongs to the fork or the exit     *)
(* that do_fork or do_exit is in (mm/proc.c).                              *)
THEOREM ParentsLive == Spec => []ParentAlive
<1>1. IInv => ParentAlive
  BY DEF IInv, LifeInv, ParentInv
<1> QED BY <1>1, InvIsInvariant, PTL

(* Nobody sleeps in wait over a dead child: do_wait, do_exit and the hand- *)
(* over to initproc never miss each other, whatever the message calls do   *)
(* in between.                                                             *)
THEOREM ChildrenSeen == Spec => []NoMissedChild
<1>1. IInv => NoMissedChild
  BY DEF IInv, LifeInv
<1> QED BY <1>1, InvIsInvariant, PTL

(* The memory task holds exactly the calls whose callers wait, except that *)
(* exec may leave its caller waiting (mm/main.c's loop and sendrecv).      *)
THEOREM CallsKept == Spec => []NoCallLost
<1>1. IInv => NoCallLost
  BY DEF IInv, CallsInv, NoCallLost
<1> QED BY <1>1, InvIsInvariant, PTL

(* wait returns the pid and the status of a child of its own, and no pid   *)
(* to two callers or twice (do_wait, mm/proc.c).                           *)
THEOREM WaitIsRight == Spec => []WaitReturnsOwnChild
<1>1. IInv => WaitReturnsOwnChild
  <2> SUFFICES ASSUME IInv PROVE WaitReturnsOwnChild
    OBVIOUS
  <2> USE Slots
  <2>1. TypeOK /\ CallsInv /\ WaitInv
    BY DEF IInv, LifeInv
  <2>2. ASSUME NEW u \in Users, WaitReply(u)
        PROVE  Reaps(u, mbuf[u].i1) /\ ResultOf(u) = mbuf[u] /\ mbuf[u].i1 \in Nat
    <3>1. ~InService(u)
      BY <2>1, <2>2 DEF CallsInv, Outstanding, WaitReply
    <3>2. mbuf[u].i1 \in Int /\ mbuf[u].i1 > 0
      BY <2>1, <2>2 DEF TypeOK, Message, WaitReply
    <3> QED BY <2>2, <3>1, <3>2 DEF Reaps, Gets, Waited, Replied, ResultOf, WaitReply
  <2>3. ASSUME NEW u \in Users, WaitReply(u), NEW k, k = mbuf[u].i1
        PROVE  /\ mbuf[u].i2 = k
               /\ k \in forked[u] \/ u = initproc
               /\ k \notin reaped
               /\ \A v \in Users : v # u /\ WaitReply(v) => mbuf[v].i1 # k
               /\ \A v \in Users : state[v] # "UNUSED" => pid[v] # k
    <3>1. Reaps(u, k) /\ ResultOf(u) = mbuf[u] /\ k \in Nat
      BY <2>2, <2>3
    <3>2. \A v \in Users : v # u /\ WaitReply(v) => mbuf[v].i1 # k
      BY <2>1, <2>2, <3>1 DEF WaitInv
    <3> QED BY <2>1, <3>1, <3>2 DEF WaitInv, Used
  <2> QED BY <2>3 DEF WaitReturnsOwnChild
<1> QED BY <1>1, InvIsInvariant, PTL
=============================================================================
