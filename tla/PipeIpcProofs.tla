--------------------------- MODULE PipeIpcProofs ---------------------------
(***************************************************************************)
(* Proofs about FsServer, for every set of callers, requests and channels, *)
(* and then about a pipeline on one pipe, for every number of processes,   *)
(* of writers and of readers, every size of the pipe and of a call.        *)
(*                                                                         *)
(* The server's invariant says, beyond the types, in which states each     *)
(* place of the code can be reached (CallerInv, ServerInv), that the       *)
(* server holds exactly the calls that wait for it (NoCallLost), and what  *)
(* the message on its way is (RequestFor and ReplyFor).                    *)
(***************************************************************************)
EXTENDS PipeIpc, FiniteSetTheorems, SequenceTheorems, TLAPS


RequestFor(u, m) ==
    m.source = u /\ m.req = asked[u] /\ m.req \in Request

ReplyFor(u, m) ==
    /\ m.req = asked[u] /\ m.req \in Request
    /\ m.type \in {"SYSRET", "BESLEEP"}
    /\ m.type = "BESLEEP" => m.req \in Blocking /\ m.chan \in Chan

CallerInv(u) ==
    /\ pc[u] \in Callers
    /\ pc[u] \in {"user", "again"} => state[u] = "RUNNABLE"
    /\ pc[u] = "again" => asked[u] \in Request
    /\ pc[u] = "wait" => state[u] \in {"RUNNABLE", "SENDING"}
    /\ pc[u] = "done" => state[u] \in {"RUNNABLE", "RECVING", "SLEEPING"}
    /\ pc[u] \in {"wait", "done"} /\ state[u] \in {"RUNNABLE", "SLEEPING"}
          => msgstate[u] = 0
    /\ state[u] = "RECVING" => recvfrom[u] = TASK_FS
    /\ state[u] = "SENDING" => /\ sendto[u] = TASK_FS
                               /\ mbuf[u].type = "REQ" /\ RequestFor(u, mbuf[u])
    /\ Answered(u) => mbuf[u].source = TASK_FS /\ ReplyFor(u, mbuf[u])

ServerInv ==
    /\ pc[TASK_FS] \in ServerPcs
    /\ pc[TASK_FS] = "recv" => state[TASK_FS] # "RECVING"
    /\ pc[TASK_FS] = "serve" => state[TASK_FS] \in {"RUNNABLE", "RECVING"}
    /\ pc[TASK_FS] = "disk" => state[TASK_FS] \in {"RUNNABLE", "SLEEPING"}
    /\ pc[TASK_FS] = "reply" => state[TASK_FS] = "RUNNABLE"
    /\ state[TASK_FS] = "RECVING" => recvfrom[TASK_FS] = ANY
    /\ pc[TASK_FS] \in {"serve", "disk", "reply"} /\ state[TASK_FS] # "RECVING"
          => /\ mbuf[TASK_FS].source \in Users
             /\ RequestFor(mbuf[TASK_FS].source, mbuf[TASK_FS])
    /\ pc[TASK_FS] = "reply" => ReplyFor(mbuf[TASK_FS].source, mbuf[TASK_FS])
    /\ state[TASK_FS] = "SENDING" => /\ sendto[TASK_FS] \in Users
                                     /\ mbuf[TASK_FS].source = TASK_FS
                                     /\ ReplyFor(sendto[TASK_FS], mbuf[TASK_FS])

IInv ==
    /\ TypeOK
    /\ ServerInv
    /\ \A u \in Users : CallerInv(u)
    /\ NoCallLost

-----------------------------------------------------------------------------
LEMMA Slots ==
  /\ TASK_FS \in Proc /\ TASK_FS \notin Users /\ Users \subseteq Proc
  /\ \A p \in Proc : p # ANY
  /\ \A p \in Proc : p # TASK_FS => p \in Users
BY ProcAssumption, FsServerAssumption DEF Users, ANY

LEMMA InitIInv == Init => IInv
<1> SUFFICES ASSUME Init PROVE IInv
  OBVIOUS
<1> USE Slots, FsServerAssumption DEF Init
<1>1. \A p \in Proc : MsgOf(p, NULL) \in Message
  BY DEF MsgOf, Message
<1>2. TypeOK
  BY <1>1 DEF TypeOK, Callers, ServerPcs
<1>3. ServerInv
  BY DEF ServerInv, ServerPcs
<1>4. \A u \in Users : CallerInv(u)
  BY DEF CallerInv, Callers, Answered
<1>5. NoCallLost
  BY DEF NoCallLost, Outstanding, InService
<1> QED BY <1>2, <1>3, <1>4, <1>5 DEF IInv

-----------------------------------------------------------------------------
(* A call of sendmsg by a caller, first or again.                          *)
LEMMA SendIInv ==
  ASSUME IInv, NEW u \in Users, NEW r \in Request,
         At(u, "user") \/ At(u, "again"), Send(u, r)
  PROVE  IInv'
<1> USE Slots, FsServerAssumption DEF Send, SendMsg, Goto, At
<1> DEFINE m == MsgOf(u, r)
<1>0. /\ m \in Message /\ m.source = u /\ m.req = r /\ m.type = "REQ"
  BY DEF MsgOf, Message
<1>a. u \in Proc /\ u # TASK_FS /\ pc' = [pc EXCEPT ![u] = "wait"]
      /\ asked' = [asked EXCEPT ![u] = r]
  OBVIOUS
<1>b. ~Outstanding(u) /\ ~InService(u)
  BY DEF Outstanding, IInv, NoCallLost
<1>1. CASE Deliver(u, TASK_FS, m)
  <2>1. /\ state[TASK_FS] = "RECVING" /\ pc[TASK_FS] = "serve"
        /\ state' = [state EXCEPT ![TASK_FS] = "RUNNABLE"]
        /\ mbuf' = [mbuf EXCEPT ![TASK_FS] = m]
        /\ msgstate' = [msgstate EXCEPT ![TASK_FS] = 0, ![u] = 0]
        /\ tmp' = tmp /\ sendto' = sendto /\ recvfrom' = recvfrom
    <3>1. ReleasedState(m) = "RUNNABLE" /\ ReleasedTmp(TASK_FS, m) = tmp[TASK_FS]
      BY <1>0 DEF ReleasedState, ReleasedTmp
    <3>2. tmp' = tmp
      BY <1>1, <3>1 DEF Deliver, IInv, TypeOK
    <3>3. state[TASK_FS] = "RECVING"
      BY <1>1 DEF Deliver, Awaits
    <3>4. pc[TASK_FS] = "serve"
      BY <3>3 DEF IInv, ServerInv, ServerPcs
    <3> QED BY <1>1, <3>1, <3>2, <3>3, <3>4 DEF Deliver
  <2>2. TypeOK'
    BY <1>0, <1>a, <2>1 DEF IInv, TypeOK, Callers
  <2>3. ServerInv'
    BY <1>0, <1>a, <2>1 DEF IInv, TypeOK, ServerInv, ServerPcs, RequestFor, ReplyFor
  <2>4. ASSUME NEW v \in Users PROVE CallerInv(v)'
    <3>1. CallerInv(v)
      BY DEF IInv
    <3>2. v \in Proc /\ v # TASK_FS /\ mbuf'[v] = mbuf[v] /\ state'[v] = state[v]
      BY <2>1 DEF IInv, TypeOK
    <3>3. CASE v = u
      BY <1>a, <2>1, <3>1, <3>2, <3>3
         DEF IInv, TypeOK, CallerInv, Callers, Answered
    <3>4. CASE v # u
      BY <1>a, <2>1, <3>1, <3>2, <3>4
         DEF IInv, TypeOK, CallerInv, Callers, Answered, RequestFor, ReplyFor
    <3> QED BY <3>3, <3>4
  <2>5. NoCallLost'
    BY <1>0, <1>a, <2>1 DEF IInv, TypeOK, NoCallLost, Outstanding, InService
  <2> QED BY <2>2, <2>3, <2>4, <2>5 DEF IInv
<1>2. CASE BlockSending(u, TASK_FS, m)
  <2>1. TypeOK'
    BY <1>0, <1>a, <1>2 DEF IInv, TypeOK, Callers, BlockSending
  <2>2. ServerInv'
    <3>1. \A v \in Users : InService(v) => asked'[v] = asked[v]
      BY <1>a, <1>b DEF IInv, TypeOK
    <3>2. state[TASK_FS] = "SENDING" => InService(sendto[TASK_FS])
      BY DEF IInv, ServerInv, ServerPcs, InService
    <3>3. state'[TASK_FS] = state[TASK_FS] /\ mbuf'[TASK_FS] = mbuf[TASK_FS]
          /\ sendto'[TASK_FS] = sendto[TASK_FS] /\ pc'[TASK_FS] = pc[TASK_FS]
          /\ recvfrom' = recvfrom
      BY <1>a, <1>2 DEF BlockSending, IInv, TypeOK
    <3>4. pc[TASK_FS] \in {"serve", "disk", "reply"} /\ state[TASK_FS] # "RECVING"
             => InService(mbuf[TASK_FS].source)
      BY DEF InService
    <3> QED BY <3>1, <3>2, <3>3, <3>4 DEF IInv, ServerInv, RequestFor, ReplyFor
  <2>3. ASSUME NEW v \in Users PROVE CallerInv(v)'
    <3>1. CallerInv(v)
      BY DEF IInv
    <3>2. CASE v = u
      BY <1>0, <1>a, <1>2, <3>1, <3>2
         DEF IInv, TypeOK, CallerInv, Callers, Answered, BlockSending, RequestFor
    <3>3. CASE v # u
      BY <1>a, <1>2, <3>1, <3>3
         DEF IInv, TypeOK, CallerInv, Callers, Answered, BlockSending, RequestFor, ReplyFor
    <3> QED BY <3>2, <3>3
  <2>4. NoCallLost'
    BY <1>a, <1>b, <1>2 DEF IInv, TypeOK, NoCallLost, Outstanding, InService, BlockSending
  <2> QED BY <2>1, <2>2, <2>3, <2>4 DEF IInv
<1> QED BY <1>1, <1>2

(* The receive of a caller whose request has been delivered.               *)
LEMMA UserRecvIInv ==
  ASSUME IInv, NEW u \in Users, UserRecv(u)
  PROVE  IInv'
<1> USE Slots, FsServerAssumption DEF UserRecv, RecvMsg, Goto, At
<1>a. u \in Proc /\ u # TASK_FS /\ pc' = [pc EXCEPT ![u] = "done"] /\ asked' = asked
      /\ state[u] = "RUNNABLE" /\ pc[u] = "wait"
  OBVIOUS
<1>b. InService(u)
  BY <1>a DEF IInv, NoCallLost, Outstanding
<1>1. CASE BlockReceiving(u, TASK_FS)
  <2>1. TypeOK'
    BY <1>a, <1>1 DEF IInv, TypeOK, Callers, BlockReceiving
  <2>2. ServerInv'
    BY <1>a, <1>1 DEF IInv, TypeOK, ServerInv, RequestFor, ReplyFor, BlockReceiving
  <2>3. ASSUME NEW v \in Users PROVE CallerInv(v)'
    <3>1. CallerInv(v)
      BY DEF IInv
    <3>2. CASE v = u
      BY <1>a, <1>1, <3>1, <3>2
         DEF IInv, TypeOK, CallerInv, Callers, Answered, BlockReceiving
    <3>3. CASE v # u
      BY <1>a, <1>1, <3>1, <3>3
         DEF IInv, TypeOK, CallerInv, Callers, Answered, BlockReceiving, RequestFor, ReplyFor
    <3> QED BY <3>2, <3>3
  <2>4. NoCallLost'
    BY <1>a, <1>b, <1>1 DEF IInv, TypeOK, NoCallLost, Outstanding, InService, BlockReceiving
  <2> QED BY <2>1, <2>2, <2>3, <2>4 DEF IInv
<1>2. CASE TakeFirst(u, TASK_FS)
  <2>1. Take(u, TASK_FS) /\ state[TASK_FS] = "SENDING" /\ sendto[TASK_FS] = u
    BY <1>2 DEF TakeFirst, Senders
  <2>2. /\ ReplyFor(u, mbuf[TASK_FS]) /\ mbuf[TASK_FS].source = TASK_FS
        /\ mbuf[TASK_FS] \in Message /\ pc[TASK_FS] = "recv"
    BY <2>1 DEF IInv, TypeOK, ServerInv, ServerPcs
  <2>3. /\ ReleasedState(mbuf[TASK_FS]) \in {"RUNNABLE", "SLEEPING"}
        /\ ReleasedTmp(TASK_FS, mbuf[TASK_FS]) \in Chan \cup {NULL, DISK}
    BY <2>2 DEF ReleasedState, ReleasedTmp, ReplyFor, IInv, TypeOK
  <2>4. TypeOK'
    BY <1>a, <2>1, <2>2, <2>3 DEF IInv, TypeOK, Callers, Take
  <2>5. ServerInv'
    BY <1>a, <2>1, <2>2, <2>3 DEF IInv, TypeOK, ServerInv, ServerPcs, Take
  <2>6. ASSUME NEW v \in Users PROVE CallerInv(v)'
    <3>1. CallerInv(v)
      BY DEF IInv
    <3>2. CASE v = u
      BY <1>a, <2>1, <2>2, <3>1, <3>2
         DEF IInv, TypeOK, CallerInv, Callers, Answered, Take, ReplyFor
    <3>3. CASE v # u
      BY <1>a, <2>1, <3>1, <3>3
         DEF IInv, TypeOK, CallerInv, Callers, Answered, Take, RequestFor, ReplyFor
    <3> QED BY <3>2, <3>3
  <2>7. NoCallLost'
    BY <1>a, <1>b, <2>1, <2>2, <2>3 DEF IInv, TypeOK, NoCallLost, Outstanding, InService, Take
  <2> QED BY <2>4, <2>5, <2>6, <2>7 DEF IInv
<1> QED BY <1>1, <1>2

LEMMA UserReturnIInv ==
  ASSUME IInv, NEW u \in Users, UserReturn(u)
  PROVE  IInv'
<1> USE Slots DEF UserReturn, Goto, At, msgVars
<1>a. u # TASK_FS /\ u \in Proc /\ CallerInv(u) /\ Answered(u)
  BY DEF IInv, Answered
<1>1. TypeOK'
  BY <1>a DEF IInv, TypeOK, Callers
<1>2. ServerInv'
  BY <1>a DEF IInv, TypeOK, ServerInv, RequestFor, ReplyFor
<1>3. ASSUME NEW v \in Users PROVE CallerInv(v)'
  BY <1>a, <1>3 DEF IInv, TypeOK, CallerInv, Callers, Answered, RequestFor, ReplyFor
<1>4. NoCallLost'
  BY <1>a DEF IInv, TypeOK, NoCallLost, Outstanding, InService
<1> QED BY <1>1, <1>2, <1>3, <1>4 DEF IInv

-----------------------------------------------------------------------------
(* The server takes a request, or waits for one.                           *)
LEMMA FsRecvIInv ==
  ASSUME IInv, FsRecv
  PROVE  IInv'
<1> USE Slots, FsServerAssumption DEF FsRecv, RecvMsg, Goto, At
<1>a. /\ pc' = [pc EXCEPT ![TASK_FS] = "serve"] /\ asked' = asked
      /\ state[TASK_FS] = "RUNNABLE" /\ pc[TASK_FS] = "recv"
  OBVIOUS
<1>b. \A v \in Users : ~InService(v) /\ ~Outstanding(v)
  BY <1>a DEF IInv, NoCallLost, InService
<1>1. CASE BlockReceiving(TASK_FS, ANY)
  <2>1. TypeOK'
    BY <1>a, <1>1 DEF IInv, TypeOK, ServerPcs, BlockReceiving
  <2>2. ServerInv'
    BY <1>a, <1>1 DEF IInv, TypeOK, ServerInv, ServerPcs, BlockReceiving
  <2>3. ASSUME NEW v \in Users PROVE CallerInv(v)'
    BY <1>a, <1>1, <2>3
       DEF IInv, TypeOK, CallerInv, Answered, BlockReceiving, RequestFor, ReplyFor
  <2>4. NoCallLost'
    BY <1>a, <1>b, <1>1 DEF IInv, TypeOK, NoCallLost, Outstanding, InService, BlockReceiving
  <2> QED BY <2>1, <2>2, <2>3, <2>4 DEF IInv
<1>2. CASE TakeFirst(TASK_FS, ANY)
  <2>1. PICK u \in Users : Take(TASK_FS, u) /\ state[u] = "SENDING"
    BY <1>2, <1>a DEF TakeFirst, Senders
  <2>2. /\ mbuf[u].type = "REQ" /\ RequestFor(u, mbuf[u]) /\ mbuf[u] \in Message
        /\ pc[u] = "wait" /\ u \in Proc /\ u # TASK_FS
    BY <2>1 DEF IInv, TypeOK, CallerInv, Callers
  <2>3. /\ mbuf' = [mbuf EXCEPT ![TASK_FS] = mbuf[u]]
        /\ msgstate' = [msgstate EXCEPT ![u] = 0, ![TASK_FS] = 0]
        /\ state' = [state EXCEPT ![u] = "RUNNABLE"]
        /\ tmp' = tmp /\ sendto' = sendto /\ recvfrom' = recvfrom
    BY <2>1, <2>2 DEF Take, ReleasedState, ReleasedTmp, IInv, TypeOK
  <2>4. TypeOK'
    BY <1>a, <2>2, <2>3 DEF IInv, TypeOK, ServerPcs
  <2>5. ServerInv'
    BY <1>a, <2>2, <2>3 DEF IInv, TypeOK, ServerInv, ServerPcs, RequestFor
  <2>6. ASSUME NEW v \in Users PROVE CallerInv(v)'
    <3>1. CallerInv(v)
      BY DEF IInv
    <3> QED BY <1>a, <2>2, <2>3, <3>1
            DEF IInv, TypeOK, CallerInv, Callers, Answered, RequestFor, ReplyFor
  <2>7. NoCallLost'
    BY <1>a, <1>b, <2>2, <2>3
       DEF IInv, TypeOK, NoCallLost, Outstanding, InService, RequestFor
  <2> QED BY <2>4, <2>5, <2>6, <2>7 DEF IInv
<1> QED BY <1>1, <1>2

(* A handler sleeps for the disk and returns from it.                      *)
LEMMA FsDiskIInv ==
  ASSUME IInv, FsDisk \/ FsResume
  PROVE  IInv'
<1> USE Slots DEF FsDisk, FsResume, Goto, At
<1>1. TypeOK'
  BY DEF IInv, TypeOK, ServerPcs
<1>2. ServerInv'
  BY DEF IInv, TypeOK, ServerInv, ServerPcs, RequestFor, ReplyFor
<1>3. ASSUME NEW v \in Users PROVE CallerInv(v)'
  BY <1>3 DEF IInv, TypeOK, CallerInv, Answered, RequestFor, ReplyFor
<1>4. NoCallLost'
  BY DEF IInv, TypeOK, NoCallLost, Outstanding, InService
<1> QED BY <1>1, <1>2, <1>3, <1>4 DEF IInv

(* What wake_up changes.                                                   *)
LEMMA WakeUpStates ==
  ASSUME TypeOK, NEW chans
  PROVE  /\ WakeUp(chans) \in [Proc -> {"RUNNABLE", "SLEEPING", "SENDING", "RECVING"}]
         /\ \A p \in Proc : \/ WakeUp(chans)[p] = state[p]
                            \/ state[p] = "SLEEPING" /\ WakeUp(chans)[p] = "RUNNABLE"
BY DEF TypeOK, WakeUp

(* An interrupt or a handler wakes sleepers.                               *)
LEMMA WakesIInv ==
  ASSUME IInv, NEW chans, Wakes(chans)
  PROVE  IInv'
<1> USE Slots DEF Wakes
<1>1. /\ state' \in [Proc -> {"RUNNABLE", "SLEEPING", "SENDING", "RECVING"}]
      /\ \A p \in Proc : \/ state'[p] = state[p]
                         \/ state[p] = "SLEEPING" /\ state'[p] = "RUNNABLE"
  <2>1. TypeOK /\ state' = WakeUp(chans)
    BY DEF IInv
  <2> QED BY <2>1, WakeUpStates
<1>2. TypeOK'
  BY <1>1 DEF IInv, TypeOK
<1>3. ServerInv'
  BY <1>1 DEF IInv, ServerInv, ServerPcs, RequestFor, ReplyFor
<1>4. ASSUME NEW v \in Users PROVE CallerInv(v)'
  BY <1>1, <1>4 DEF IInv, CallerInv, Callers, Answered, RequestFor, ReplyFor
<1>5. NoCallLost'
  BY <1>1 DEF IInv, CallerInv, Callers, NoCallLost, Outstanding, InService
<1> QED BY <1>2, <1>3, <1>4, <1>5 DEF IInv

(* The reply a handler's result is turned into.                            *)
LEMMA ReplyOfIsReply ==
  ASSUME NEW u, NEW m \in Message, RequestFor(u, m),
         NEW i \in Result \cup {-2}, NEW c \in Chan \cup {NULL},
         i = -2 => m.req \in Blocking /\ c \in Chan
  PROVE  /\ ReplyOf(m, i, c) \in Message
         /\ RequestFor(u, ReplyOf(m, i, c))
         /\ ReplyFor(u, ReplyOf(m, i, c))
<1>1. CASE i = -2
  BY <1>1 DEF ReplyOf, Message, RequestFor, ReplyFor
<1>2. CASE i # -2
  BY <1>2 DEF ReplyOf, Message, RequestFor, ReplyFor
<1> QED BY <1>1, <1>2

LEMMA FsServeIInv ==
  ASSUME IInv, FsServe
  PROVE  IInv'
<1> USE Slots, FsServerAssumption DEF Goto, At
<1>1. PICK woken \in SUBSET Chan, i \in Result \cup {-2}, c \in Chan \cup {NULL} :
         /\ FsServeWith(i, c, woken)
         /\ i = -2 => mbuf[TASK_FS].req \in Blocking /\ c \in Chan
  <2>1. PICK woken \in SUBSET Chan :
           \/ \E i \in Result : FsServeWith(i, NULL, woken)
           \/ /\ mbuf[TASK_FS].req \in Blocking
              /\ \E c \in Chan : FsServeWith(-2, c, woken)
    BY DEF FsServe
  <2>2. CASE \E i \in Result : FsServeWith(i, NULL, woken)
    <3>1. PICK i \in Result : FsServeWith(i, NULL, woken)
      BY <2>2
    <3> QED BY <3>1
  <2>3. CASE mbuf[TASK_FS].req \in Blocking /\ \E c \in Chan : FsServeWith(-2, c, woken)
    <3>1. PICK c \in Chan : FsServeWith(-2, c, woken)
      BY <2>3
    <3> QED BY <2>3, <3>1
  <2> QED BY <2>1, <2>2, <2>3
<1>r. PICK r : r = ReplyOf(mbuf[TASK_FS], i, c)
  OBVIOUS
<1>2. /\ state[TASK_FS] = "RUNNABLE" /\ pc[TASK_FS] = "serve"
      /\ mbuf' = [mbuf EXCEPT ![TASK_FS] = r]
      /\ pc' = [pc EXCEPT ![TASK_FS] = "reply"]
      /\ UNCHANGED <<sendto, recvfrom, msgstate, tmp, asked>>
  BY <1>1, <1>r DEF FsServeWith
<1>3. /\ state' \in [Proc -> {"RUNNABLE", "SLEEPING", "SENDING", "RECVING"}]
      /\ \A p \in Proc : \/ state'[p] = state[p]
                         \/ state[p] = "SLEEPING" /\ state'[p] = "RUNNABLE"
  <2>1. TypeOK /\ state' = WakeUp(woken)
    BY <1>1 DEF IInv, FsServeWith
  <2> QED BY <2>1, WakeUpStates
<1>4. /\ mbuf[TASK_FS].source \in Users /\ mbuf[TASK_FS] \in Message
      /\ RequestFor(mbuf[TASK_FS].source, mbuf[TASK_FS])
  BY <1>2 DEF IInv, TypeOK, ServerInv
<1>5. /\ r \in Message /\ RequestFor(mbuf[TASK_FS].source, r)
      /\ ReplyFor(mbuf[TASK_FS].source, r)
  BY <1>1, <1>r, <1>4, ReplyOfIsReply
<1>6. r.source = mbuf[TASK_FS].source
  BY <1>4, <1>5 DEF RequestFor
<1>7. TypeOK'
  BY <1>2, <1>3, <1>5 DEF IInv, TypeOK, ServerPcs
<1>8. ServerInv'
  <2>1. mbuf'[TASK_FS] = r /\ pc'[TASK_FS] = "reply" /\ state'[TASK_FS] = "RUNNABLE"
    BY <1>2, <1>3 DEF IInv, TypeOK
  <2>2. RequestFor(r.source, r)' /\ ReplyFor(r.source, r)'
    BY <1>2, <1>5, <1>6 DEF RequestFor, ReplyFor
  <2> QED BY <1>4, <1>6, <2>1, <2>2 DEF ServerInv, ServerPcs
<1>9. ASSUME NEW v \in Users PROVE CallerInv(v)'
  BY <1>2, <1>3, <1>9 DEF IInv, TypeOK, CallerInv, Callers, Answered, RequestFor, ReplyFor
<1>10. NoCallLost'
  BY <1>2, <1>3, <1>6 DEF IInv, TypeOK, CallerInv, Callers, NoCallLost, Outstanding, InService
<1> QED BY <1>7, <1>8, <1>9, <1>10 DEF IInv

(* The server sends its reply, or waits for the caller to receive.         *)
LEMMA FsReplyIInv ==
  ASSUME IInv, FsReply
  PROVE  IInv'
<1> USE Slots, FsServerAssumption DEF FsReply, SendMsg, Goto, At
<1>1. PICK u, m : u = mbuf[TASK_FS].source /\ m = [mbuf[TASK_FS] EXCEPT !.source = TASK_FS]
  OBVIOUS
<1>2. /\ state[TASK_FS] = "RUNNABLE" /\ pc[TASK_FS] = "reply"
      /\ pc' = [pc EXCEPT ![TASK_FS] = "recv"] /\ asked' = asked
  OBVIOUS
<1>3. u \in Users /\ u \in Proc /\ u # TASK_FS /\ InService(u) /\ Outstanding(u)
  BY <1>1, <1>2 DEF IInv, ServerInv, NoCallLost, InService
<1>4. m \in Message /\ m.source = TASK_FS /\ ReplyFor(u, m)
  BY <1>1, <1>2 DEF IInv, TypeOK, ServerInv, ReplyFor, Message
<1>5. \A v \in Users : v # u => ~InService(v) /\ ~Outstanding(v)
  BY <1>1, <1>2 DEF IInv, NoCallLost, InService
<1>6. CASE Deliver(TASK_FS, u, m)
  <2>1. state[u] = "RECVING" /\ pc[u] = "done"
    BY <1>3, <1>6 DEF Deliver, Awaits, Outstanding
  <2>2. /\ ReleasedState(m) \in {"RUNNABLE", "SLEEPING"}
        /\ ReleasedTmp(u, m) \in Chan \cup {NULL, DISK}
    BY <1>3, <1>4 DEF ReleasedState, ReleasedTmp, ReplyFor, IInv, TypeOK
  <2>3. /\ mbuf' = [mbuf EXCEPT ![u] = m]
        /\ msgstate' = [msgstate EXCEPT ![u] = 0, ![TASK_FS] = 0]
        /\ state' = [state EXCEPT ![u] = ReleasedState(m)]
        /\ tmp' = [tmp EXCEPT ![u] = ReleasedTmp(u, m)]
        /\ sendto' = sendto /\ recvfrom' = recvfrom
    BY <1>6 DEF Deliver
  <2>4. TypeOK'
    BY <1>2, <1>3, <1>4, <2>2, <2>3 DEF IInv, TypeOK, ServerPcs
  <2>5. ServerInv'
    BY <1>2, <1>3, <2>3 DEF IInv, TypeOK, ServerInv, ServerPcs
  <2>6. ASSUME NEW v \in Users PROVE CallerInv(v)'
    <3>1. CallerInv(v)
      BY DEF IInv
    <3>2. CASE v = u
      BY <1>2, <1>3, <1>4, <2>1, <2>2, <2>3, <3>1, <3>2
         DEF IInv, TypeOK, CallerInv, Callers, Answered, ReplyFor
    <3>3. CASE v # u
      BY <1>2, <1>3, <2>3, <3>1, <3>3
         DEF IInv, TypeOK, CallerInv, Callers, Answered, RequestFor, ReplyFor
    <3> QED BY <3>2, <3>3
  <2>7. NoCallLost'
    BY <1>2, <1>3, <1>5, <2>1, <2>2, <2>3 DEF IInv, TypeOK, NoCallLost, Outstanding, InService
  <2> QED BY <2>4, <2>5, <2>6, <2>7 DEF IInv
<1>7. CASE BlockSending(TASK_FS, u, m)
  <2>1. TypeOK'
    BY <1>2, <1>3, <1>4, <1>7 DEF IInv, TypeOK, ServerPcs, BlockSending
  <2>2. ServerInv'
    BY <1>2, <1>3, <1>4, <1>7 DEF IInv, TypeOK, ServerInv, ServerPcs, BlockSending, ReplyFor
  <2>3. ASSUME NEW v \in Users PROVE CallerInv(v)'
    BY <1>2, <1>7, <2>3
       DEF IInv, TypeOK, CallerInv, Callers, Answered, BlockSending, RequestFor, ReplyFor
  <2>4. NoCallLost'
    BY <1>2, <1>3, <1>5, <1>7 DEF IInv, TypeOK, NoCallLost, Outstanding, InService, BlockSending
  <2> QED BY <2>1, <2>2, <2>3, <2>4 DEF IInv
<1> QED BY <1>1, <1>6, <1>7

-----------------------------------------------------------------------------
LEMMA NextIInv == IInv /\ [Next]_vars => IInv'
<1> SUFFICES ASSUME IInv, [Next]_vars PROVE IInv'
  OBVIOUS
<1>1. ASSUME NEW u \in Users, UserStep(u) PROVE IInv'
  <2>1. ASSUME NEW r \in Request, UserCall(u, r) PROVE IInv'
    BY <2>1, SendIInv DEF UserCall
  <2>2. CASE UserRetry(u)
    <3>1. asked[u] \in Request
      BY <2>2 DEF IInv, CallerInv, UserRetry, At
    <3> QED BY <2>2, <3>1, SendIInv DEF UserRetry
  <2> QED BY <1>1, <2>1, <2>2, UserRecvIInv, UserReturnIInv DEF UserStep
<1>2. CASE FsStep
  BY <1>2, FsRecvIInv, FsDiskIInv, FsServeIInv, FsReplyIInv DEF FsStep
<1>3. CASE IdeIntr \/ TtyIntr
  BY <1>3, WakesIInv DEF IdeIntr, TtyIntr
<1>4. CASE UNCHANGED vars
  BY <1>4 DEF vars, msgVars, IInv, TypeOK, ServerInv, CallerInv, NoCallLost,
              Outstanding, InService, Answered, RequestFor, ReplyFor
<1> QED BY <1>1, <1>2, <1>3, <1>4 DEF Next

LEMMA Invariant == Spec => []IInv
<1> QED BY InitIInv, NextIInv, PTL DEF Spec

(* Types, for every set of callers, requests, results and channels.        *)
THEOREM TypeCorrect == Spec => []TypeOK
<1>1. IInv => TypeOK
  BY DEF IInv
<1> QED BY Invariant, <1>1, PTL

(* The server holds exactly the calls whose callers wait for a reply.      *)
THEOREM CallsAreConserved == Spec => []NoCallLost
<1>1. IInv => NoCallLost
  BY DEF IInv
<1> QED BY Invariant, <1>1, PTL

(* Every call returns with the reply to its own request.                   *)
THEOREM RepliesMatch == Spec => []ReplyMatches
<1>1. IInv => ReplyMatches
  BY DEF IInv, CallerInv, ReplyMatches, ReplyFor
<1> QED BY Invariant, <1>1, PTL

(* What the dead-lock walks of msg.c meet: a set closed under sendto, or   *)
(* recvfrom, that never leads back to the process that walks.              *)
LEMMA NoSendCycle ==
  ASSUME IInv, NEW u \in Users, At(u, "user") \/ At(u, "again")
  PROVE  ~SendDeadlocks(u, TASK_FS)
<1> DEFINE S == {TASK_FS} \cup IF state[TASK_FS] = "SENDING" THEN {sendto[TASK_FS]} ELSE {}
<1>1. state[TASK_FS] = "SENDING" =>
         /\ sendto[TASK_FS] \in Users /\ Outstanding(sendto[TASK_FS])
         /\ state[sendto[TASK_FS]] # "SENDING"
  BY DEF IInv, ServerInv, ServerPcs, NoCallLost, InService, Outstanding
<1>2. S \in SUBSET Proc /\ TASK_FS \in S
  BY <1>1, Slots
<1>3. state[TASK_FS] = "SENDING" => sendto[TASK_FS] # u
  BY <1>1 DEF At, Outstanding
<1>4. \A q \in S : state[q] = "SENDING" => q = TASK_FS /\ sendto[q] \in S
  BY <1>1
<1>5. \A q \in S : ~(state[q] = "SENDING" /\ sendto[q] = u)
  BY <1>3, <1>4
<1> HIDE DEF S
<1> QED BY <1>2, <1>4, <1>5 DEF SendDeadlocks

LEMMA NoReplyCycle ==
  ASSUME IInv, At(TASK_FS, "reply")
  PROVE  ~SendDeadlocks(TASK_FS, mbuf[TASK_FS].source)
<1> DEFINE u == mbuf[TASK_FS].source
<1>1. u \in Users /\ Outstanding(u) /\ state[u] # "SENDING"
  BY DEF IInv, ServerInv, At, NoCallLost, InService, Outstanding
<1>2. {u} \in SUBSET Proc
  BY <1>1, Slots
<1> QED BY <1>1, <1>2 DEF SendDeadlocks

LEMMA NoRecvCycle ==
  ASSUME IInv, NEW u \in Users
  PROVE  ~RecvDeadlocks(u, TASK_FS)
<1>1. {TASK_FS} \in SUBSET Proc /\ u # TASK_FS
  BY Slots
<1>2. state[TASK_FS] = "RECVING" => recvfrom[TASK_FS] = ANY
  BY DEF IInv, ServerInv
<1>3. u # ANY
  BY Slots
<1> QED BY <1>1, <1>2, <1>3 DEF RecvDeadlocks

(* No call panics.                                                         *)
THEOREM CallsDoNotPanic == Spec => []NoPanic
<1>1. ASSUME IInv PROVE NoPanic
  <2>1. ASSUME NEW u \in Users, At(u, "wait") \/ At(u, "done")
        PROVE  msgstate[u] = 0
    BY <1>1, <2>1 DEF IInv, CallerInv, At
  <2> QED BY <1>1, <2>1, NoSendCycle, NoReplyCycle, NoRecvCycle DEF NoPanic
<1> QED BY Invariant, <1>1, PTL

-----------------------------------------------------------------------------
(* The loop of task_fs and the calls to it implement Rpc: every step of    *)
(* FsServer is a step of Rpc, or changes nothing an Rpc client sees.       *)
ph  == [u \in Users |-> Phase(u)]
gt  == [u \in Users |-> IF Answered(u) THEN mbuf[u].req ELSE NULL]

(* What Phase says, by the places of caller and server.                    *)
LEMMA PhaseIs ==
  ASSUME IInv, NEW u \in Users
  PROVE  /\ Phase(u) = "taken"    <=> InService(u)
         /\ Phase(u) = "pending"  <=> Pending(u)
         /\ Phase(u) = "answered" <=> Answered(u)
         /\ Phase(u) \in {"taken", "pending", "answered", "idle"}
<1>1. InService(u) <=> Outstanding(u)
  BY DEF IInv, NoCallLost
<1>2. ~(InService(u) /\ Pending(u)) /\ ~(InService(u) /\ Answered(u))
      /\ ~(Pending(u) /\ Answered(u))
  BY <1>1 DEF Outstanding, Pending, Answered
<1> QED BY <1>2 DEF Phase

(* The server works on one call at a time.                                 *)
LEMMA OneInService ==
  ASSUME NEW u \in Users, NEW v \in Users, InService(u), InService(v)
  PROVE  u = v
BY DEF InService

(* A step after which nothing an Rpc client sees has changed.              *)
LEMMA SeesNothing ==
  ASSUME IInv, IInv', asked' = asked,
         \A v \in Users : /\ InService(v)' <=> InService(v)
                          /\ Pending(v)' <=> Pending(v)
                          /\ Answered(v)' <=> Answered(v)
                          /\ Answered(v) => mbuf'[v] = mbuf[v]
  PROVE  UNCHANGED Abstract!vars
<1>1. ph' = ph
  BY DEF ph, Phase
<1>2. gt' = gt
  BY DEF gt
<1> QED BY <1>1, <1>2 DEF Abstract!vars, ph, gt

(* A step that moves one call from one phase to another.                   *)
LEMMA MovesOne ==
  ASSUME NEW u \in Users, NEW to, Phase(u)' = to,
         \A v \in Users \ {u} : Phase(v)' = Phase(v)
  PROVE  ph' = [ph EXCEPT ![u] = to]
BY DEF ph

-----------------------------------------------------------------------------
LEMMA InitRefines == Init => Abstract!Init
<1> SUFFICES ASSUME Init PROVE Abstract!Init
  OBVIOUS
<1>1. \A u \in Users : ~InService(u) /\ ~Pending(u) /\ ~Answered(u)
  BY Slots DEF Init, InService, Pending, Answered
<1> QED BY <1>1 DEF Init, Abstract!Init, Phase

LEMMA SendRefines ==
  ASSUME IInv, IInv', NEW u \in Users, NEW r \in Request,
         At(u, "user") \/ At(u, "again"), Send(u, r)
  PROVE  Abstract!Next
<1> USE Slots DEF Send, SendMsg, Goto, At
<1>1. u \in Proc /\ u # TASK_FS /\ pc' = [pc EXCEPT ![u] = "wait"]
      /\ asked' = [asked EXCEPT ![u] = r] /\ state[u] = "RUNNABLE"
  OBVIOUS
<1>2. ~InService(u) /\ ~Pending(u) /\ ~Answered(u)
  BY <1>1 DEF IInv, NoCallLost, Outstanding, Pending, Answered
<1>3. ph[u] = "idle"
  BY <1>2 DEF ph, Phase
<1>4. \A v \in Users \ {u} : /\ Pending(v)' <=> Pending(v)
                             /\ Answered(v)' <=> Answered(v)
                             /\ mbuf'[v] = mbuf[v]
  BY <1>1 DEF Deliver, Awaits, BlockSending, IInv, TypeOK, Pending, Answered
<1>5. ~Answered(u)'
  BY <1>1 DEF Answered, IInv, TypeOK
<1>6. gt' = gt
  BY <1>2, <1>4, <1>5 DEF gt
<1>7. CASE Deliver(u, TASK_FS, MsgOf(u, r))
  <2>1. state[TASK_FS] = "RECVING" /\ pc[TASK_FS] = "serve"
    BY <1>7 DEF Deliver, Awaits, IInv, ServerInv, ServerPcs
  <2>2. \A v \in Users : ~InService(v)
    BY <2>1 DEF InService
  <2>3. InService(u)'
    <3>1. Outstanding(u)'
      BY <1>1, <1>7, <2>1 DEF Outstanding, Deliver, IInv, TypeOK
    <3> QED BY <3>1 DEF IInv, NoCallLost
  <2>4. \A v \in Users \ {u} : ~InService(v)'
    BY <2>3, OneInService DEF InService
  <2>5. ph' = [ph EXCEPT ![u] = "taken"]
    <3>1. Phase(u)' = "taken"
      <4>1. ~Pending(u)'
        BY <1>1, <1>7, <2>1 DEF Pending, Deliver, IInv, TypeOK
      <4> QED BY <1>5, <2>3, <4>1 DEF Phase
    <3>2. \A v \in Users \ {u} : Phase(v)' = Phase(v)
      BY <1>4, <2>2, <2>4 DEF Phase
    <3> QED BY <3>1, <3>2, MovesOne
  <2>6. \A v \in Users : ph[v] # "taken"
    BY <2>2, PhaseIs DEF ph
  <2>7. Abstract!Ask(u, r)
    BY <1>1, <1>3, <1>6, <2>5, <2>6 DEF Abstract!Ask, Abstract!ServerFree, ph, gt
  <2> QED BY <2>7 DEF Abstract!Next
<1>8. CASE BlockSending(u, TASK_FS, MsgOf(u, r))
  <2>1. \A v \in Users : InService(v)' <=> InService(v)
    BY <1>1, <1>8 DEF InService, BlockSending, IInv, TypeOK
  <2>2. Pending(u)'
    BY <1>1, <1>8 DEF Pending, BlockSending, IInv, TypeOK
  <2>3. ph' = [ph EXCEPT ![u] = "pending"]
    <3>1. Phase(u)' = "pending"
      BY <1>2, <1>5, <2>1, <2>2 DEF Phase
    <3>2. \A v \in Users \ {u} : Phase(v)' = Phase(v)
      BY <1>4, <2>1 DEF Phase
    <3> QED BY <3>1, <3>2, MovesOne
  <2>4. Abstract!Ask(u, r)
    BY <1>1, <1>3, <1>6, <2>3 DEF Abstract!Ask, ph, gt
  <2> QED BY <2>4 DEF Abstract!Next
<1> QED BY <1>7, <1>8

LEMMA UserRecvRefines ==
  ASSUME IInv, IInv', NEW u \in Users, UserRecv(u)
  PROVE  Abstract!Next \/ UNCHANGED Abstract!vars
<1> USE Slots DEF UserRecv, RecvMsg, Goto, At
<1>1. u \in Proc /\ u # TASK_FS /\ pc' = [pc EXCEPT ![u] = "done"]
      /\ asked' = asked /\ state[u] = "RUNNABLE" /\ pc[u] = "wait"
  OBVIOUS
<1>2. InService(u) /\ ~Pending(u) /\ ~Answered(u)
  BY <1>1 DEF IInv, NoCallLost, Outstanding, Pending, Answered
<1>3. CASE BlockReceiving(u, TASK_FS)
  <2>1. \A v \in Users : /\ InService(v)' <=> InService(v)
                         /\ Pending(v)' <=> Pending(v)
                         /\ Answered(v)' <=> Answered(v)
                         /\ mbuf'[v] = mbuf[v]
    BY <1>1, <1>2, <1>3 DEF BlockReceiving, InService, Pending, Answered, IInv, TypeOK
  <2> QED BY <1>1, <2>1, SeesNothing
<1>4. CASE TakeFirst(u, TASK_FS)
  <2>1. Take(u, TASK_FS) /\ state[TASK_FS] = "SENDING" /\ sendto[TASK_FS] = u
    BY <1>4 DEF TakeFirst, Senders
  <2>2. /\ mbuf[TASK_FS].req = asked[u] /\ pc[TASK_FS] = "recv"
        /\ ReleasedState(mbuf[TASK_FS]) \in {"RUNNABLE", "SLEEPING"}
    BY <2>1 DEF IInv, ServerInv, ServerPcs, ReplyFor, ReleasedState
  <2>3. Answered(u)' /\ mbuf'[u] = mbuf[TASK_FS]
    BY <1>1, <2>1 DEF Take, Answered, IInv, TypeOK
  <2>4. \A v \in Users : ~InService(v)'
    BY <1>1, <2>1, <2>2 DEF Take, InService, IInv, TypeOK
  <2>5. \A v \in Users \ {u} : /\ ~InService(v)
                               /\ Pending(v)' <=> Pending(v)
                               /\ Answered(v)' <=> Answered(v)
                               /\ mbuf'[v] = mbuf[v]
    BY <1>1, <1>2, <2>1, OneInService DEF Take, Pending, Answered, IInv, TypeOK
  <2>6. ~Pending(u)'
    BY <2>3 DEF Pending, Answered
  <2>7. ph' = [ph EXCEPT ![u] = "answered"]
    <3>1. Phase(u)' = "answered"
      BY <2>3, <2>4, <2>6 DEF Phase
    <3>2. \A v \in Users \ {u} : Phase(v)' = Phase(v)
      BY <2>4, <2>5 DEF Phase
    <3> QED BY <3>1, <3>2, MovesOne
  <2>8. gt' = [gt EXCEPT ![u] = asked[u]]
    BY <2>2, <2>3, <2>5 DEF gt
  <2>9. ph[u] = "taken"
    BY <1>2, PhaseIs DEF ph
  <2>10. Abstract!Reply(u)
    BY <1>1, <2>7, <2>8, <2>9 DEF Abstract!Reply, ph, gt
  <2> QED BY <2>10 DEF Abstract!Next
<1> QED BY <1>3, <1>4

LEMMA UserReturnRefines ==
  ASSUME IInv, NEW u \in Users, UserReturn(u)
  PROVE  Abstract!Next
<1> USE Slots DEF UserReturn, Goto, At, msgVars
<1>1. u \in Proc /\ u # TASK_FS /\ Answered(u) /\ ~Outstanding(u) /\ ~InService(u)
  BY DEF Answered, Outstanding, IInv, NoCallLost
<1>2. \A v \in Users : /\ InService(v)' <=> InService(v)
                       /\ Pending(v)' <=> Pending(v)
  BY <1>1 DEF InService, Pending, IInv, TypeOK
<1>3. \A v \in Users \ {u} : Answered(v)' <=> Answered(v)
  BY <1>1 DEF Answered, IInv, TypeOK
<1>4. ~Answered(u)' /\ ~Pending(u)'
  BY <1>1 DEF Answered, Pending, IInv, TypeOK
<1>5. ph' = [ph EXCEPT ![u] = "idle"]
  <2>1. Phase(u)' = "idle"
    BY <1>1, <1>2, <1>4 DEF Phase
  <2>2. \A v \in Users \ {u} : Phase(v)' = Phase(v)
    BY <1>2, <1>3 DEF Phase
  <2> QED BY <2>1, <2>2, MovesOne
<1>6. gt' = [gt EXCEPT ![u] = NULL]
  BY <1>3, <1>4 DEF gt
<1>7. ph[u] = "answered"
  BY <1>1, PhaseIs DEF ph
<1>8. Abstract!Return(u)
  BY <1>5, <1>6, <1>7 DEF Abstract!Return, ph, gt
<1> QED BY <1>8 DEF Abstract!Next

LEMMA FsRecvRefines ==
  ASSUME IInv, IInv', FsRecv
  PROVE  Abstract!Next \/ UNCHANGED Abstract!vars
<1> USE Slots DEF FsRecv, RecvMsg, Goto, At
<1>1. /\ pc' = [pc EXCEPT ![TASK_FS] = "serve"] /\ asked' = asked
      /\ state[TASK_FS] = "RUNNABLE" /\ pc[TASK_FS] = "recv"
  OBVIOUS
<1>2. \A v \in Users : ~InService(v)
  BY <1>1 DEF InService
<1>3. CASE BlockReceiving(TASK_FS, ANY)
  <2>1. \A v \in Users : /\ ~InService(v)'
                         /\ Pending(v)' <=> Pending(v)
                         /\ Answered(v)' <=> Answered(v)
                         /\ mbuf'[v] = mbuf[v]
    BY <1>1, <1>3 DEF BlockReceiving, InService, Pending, Answered, IInv, TypeOK
  <2> QED BY <1>1, <1>2, <2>1, SeesNothing
<1>4. CASE TakeFirst(TASK_FS, ANY)
  <2>1. PICK u \in Users : Take(TASK_FS, u) /\ state[u] = "SENDING"
    BY <1>1, <1>4 DEF TakeFirst, Senders
  <2>2. mbuf[u].type = "REQ" /\ pc[u] = "wait" /\ u \in Proc /\ u # TASK_FS
    BY <2>1 DEF IInv, CallerInv, Callers
  <2>3. state' = [state EXCEPT ![u] = "RUNNABLE"] /\ mbuf' = [mbuf EXCEPT ![TASK_FS] = mbuf[u]]
    BY <2>1, <2>2 DEF Take, ReleasedState
  <2>4. Pending(u) /\ ~Pending(u)' /\ Outstanding(u)'
    BY <1>1, <2>1, <2>2, <2>3 DEF Pending, Outstanding, IInv, TypeOK
  <2>5. InService(u)' /\ \A v \in Users \ {u} : ~InService(v)'
    <3>1. InService(u)'
      BY <2>4 DEF IInv, NoCallLost
    <3> QED BY <3>1 DEF InService
  <2>6. \A v \in Users : /\ v # u => (Pending(v)' <=> Pending(v))
                         /\ Answered(v)' <=> Answered(v)
                         /\ mbuf'[v] = mbuf[v]
    BY <1>1, <2>2, <2>3 DEF Pending, Answered, IInv, TypeOK
  <2>7. ph' = [ph EXCEPT ![u] = "taken"]
    <3>1. Phase(u)' = "taken"
      <4>1. ~Answered(u)'
        BY <2>2, <2>6 DEF Answered
      <4> QED BY <2>4, <2>5, <4>1 DEF Phase
    <3>2. \A v \in Users \ {u} : Phase(v)' = Phase(v)
      BY <1>2, <2>5, <2>6 DEF Phase
    <3> QED BY <3>1, <3>2, MovesOne
  <2>8. gt' = gt
    BY <2>6 DEF gt
  <2>9. ph[u] = "pending" /\ \A v \in Users : ph[v] # "taken"
    BY <1>2, <2>4, PhaseIs DEF ph
  <2>10. Abstract!Accept(u)
    BY <1>1, <2>7, <2>8, <2>9 DEF Abstract!Accept, Abstract!ServerFree, ph, gt
  <2> QED BY <2>10 DEF Abstract!Next
<1> QED BY <1>3, <1>4

(* The disk and the handlers do not show.                                  *)
LEMMA FsInnerRefines ==
  ASSUME IInv, FsDisk \/ FsResume \/ FsServe
  PROVE  UNCHANGED Abstract!vars
<1> USE Slots
<1>1. /\ pc[TASK_FS] \in {"serve", "disk"} /\ state[TASK_FS] = "RUNNABLE"
      /\ pc'[TASK_FS] \in {"serve", "disk", "reply"} /\ state'[TASK_FS] # "RECVING"
      /\ mbuf'[TASK_FS].source = mbuf[TASK_FS].source
      /\ asked' = asked
      /\ \A v \in Users : /\ mbuf'[v] = mbuf[v] /\ pc'[v] = pc[v]
                          /\ \/ state'[v] = state[v]
                             \/ state[v] = "SLEEPING" /\ state'[v] = "RUNNABLE"
  <2>1. CASE FsDisk \/ FsResume
    BY <2>1 DEF FsDisk, FsResume, At, Goto, IInv, TypeOK
  <2>2. CASE FsServe
    <3>1. PICK woken, i, c : FsServeWith(i, c, woken)
      BY <2>2 DEF FsServe
    <3>2. TypeOK /\ state' = WakeUp(woken)
      BY <3>1 DEF FsServeWith, IInv
    <3>3. \A p \in Proc : \/ state'[p] = state[p]
                          \/ state[p] = "SLEEPING" /\ state'[p] = "RUNNABLE"
      BY <3>2, WakeUpStates
    <3>4. ReplyOf(mbuf[TASK_FS], i, c).source = mbuf[TASK_FS].source
      BY <3>2 DEF ReplyOf, TypeOK, Message
    <3> QED BY <3>1, <3>3, <3>4 DEF FsServeWith, At, Goto, IInv, TypeOK
  <2> QED BY <2>1, <2>2, FsDisk \/ FsResume \/ FsServe
<1>2. \A v \in Users : /\ InService(v)' <=> InService(v)
                       /\ Pending(v)' <=> Pending(v)
                       /\ Answered(v)' <=> Answered(v)
  BY <1>1 DEF InService, Pending, Answered
<1>3. IInv'
  BY FsDiskIInv, FsServeIInv
<1> QED BY <1>1, <1>2, <1>3, SeesNothing

LEMMA FsReplyRefines ==
  ASSUME IInv, IInv', FsReply
  PROVE  Abstract!Next \/ UNCHANGED Abstract!vars
<1> USE Slots DEF FsReply, SendMsg, Goto, At
<1>1. PICK u, m : u = mbuf[TASK_FS].source /\ m = [mbuf[TASK_FS] EXCEPT !.source = TASK_FS]
  OBVIOUS
<1>2. /\ state[TASK_FS] = "RUNNABLE" /\ pc[TASK_FS] = "reply"
      /\ pc' = [pc EXCEPT ![TASK_FS] = "recv"] /\ asked' = asked
  OBVIOUS
<1>3. u \in Users /\ u \in Proc /\ u # TASK_FS /\ InService(u) /\ Outstanding(u)
      /\ ~Pending(u) /\ ~Answered(u)
  BY <1>1, <1>2 DEF IInv, ServerInv, NoCallLost, InService, Outstanding, Pending, Answered
<1>4. m.req = asked[u]
  BY <1>1, <1>2 DEF IInv, TypeOK, ServerInv, ReplyFor, Message
<1>5. \A v \in Users \ {u} : ~InService(v)
  BY <1>3, OneInService
<1>6. CASE Deliver(TASK_FS, u, m)
  <2>1. state[u] = "RECVING" /\ pc[u] = "done"
    BY <1>3, <1>6 DEF Deliver, Awaits, Outstanding
  <2>2. ReleasedState(m) \in {"RUNNABLE", "SLEEPING"}
    BY DEF ReleasedState
  <2>3. \A v \in Users : ~InService(v)'
    BY <1>2, <1>3, <1>6 DEF Deliver, InService, IInv, TypeOK
  <2>4. Answered(u)' /\ ~Pending(u)' /\ mbuf'[u] = m
    BY <1>2, <1>3, <1>6, <2>1, <2>2 DEF Deliver, Answered, Pending, IInv, TypeOK
  <2>5. \A v \in Users \ {u} : /\ Pending(v)' <=> Pending(v)
                               /\ Answered(v)' <=> Answered(v)
                               /\ mbuf'[v] = mbuf[v]
    BY <1>2, <1>3, <1>6 DEF Deliver, Answered, Pending, IInv, TypeOK
  <2>6. ph' = [ph EXCEPT ![u] = "answered"]
    <3>1. Phase(u)' = "answered"
      BY <2>3, <2>4 DEF Phase
    <3>2. \A v \in Users \ {u} : Phase(v)' = Phase(v)
      BY <1>5, <2>3, <2>5 DEF Phase
    <3> QED BY <1>3, <3>1, <3>2, MovesOne
  <2>7. gt' = [gt EXCEPT ![u] = asked[u]]
    BY <1>3, <1>4, <2>4, <2>5 DEF gt
  <2>8. ph[u] = "taken"
    BY <1>3, PhaseIs DEF ph
  <2>9. Abstract!Reply(u)
    BY <1>2, <2>6, <2>7, <2>8 DEF Abstract!Reply, ph, gt
  <2> QED BY <1>3, <2>9 DEF Abstract!Next
<1>7. CASE BlockSending(TASK_FS, u, m)
  <2>1. \A v \in Users : /\ Pending(v)' <=> Pending(v)
                         /\ Answered(v)' <=> Answered(v)
                         /\ mbuf'[v] = mbuf[v]
    BY <1>2, <1>7 DEF BlockSending, Pending, Answered, IInv, TypeOK
  <2>2. \A v \in Users : InService(v)' <=> InService(v)
    BY <1>1, <1>2, <1>3, <1>5, <1>7 DEF BlockSending, InService, IInv, TypeOK
  <2> QED BY <1>2, <2>1, <2>2, SeesNothing
<1> QED BY <1>1, <1>6, <1>7

LEMMA WakesRefines ==
  ASSUME IInv, NEW chans, Wakes(chans)
  PROVE  UNCHANGED Abstract!vars
<1>1. TypeOK /\ state' = WakeUp(chans) /\ UNCHANGED <<mbuf, sendto, pc, asked>>
  BY DEF IInv, Wakes
<1>2. \A p \in Proc : \/ state'[p] = state[p]
                      \/ state[p] = "SLEEPING" /\ state'[p] = "RUNNABLE"
  BY <1>1, WakeUpStates
<1>3. \A v \in Users : /\ InService(v)' <=> InService(v)
                       /\ Pending(v)' <=> Pending(v)
                       /\ Answered(v)' <=> Answered(v)
                       /\ mbuf'[v] = mbuf[v]
  BY <1>1, <1>2, Slots DEF InService, Pending, Answered
<1>4. IInv'
  BY WakesIInv
<1> QED BY <1>1, <1>3, <1>4, SeesNothing

-----------------------------------------------------------------------------
LEMMA NextRefines ==
  IInv /\ IInv' /\ [Next]_vars => [Abstract!Next]_(Abstract!vars)
<1> SUFFICES ASSUME IInv, IInv', [Next]_vars
             PROVE  Abstract!Next \/ UNCHANGED Abstract!vars
  OBVIOUS
<1>1. ASSUME NEW u \in Users, UserStep(u)
      PROVE  Abstract!Next \/ UNCHANGED Abstract!vars
  <2>1. ASSUME NEW r \in Request, UserCall(u, r) PROVE Abstract!Next
    BY <2>1, SendRefines DEF UserCall
  <2>2. CASE UserRetry(u)
    <3>1. asked[u] \in Request
      BY <2>2 DEF IInv, CallerInv, UserRetry, At
    <3> QED BY <2>2, <3>1, SendRefines DEF UserRetry
  <2> QED BY <1>1, <2>1, <2>2, UserRecvRefines, UserReturnRefines DEF UserStep
<1>2. CASE FsStep
  BY <1>2, FsRecvRefines, FsInnerRefines, FsReplyRefines DEF FsStep
<1>3. CASE IdeIntr \/ TtyIntr
  BY <1>3, WakesRefines DEF IdeIntr, TtyIntr
<1>4. CASE UNCHANGED vars
  BY <1>4, SeesNothing DEF vars, msgVars, InService, Pending, Answered
<1> QED BY <1>1, <1>2, <1>3, <1>4 DEF Next

(* For every set of callers and requests, the calls are those of an Rpc    *)
(* server: one at a time, one reply per call taken, made for that call.    *)
THEOREM ServerImplementsRpc == Spec => Abstract!Spec
<1> QED BY InitRefines, Invariant, NextRefines, PTL DEF Spec, Abstract!Spec

-----------------------------------------------------------------------------
(* From here on, the pipe.  A byte is a writer's, and has its number.      *)
Byte == Writers \X (1 .. MaxBytes)

-----------------------------------------------------------------------------
(* Bytes in several sequences.  H holds the sequences, h of them is the    *)
(* pipe's; a[w] bytes of writer w have been accepted.                      *)
Placed(D, H, a) ==
    UNION {Range(H[x]) : x \in D} = {b \in Byte : b[2] <= a[b[1]]}

Once(D, H) ==
    \A x, y \in D : \A i \in 1 .. Len(H[x]), j \in 1 .. Len(H[y]) :
        H[x][i] = H[y][j] => x = y /\ i = j

Ordered(s) ==
    \A i, j \in 1 .. Len(s) : i < j /\ s[i][1] = s[j][1] => s[i][2] < s[j][2]

Sound(D, H, h, R, a) ==
    /\ Placed(D, H, a) /\ Once(D, H)
    /\ \A r \in R : Ordered(H[r] \o H[h])

(* What taking s from the front of s \o t leaves in order.                 *)
LEMMA StaysOrdered ==
  ASSUME NEW S, NEW u \in Seq(S), NEW s \in Seq(S), NEW t \in Seq(S), Ordered(u \o (s \o t))
  PROVE  Ordered((u \o s) \o t) /\ Ordered(u \o t)
<1>1. Ordered((u \o s) \o t)
  <2>1. (u \o s) \o t = u \o (s \o t)
    BY ConcatAssociative
  <2> QED BY <2>1
<1>2. PICK n, m, l, f, v : n = Len(u) /\ m = Len(s) /\ l = Len(t) /\ f = u \o (s \o t) /\ v = u \o t
  OBVIOUS
<1>3. /\ n \in Nat /\ m \in Nat /\ l \in Nat
      /\ Len(f) = n + (m + l) /\ Len(v) = n + l
      /\ \A i \in 1 .. n : f[i] = v[i]
      /\ \A i \in n + 1 .. n + l : v[i] = f[i + m]
  <2>1. /\ s \o t \in Seq(S) /\ Len(s \o t) = m + l
        /\ \A i \in 1 .. m + l : (s \o t)[i] = IF i <= m THEN s[i] ELSE t[i - m]
    BY <1>2, ConcatProperties
  <2>2. /\ f \in Seq(S) /\ Len(f) = n + (m + l)
        /\ \A i \in 1 .. n + (m + l) : f[i] = IF i <= n THEN u[i] ELSE (s \o t)[i - n]
    BY <1>2, <2>1, ConcatProperties
  <2>3. /\ v \in Seq(S) /\ Len(v) = n + l
        /\ \A i \in 1 .. n + l : v[i] = IF i <= n THEN u[i] ELSE t[i - n]
    BY <1>2, ConcatProperties
  <2>4. n \in Nat /\ m \in Nat /\ l \in Nat
    BY <1>2, LenProperties
  <2>5. ASSUME NEW i \in n + 1 .. n + l PROVE v[i] = f[i + m]
    <3>1. PICK k, j : k = i + m /\ j = k - n
      OBVIOUS
    <3>2. /\ i \in 1 .. n + l /\ ~(i <= n) /\ k \in 1 .. n + (m + l) /\ ~(k <= n)
          /\ j \in 1 .. m + l /\ ~(j <= m) /\ j - m = i - n
      BY <2>4, <3>1
    <3>3. v[i] = t[i - n]
      BY <2>3, <3>2
    <3>4. f[k] = (s \o t)[k - n]
      BY <2>2, <3>2
    <3>5. (s \o t)[j] = t[j - m]
      BY <2>1, <3>2
    <3>6. f[k] = t[i - n]
      BY <3>1, <3>2, <3>4, <3>5
    <3> QED BY <3>1, <3>3, <3>6
  <2>6. ASSUME NEW i \in 1 .. n PROVE f[i] = v[i]
    <3>1. i \in 1 .. n + (m + l) /\ i \in 1 .. n + l /\ i <= n
      BY <2>4
    <3>2. f[i] = u[i]
      BY <2>2, <3>1
    <3>3. v[i] = u[i]
      BY <2>3, <3>1
    <3> QED BY <3>2, <3>3
  <2> QED BY <2>2, <2>3, <2>4, <2>5, <2>6
<1>4. ASSUME NEW i \in 1 .. n + l, NEW j \in 1 .. n + l, i < j, v[i][1] = v[j][1]
      PROVE  v[i][2] < v[j][2]
  <2>1. PICK k, g : k = (IF i <= n THEN i ELSE i + m) /\ g = (IF j <= n THEN j ELSE j + m)
    OBVIOUS
  <2>2. k \in 1 .. n + (m + l) /\ g \in 1 .. n + (m + l) /\ k < g
    BY <1>3, <1>4, <2>1
  <2>3. v[i] = f[k] /\ v[j] = f[g]
    <3>1. ASSUME NEW x \in 1 .. n + l, NEW y, y = (IF x <= n THEN x ELSE x + m)
          PROVE  v[x] = f[y]
      <4>1. CASE x <= n
        <5>1. x \in 1 .. n /\ y = x
          BY <1>3, <3>1, <4>1
        <5> QED BY <1>3, <5>1
      <4>2. CASE ~(x <= n)
        <5>1. x \in n + 1 .. n + l /\ y = x + m
          BY <1>3, <3>1, <4>2
        <5> QED BY <1>3, <5>1
      <4> QED BY <4>1, <4>2
    <3> QED BY <1>4, <2>1, <3>1
  <2>4. k \in 1 .. Len(f) /\ g \in 1 .. Len(f) /\ f[k][1] = f[g][1]
    BY <1>3, <1>4, <2>2, <2>3
  <2>5. Ordered(f)
    BY <1>2
  <2>6. f[k][2] < f[g][2]
    BY <2>2, <2>4, <2>5 DEF Ordered
  <2> QED BY <2>3, <2>6
<1> QED BY <1>1, <1>2, <1>3, <1>4 DEF Ordered

(* m bytes move from the front of H[h] to the end of H[q].                 *)
Moves(D, h, q, m, H, G) ==
    /\ Len(H[h]) = m + Len(G[h]) /\ \A i \in 1 .. Len(G[h]) : G[h][i] = H[h][m + i]
    /\ Len(G[q]) = Len(H[q]) + m /\ \A i \in 1 .. Len(H[q]) : G[q][i] = H[q][i]
    /\ \A i \in 1 .. m : G[q][Len(H[q]) + i] = H[h][i]
    /\ \A x \in D \ {h, q} : G[x] = H[x]

LEMMA StayOnce ==
  ASSUME NEW D, NEW h \in D, NEW q \in D, q # h, NEW m \in Nat, NEW H, NEW G,
         \A x \in D : Len(H[x]) \in Nat /\ Len(G[x]) \in Nat,
         Moves(D, h, q, m, H, G), Once(D, H)
  PROVE  Once(D, G)
(* The place in H of the byte at place i of G[x].                          *)
<1> DEFINE Where(x, i) == IF x = h \/ (x = q /\ i > Len(H[q])) THEN h ELSE x
           Index(x, i) == IF x = h THEN m + i
                          ELSE IF x = q /\ i > Len(H[q]) THEN i - Len(H[q]) ELSE i
<1>1. ASSUME NEW x \in D, NEW i \in 1 .. Len(G[x])
      PROVE  /\ Where(x, i) \in D /\ Index(x, i) \in 1 .. Len(H[Where(x, i)])
             /\ H[Where(x, i)][Index(x, i)] = G[x][i]
  <2>1. CASE x = h
    BY <1>1, <2>1 DEF Moves
  <2>2. CASE x = q /\ i <= Len(H[q])
    BY <1>1, <2>2 DEF Moves
  <2>3. CASE x = q /\ ~(i <= Len(H[q]))
    <3>1. /\ Where(x, i) = h /\ Index(x, i) = i - Len(H[q])
          /\ i - Len(H[q]) \in 1 .. m /\ i = Len(H[q]) + (i - Len(H[q]))
      BY <1>1, <2>3 DEF Moves
    <3>2. PICK k : k = i - Len(H[q])
      OBVIOUS
    <3>3. k \in 1 .. m
      BY <3>1, <3>2
    <3>4. G[q][Len(H[q]) + k] = H[h][k]
      BY <3>3 DEF Moves
    <3>5. k \in 1 .. Len(H[h])
      BY <3>3 DEF Moves
    <3> QED BY <2>3, <3>1, <3>2, <3>4, <3>5
  <2>4. CASE x \in D \ {h, q}
    BY <1>1, <2>4 DEF Moves
  <2> QED BY <2>1, <2>2, <2>3, <2>4
<1>2. ASSUME NEW x \in D, NEW y \in D, NEW i \in 1 .. Len(G[x]), NEW j \in 1 .. Len(G[y]),
             Where(x, i) = Where(y, j), Index(x, i) = Index(y, j)
      PROVE  x = y /\ i = j
  <2>1. i \in Nat /\ j \in Nat /\ i > 0 /\ j > 0 /\ Len(H[q]) \in Nat
    BY <1>2
  <2>2. (x = q => i <= Len(H[q]) + m) /\ (y = q => j <= Len(H[q]) + m)
    BY <1>2 DEF Moves
  <2> QED BY <1>2, <2>1, <2>2
<1> HIDE DEF Where, Index
<1>3. ASSUME NEW x \in D, NEW y \in D, NEW i \in 1 .. Len(G[x]), NEW j \in 1 .. Len(G[y]),
             G[x][i] = G[y][j]
      PROVE  x = y /\ i = j
  <2>1. PICK d, e, k, l : d = Where(x, i) /\ e = Where(y, j) /\ k = Index(x, i) /\ l = Index(y, j)
    OBVIOUS
  <2>2. d \in D /\ e \in D /\ k \in 1 .. Len(H[d]) /\ l \in 1 .. Len(H[e]) /\ H[d][k] = H[e][l]
    BY <1>1, <1>3, <2>1
  <2>3. d = e /\ k = l
    BY <2>2 DEF Once
  <2>4. Where(x, i) = Where(y, j) /\ Index(x, i) = Index(y, j)
    BY <2>1, <2>3
  <2> QED BY <1>2, <1>3, <2>4
<1> QED BY <1>3 DEF Once

(* A reader takes the first bytes of the pipe.                             *)
LEMMA TakenSound ==
  ASSUME NEW D, NEW h \in D, NEW R, R \subseteq D \ {h}, NEW a,
         NEW H \in [D -> Seq(Byte)], NEW s \in Seq(Byte), NEW t \in Seq(Byte),
         NEW q \in R, NEW G \in [D -> Seq(Byte)],
         H[h] = s \o t, G[h] = t, G[q] = H[q] \o s,
         \A x \in D \ {h, q} : G[x] = H[x],
         Sound(D, H, h, R, a)
  PROVE  Sound(D, G, h, R, a)
<1>1. q \in D /\ q # h /\ H[q] \in Seq(Byte)
  OBVIOUS
<1>2. Placed(D, G, a)
  <2>1. Range(H[h]) = Range(s) \cup Range(t) /\ Range(G[q]) = Range(H[q]) \cup Range(s)
    BY <1>1, RangeConcatenation
  <2>2. ASSUME NEW b PROVE (\E x \in D : b \in Range(G[x])) <=> (\E x \in D : b \in Range(H[x]))
    BY <1>1, <2>1
  <2>3. UNION {Range(G[x]) : x \in D} = UNION {Range(H[x]) : x \in D}
    BY <2>2
  <2> QED BY <2>3 DEF Sound, Placed
<1>3. Once(D, G)
  <2>1. PICK m, n : m = Len(s) /\ n = Len(H[q])
    OBVIOUS
  <2>2. m \in Nat /\ n \in Nat /\ Len(t) \in Nat
    BY <1>1, <2>1, LenProperties
  <2>3. /\ Len(H[h]) = m + Len(G[h])
        /\ \A i \in 1 .. m + Len(t) : H[h][i] = IF i <= m THEN s[i] ELSE t[i - m]
        /\ Len(G[q]) = n + m
        /\ \A i \in 1 .. n + m : G[q][i] = IF i <= n THEN H[q][i] ELSE s[i - n]
    BY <1>1, <2>1, ConcatProperties
  <2>4. \A i \in 1 .. Len(G[h]) : G[h][i] = H[h][m + i]
    BY <2>2, <2>3
  <2>5. \A i \in 1 .. n : G[q][i] = H[q][i]
    BY <2>2, <2>3
  <2>6. ASSUME NEW i \in 1 .. m PROVE G[q][n + i] = H[h][i]
    <3>1. PICK k : k = n + i
      OBVIOUS
    <3>2. /\ k \in 1 .. n + m /\ ~(k <= n) /\ k - n = i
          /\ i \in 1 .. m + Len(t) /\ i <= m
      BY <2>2, <3>1
    <3>3. G[q][k] = s[i] /\ H[h][i] = s[i]
      BY <2>3, <3>2
    <3> QED BY <3>1, <3>3
  <2>7. Moves(D, h, q, m, H, G)
    BY <2>1, <2>3, <2>4, <2>5, <2>6 DEF Moves
  <2>8. \A x \in D : Len(H[x]) \in Nat /\ Len(G[x]) \in Nat
    BY LenProperties
  <2> QED BY <1>1, <2>2, <2>7, <2>8, StayOnce DEF Sound
<1>4. ASSUME NEW r \in R PROVE Ordered(G[r] \o G[h])
  <2>1. r \in D /\ r # h /\ H[r] \in Seq(Byte) /\ Ordered(H[r] \o (s \o t))
    BY DEF Sound
  <2>2. Ordered((H[r] \o s) \o t) /\ Ordered(H[r] \o t)
    BY <2>1, StaysOrdered
  <2>3. G[h] = t /\ G[r] = IF r = q THEN H[r] \o s ELSE H[r]
    BY <2>1
  <2> QED BY <2>2, <2>3
<1> QED BY <1>2, <1>3, <1>4 DEF Sound

(* k bytes N, which H does not hold, are put at the end of H[h].           *)
Grows(D, h, k, N, H, G) ==
    /\ Len(G[h]) = Len(H[h]) + k /\ \A i \in 1 .. Len(H[h]) : G[h][i] = H[h][i]
    /\ \A i \in 1 .. k : G[h][Len(H[h]) + i] = N[i]
    /\ \A x \in D \ {h} : G[x] = H[x]

Fresh(D, k, N, H) ==
    /\ \A i, j \in 1 .. k : N[i] = N[j] => i = j
    /\ \A x \in D : \A i \in 1 .. Len(H[x]), j \in 1 .. k : H[x][i] # N[j]

LEMMA MoreOnce ==
  ASSUME NEW D, NEW h \in D, NEW k \in Nat, NEW N, NEW H, NEW G,
         \A x \in D : Len(H[x]) \in Nat /\ Len(G[x]) \in Nat,
         Grows(D, h, k, N, H, G), Fresh(D, k, N, H), Once(D, H)
  PROVE  Once(D, G)
<1>1. ASSUME NEW x \in D, NEW i \in 1 .. Len(G[x])
      PROVE  \/ i \in 1 .. Len(H[x]) /\ G[x][i] = H[x][i]
             \/ \E l \in 1 .. k : x = h /\ i = Len(H[h]) + l /\ G[x][i] = N[l]
  <2>1. CASE x = h /\ i <= Len(H[h])
    BY <1>1, <2>1 DEF Grows
  <2>2. CASE x = h /\ ~(i <= Len(H[h]))
    <3>1. PICK l : l = i - Len(H[h])
      OBVIOUS
    <3>2. l \in 1 .. k /\ i = Len(H[h]) + l
      BY <1>1, <2>2, <3>1 DEF Grows
    <3>3. G[h][Len(H[h]) + l] = N[l]
      BY <3>2 DEF Grows
    <3> QED BY <2>2, <3>2, <3>3
  <2>3. CASE x # h
    BY <1>1, <2>3 DEF Grows
  <2> QED BY <2>1, <2>2, <2>3
<1>2. ASSUME NEW x \in D, NEW y \in D, NEW i \in 1 .. Len(G[x]), NEW j \in 1 .. Len(G[y]),
             G[x][i] = G[y][j]
      PROVE  x = y /\ i = j
  <2>1. CASE i \in 1 .. Len(H[x]) /\ G[x][i] = H[x][i]
    <3>1. ASSUME NEW l \in 1 .. k PROVE G[y][j] # N[l]
      BY <1>2, <2>1, <3>1 DEF Fresh
    <3>2. j \in 1 .. Len(H[y]) /\ G[y][j] = H[y][j]
      BY <1>1, <1>2, <3>1
    <3>3. H[x][i] = H[y][j]
      BY <1>2, <2>1, <3>2
    <3> QED BY <1>2, <2>1, <3>2, <3>3 DEF Once
  <2>2. CASE \E l \in 1 .. k : x = h /\ i = Len(H[h]) + l /\ G[x][i] = N[l]
    <3>1. PICK l \in 1 .. k : x = h /\ i = Len(H[h]) + l /\ G[x][i] = N[l]
      BY <2>2
    <3>2. PICK g \in 1 .. k : y = h /\ j = Len(H[h]) + g /\ G[y][j] = N[g]
      BY <1>1, <1>2, <3>1 DEF Fresh
    <3>3. l = g
      BY <1>2, <3>1, <3>2 DEF Fresh
    <3> QED BY <3>1, <3>2, <3>3
  <2> QED BY <1>1, <1>2, <2>1, <2>2
<1> QED BY <1>2 DEF Once

(* s has of w the first m bytes at most; s holds the bytes after those.    *)
Below(s, w, m) == \A i \in 1 .. Len(s) : s[i][1] = w => s[i][2] <= m

After(s, w, m) == \A i \in 1 .. Len(s) : s[i] = <<w, m + i>>

LEMMA MoreOrdered ==
  ASSUME NEW f \in Seq(Byte), NEW s \in Seq(Byte), NEW w, NEW m \in Nat, Ordered(f),
         Below(f, w, m), After(s, w, m)
  PROVE  Ordered(f \o s)
<1>1. PICK n, k, v : n = Len(f) /\ k = Len(s) /\ v = f \o s
  OBVIOUS
<1>2. /\ n \in Nat /\ k \in Nat /\ Len(v) = n + k
      /\ \A i \in 1 .. n + k : v[i] = IF i <= n THEN f[i] ELSE s[i - n]
  BY <1>1, ConcatProperties, LenProperties
<1>3. ASSUME NEW i \in 1 .. n PROVE v[i] = f[i] /\ v[i][2] \in Nat
  <2>1. v[i] = f[i]
    BY <1>2, <1>3
  <2>2. f[i] \in Byte /\ MaxBytes \in Nat
    BY <1>1, <1>3, ElementOfSeq, PipeIpcAssumption
  <2>3. f[i][2] \in Nat
    BY <2>2 DEF Byte
  <2> QED BY <2>1, <2>3
<1>4. ASSUME NEW i \in n + 1 .. n + k PROVE v[i][1] = w /\ v[i][2] = m + (i - n)
  <2>1. i \in 1 .. n + k /\ ~(i <= n) /\ i - n \in 1 .. k
    BY <1>2, <1>4
  <2>2. v[i] = s[i - n] /\ s[i - n] = <<w, m + (i - n)>>
    BY <1>1, <1>2, <2>1 DEF After
  <2> QED BY <2>2
<1>5. ASSUME NEW i \in 1 .. n + k, NEW j \in 1 .. n + k, i < j, v[i][1] = v[j][1]
      PROVE  v[i][2] < v[j][2]
  <2>1. CASE j <= n
    <3>1. i \in 1 .. n /\ j \in 1 .. n
      BY <1>2, <1>5, <2>1
    <3> QED BY <1>1, <1>3, <1>5, <3>1 DEF Ordered
  <2>2. CASE i <= n /\ ~(j <= n)
    <3>1. i \in 1 .. n /\ j \in n + 1 .. n + k /\ j - n > 0 /\ j - n \in Nat
      BY <1>2, <1>5, <2>2
    <3>2. v[i][1] = w /\ v[i] = f[i] /\ v[i][2] <= m
      BY <1>1, <1>3, <1>4, <1>5, <3>1 DEF Below
    <3>3. v[j][2] = m + (j - n) /\ v[i][2] \in Nat
      BY <1>3, <1>4, <3>1
    <3> QED BY <3>1, <3>2, <3>3
  <2>3. CASE ~(i <= n)
    <3>1. i \in n + 1 .. n + k /\ j \in n + 1 .. n + k
      BY <1>2, <1>5, <2>3
    <3> QED BY <1>2, <1>4, <1>5, <3>1
  <2> QED BY <2>1, <2>2, <2>3
<1> QED BY <1>1, <1>2, <1>5 DEF Ordered

LEMMA OrderedBehind ==
  ASSUME NEW u \in Seq(Byte), NEW v \in Seq(Byte), NEW s \in Seq(Byte),
         NEW w, NEW m \in Nat, Ordered(u \o v),
         Below(u, w, m), Below(v, w, m), After(s, w, m)
  PROVE  Ordered(u \o (v \o s))
<1>1. PICK f, l, n : f = u \o v /\ l = Len(u) /\ n = Len(v)
  OBVIOUS
<1>2. /\ f \in Seq(Byte) /\ Len(f) = l + n /\ l \in Nat /\ n \in Nat
      /\ \A j \in 1 .. l + n : f[j] = IF j <= l THEN u[j] ELSE v[j - l]
  BY <1>1, ConcatProperties, LenProperties
<1>3. ASSUME NEW i \in 1 .. Len(f), f[i][1] = w PROVE f[i][2] <= m
  <2>1. CASE i <= l
    <3>1. i \in 1 .. l /\ f[i] = u[i]
      BY <1>2, <2>1
    <3> QED BY <1>1, <1>3, <3>1 DEF Below
  <2>2. CASE ~(i <= l)
    <3>1. PICK j : j = i - l
      OBVIOUS
    <3>2. j \in 1 .. n /\ f[i] = v[j]
      BY <1>2, <2>2, <3>1
    <3> QED BY <1>1, <1>3, <3>2 DEF Below
  <2> QED BY <2>1, <2>2
<1>4. Ordered(f \o s)
  <2>1. Below(f, w, m)
    BY <1>3 DEF Below
  <2> QED BY <1>1, <1>2, <2>1, MoreOrdered
<1>5. (u \o v) \o s = u \o (v \o s)
  BY ConcatAssociative
<1> QED BY <1>1, <1>4, <1>5

(* What was accepted before: no byte of w beyond the first a[w].           *)
LEMMA PlacedBelow ==
  ASSUME NEW D, NEW a, NEW H \in [D -> Seq(Byte)], Placed(D, H, a),
         NEW x \in D, NEW i \in 1 .. Len(H[x])
  PROVE  H[x][i] \in Byte /\ H[x][i][2] <= a[H[x][i][1]]
<1>1. H[x] \in Seq(Byte)
  OBVIOUS
<1>2. Range(H[x]) = {H[x][j] : j \in 1 .. Len(H[x])}
  BY <1>1, RangeEquality
<1>3. H[x][i] \in {b \in Byte : b[2] <= a[b[1]]}
  BY <1>2 DEF Placed
<1> QED BY <1>3

(* A writer adds its next bytes at the end of the pipe.                    *)
CountsUp(w, k, a, c) == \A v \in Writers : c[v] = IF v = w THEN a[w] + k ELSE a[v]

PutsAt(D, h, s, H, G) == G[h] = H[h] \o s /\ \A x \in D \ {h} : G[x] = H[x]

LEMMA AddedPlaced ==
  ASSUME NEW D, NEW h \in D, NEW w \in Writers, NEW a, NEW c,
         NEW H \in [D -> Seq(Byte)], NEW G, NEW s \in Seq(Byte), a[w] \in Nat, a[w] + Len(s) <= MaxBytes,
         CountsUp(w, Len(s), a, c), After(s, w, a[w]), PutsAt(D, h, s, H, G), Placed(D, H, a)
  PROVE  Placed(D, G, c)
<1>a. PICK k, n : k = Len(s) /\ n = a[w]
  OBVIOUS
<1>b. k \in Nat /\ n \in Nat /\ n + k <= MaxBytes
  BY <1>a, LenProperties
<1>c. \A v \in Writers : c[v] = IF v = w THEN n + k ELSE a[v]
  BY <1>a DEF CountsUp
<1>d. ASSUME NEW b PROVE b \in Range(s) <=> \E i \in 1 .. k : b = <<w, n + i>>
  <2>1. Range(s) = {s[i] : i \in 1 .. k}
    BY <1>a, RangeEquality
  <2>2. \A i \in 1 .. k : s[i] = <<w, n + i>>
    BY <1>a DEF After
  <2> QED BY <2>1, <2>2
<1>e. Range(G[h]) = Range(H[h]) \cup Range(s)
  <2>1. H[h] \in Seq(Byte) /\ G[h] = H[h] \o s
    BY DEF PutsAt
  <2> QED BY <2>1, RangeConcatenation
<1>1. ASSUME NEW b
      PROVE  b \in UNION {Range(G[x]) : x \in D} <=> b \in UNION {Range(H[x]) : x \in D} \/ b \in Range(s)
  <2>1. \A x \in D : b \in Range(G[x]) <=> b \in Range(H[x]) \/ (x = h /\ b \in Range(s))
    BY <1>e DEF PutsAt
  <2> QED BY <2>1
<1>2. MaxBytes \in Nat
  BY PipeIpcAssumption
<1>3. ASSUME NEW b \in Byte
      PROVE  b[2] <= c[b[1]] <=> b[2] <= a[b[1]] \/ b \in Range(s)
  <2>1. PICK v \in Writers, j \in 1 .. MaxBytes : b = <<v, j>>
    BY <1>3 DEF Byte
  <2>2. b \in Range(s) <=> v = w /\ j \in n + 1 .. n + k
    <3>1. j \in n + 1 .. n + k <=> \E i \in 1 .. k : j = n + i
      <4>1. j \in n + 1 .. n + k => j - n \in 1 .. k /\ j = n + (j - n)
        BY <1>b, <1>2
      <4> QED BY <1>b, <1>2, <4>1
    <3> QED BY <1>d, <2>1, <3>1
  <2> QED BY <1>a, <1>b, <1>c, <1>2, <2>1, <2>2
<1>4. ASSUME NEW b \in Range(s) PROVE b \in Byte
  <2>1. PICK i \in 1 .. k : b = <<w, n + i>>
    BY <1>d, <1>4
  <2>2. n + i \in 1 .. MaxBytes
    BY <1>b, <1>2
  <2> QED BY <2>1, <2>2 DEF Byte
<1>5. UNION {Range(H[x]) : x \in D} = {b \in Byte : b[2] <= a[b[1]]}
  BY DEF Placed
<1>6. UNION {Range(G[x]) : x \in D} = {b \in Byte : b[2] <= c[b[1]]}
  <2>1. ASSUME NEW b
        PROVE  b \in UNION {Range(G[x]) : x \in D} <=> b \in {e \in Byte : e[2] <= c[e[1]]}
    BY <1>1, <1>3, <1>4, <1>5
  <2> QED BY <2>1
<1> QED BY <1>6 DEF Placed

LEMMA AddedSound ==
  ASSUME NEW D, NEW h \in D, NEW R, R \subseteq D \ {h}, NEW w \in Writers, NEW a, NEW c,
         NEW H \in [D -> Seq(Byte)], NEW G \in [D -> Seq(Byte)], NEW s \in Seq(Byte),
         a[w] \in Nat, a[w] + Len(s) <= MaxBytes,
         CountsUp(w, Len(s), a, c), After(s, w, a[w]), PutsAt(D, h, s, H, G),
         Sound(D, H, h, R, a)
  PROVE  Sound(D, G, h, R, c)
<1>1. PICK k, n : k = Len(s) /\ n = a[w]
  OBVIOUS
<1>2. k \in Nat /\ n \in Nat /\ H[h] \in Seq(Byte) /\ Placed(D, H, a)
  BY <1>1, LenProperties DEF Sound
<1>3. Placed(D, G, c)
  BY <1>2, AddedPlaced
<1>4. Once(D, G)
  <2>1. \A x \in D : Len(H[x]) \in Nat /\ Len(G[x]) \in Nat
    BY LenProperties
  <2>2. Grows(D, h, k, s, H, G)
    <3>1. PICK l : l = Len(H[h])
      OBVIOUS
    <3>2. Len(G[h]) = l + k /\ \A i \in 1 .. l + k : G[h][i] = IF i <= l THEN H[h][i] ELSE s[i - l]
      BY <1>1, <1>2, <3>1, ConcatProperties DEF PutsAt
    <3>3. ASSUME NEW i \in 1 .. k PROVE G[h][l + i] = s[i]
      <4>1. PICK j : j = l + i
        OBVIOUS
      <4>2. j \in 1 .. l + k /\ ~(j <= l) /\ j - l = i
        BY <1>2, <2>1, <3>1, <4>1
      <4>3. G[h][j] = s[i]
        BY <3>2, <4>2
      <4> QED BY <4>1, <4>3
    <3>4. ASSUME NEW i \in 1 .. l PROVE G[h][i] = H[h][i]
      <4>1. i \in 1 .. l + k /\ i <= l
        BY <1>2, <2>1, <3>1
      <4> QED BY <3>2, <4>1
    <3> QED BY <3>1, <3>2, <3>3, <3>4 DEF Grows, PutsAt
  <2>3. Fresh(D, k, s, H)
    <3>1. ASSUME NEW i \in 1 .. k, NEW j \in 1 .. k, s[i] = s[j] PROVE i = j
      <4>1. n + i = n + j
        BY <1>1, <3>1 DEF After
      <4> QED BY <1>2, <4>1
    <3>2. ASSUME NEW x \in D, NEW i \in 1 .. Len(H[x]), NEW j \in 1 .. k PROVE H[x][i] # s[j]
      <4>1. H[x][i][2] <= a[H[x][i][1]]
        BY <1>2, <3>2, PlacedBelow
      <4>2. s[j][1] = w /\ s[j][2] = n + j /\ ~(n + j <= n)
        BY <1>1, <1>2, <3>2 DEF After
      <4> QED BY <1>1, <4>1, <4>2
    <3> QED BY <3>1, <3>2 DEF Fresh
  <2> QED BY <1>2, <2>1, <2>2, <2>3, MoreOnce DEF Sound
<1>5. ASSUME NEW x \in D PROVE H[x] \in Seq(Byte) /\ Below(H[x], w, n)
  <2>1. ASSUME NEW i \in 1 .. Len(H[x]), H[x][i][1] = w PROVE H[x][i][2] <= n
    <3>1. H[x][i][2] <= a[H[x][i][1]]
      BY <1>2, <2>1, PlacedBelow
    <3> QED BY <1>1, <2>1, <3>1
  <2> QED BY <2>1 DEF Below
<1>6. ASSUME NEW r \in R PROVE Ordered(G[r] \o G[h])
  <2>1. r \in D /\ r # h /\ Ordered(H[r] \o H[h])
    BY DEF Sound
  <2>2. Ordered(H[r] \o (H[h] \o s))
    BY <1>1, <1>2, <1>5, <2>1, OrderedBehind
  <2> QED BY <2>1, <2>2 DEF PutsAt
<1> QED BY <1>3, <1>4, <1>6 DEF Sound

-----------------------------------------------------------------------------
(* Requests.                                                               *)
LEMMA Sizes ==
  /\ PIPESIZE \in Nat /\ PIPESIZE > 0 /\ CHUNK \in Nat /\ CHUNK > 0 /\ MaxBytes \in Nat
  /\ Writers \subseteq Users /\ Readers \subseteq Users
BY PipeIpcAssumption

LEMMA RequestIs ==
  ASSUME NEW r \in Request
  PROVE  /\ r.op \in {"close", "read", "write"}
         /\ r.op = "close" => r.end \in Ends
         /\ r.op = "read" => r.n \in 1 .. CHUNK
         /\ r.op = "write" => /\ r.bytes \in Seq(Byte) /\ Len(r.bytes) \in 1 .. CHUNK
                              /\ Len(r.bytes) \in Nat
         /\ r \in Blocking <=> r.op # "close"
<1>1. r \in PipeRequest /\ (r \in Blocking <=> r.op # "close")
  BY PipeIpcAssumption DEF PipeBlocking
<1>2. CASE r \in [op : {"close"}, end : Ends]
  BY <1>1, <1>2
<1>3. CASE r \in [op : {"read"}, n : 1 .. CHUNK]
  BY <1>1, <1>3
<1>4. ASSUME NEW w \in Writers, NEW k \in 0 .. MaxBytes, r \in WritesFrom(w, k)
      PROVE  r.op = "write" /\ r.bytes \in Seq(Byte) /\ Len(r.bytes) \in 1 .. CHUNK
             /\ Len(r.bytes) \in Nat
  <2>a. PICK n \in 1 .. Least(CHUNK, MaxBytes - k) :
           r = [op |-> "write", bytes |-> [i \in 1 .. n |-> <<w, k + i>>]]
    BY <1>4 DEF WritesFrom
  <2>1. n \in Nat /\ n \in 1 .. CHUNK /\ k + n <= MaxBytes /\ k \in Nat
    BY Sizes, <1>4, <2>a DEF Least
  <2>2. \A i \in 1 .. n : <<w, k + i>> \in Byte
    BY Sizes, <2>1 DEF Byte
  <2>3. [i \in 1 .. n |-> <<w, k + i>>] \in Seq(Byte) /\ Len([i \in 1 .. n |-> <<w, k + i>>]) = n
    BY <2>1, <2>2
  <2> QED BY <2>a, <2>1, <2>3
<1> QED BY <1>1, <1>2, <1>3, <1>4 DEF PipeRequest

LEMMA LeastIs ==
  ASSUME NEW a \in Int, NEW b \in Int
  PROVE  Least(a, b) \in {a, b} /\ Least(a, b) <= a /\ Least(a, b) <= b
BY DEF Least

(* What a program asks for.                                                *)
LEMMA WantsIs ==
  ASSUME NEW u \in Users, ofile[u] \subseteq Ends, sent[u] \in 0 .. MaxBytes, NEW r \in Wants(u)
  PROVE  /\ r \in Request
         /\ r.op = "read" => u \in Readers
         /\ r.op = "write" => u \in Writers /\ After(r.bytes, u, sent[u])
                              /\ sent[u] + Len(r.bytes) <= MaxBytes
<1>1. CASE r \in [op : {"close"}, end : ofile[u]]
  <2>1. r \in [op : {"close"}, end : Ends] /\ r.op = "close"
    BY <1>1
  <2> QED BY <2>1, PipeIpcAssumption DEF PipeRequest
<1>2. CASE r \in [op : {"read"}, n : 1 .. CHUNK] /\ u \in Readers
  <2>1. r.op = "read"
    BY <1>2
  <2> QED BY <1>2, <2>1, PipeIpcAssumption DEF PipeRequest
<1>3. ASSUME u \in Writers, r \in WritesFrom(u, sent[u])
      PROVE  /\ r \in Request /\ r.op = "write" /\ After(r.bytes, u, sent[u])
             /\ sent[u] + Len(r.bytes) <= MaxBytes
  <2>1. PICK n \in 1 .. Least(CHUNK, MaxBytes - sent[u]) :
           r = [op |-> "write", bytes |-> [i \in 1 .. n |-> <<u, sent[u] + i>>]]
    BY <1>3 DEF WritesFrom
  <2>2. n \in Nat /\ sent[u] + n <= MaxBytes
    BY Sizes, <2>1 DEF Least
  <2>3. r.op = "write" /\ r.bytes = [i \in 1 .. n |-> <<u, sent[u] + i>>] /\ Len(r.bytes) = n
    BY <2>1, <2>2
  <2>4. r \in Request
    BY <1>3, PipeIpcAssumption DEF PipeRequest
  <2> QED BY <2>2, <2>3, <2>4 DEF After
<1>4. \/ r \in [op : {"close"}, end : ofile[u]]
      \/ r \in [op : {"read"}, n : 1 .. CHUNK] /\ u \in Readers
      \/ u \in Writers /\ r \in WritesFrom(u, sent[u])
  <2>1. ofile[u] # {} /\ ofile[u] = Needs(u) /\ u \notin Readers => u \in Writers
    BY DEF Needs, Ends
  <2> QED BY <2>1 DEF Wants
<1> QED BY <1>1, <1>2, <1>3, <1>4

-----------------------------------------------------------------------------
(* The inductive invariant.                                                *)

SleepSound(c) ==
    /\ c = ChanOf("r") => count = 0 /\ open["w"]
    /\ c = ChanOf("w") => count = PIPESIZE /\ open["r"]

(* The reply m to u's call.                                                *)
ReplyIs(u, m) ==
    /\ m.type = "BESLEEP" <=> m.i1 = -2
    /\ asked[u].op = "read" /\ m.i1 > 0 => Len(iobuf[u]) = m.i1
    /\ asked[u].op = "write" => m.i1 <= Len(asked[u].bytes)

AskedInv(u) ==
    /\ asked[u] \in Request
    /\ asked[u].op = "read" => u \in Readers
    /\ asked[u].op = "write" => /\ u \in Writers /\ After(asked[u].bytes, u, sent[u])
                                /\ sent[u] + Len(asked[u].bytes) <= MaxBytes
                                /\ iobuf[u] = asked[u].bytes

CallInv(u) ==
    /\ pc[u] # "user" => AskedInv(u)
    /\ state[u] = "SENDING" => mbuf[u].i1 = 0
    /\ Answered(u) => ReplyIs(u, mbuf[u])
    /\ InService(u) /\ pc[TASK_FS] = "serve" => mbuf[TASK_FS].i1 = 0
    /\ InService(u) /\ pc[TASK_FS] # "serve" =>
          /\ ReplyIs(u, mbuf[TASK_FS])
          /\ mbuf[TASK_FS].type = "BESLEEP" => SleepSound(mbuf[TASK_FS].chan)

PipeTypes ==
    /\ pc[TASK_FS] # "disk"
    /\ open \in [Ends -> BOOLEAN] /\ ref \in [Ends -> Nat]
    /\ ofile \in [Users -> SUBSET Ends]
    /\ iobuf \in [Users -> Seq(Byte)] /\ got \in [Users -> Seq(Byte)]
    /\ sent \in [Users -> 0 .. MaxBytes]

PInv ==
    /\ IInv /\ PipeTypes /\ PipeTypeOK /\ NoLostWakeup
    /\ \A u \in Users : CallInv(u)
    /\ BytesOnceInOrder

-----------------------------------------------------------------------------
(* The steps are steps of FsServer.                                        *)

(* The server has taken a request of Caller, which waits.                  *)
LEMMA CallerIs ==
  ASSUME IInv, At(TASK_FS, "serve")
  PROVE  /\ Caller \in Users /\ Caller # TASK_FS /\ InService(Caller)
         /\ \A u \in Users : InService(u) => u = Caller
         /\ Outstanding(Caller) /\ ~Answered(Caller) /\ pc[Caller] # "user"
         /\ mbuf[TASK_FS].req = asked[Caller] /\ asked[Caller] \in Request
         /\ state[TASK_FS] = "RUNNABLE" /\ pc[TASK_FS] = "serve"
<1>1. state[TASK_FS] = "RUNNABLE" /\ pc[TASK_FS] = "serve"
  BY DEF At
<1>2. Caller \in Users /\ RequestFor(Caller, mbuf[TASK_FS])
  BY <1>1 DEF IInv, ServerInv, Caller
<1>3. InService(Caller) /\ \A u \in Users : InService(u) => u = Caller
  BY <1>1 DEF InService, Caller
<1>4. Outstanding(Caller)
  BY <1>2, <1>3 DEF IInv, NoCallLost
<1> QED BY <1>1, <1>2, <1>3, <1>4, Slots DEF Outstanding, Answered, RequestFor

LEMMA HandlerMaps ==
  ASSUME IInv, PipeTypeOK, FsRead \/ FsWrite \/ FsClose
  PROVE  FsServe
<1>1. /\ At(TASK_FS, "serve") /\ mbuf[TASK_FS].req \in Request
      /\ mbuf[TASK_FS].req.op = (IF FsRead THEN "read" ELSE IF FsWrite THEN "write" ELSE "close")
  <2>1. At(TASK_FS, "serve")
    BY DEF FsRead, FsWrite, FsClose, Serving
  <2> QED BY <2>1, CallerIs DEF FsRead, FsWrite, FsClose, Serving
<1>2. -2 \notin Result /\ {ChanOf("r"), ChanOf("w")} \subseteq Chan /\ {-1, 0} \subseteq Result
      /\ \A k \in 1 .. CHUNK : k \in Result
  BY PipeIpcAssumption, Sizes DEF PipeResult, PipeChan, Ends
<1>3. ASSUME NEW i \in Result, NEW woken \in SUBSET Chan, FsServeWith(i, NULL, woken) PROVE FsServe
  BY <1>3 DEF FsServe
<1>4. ASSUME NEW c \in Chan, NEW woken \in SUBSET Chan, FsServeWith(-2, c, woken),
             mbuf[TASK_FS].req.op # "close"
      PROVE  FsServe
  <2>1. mbuf[TASK_FS].req \in Blocking
    BY <1>1, <1>4, RequestIs
  <2> QED BY <1>4, <2>1 DEF FsServe
<1>5. {} \in SUBSET Chan /\ {ChanOf("r")} \in SUBSET Chan /\ {ChanOf("w")} \in SUBSET Chan
  BY <1>2
<1>6. CASE FsRead
  <2>1. mbuf[TASK_FS].req.op = "read" /\ mbuf[TASK_FS].req.n \in 1 .. CHUNK
    BY <1>1, <1>6, RequestIs
  <2>2. CASE ReadSome
    <3>1. PICK k : k > 0 /\ k = Least(mbuf[TASK_FS].req.n, count) /\ FsServeWith(k, NULL, {ChanOf("w")})
      BY <2>2 DEF ReadSome
    <3>2. k \in 1 .. CHUNK
      BY <2>1, <3>1, Sizes, LeastIs DEF PipeTypeOK
    <3> QED BY <1>2, <1>3, <1>5, <3>1, <3>2
  <2>3. CASE ReadNone
    <3>1. FsServeWith(-2, ChanOf("r"), {}) \/ FsServeWith(0, NULL, {})
      BY <2>3 DEF ReadNone
    <3> QED BY <1>2, <1>3, <1>4, <1>5, <2>1, <3>1
  <2> QED BY <1>6, <2>2, <2>3 DEF FsRead
<1>7. CASE FsWrite
  <2>1. Serving("write") /\ (WriteRefused \/ WriteSome)
    BY <1>7 DEF FsWrite
  <2>2. mbuf[TASK_FS].req.op = "write" /\ Len(mbuf[TASK_FS].req.bytes) \in 1 .. CHUNK
    BY <1>1, <2>1, RequestIs DEF Serving
  <2>3. CASE WriteRefused
    BY <1>2, <1>3, <1>5, <2>3 DEF WriteRefused
  <2>4. CASE WriteSome
    <3>1. PICK k : /\ k = Least(Len(mbuf[TASK_FS].req.bytes), Room)
                   /\ IF k = 0 THEN FsServeWith(-2, ChanOf("w"), {ChanOf("r")})
                               ELSE FsServeWith(k, NULL, {ChanOf("r")})
      BY <2>4 DEF WriteSome
    <3>2. k # 0 => k \in 1 .. CHUNK
      <4>1. Room \in 0 .. PIPESIZE
        BY Sizes DEF PipeTypeOK, Room
      <4> QED BY <2>2, <3>1, <4>1, Sizes DEF Least
    <3> QED BY <1>2, <1>3, <1>4, <1>5, <2>2, <3>1, <3>2
  <2> QED BY <2>1, <2>3, <2>4
<1>8. CASE FsClose
  <2>1. FsServeWith(0, NULL, {}) \/ \E e : FsServeWith(0, NULL, {ChanOf(Other(e))})
    BY <1>8 DEF FsClose
  <2>2. \A e : {ChanOf(Other(e))} \in SUBSET Chan
    BY <1>2 DEF Other
  <2> QED BY <1>2, <1>3, <1>5, <2>1, <2>2
<1> QED BY <1>6, <1>7, <1>8

LEMMA StepMaps == PInv /\ [PipeNext]_allVars => [Next]_vars
<1> SUFFICES ASSUME PInv, [PipeNext]_allVars PROVE [Next]_vars
  OBVIOUS
<1>1. ASSUME NEW u \in Users, ProgStep(u) PROVE Next
  <2>1. CASE ProgCall(u)
    <3>1. PICK r \in Wants(u) : UserCall(u, r)
      BY <2>1 DEF ProgCall
    <3>2. r \in Request
      BY <3>1, WantsIs DEF PInv, PipeTypes
    <3> QED BY <3>1, <3>2 DEF Next, UserStep
  <2>2. CASE ProgRetry(u) \/ ProgReturn(u) \/ UserRecv(u)
    BY <2>2 DEF Next, UserStep, ProgRetry, ProgReturn
  <2> QED BY <1>1, <2>1, <2>2 DEF ProgStep
<1>2. CASE ServerStep
  BY <1>2, HandlerMaps DEF ServerStep, FsHandler, PInv, Next, FsStep
<1>3. CASE UNCHANGED allVars
  BY <1>3 DEF allVars
<1> QED BY <1>1, <1>2, <1>3 DEF PipeNext

-----------------------------------------------------------------------------
LEMMA EmptyRead ==
  ASSUME NEW q \in Seq(Byte), NEW s
  PROVE  q \o SubSeq(s, 1, 0) = q
<1>1. SubSeq(s, 1, 0) = <<>>
  BY SubSeqEmpty
<1> QED BY <1>1, ConcatEmptySeq

(* Messages move: the pipe and the programs keep what they have.           *)

(* An accepted byte is counted, and read, with the reply or after it.      *)
LEMMA BytesKept ==
  ASSUME BytesOnceInOrder, Contents' = Contents,
         \A r \in Readers : Stream(r)' = Stream(r),
         \A w \in Writers : Accepted(w)' = Accepted(w)
  PROVE  BytesOnceInOrder'
<1>1. Holds' = Holds
  BY DEF Holds
<1>2. {b \in Writers \X (1 .. MaxBytes) : b[2] <= Accepted(b[1])'}
        = {b \in Writers \X (1 .. MaxBytes) : b[2] <= Accepted(b[1])}
  OBVIOUS
<1> QED BY <1>1, <1>2 DEF BytesOnceInOrder

LEMMA MessageKeeps ==
  ASSUME PInv, IInv', UNCHANGED <<pipeVars, progVars, asked>>, pc'[TASK_FS] # "disk",
         \A v \in Users : CallInv(v)',
         \A v \in Users : InFlight(v)' = InFlight(v),
         \A p \in Proc : state'[p] = "SLEEPING" => SleepSound(tmp'[p])
  PROVE  PInv'
<1>1. BytesOnceInOrder'
  <2>1. Contents' = Contents
    BY DEF Contents, RdBytes, pipeVars
  <2>2. \A r \in Readers : Stream(r)' = Stream(r)
    BY Sizes DEF Stream, pipeVars, progVars
  <2>3. \A w \in Writers : Accepted(w)' = Accepted(w)
    BY Sizes DEF Accepted, progVars
  <2> QED BY <2>1, <2>2, <2>3, BytesKept DEF PInv
<1>2. NoLostWakeup'
  BY DEF NoLostWakeup, SleepSound, pipeVars
<1>3. PipeTypes' /\ PipeTypeOK'
  BY DEF PInv, PipeTypes, PipeTypeOK, pipeVars, progVars
<1> QED BY <1>1, <1>2, <1>3 DEF PInv

(* Whoever sleeps, sleeps as before.                                       *)
LEMMA SleepersAre ==
  ASSUME NoLostWakeup, NEW p \in Proc, state[p] = "SLEEPING"
  PROVE  SleepSound(tmp[p])
BY DEF NoLostWakeup, SleepSound

LEMMA UserRecvKeeps ==
  ASSUME PInv, IInv', NEW u \in Users, UserRecv(u), Rest
  PROVE  PInv'
<1> USE Slots DEF UserRecv, RecvMsg, Goto, At
<1>1. /\ u \in Proc /\ u # TASK_FS /\ pc' = [pc EXCEPT ![u] = "done"] /\ asked' = asked
      /\ state[u] = "RUNNABLE" /\ pc[u] = "wait" /\ IInv /\ TypeOK
      /\ UNCHANGED <<data, head, count, open, ref, ofile, iobuf, got, sent>>
  BY DEF PInv, IInv, Rest, pipeVars, progVars
<1>2. InService(u) /\ ~Answered(u)
  BY <1>1 DEF IInv, NoCallLost, Outstanding, Answered
<1>3. UNCHANGED <<pipeVars, progVars, asked>> /\ pc'[TASK_FS] # "disk"
  BY <1>1 DEF Rest, PInv, PipeTypes, TypeOK
<1>4. CASE BlockReceiving(u, TASK_FS)
  <2>1. \A v \in Users : /\ InService(v)' <=> InService(v)
                         /\ Answered(v)' <=> Answered(v)
                         /\ pc'[v] = "user" <=> pc[v] = "user"
                         /\ state'[v] = "SENDING" <=> state[v] = "SENDING"
    BY <1>1, <1>2, <1>4 DEF BlockReceiving, InService, Answered, TypeOK
  <2>2. mbuf' = mbuf /\ tmp' = tmp /\ pc'[TASK_FS] = pc[TASK_FS]
    BY <1>1, <1>4 DEF BlockReceiving, TypeOK
  <2>3. \A v \in Users : CallInv(v)'
    BY <1>1, <2>1, <2>2 DEF PInv, CallInv, AskedInv, ReplyIs, SleepSound
  <2>4. \A v \in Users : InFlight(v)' = InFlight(v)
    BY <2>1, <2>2 DEF InFlight
  <2>5. ASSUME NEW p \in Proc, state'[p] = "SLEEPING" PROVE SleepSound(tmp'[p])
    <3>1. state[p] = "SLEEPING"
      BY <1>1, <1>4, <2>5 DEF BlockReceiving, TypeOK
    <3> QED BY <2>2, <3>1, SleepersAre DEF PInv
  <2> QED BY <1>3, <2>3, <2>4, <2>5, MessageKeeps
<1>5. CASE TakeFirst(u, TASK_FS)
  <2>1. Take(u, TASK_FS) /\ state[TASK_FS] = "SENDING" /\ sendto[TASK_FS] = u
    BY <1>5 DEF TakeFirst, Senders
  <2>2. pc[TASK_FS] = "recv" /\ ReleasedState(mbuf[TASK_FS]) \in {"RUNNABLE", "SLEEPING"}
    BY <1>1, <2>1 DEF IInv, ServerInv, ServerPcs, ReleasedState
  <2>3. mbuf'[u] = mbuf[TASK_FS] /\ Answered(u)' /\ state'[u] = state[u]
    BY <1>1, <2>1 DEF Take, Answered, TypeOK
  <2>4. \A v \in Users : ~InService(v)'
    BY <1>1, <2>1, <2>2 DEF Take, InService, TypeOK
  <2>5. \A v \in Users \ {u} : /\ ~InService(v) /\ mbuf'[v] = mbuf[v]
                               /\ Answered(v)' <=> Answered(v)
                               /\ pc'[v] = pc[v] /\ state'[v] = state[v]
    BY <1>1, <2>1, <2>2 DEF Take, InService, Answered, TypeOK
  <2>6. /\ ReplyIs(u, mbuf[TASK_FS]) /\ AskedInv(u)
        /\ mbuf[TASK_FS].type = "BESLEEP" => SleepSound(mbuf[TASK_FS].chan)
    BY <1>1, <1>2, <2>2 DEF PInv, CallInv
  <2>7. ASSUME NEW v \in Users PROVE CallInv(v)'
    <3>1. CASE v = u
      BY <1>1, <2>3, <2>4, <2>6, <3>1 DEF CallInv, AskedInv, ReplyIs
    <3>2. CASE v # u
      BY <1>1, <2>4, <2>5, <3>2 DEF PInv, CallInv, AskedInv, ReplyIs
    <3> QED BY <3>1, <3>2
  <2>8. \A v \in Users : InFlight(v)' = InFlight(v)
    BY <1>2, <2>3, <2>4, <2>5 DEF InFlight
  <2>9. ASSUME NEW p \in Proc, state'[p] = "SLEEPING" PROVE SleepSound(tmp'[p])
    <3>1. CASE p = TASK_FS
      <4>1. mbuf[TASK_FS].type = "BESLEEP" /\ tmp'[TASK_FS] = mbuf[TASK_FS].chan
        BY <1>1, <2>1, <2>9, <3>1 DEF Take, TypeOK, ReleasedState, ReleasedTmp
      <4> QED BY <2>6, <3>1, <4>1
    <3>2. CASE p # TASK_FS
      <4>1. state[p] = "SLEEPING" /\ tmp'[p] = tmp[p]
        BY <1>1, <2>1, <2>9, <3>2 DEF Take, TypeOK
      <4> QED BY <4>1, SleepersAre DEF PInv
    <3> QED BY <3>1, <3>2
  <2> QED BY <1>3, <2>7, <2>8, <2>9, MessageKeeps
<1> QED BY <1>4, <1>5

LEMMA FsRecvKeeps ==
  ASSUME PInv, IInv', FsRecv, Rest
  PROVE  PInv'
<1> USE Slots DEF FsRecv, RecvMsg, Goto, At
<1>1. /\ pc' = [pc EXCEPT ![TASK_FS] = "serve"] /\ asked' = asked
      /\ state[TASK_FS] = "RUNNABLE" /\ pc[TASK_FS] = "recv" /\ IInv /\ TypeOK
      /\ UNCHANGED <<data, head, count, open, ref, ofile, iobuf, got, sent>>
  BY DEF PInv, IInv, Rest, pipeVars, progVars
<1>2. \A v \in Users : ~InService(v)
  BY <1>1 DEF InService
<1>3. UNCHANGED <<pipeVars, progVars, asked>> /\ pc'[TASK_FS] = "serve"
  BY <1>1 DEF Rest, TypeOK
<1>4. CASE BlockReceiving(TASK_FS, ANY)
  <2>1. \A v \in Users : /\ ~InService(v)' /\ (Answered(v)' <=> Answered(v))
                         /\ pc'[v] = pc[v] /\ state'[v] = state[v]
    BY <1>1, <1>4 DEF BlockReceiving, InService, Answered, TypeOK
  <2>2. mbuf' = mbuf /\ tmp' = tmp
    BY <1>4 DEF BlockReceiving
  <2>3. \A v \in Users : CallInv(v)'
    BY <1>1, <2>1, <2>2 DEF PInv, CallInv, AskedInv, ReplyIs
  <2>4. \A v \in Users : InFlight(v)' = InFlight(v)
    BY <1>2, <2>1, <2>2 DEF InFlight
  <2>5. ASSUME NEW p \in Proc, state'[p] = "SLEEPING" PROVE SleepSound(tmp'[p])
    <3>1. state[p] = "SLEEPING"
      BY <1>1, <1>4, <2>5 DEF BlockReceiving, TypeOK
    <3> QED BY <2>2, <3>1, SleepersAre DEF PInv
  <2> QED BY <1>3, <2>3, <2>4, <2>5, MessageKeeps
<1>5. CASE TakeFirst(TASK_FS, ANY)
  <2>1. PICK u \in Users : Take(TASK_FS, u) /\ state[u] = "SENDING"
    BY <1>1, <1>5 DEF TakeFirst, Senders
  <2>2. /\ mbuf[u].type = "REQ" /\ mbuf[u].i1 = 0 /\ mbuf[u].source = u
        /\ u \in Proc /\ u # TASK_FS /\ pc[u] = "wait"
    BY <1>1, <2>1 DEF PInv, IInv, CallerInv, CallInv, Callers, RequestFor
  <2>3. /\ state' = [state EXCEPT ![u] = "RUNNABLE"] /\ mbuf' = [mbuf EXCEPT ![TASK_FS] = mbuf[u]]
        /\ tmp' = tmp
    BY <1>1, <2>1, <2>2 DEF Take, ReleasedState, ReleasedTmp, TypeOK
  <2>4. mbuf'[TASK_FS].i1 = 0 /\ mbuf'[TASK_FS].source = u /\ state'[TASK_FS] = "RUNNABLE"
    BY <1>1, <2>2, <2>3 DEF TypeOK
  <2>5. \A v \in Users : /\ InService(v)' <=> v = u
                         /\ Answered(v)' <=> Answered(v)
                         /\ pc'[v] = pc[v] /\ mbuf'[v] = mbuf[v]
                         /\ state'[v] = "SENDING" => state[v] = "SENDING"
    BY <1>1, <1>3, <2>2, <2>3, <2>4 DEF InService, Answered, TypeOK
  <2>6. \A v \in Users : CallInv(v)'
    BY <1>1, <1>3, <2>4, <2>5 DEF PInv, CallInv, AskedInv, ReplyIs
  <2>7. \A v \in Users : InFlight(v)' = InFlight(v)
    BY <1>2, <2>4, <2>5 DEF InFlight
  <2>8. ASSUME NEW p \in Proc, state'[p] = "SLEEPING" PROVE SleepSound(tmp'[p])
    <3>1. state[p] = "SLEEPING"
      BY <1>1, <2>3, <2>8 DEF TypeOK
    <3> QED BY <2>3, <3>1, SleepersAre DEF PInv
  <2> QED BY <1>3, <2>6, <2>7, <2>8, MessageKeeps
<1> QED BY <1>4, <1>5

LEMMA FsReplyKeeps ==
  ASSUME PInv, IInv', FsReply, Rest
  PROVE  PInv'
<1> USE Slots DEF FsReply, SendMsg, Goto, At
<1>1. PICK u, m : u = mbuf[TASK_FS].source /\ m = [mbuf[TASK_FS] EXCEPT !.source = TASK_FS]
  OBVIOUS
<1>2. /\ state[TASK_FS] = "RUNNABLE" /\ pc[TASK_FS] = "reply"
      /\ pc' = [pc EXCEPT ![TASK_FS] = "recv"] /\ asked' = asked /\ IInv /\ TypeOK
      /\ UNCHANGED <<data, head, count, open, ref, ofile, iobuf, got, sent>>
  BY DEF PInv, IInv, Rest, pipeVars, progVars
<1>3. /\ u \in Users /\ u \in Proc /\ u # TASK_FS /\ InService(u) /\ Outstanding(u) /\ ~Answered(u)
      /\ \A v \in Users \ {u} : ~InService(v)
  BY <1>1, <1>2 DEF IInv, ServerInv, NoCallLost, InService, Outstanding, Answered
<1>4. /\ m.type = mbuf[TASK_FS].type /\ m.i1 = mbuf[TASK_FS].i1 /\ m.chan = mbuf[TASK_FS].chan
  BY <1>1, <1>2 DEF TypeOK, Message
<1>5. /\ ReplyIs(u, m) /\ AskedInv(u)
      /\ m.type = "BESLEEP" => SleepSound(m.chan)
  BY <1>2, <1>3, <1>4 DEF PInv, CallInv, ReplyIs, Outstanding
<1>6. UNCHANGED <<pipeVars, progVars, asked>> /\ pc'[TASK_FS] = "recv"
  BY <1>2 DEF Rest, TypeOK
<1>7. CASE Deliver(TASK_FS, u, m)
  <2>1. state[u] = "RECVING" /\ pc[u] = "done" /\ ReleasedState(m) \in {"RUNNABLE", "SLEEPING"}
    BY <1>3, <1>7 DEF Deliver, Awaits, Outstanding, ReleasedState
  <2>2. \A v \in Users : ~InService(v)'
    BY <1>2, <1>3, <1>7 DEF Deliver, InService, TypeOK
  <2>3. Answered(u)' /\ mbuf'[u] = m /\ state'[u] # "SENDING"
    BY <1>2, <1>3, <1>7, <2>1 DEF Deliver, Answered, TypeOK
  <2>4. \A v \in Users \ {u} : /\ Answered(v)' <=> Answered(v)
                               /\ pc'[v] = pc[v] /\ state'[v] = state[v] /\ mbuf'[v] = mbuf[v]
    BY <1>2, <1>3, <1>7 DEF Deliver, Answered, TypeOK
  <2>5. ASSUME NEW v \in Users PROVE CallInv(v)'
    <3>1. CASE v = u
      BY <1>2, <1>5, <2>2, <2>3, <3>1 DEF CallInv, AskedInv, ReplyIs
    <3>2. CASE v # u
      BY <1>2, <2>2, <2>4, <3>2 DEF PInv, CallInv, AskedInv, ReplyIs
    <3> QED BY <3>1, <3>2
  <2>6. \A v \in Users : InFlight(v)' = InFlight(v)
    BY <1>3, <1>4, <2>2, <2>3, <2>4 DEF InFlight
  <2>7. ASSUME NEW p \in Proc, state'[p] = "SLEEPING" PROVE SleepSound(tmp'[p])
    <3>1. CASE p = u
      <4>1. m.type = "BESLEEP" /\ tmp'[u] = m.chan
        BY <1>2, <1>3, <1>7, <2>7, <3>1 DEF Deliver, TypeOK, ReleasedState, ReleasedTmp
      <4> QED BY <1>5, <3>1, <4>1
    <3>2. CASE p # u
      <4>1. state[p] = "SLEEPING" /\ tmp'[p] = tmp[p]
        BY <1>2, <1>3, <1>7, <2>7, <3>2 DEF Deliver, TypeOK
      <4> QED BY <4>1, SleepersAre DEF PInv
    <3> QED BY <3>1, <3>2
  <2> QED BY <1>6, <2>5, <2>6, <2>7, MessageKeeps
<1>8. CASE BlockSending(TASK_FS, u, m)
  <2>1. /\ state' = [state EXCEPT ![TASK_FS] = "SENDING"] /\ mbuf'[TASK_FS] = m
        /\ sendto'[TASK_FS] = u /\ tmp' = tmp
        /\ \A v \in Users : pc'[v] = pc[v] /\ state'[v] = state[v] /\ mbuf'[v] = mbuf[v]
    BY <1>2, <1>8 DEF BlockSending, TypeOK
  <2>2. \A v \in Users : /\ InService(v)' <=> v = u
                         /\ Answered(v)' <=> Answered(v)
    BY <1>2, <1>3, <1>6, <2>1 DEF InService, Answered, TypeOK
  <2>3. ASSUME NEW v \in Users PROVE CallInv(v)'
    <3>1. CASE v = u
      BY <1>2, <1>3, <1>5, <1>6, <2>1, <2>2, <3>1 DEF PInv, CallInv, AskedInv, ReplyIs, SleepSound
    <3>2. CASE v # u
      BY <1>2, <2>1, <2>2, <3>2 DEF PInv, CallInv, AskedInv, ReplyIs
    <3> QED BY <3>1, <3>2
  <2>4. \A v \in Users : InFlight(v)' = InFlight(v)
    BY <1>3, <1>4, <2>1, <2>2 DEF InFlight
  <2>5. ASSUME NEW p \in Proc, state'[p] = "SLEEPING" PROVE SleepSound(tmp'[p])
    <3>1. state[p] = "SLEEPING"
      BY <1>2, <2>1, <2>5 DEF TypeOK
    <3> QED BY <2>1, <3>1, SleepersAre DEF PInv
  <2> QED BY <1>6, <2>3, <2>4, <2>5, MessageKeeps
<1> QED BY <1>1, <1>7, <1>8

-----------------------------------------------------------------------------
(* A program calls, again or not: nothing is in flight yet.                *)
LEMMA SendKeeps ==
  ASSUME PInv, IInv', NEW u \in Users, NEW r \in Request,
         At(u, "user") \/ At(u, "again"), Send(u, r), CopyIn(u, r),
         UNCHANGED <<data, head, count, open, ref, ofile, progVars>>,
         r.op = "read" => u \in Readers,
         r.op = "write" => u \in Writers /\ After(r.bytes, u, sent[u])
                           /\ sent[u] + Len(r.bytes) <= MaxBytes
  PROVE  PInv'
<1> USE Slots DEF Send, SendMsg, Goto, At
<1>1. /\ u \in Proc /\ u # TASK_FS /\ pc' = [pc EXCEPT ![u] = "wait"]
      /\ asked' = [asked EXCEPT ![u] = r] /\ state[u] = "RUNNABLE" /\ pc[u] \in {"user", "again"}
      /\ IInv /\ TypeOK /\ UNCHANGED <<got, sent>>
  BY DEF PInv, IInv, progVars
<1>2. ~InService(u) /\ ~Answered(u)
  BY <1>1 DEF IInv, NoCallLost, Outstanding, Answered
<1>3. /\ iobuf' \in [Users -> Seq(Byte)]
      /\ \A v \in Users \ {u} : iobuf'[v] = iobuf[v] /\ asked'[v] = asked[v] /\ pc'[v] = pc[v]
      /\ r.op = "write" => iobuf'[u] = r.bytes
  BY <1>1, RequestIs DEF CopyIn, PInv, PipeTypes, TypeOK
<1>4. asked'[u] = r /\ pc'[u] = "wait" /\ AskedInv(u)'
  BY <1>1, <1>3 DEF TypeOK, AskedInv
<1>5. /\ \A v \in Users : /\ Answered(v)' <=> Answered(v)
                          /\ v # u => (InService(v)' <=> InService(v))
                          /\ v # u => mbuf'[v] = mbuf[v] /\ state'[v] = state[v]
                          /\ InService(v) => mbuf'[TASK_FS] = mbuf[TASK_FS]
      /\ InService(u)' => pc[TASK_FS] = "serve" /\ mbuf'[TASK_FS].i1 = 0
      /\ state'[u] = "SENDING" => mbuf'[u].i1 = 0
      /\ tmp' = tmp /\ pc'[TASK_FS] = pc[TASK_FS]
      /\ \A p \in Proc : state'[p] = "SLEEPING" => state[p] = "SLEEPING"
  <2>1. MsgOf(u, r).i1 = 0 /\ MsgOf(u, r).source = u /\ MsgOf(u, r).type = "REQ"
    BY DEF MsgOf
  <2>2. CASE Deliver(u, TASK_FS, MsgOf(u, r))
    <3>1. /\ state[TASK_FS] = "RECVING" /\ pc[TASK_FS] = "serve"
          /\ state' = [state EXCEPT ![TASK_FS] = "RUNNABLE"]
          /\ mbuf' = [mbuf EXCEPT ![TASK_FS] = MsgOf(u, r)] /\ tmp' = tmp /\ sendto' = sendto
      BY <1>1, <2>1, <2>2 DEF Deliver, Awaits, ReleasedState, ReleasedTmp, IInv, ServerInv, ServerPcs, TypeOK
    <3>2. \A v \in Users : ~InService(v)
      BY <3>1 DEF InService
    <3>3. \A v \in Users : InService(v)' <=> v = u
      BY <1>1, <2>1, <3>1 DEF InService, TypeOK
    <3>4. \A v \in Users : /\ Answered(v)' <=> Answered(v)
                           /\ mbuf'[v] = mbuf[v] /\ state'[v] = state[v]
      BY <1>1, <3>1 DEF Answered, TypeOK
    <3> QED BY <1>1, <2>1, <3>1, <3>2, <3>3, <3>4 DEF TypeOK
  <2>3. CASE BlockSending(u, TASK_FS, MsgOf(u, r))
    <3>1. /\ state' = [state EXCEPT ![u] = "SENDING"] /\ mbuf' = [mbuf EXCEPT ![u] = MsgOf(u, r)]
          /\ tmp' = tmp /\ sendto' = [sendto EXCEPT ![u] = TASK_FS]
      BY <2>3 DEF BlockSending
    <3>2. \A v \in Users : InService(v)' <=> InService(v)
      BY <1>1, <3>1 DEF InService, TypeOK
    <3>3. \A v \in Users : Answered(v)' <=> Answered(v)
      BY <1>1, <3>1 DEF Answered, TypeOK
    <3> QED BY <1>1, <1>2, <2>1, <3>1, <3>2, <3>3 DEF TypeOK
  <2> QED BY <2>2, <2>3
<1>6. ASSUME NEW v \in Users PROVE CallInv(v)'
  <2>1. CASE v = u
    BY <1>1, <1>2, <1>4, <1>5, <2>1 DEF CallInv
  <2>2. CASE v # u
    <3>1. /\ CallInv(v) /\ pc'[v] = pc[v] /\ asked'[v] = asked[v] /\ iobuf'[v] = iobuf[v]
          /\ sent' = sent /\ count' = count /\ open' = open
      BY <1>1, <1>3, <2>2 DEF PInv
    <3> QED BY <1>5, <2>2, <3>1 DEF CallInv, AskedInv, ReplyIs, SleepSound
  <2> QED BY <2>1, <2>2
<1>7. /\ \A v \in Users : InFlight(v)' = InFlight(v)
      /\ InFlight(u) = 0
  BY <1>2, <1>5 DEF InFlight
<1>8. BytesOnceInOrder'
  <2>1. Contents' = Contents
    BY DEF Contents, RdBytes
  <2>2. ASSUME NEW v \in Readers PROVE Stream(v)' = Stream(v)
    <3>1. CASE v = u
      <4>1. got[u] \o SubSeq(iobuf[u], 1, 0) = got[u] /\ got[u] \o SubSeq(iobuf'[u], 1, 0) = got[u]
        BY EmptyRead DEF PInv, PipeTypes
      <4> QED BY <1>1, <1>7, <3>1, <4>1 DEF Stream
    <3>2. CASE v # u
      BY <1>1, <1>3, <1>7, <3>2, Sizes DEF Stream
    <3> QED BY <3>1, <3>2
  <2>3. ASSUME NEW w \in Writers PROVE Accepted(w)' = Accepted(w)
    <3>1. CASE w = u
      BY <1>1, <1>7, <3>1 DEF Accepted, PInv, PipeTypes
    <3>2. CASE w # u
      BY <1>1, <1>3, <1>7, <3>2, Sizes DEF Accepted
    <3> QED BY <3>1, <3>2
  <2> QED BY <2>1, <2>2, <2>3, BytesKept DEF PInv
<1>9. NoLostWakeup'
  BY <1>5 DEF PInv, NoLostWakeup
<1>10. PipeTypes'
  BY <1>1, <1>3, <1>5 DEF PInv, PipeTypes
<1>11. PipeTypeOK'
  BY DEF PInv, PipeTypeOK
<1> QED BY <1>6, <1>8, <1>9, <1>10, <1>11 DEF PInv

LEMMA CallKeeps ==
  ASSUME PInv, IInv', NEW u \in Users, ProgCall(u) \/ ProgRetry(u)
  PROVE  PInv'
<1>1. CASE ProgCall(u)
  <2>1. PICK r \in Wants(u) : /\ UserCall(u, r) /\ CopyIn(u, r)
                              /\ UNCHANGED <<data, head, count, open, ref, ofile, progVars>>
    BY <1>1 DEF ProgCall
  <2>2. /\ r \in Request
        /\ r.op = "read" => u \in Readers
        /\ r.op = "write" => u \in Writers /\ After(r.bytes, u, sent[u])
                             /\ sent[u] + Len(r.bytes) <= MaxBytes
    BY <2>1, WantsIs DEF PInv, PipeTypes
  <2> QED BY <2>1, <2>2, SendKeeps DEF UserCall
<1>2. CASE ProgRetry(u)
  <2>1. AskedInv(u) /\ At(u, "again")
    BY <1>2 DEF PInv, CallInv, ProgRetry, UserRetry, At
  <2> QED BY <1>2, <2>1, SendKeeps DEF ProgRetry, UserRetry, AskedInv
<1> QED BY <1>1, <1>2

(* A call returns: what was in flight is what the program has.             *)
LEMMA ReturnKeeps ==
  ASSUME PInv, IInv', NEW u \in Users, ProgReturn(u)
  PROVE  PInv'
<1> USE Slots DEF UserReturn, Goto, At
<1>1. /\ u \in Proc /\ u # TASK_FS /\ UNCHANGED <<msgVars, asked, pipeVars>>
      /\ pc' = [pc EXCEPT ![u] = IF mbuf[u].type = "BESLEEP" THEN "again" ELSE "user"]
      /\ state[u] = "RUNNABLE" /\ pc[u] = "done" /\ IInv /\ TypeOK /\ Answered(u)
      /\ UNCHANGED <<state, mbuf, sendto, tmp, data, head, count, open, ref, ofile, iobuf>>
  BY DEF PInv, IInv, ProgReturn, Answered, msgVars, pipeVars
<1>2. /\ ReplyIs(u, mbuf[u]) /\ AskedInv(u) /\ mbuf[u].i1 \in Int
      /\ mbuf[u].i1 \in -2 .. CHUNK
  BY <1>1, PipeIpcAssumption, Sizes DEF PInv, CallInv, TypeOK, Message, PipeResult
<1>3. InFlight(u) = (IF mbuf[u].i1 > 0 THEN mbuf[u].i1 ELSE 0) /\ InFlight(u) \in Nat
  BY <1>1, <1>2 DEF InFlight
<1>4. /\ ~InService(u) /\ ~Answered(u)' /\ ~InService(u)'
      /\ \A v \in Users : InService(v)' <=> InService(v)
      /\ \A v \in Users \ {u} : (Answered(v)' <=> Answered(v)) /\ pc'[v] = pc[v]
      /\ pc'[TASK_FS] = pc[TASK_FS]
  BY <1>1 DEF IInv, NoCallLost, Outstanding, InService, Answered, TypeOK
<1>5. InFlight(u)' = 0 /\ \A v \in Users \ {u} : InFlight(v)' = InFlight(v)
  BY <1>1, <1>4 DEF InFlight
<1>6. /\ got' \in [Users -> Seq(Byte)]
      /\ \A v \in Users \ {u} : got'[v] = got[v] /\ sent'[v] = sent[v]
      /\ got'[u] = IF asked[u].op = "read" THEN got[u] \o SubSeq(iobuf[u], 1, InFlight(u)) ELSE got[u]
      /\ sent'[u] = sent[u] + IF asked[u].op = "write" THEN InFlight(u) ELSE 0
      /\ DOMAIN sent' = Users
  <2>1. /\ got[u] \in Seq(Byte) /\ got[u] \o SubSeq(iobuf[u], 1, 0) = got[u]
        /\ sent[u] \in Nat /\ iobuf[u] \in Seq(Byte)
    BY EmptyRead DEF PInv, PipeTypes
  <2>2. asked[u].op = "read" /\ mbuf[u].i1 > 0 => got[u] \o SubSeq(iobuf[u], 1, mbuf[u].i1) \in Seq(Byte)
    <3> SUFFICES ASSUME asked[u].op = "read", mbuf[u].i1 > 0
                 PROVE  got[u] \o SubSeq(iobuf[u], 1, mbuf[u].i1) \in Seq(Byte)
      OBVIOUS
    <3>1. SubSeq(iobuf[u], 1, mbuf[u].i1) = iobuf[u]
      BY <1>2, <2>1, SubSeqFull DEF ReplyIs
    <3> QED BY <2>1, <3>1, ConcatProperties
  <2>3. /\ got' = (IF asked[u].op = "read" /\ mbuf[u].i1 > 0
                   THEN [got EXCEPT ![u] = @ \o SubSeq(iobuf[u], 1, mbuf[u].i1)] ELSE got)
        /\ sent' = (IF asked[u].op = "write" /\ mbuf[u].i1 > 0
                    THEN [sent EXCEPT ![u] = @ + mbuf[u].i1] ELSE sent)
    BY DEF ProgReturn
  <2>4. got \in [Users -> Seq(Byte)] /\ sent \in [Users -> 0 .. MaxBytes]
    BY DEF PInv, PipeTypes
  <2>5. /\ got' \in [Users -> Seq(Byte)] /\ DOMAIN sent' = Users
        /\ \A v \in Users \ {u} : got'[v] = got[v] /\ sent'[v] = sent[v]
    BY <2>2, <2>3, <2>4
  <2>6. got'[u] = IF asked[u].op = "read" THEN got[u] \o SubSeq(iobuf[u], 1, InFlight(u)) ELSE got[u]
    BY <1>2, <1>3, <2>1, <2>3, <2>4
  <2>7. sent'[u] = sent[u] + IF asked[u].op = "write" THEN InFlight(u) ELSE 0
    BY <1>2, <1>3, <2>1, <2>3, <2>4
  <2> QED BY <2>5, <2>6, <2>7
<1>7. sent' \in [Users -> 0 .. MaxBytes]
  <2>1. sent'[u] \in 0 .. MaxBytes
    <3>1. sent[u] \in 0 .. MaxBytes /\ MaxBytes \in Nat
      BY Sizes DEF PInv, PipeTypes
    <3>2. CASE asked[u].op = "write"
      <4>1. /\ mbuf[u].i1 <= Len(asked[u].bytes) /\ sent[u] + Len(asked[u].bytes) <= MaxBytes
            /\ Len(asked[u].bytes) \in Nat
        BY <1>2, <3>2, RequestIs DEF AskedInv, ReplyIs
      <4> QED BY <1>2, <1>3, <1>6, <3>1, <3>2, <4>1
    <3>3. CASE asked[u].op # "write"
      BY <1>6, <3>1, <3>3
    <3> QED BY <3>2, <3>3
  <2>2. \A v \in Users : sent'[v] \in 0 .. MaxBytes
    BY <1>6, <2>1 DEF PInv, PipeTypes
  <2>3. sent' = [v \in Users |-> sent'[v]]
    BY <1>6 DEF ProgReturn, PInv, PipeTypes
  <2> QED BY <2>2, <2>3
<1>8. BytesOnceInOrder'
  <2>1. Contents' = Contents
    BY <1>1 DEF Contents, RdBytes
  <2>2. ASSUME NEW v \in Readers PROVE Stream(v)' = Stream(v)
    <3>1. CASE v = u
      <4>1. got'[u] \o SubSeq(iobuf[u], 1, 0) = got'[u] /\ asked[u] # NULL
        BY <1>2, <1>6, EmptyRead, FsServerAssumption DEF AskedInv
      <4>2. Stream(u)' = got'[u]
        BY <1>1, <1>5, <4>1 DEF Stream
      <4> QED BY <1>6, <3>1, <4>1, <4>2 DEF Stream
    <3>2. CASE v # u
      BY <1>1, <1>5, <1>6, <3>2, Sizes DEF Stream
    <3> QED BY <3>1, <3>2
  <2>3. ASSUME NEW w \in Writers PROVE Accepted(w)' = Accepted(w)
    <3>1. CASE w = u
      <4>1. sent[u] \in Nat /\ asked[u] # NULL
        BY <1>2, FsServerAssumption DEF PInv, PipeTypes, AskedInv
      <4> QED BY <1>1, <1>3, <1>5, <1>6, <3>1, <4>1 DEF Accepted
    <3>2. CASE w # u
      BY <1>1, <1>5, <1>6, <3>2, Sizes DEF Accepted
    <3> QED BY <3>1, <3>2
  <2> QED BY <2>1, <2>2, <2>3, BytesKept DEF PInv
<1>9. ASSUME NEW v \in Users PROVE CallInv(v)'
  <2>1. CASE v = u
    <3>1. pc'[u] # "user" => mbuf[u].type = "BESLEEP" /\ InFlight(u) = 0
      BY <1>1, <1>2, <1>3 DEF TypeOK, ReplyIs
    <3>2. pc'[u] # "user" => sent'[u] = sent[u]
      BY <1>6, <3>1 DEF PInv, PipeTypes
    <3>3. pc'[u] # "user" => AskedInv(u)'
      BY <1>1, <1>2, <3>2 DEF AskedInv
    <3> QED BY <1>1, <1>4, <2>1, <3>3 DEF CallInv
  <2>2. CASE v # u
    <3>1. /\ CallInv(v) /\ pc'[v] = pc[v] /\ sent'[v] = sent[v]
      BY <1>4, <1>6, <2>2 DEF PInv
    <3> QED BY <1>1, <1>4, <2>2, <3>1 DEF CallInv, AskedInv, ReplyIs, SleepSound
  <2> QED BY <2>1, <2>2
<1>10. NoLostWakeup'
  BY <1>1 DEF PInv, NoLostWakeup
<1>11. PipeTypes' /\ PipeTypeOK'
  BY <1>1, <1>4, <1>6, <1>7 DEF PInv, PipeTypes, PipeTypeOK
<1> QED BY <1>8, <1>9, <1>10, <1>11 DEF PInv

-----------------------------------------------------------------------------
(* The ring.                                                               *)
LEMMA ModIs ==
  ASSUME NEW m \in Nat, m > 0, NEW z \in 0 .. m - 1
  PROVE  z % m = z /\ (z + m) % m = z /\ (z - m) % m = z /\ (z - 2 * m) % m = z
OBVIOUS

LEMMA ModRange ==
  ASSUME NEW m \in Nat, m > 0, NEW x \in Int
  PROVE  x % m \in 0 .. m - 1
OBVIOUS

(* The cell i places behind the head, and where it is seen from a head that *)
(* is k places further.                                                    *)
LEMMA CellIs ==
  ASSUME NEW m \in Nat, m > 0, NEW h \in 0 .. m - 1, NEW i \in 0 .. m - 1
  PROVE  (h + i) % m = IF h + i < m THEN h + i ELSE h + i - m
<1>1. CASE h + i < m
  BY <1>1
<1>2. CASE ~(h + i < m)
  <2>1. h + i - m \in 0 .. m - 1 /\ (h + i - m) + m = h + i
    BY <1>2
  <2>2. ((h + i - m) + m) % m = h + i - m
    BY <2>1, ModIs
  <2> QED BY <1>2, <2>1, <2>2
<1> QED BY <1>1, <1>2

LEMMA CellFrom ==
  ASSUME NEW m \in Nat, m > 0, NEW h \in 0 .. m - 1, NEW k \in 1 .. m,
         NEW i \in 0 .. m - 1, k + i < m
  PROVE  (((h + k) % m) + i) % m = (h + (k + i)) % m
<1>1. PICK g, j : g = (h + k) % m /\ j = k + i
  OBVIOUS
<1>2. k \in 0 .. m - 1 /\ j \in 0 .. m - 1
  BY <1>1
<1>3. g = IF h + k < m THEN h + k ELSE h + k - m
  BY <1>1, <1>2, CellIs
<1>4. g \in 0 .. m - 1
  BY <1>2, <1>3
<1>5. (g + i) % m = IF g + i < m THEN g + i ELSE g + i - m
  BY <1>4, CellIs
<1>6. (h + j) % m = IF h + j < m THEN h + j ELSE h + j - m
  BY <1>2, CellIs
<1>7. (g + i) % m = (h + j) % m
  BY <1>1, <1>2, <1>3, <1>5, <1>6
<1> QED BY <1>1, <1>7

(* How far the cell i places behind the head h is from the first free one. *)
LEMMA CellOffset ==
  ASSUME NEW m \in Nat, m > 0, NEW h \in 0 .. m - 1, NEW c \in 0 .. m, NEW i \in 0 .. m - 1
  PROVE  (((h + i) % m) - h - c) % m = IF i < c THEN i - c + m ELSE i - c
<1>1. PICK a : a = (h + i) % m
  OBVIOUS
<1>2. a = IF h + i < m THEN h + i ELSE h + i - m
  BY <1>1, CellIs
<1>3. PICK z : z = IF i < c THEN i - c + m ELSE i - c
  OBVIOUS
<1>4. z \in 0 .. m - 1
  BY <1>3
<1>5. a - h - c \in {z, z - m, z - 2 * m}
  BY <1>2, <1>3
<1>6. (a - h - c) % m = z
  BY <1>4, <1>5, ModIs
<1> QED BY <1>1, <1>3, <1>6

LEMMA RdBytesIs ==
  ASSUME NEW k \in Nat
  PROVE  /\ DOMAIN RdBytes(k) = 1 .. k
         /\ \A i \in 1 .. k : RdBytes(k)[i] = data[(head + i - 1) % PIPESIZE]
         /\ \A S : (\A i \in 1 .. k : RdBytes(k)[i] \in S) => RdBytes(k) \in Seq(S) /\ Len(RdBytes(k)) = k
<1>1. RdBytes(k) = [i \in 1 .. k |-> data[(head + i - 1) % PIPESIZE]]
  BY DEF RdBytes
<1>2. PICK f : f = RdBytes(k)
  OBVIOUS
<1>3. DOMAIN f = 1 .. k /\ f = [i \in 1 .. k |-> f[i]]
  BY <1>1, <1>2
<1>4. ASSUME NEW S, \A i \in 1 .. k : f[i] \in S PROVE f \in Seq(S) /\ Len(f) = k
  <2>1. f \in [1 .. k -> S]
    BY <1>3, <1>4
  <2> QED BY <1>3, <2>1, IsASeq
<1> QED BY <1>1, <1>2, <1>3, <1>4

LEMMA ReadRing ==
  ASSUME PipeTypeOK, Contents \in Seq(Byte), NEW k \in 1 .. count,
         head' = (head + k) % PIPESIZE, count' = count - k, data' = data
  PROVE  /\ RdBytes(k) \in Seq(Byte) /\ Len(RdBytes(k)) = k /\ Contents' \in Seq(Byte)
         /\ Contents = RdBytes(k) \o Contents'
         /\ head' \in 0 .. PIPESIZE - 1 /\ count' \in 0 .. PIPESIZE
<1>1. PICK s, t, c : s = RdBytes(k) /\ t = Contents' /\ c = Contents
  OBVIOUS
<1>2. /\ head \in 0 .. PIPESIZE - 1 /\ count \in 0 .. PIPESIZE /\ k \in Nat /\ count - k \in Nat
      /\ k \in 1 .. PIPESIZE /\ count \in Nat
  BY Sizes DEF PipeTypeOK
<1>3. head' \in 0 .. PIPESIZE - 1 /\ count' \in 0 .. PIPESIZE
  BY <1>2, Sizes, ModRange
<1>4. c \in Seq(Byte) /\ Len(c) = count /\ \A i \in 1 .. count : c[i] = data[(head + i - 1) % PIPESIZE]
  BY <1>1, <1>2, RdBytesIs, LenProperties DEF Contents
<1>5. \A i \in 1 .. count : c[i] \in Byte
  BY <1>4, ElementOfSeq
<1>6. s \in Seq(Byte) /\ Len(s) = k /\ \A i \in 1 .. k : s[i] = c[i]
  <2>1. \A i \in 1 .. k : i \in 1 .. count
    BY <1>2
  <2>2. \A i \in 1 .. k : s[i] = c[i]
    BY <1>1, <1>2, <1>4, <2>1, RdBytesIs
  <2>3. \A i \in 1 .. k : s[i] \in Byte
    BY <1>5, <2>1, <2>2
  <2> QED BY <1>1, <1>2, <2>2, <2>3, RdBytesIs
<1>7. t = [i \in 1 .. count - k |-> data[(head' + i - 1) % PIPESIZE]]
  BY <1>1 DEF Contents, RdBytes
<1>8. ASSUME NEW i \in 1 .. count - k PROVE t[i] = c[k + i] /\ k + i \in 1 .. count
  <2>1. /\ i - 1 \in 0 .. PIPESIZE - 1 /\ k + (i - 1) < PIPESIZE
        /\ k + i \in 1 .. count /\ head + (k + (i - 1)) = head + (k + i) - 1
        /\ ((head + k) % PIPESIZE) + (i - 1) = ((head + k) % PIPESIZE) + i - 1
    <3>1. (head + k) % PIPESIZE \in Int
      BY <1>2, Sizes, ModRange
    <3> QED BY <1>2, <3>1, Sizes
  <2>2. (((head + k) % PIPESIZE) + (i - 1)) % PIPESIZE = (head + (k + (i - 1))) % PIPESIZE
    BY <1>2, <2>1, Sizes, CellFrom
  <2>3. (head' + i - 1) % PIPESIZE = (head + (k + i) - 1) % PIPESIZE
    BY <2>1, <2>2
  <2>4. t[i] = data[(head' + i - 1) % PIPESIZE]
    BY <1>7
  <2>5. c[k + i] = data[(head + (k + i) - 1) % PIPESIZE]
    BY <1>4, <2>1
  <2> QED BY <2>1, <2>3, <2>4, <2>5
<1>9. t \in Seq(Byte) /\ Len(t) = count - k
  <2>1. \A i \in 1 .. count - k : t[i] \in Byte
    BY <1>5, <1>8
  <2>2. t \in [1 .. count - k -> Byte]
    BY <1>7, <2>1
  <2> QED BY <1>2, <2>2
<1>10. c = s \o t
  <2>1. /\ s \o t \in Seq(Byte) /\ Len(s \o t) = k + (count - k)
        /\ \A i \in 1 .. k + (count - k) : (s \o t)[i] = IF i <= k THEN s[i] ELSE t[i - k]
    <3>1. /\ s \o t \in Seq(Byte) /\ Len(s \o t) = Len(s) + Len(t)
          /\ \A i \in 1 .. Len(s) + Len(t) : (s \o t)[i] = IF i <= Len(s) THEN s[i] ELSE t[i - Len(s)]
      BY <1>6, <1>9, ConcatProperties
    <3> QED BY <1>6, <1>9, <3>1
  <2>2. ASSUME NEW i \in 1 .. count PROVE (s \o t)[i] = c[i]
    <3>1. i \in 1 .. k + (count - k)
      BY <1>2
    <3>2. CASE i <= k
      BY <1>2, <1>6, <2>1, <3>1, <3>2
    <3>3. CASE ~(i <= k)
      <4>1. PICK j : j = i - k
        OBVIOUS
      <4>2. j \in 1 .. count - k /\ k + j = i
        BY <1>2, <3>3, <4>1
      <4> QED BY <1>8, <2>1, <3>1, <3>3, <4>1, <4>2
    <3> QED BY <3>2, <3>3
  <2>3. PICK f : f = s \o t
    OBVIOUS
  <2>4. f \in Seq(Byte) /\ Len(f) = Len(c)
    BY <1>2, <1>4, <2>1, <2>3
  <2>5. \A i \in 1 .. Len(f) : f[i] = c[i]
    BY <1>4, <2>2, <2>3, <2>4
  <2>6. f = c
    BY <1>4, <2>4, <2>5, SeqEqual
  <2> QED BY <2>3, <2>6
<1> QED BY <1>1, <1>3, <1>6, <1>9, <1>10

LEMMA WriteRing ==
  ASSUME PipeTypeOK, Contents \in Seq(Byte), NEW s \in Seq(Byte), NEW k \in 0 .. Room, k <= Len(s),
         head' = head, count' = count + k, data' = Put(s, k)
  PROVE  /\ SubSeq(s, 1, k) \in Seq(Byte) /\ Len(SubSeq(s, 1, k)) = k
         /\ \A i \in 1 .. k : SubSeq(s, 1, k)[i] = s[i]
         /\ Contents' \in Seq(Byte) /\ Contents' = Contents \o SubSeq(s, 1, k)
         /\ count' \in 0 .. PIPESIZE /\ data' \in [0 .. PIPESIZE - 1 -> Byte \cup {NULL}]
<1>1. PICK a, t, c : a = SubSeq(s, 1, k) /\ t = Contents' /\ c = Contents
  OBVIOUS
<1>2. /\ head \in 0 .. PIPESIZE - 1 /\ count \in 0 .. PIPESIZE /\ k \in Nat /\ count + k \in 0 .. PIPESIZE
      /\ count \in Nat /\ Len(s) \in Nat /\ PIPESIZE \in Nat /\ PIPESIZE > 0
      /\ data \in [0 .. PIPESIZE - 1 -> Byte \cup {NULL}]
  BY Sizes, LenProperties DEF PipeTypeOK, Room, Byte
<1>3. a \in Seq(Byte) /\ Len(a) = k /\ \A i \in 1 .. k : a[i] = s[i]
  <2>1. \A i \in 1 .. k : s[i] \in Byte
    BY <1>2, ElementOfSeq
  <2>2. /\ SubSeq(s, 1, k) \in Seq(Byte) /\ Len(SubSeq(s, 1, k)) = IF 1 <= k THEN k - 1 + 1 ELSE 0
        /\ \A i \in 1 .. k - 1 + 1 : SubSeq(s, 1, k)[i] = s[1 + i - 1]
    BY <1>2, <2>1, SubSeqProperties
  <2> QED BY <1>1, <1>2, <2>2
<1>4. c \in Seq(Byte) /\ Len(c) = count /\ \A i \in 1 .. count : c[i] = data[(head + i - 1) % PIPESIZE]
  BY <1>1, <1>2, RdBytesIs, LenProperties DEF Contents
<1>5. ASSUME NEW x \in 0 .. PIPESIZE - 1, NEW j, j = (x - head - count) % PIPESIZE
      PROVE  data'[x] = IF j < k THEN s[j + 1] ELSE data[x]
  BY <1>2, <1>5 DEF Put
<1>6. data' \in [0 .. PIPESIZE - 1 -> Byte \cup {NULL}]
  <2>1. ASSUME NEW x \in 0 .. PIPESIZE - 1 PROVE data'[x] \in Byte \cup {NULL}
    <3>1. PICK j : j = (x - head - count) % PIPESIZE
      OBVIOUS
    <3>2. j \in 0 .. PIPESIZE - 1
      BY <1>2, <3>1, ModRange
    <3>3. j < k => j + 1 \in 1 .. Len(s)
      BY <1>2, <3>2
    <3>4. j < k => s[j + 1] \in Byte
      BY <3>3, ElementOfSeq
    <3>5. data'[x] = IF j < k THEN s[j + 1] ELSE data[x]
      BY <1>5, <3>1
    <3> QED BY <1>2, <3>4, <3>5
  <2>2. data' = [x \in 0 .. PIPESIZE - 1 |-> data'[x]]
    BY <1>2 DEF Put
  <2> QED BY <2>1, <2>2
<1>7. ASSUME NEW i \in 1 .. count + k
      PROVE  data'[(head + i - 1) % PIPESIZE] = IF i <= count THEN c[i] ELSE a[i - count]
  <2>1. PICK x, l : l = i - 1 /\ x = (head + l) % PIPESIZE
    OBVIOUS
  <2>2. l \in 0 .. PIPESIZE - 1 /\ head + i - 1 = head + l
    BY <1>2, <2>1
  <2>3. (x - head - count) % PIPESIZE = IF l < count THEN l - count + PIPESIZE ELSE l - count
    BY <1>2, <2>1, <2>2, CellOffset
  <2>4. x \in 0 .. PIPESIZE - 1
    BY <1>2, <2>1, <2>2, ModRange
  <2>5. CASE i <= count
    <3>1. ~(l - count + PIPESIZE < k) /\ l < count
      BY <1>2, <2>1, <2>5
    <3>2. data'[x] = data[x]
      BY <1>5, <2>3, <2>4, <3>1
    <3>3. c[i] = data[(head + i - 1) % PIPESIZE]
      BY <1>2, <1>4, <2>5
    <3> QED BY <2>1, <2>2, <2>5, <3>2, <3>3
  <2>6. CASE ~(i <= count)
    <3>1. l - count < k /\ ~(l < count) /\ l - count + 1 = i - count /\ i - count \in 1 .. k
      BY <1>2, <2>1, <2>6
    <3>2. data'[x] = s[l - count + 1]
      BY <1>5, <2>3, <2>4, <3>1
    <3>3. a[i - count] = s[i - count]
      BY <1>3, <3>1
    <3> QED BY <2>1, <2>2, <2>6, <3>1, <3>2, <3>3
  <2> QED BY <2>5, <2>6
<1>8. t = [i \in 1 .. count + k |-> data'[(head + i - 1) % PIPESIZE]]
  BY <1>1 DEF Contents, RdBytes
<1>9. /\ c \o a \in Seq(Byte) /\ Len(c \o a) = count + k
      /\ \A i \in 1 .. count + k : (c \o a)[i] = IF i <= count THEN c[i] ELSE a[i - count]
  BY <1>3, <1>4, ConcatProperties
<1>10. t = c \o a
  <2>1. PICK f : f = c \o a
    OBVIOUS
  <2>2. f \in Seq(Byte) /\ Len(f) = count + k
    BY <1>9, <2>1
  <2>3. \A i \in 1 .. count + k : t[i] = f[i]
    BY <1>7, <1>8, <1>9, <2>1
  <2>4. f \in [1 .. count + k -> Byte]
    BY <1>2, <2>2, LenProperties
  <2> QED BY <1>8, <2>1, <2>3, <2>4
<1> QED BY <1>1, <1>2, <1>3, <1>6, <1>9, <1>10

-----------------------------------------------------------------------------
(* A handler answers the call of u, which it serves.                       *)
Answers(u, i, c, woken) ==
    /\ u \in Users /\ u \in Proc /\ u # TASK_FS /\ ~Answered(u) /\ pc[u] # "user"
    /\ mbuf[TASK_FS].req = asked[u] /\ asked[u] \in Request
    /\ pc[TASK_FS] = "serve" /\ pc'[TASK_FS] = "reply"
    /\ \A v \in Users : /\ InService(v)' <=> v = u
                        /\ InService(v) <=> v = u
                        /\ Answered(v)' <=> Answered(v)
                        /\ pc'[v] = pc[v] /\ mbuf'[v] = mbuf[v] /\ asked'[v] = asked[v]
                        /\ state'[v] = "SENDING" => state[v] = "SENDING"
    /\ mbuf'[TASK_FS].i1 = i /\ (mbuf'[TASK_FS].type = "BESLEEP" <=> i = -2)
    /\ i = -2 => mbuf'[TASK_FS].chan = c
    /\ \A p \in Proc : state'[p] = "SLEEPING" =>
          state[p] = "SLEEPING" /\ tmp'[p] = tmp[p] /\ tmp[p] \notin woken

LEMMA Served ==
  ASSUME IInv, NEW u, u = Caller, NEW i \in Int, NEW c, NEW woken, FsServeWith(i, c, woken)
  PROVE  Answers(u, i, c, woken)
<1> USE Slots DEF Goto, At
<1>1. /\ u \in Users /\ u \in Proc /\ u # TASK_FS /\ ~Answered(u) /\ pc[u] # "user"
      /\ InService(u) /\ \A v \in Users : InService(v) => v = u
      /\ mbuf[TASK_FS].req = asked[u] /\ asked[u] \in Request /\ mbuf[TASK_FS].source = u
      /\ state[TASK_FS] = "RUNNABLE" /\ pc[TASK_FS] = "serve" /\ TypeOK
  <2>1. At(TASK_FS, "serve")
    BY DEF FsServeWith
  <2> QED BY <2>1, CallerIs DEF IInv, Caller
<1>2. PICK m : m = ReplyOf(mbuf[TASK_FS], i, c)
  OBVIOUS
<1>3. /\ mbuf' = [mbuf EXCEPT ![TASK_FS] = m] /\ state' = WakeUp(woken)
      /\ pc' = [pc EXCEPT ![TASK_FS] = "reply"]
      /\ UNCHANGED <<sendto, tmp, asked>>
  BY <1>2 DEF FsServeWith
<1>4. m.i1 = i /\ (m.type = "BESLEEP" <=> i = -2) /\ (i = -2 => m.chan = c) /\ m.source = u
  <2>1. mbuf[TASK_FS] \in Message
    BY <1>1 DEF TypeOK
  <2>2. CASE i = -2
    BY <1>1, <1>2, <2>1, <2>2 DEF ReplyOf, Message
  <2>3. CASE i # -2
    BY <1>1, <1>2, <2>1, <2>3 DEF ReplyOf, Message
  <2> QED BY <2>2, <2>3
<1>5. \A p \in Proc : \/ state'[p] = state[p]
                      \/ state[p] = "SLEEPING" /\ state'[p] = "RUNNABLE"
  BY <1>1, <1>3, WakeUpStates
<1>6. \A p \in Proc : state'[p] = "SLEEPING" => state[p] = "SLEEPING" /\ tmp[p] \notin woken
  BY <1>3 DEF WakeUp
<1>7. mbuf'[TASK_FS] = m /\ pc'[TASK_FS] = "reply" /\ state'[TASK_FS] = "RUNNABLE"
  BY <1>1, <1>3, <1>5 DEF TypeOK
<1>8. ASSUME NEW v \in Users
      PROVE  /\ InService(v)' <=> v = u
             /\ InService(v) <=> v = u
             /\ pc'[v] = pc[v] /\ mbuf'[v] = mbuf[v] /\ asked'[v] = asked[v]
  BY <1>1, <1>3, <1>4, <1>7 DEF TypeOK, InService
<1>9. ASSUME NEW v \in Users
      PROVE  /\ Answered(v)' <=> Answered(v)
             /\ state'[v] = "SENDING" => state[v] = "SENDING"
  BY <1>5, <1>8 DEF Answered
<1> QED BY <1>1, <1>3, <1>4, <1>6, <1>7, <1>8, <1>9 DEF Answers

LEMMA HandlerFlight ==
  ASSUME NEW u, NEW i \in Int, NEW c, NEW woken, Answers(u, i, c, woken), PInv
  PROVE  /\ InFlight(u) = 0 /\ InFlight(u)' = IF i > 0 THEN i ELSE 0
         /\ \A v \in Users \ {u} : InFlight(v)' = InFlight(v)
<1>1. mbuf[TASK_FS].i1 = 0
  BY DEF Answers, PInv, CallInv
<1>2. InFlight(u) = 0
  BY <1>1 DEF Answers, InFlight
<1>3. InFlight(u)' = IF i > 0 THEN i ELSE 0
  BY DEF Answers, InFlight
<1>4. \A v \in Users \ {u} : InFlight(v)' = InFlight(v)
  BY DEF Answers, InFlight
<1> QED BY <1>2, <1>3, <1>4

LEMMA HandlerCalls ==
  ASSUME PInv, NEW u, NEW i \in Int, NEW c, NEW woken, Answers(u, i, c, woken),
         UNCHANGED sent, \A v \in Users \ {u} : iobuf'[v] = iobuf[v],
         asked[u].op = "write" => iobuf'[u] = iobuf[u] /\ i <= Len(asked[u].bytes),
         asked[u].op = "read" /\ i > 0 => Len(iobuf'[u]) = i,
         i = -2 => SleepSound(c)'
  PROVE  \A v \in Users : CallInv(v)'
<1>1. ASSUME NEW v \in Users, v # u PROVE CallInv(v)'
  <2>1. CallInv(v) /\ iobuf'[v] = iobuf[v] /\ ~InService(v)'
    BY <1>1 DEF PInv, Answers
  <2> QED BY <1>1, <2>1 DEF Answers, CallInv, AskedInv, ReplyIs
<1>2. CallInv(u)'
  <2>1. AskedInv(u)' /\ ReplyIs(u, mbuf[TASK_FS])'
    BY DEF PInv, Answers, CallInv, AskedInv, ReplyIs
  <2>2. mbuf'[TASK_FS].type = "BESLEEP" => SleepSound(mbuf[TASK_FS].chan)'
    BY DEF Answers, SleepSound
  <2> QED BY <2>1, <2>2 DEF PInv, Answers, CallInv
<1> QED BY <1>1, <1>2

-----------------------------------------------------------------------------
(* BytesOnceInOrder says that the streams are Sound.                       *)
Holders == Readers \cup {TASK_FS}

Counts == [w \in Writers |-> Accepted(w)]

LEMMA HoldsIs ==
  /\ TASK_FS \in Holders /\ Readers \subseteq Holders \ {TASK_FS}
  /\ DOMAIN Holds = Holders /\ Holds[TASK_FS] = Contents
  /\ \A r \in Readers : Holds[r] = Stream(r)
BY Sizes, Slots DEF Holders, Holds

LEMMA StreamsTyped ==
  IInv /\ PipeTypes /\ (\A u \in Users : CallInv(u)) => \A u \in Readers : Stream(u) \in Seq(Byte)
<1> SUFFICES ASSUME IInv, PipeTypes, NEW u \in Readers, CallInv(u) PROVE Stream(u) \in Seq(Byte)
  BY Sizes
<1>1. u \in Users /\ got[u] \in Seq(Byte) /\ iobuf[u] \in Seq(Byte)
  BY Sizes DEF PipeTypes
<1>2. CASE InFlight(u) = 0
  BY <1>1, <1>2, EmptyRead DEF Stream
<1>3. CASE InFlight(u) # 0 /\ asked[u] # NULL /\ asked[u].op = "read"
  <2>1. InFlight(u) = Len(iobuf[u])
    BY <1>1, <1>3 DEF InFlight, CallInv, ReplyIs, IInv, ServerInv
  <2>2. SubSeq(iobuf[u], 1, InFlight(u)) = iobuf[u]
    BY <1>1, <2>1, SubSeqFull
  <2> QED BY <1>1, <1>3, <2>2, ConcatProperties DEF Stream
<1>4. CASE ~(asked[u] # NULL /\ asked[u].op = "read")
  BY <1>1, <1>4 DEF Stream
<1> QED BY <1>2, <1>3, <1>4

LEMMA ContentsTyped ==
  PipeTypeOK /\ BytesOnceInOrder => Contents \in Seq(Byte)
<1> SUFFICES ASSUME PipeTypeOK, BytesOnceInOrder PROVE Contents \in Seq(Byte)
  OBVIOUS
<1>1. count \in Nat
  BY Sizes DEF PipeTypeOK
<1>2. Range(Contents) \subseteq Byte
  BY HoldsIs DEF BytesOnceInOrder, Byte
<1>3. DOMAIN Contents = 1 .. count
  BY <1>1, RdBytesIs DEF Contents
<1>4. \A i \in 1 .. count : Contents[i] \in Byte
  BY <1>2, <1>3 DEF Range
<1> QED BY <1>1, <1>4, RdBytesIs DEF Contents

LEMMA HoldsTyped ==
  Contents \in Seq(Byte) /\ (\A u \in Readers : Stream(u) \in Seq(Byte))
     => Holds \in [Holders -> Seq(Byte)]
BY Sizes, Slots DEF Holders, Holds

LEMMA SoundIs ==
  Holds \in [Holders -> Seq(Byte)]
     => (BytesOnceInOrder <=> Sound(Holders, Holds, TASK_FS, Readers, Counts))
<1> SUFFICES ASSUME Holds \in [Holders -> Seq(Byte)]
             PROVE  BytesOnceInOrder <=> Sound(Holders, Holds, TASK_FS, Readers, Counts)
  OBVIOUS
<1>1. PICK H : H = Holds
  OBVIOUS
<1>2. H \in [Holders -> Seq(Byte)] /\ \A x \in Holders : H[x] \in Seq(Byte) /\ DOMAIN H[x] = 1 .. Len(H[x])
  <2>1. H \in [Holders -> Seq(Byte)]
    BY <1>1
  <2>2. \A x \in Holders : H[x] \in Seq(Byte)
    BY <2>1
  <2>3. \A x \in Holders : DOMAIN H[x] = 1 .. Len(H[x])
    BY <2>2, LenProperties
  <2> QED BY <2>1, <2>2, <2>3
<1>3. /\ DOMAIN H = Holders /\ H[TASK_FS] = Contents /\ TASK_FS \in Holders
      /\ Readers \subseteq Holders
  BY <1>1, HoldsIs
<1>4. {b \in Byte : b[2] <= Accepted(b[1])} = {b \in Byte : b[2] <= Counts[b[1]]}
  <2>1. \A b \in Byte : Counts[b[1]] = Accepted(b[1])
    BY DEF Counts, Byte
  <2> QED BY <2>1
<1>5. ASSUME NEW r \in Readers
      PROVE  (\A i, j \in DOMAIN (H[r] \o H[TASK_FS]) :
                i < j /\ (H[r] \o H[TASK_FS])[i][1] = (H[r] \o H[TASK_FS])[j][1]
                   => (H[r] \o H[TASK_FS])[i][2] < (H[r] \o H[TASK_FS])[j][2])
             <=> Ordered(H[r] \o H[TASK_FS])
  <2>1. PICK s : s = H[r] \o H[TASK_FS]
    OBVIOUS
  <2>2. s \in Seq(Byte)
    BY <1>2, <1>3, <2>1, ConcatProperties
  <2>3. DOMAIN s = 1 .. Len(s)
    BY <2>2, LenProperties
  <2> QED BY <2>1, <2>3 DEF Ordered
<1>6. BytesOnceInOrder <=>
        /\ UNION {Range(H[x]) : x \in Holders} = {b \in Byte : b[2] <= Accepted(b[1])}
        /\ \A x, y \in Holders : \A i \in DOMAIN H[x], j \in DOMAIN H[y] :
              H[x][i] = H[y][j] => x = y /\ i = j
        /\ \A r \in Readers :
              \A i, j \in DOMAIN (H[r] \o H[TASK_FS]) :
                i < j /\ (H[r] \o H[TASK_FS])[i][1] = (H[r] \o H[TASK_FS])[j][1]
                   => (H[r] \o H[TASK_FS])[i][2] < (H[r] \o H[TASK_FS])[j][2]
  BY <1>1, <1>3 DEF BytesOnceInOrder, Byte
<1>7. (\A x, y \in Holders : \A i \in DOMAIN H[x], j \in DOMAIN H[y] :
              H[x][i] = H[y][j] => x = y /\ i = j) <=> Once(Holders, H)
  <2>1. ASSUME NEW x \in Holders, NEW y \in Holders
        PROVE  (\A i \in DOMAIN H[x], j \in DOMAIN H[y] : H[x][i] = H[y][j] => x = y /\ i = j)
                 <=> \A i \in 1 .. Len(H[x]), j \in 1 .. Len(H[y]) : H[x][i] = H[y][j] => x = y /\ i = j
    <3>1. DOMAIN H[x] = 1 .. Len(H[x]) /\ DOMAIN H[y] = 1 .. Len(H[y])
      BY <1>2
    <3> QED BY <3>1, Zenon
  <2> QED BY <2>1, Zenon DEF Once
<1>8. (UNION {Range(H[x]) : x \in Holders} = {b \in Byte : b[2] <= Accepted(b[1])})
         <=> Placed(Holders, H, Counts)
  BY <1>4 DEF Placed
<1>9. BytesOnceInOrder <=>
        /\ Placed(Holders, H, Counts) /\ Once(Holders, H)
        /\ \A r \in Readers : Ordered(H[r] \o H[TASK_FS])
  <2>1. (\A r \in Readers :
              \A i, j \in DOMAIN (H[r] \o H[TASK_FS]) :
                i < j /\ (H[r] \o H[TASK_FS])[i][1] = (H[r] \o H[TASK_FS])[j][1]
                   => (H[r] \o H[TASK_FS])[i][2] < (H[r] \o H[TASK_FS])[j][2])
          <=> \A r \in Readers : Ordered(H[r] \o H[TASK_FS])
    BY <1>5
  <2> QED BY <1>6, <1>7, <1>8, <2>1, Zenon
<1> QED BY <1>1, <1>9, Zenon DEF Sound

(* What the invariant, or what is shown of it in the next state, says of   *)
(* the streams.                                                            *)
LEMMA StreamsAre ==
  PInv => /\ Contents \in Seq(Byte) /\ (\A u \in Readers : Stream(u) \in Seq(Byte))
          /\ Holds \in [Holders -> Seq(Byte)]
          /\ Sound(Holders, Holds, TASK_FS, Readers, Counts)
BY StreamsTyped, ContentsTyped, HoldsTyped, SoundIs DEF PInv

LEMMA StreamsNext ==
  ASSUME Contents' \in Seq(Byte), IInv', PipeTypes', \A v \in Users : CallInv(v)'
  PROVE  /\ \A u \in Readers : Stream(u)' \in Seq(Byte)
         /\ Holds' \in [Holders -> Seq(Byte)]
         /\ Sound(Holders, Holds', TASK_FS, Readers, Counts') => BytesOnceInOrder'
         /\ Holds'[TASK_FS] = Contents'
         /\ \A r \in Readers : Holds'[r] = Stream(r)'
<1>1. \A u \in Readers : Stream(u)' \in Seq(Byte)
  <2>1. (IInv /\ PipeTypes /\ (\A u \in Users : CallInv(u)) => \A u \in Readers : Stream(u) \in Seq(Byte))'
    BY StreamsTyped, PTL
  <2> QED BY <2>1
<1>2. Holds' \in [Holders -> Seq(Byte)]
  <2>1. (Contents \in Seq(Byte) /\ (\A u \in Readers : Stream(u) \in Seq(Byte))
           => Holds \in [Holders -> Seq(Byte)])'
    BY HoldsTyped, PTL
  <2>2. (\A u \in Readers : Stream(u) \in Seq(Byte))'
    BY <1>1
  <2> QED BY <2>1, <2>2 DEF Holders
<1>3. Sound(Holders, Holds', TASK_FS, Readers, Counts') => BytesOnceInOrder'
  <2>1. (Holds \in [Holders -> Seq(Byte)]
            => (BytesOnceInOrder <=> Sound(Holders, Holds, TASK_FS, Readers, Counts)))'
    BY SoundIs, PTL
  <2> QED BY <1>2, <2>1 DEF Holders, Sound, Placed, Once, Ordered
<1>4. Holds'[TASK_FS] = Contents' /\ \A r \in Readers : Holds'[r] = Stream(r)'
  BY Sizes, Slots DEF Holds
<1> QED BY <1>1, <1>2, <1>3, <1>4

-----------------------------------------------------------------------------
(* A handler that moves no byte.                                           *)
LEMMA QuietKeeps ==
  ASSUME PInv, IInv', NEW u, NEW i \in Int, i <= 0, NEW c, NEW woken, Answers(u, i, c, woken),
         UNCHANGED <<data, head, count, iobuf, progVars>>,
         PipeTypes', PipeTypeOK', NoLostWakeup', i = -2 => SleepSound(c)'
  PROVE  PInv'
<1>1. UNCHANGED <<data, head, count, iobuf, got, sent>>
  BY DEF progVars
<1>2. \A v \in Users : CallInv(v)'
  <2>1. asked[u].op = "write" => i <= Len(asked[u].bytes)
    BY RequestIs DEF Answers
  <2> QED BY <1>1, <2>1, HandlerCalls
<1>3. \A v \in Users : InFlight(v)' = InFlight(v) /\ asked'[v] = asked[v]
  <2>1. \A v \in Users : asked'[v] = asked[v]
    BY DEF Answers
  <2>2. /\ InFlight(u) = 0 /\ InFlight(u)' = IF i > 0 THEN i ELSE 0
        /\ \A v \in Users \ {u} : InFlight(v)' = InFlight(v)
    BY HandlerFlight
  <2>3. InFlight(u)' = InFlight(u)
    BY <2>2
  <2> QED BY <2>1, <2>2, <2>3
<1>4. Contents' = Contents
  BY <1>1 DEF Contents, RdBytes
<1>5. \A r \in Readers : Stream(r)' = Stream(r)
  BY <1>1, <1>3, Sizes DEF Stream
<1>6. \A w \in Writers : Accepted(w)' = Accepted(w)
  BY <1>1, <1>3, Sizes DEF Accepted
<1>7. BytesOnceInOrder'
  BY <1>4, <1>5, <1>6, BytesKept DEF PInv
<1> QED BY <1>2, <1>7 DEF PInv

(* What every handler leaves alone.                                        *)
LEMMA TypesKept ==
  ASSUME PInv, pc'[TASK_FS] = "reply", UNCHANGED <<open, ref, ofile, got, sent>>,
         iobuf' \in [Users -> Seq(Byte)]
  PROVE  PipeTypes'
BY DEF PInv, PipeTypes

LEMMA EndsKept ==
  ASSUME PInv, UNCHANGED <<open, ref, ofile>>,
         data' \in [0 .. PIPESIZE - 1 -> (Writers \X (1 .. MaxBytes)) \cup {NULL}],
         head' \in 0 .. PIPESIZE - 1, count' \in 0 .. PIPESIZE
  PROVE  PipeTypeOK'
BY DEF PInv, PipeTypeOK

LEMMA ReadSomeKeeps ==
  ASSUME PInv, IInv', At(TASK_FS, "serve"), mbuf[TASK_FS].req.op = "read", ReadSome,
         UNCHANGED progVars
  PROVE  PInv'
<1>1. PICK u, k : /\ u = Caller /\ k = Least(mbuf[TASK_FS].req.n, count) /\ k > 0
                  /\ iobuf' = [iobuf EXCEPT ![u] = RdBytes(k)]
                  /\ head' = (head + k) % PIPESIZE /\ count' = count - k
                  /\ FsServeWith(k, NULL, {ChanOf("w")})
                  /\ UNCHANGED <<data, open, ref, ofile>>
  BY DEF ReadSome
<1>2. IInv /\ PipeTypes /\ PipeTypeOK /\ NoLostWakeup /\ UNCHANGED <<got, sent>>
  BY DEF PInv, progVars
<1>3. k \in Int /\ k \in 1 .. count
  <2>1. mbuf[TASK_FS].req \in Request
    BY <1>2, CallerIs
  <2>2. mbuf[TASK_FS].req.n \in 1 .. CHUNK
    BY <2>1, RequestIs
  <2>3. count \in Nat
    BY <1>2, Sizes DEF PipeTypeOK
  <2> QED BY <1>1, <2>2, <2>3, LeastIs, Sizes
<1>4. Answers(u, k, NULL, {ChanOf("w")})
  BY <1>1, <1>2, <1>3, Served
<1>5. PICK s, t : s = RdBytes(k) /\ t = Contents'
  OBVIOUS
<1>6. /\ s \in Seq(Byte) /\ Len(s) = k /\ t \in Seq(Byte) /\ Contents = s \o t
      /\ head' \in 0 .. PIPESIZE - 1 /\ count' \in 0 .. PIPESIZE
  BY <1>1, <1>2, <1>3, <1>5, StreamsAre, ReadRing
<1>7. u \in Users /\ asked[u].op = "read" /\ u \in Readers
  BY <1>4 DEF Answers, PInv, CallInv, AskedInv
<1>8. /\ iobuf' \in [Users -> Seq(Byte)] /\ iobuf'[u] = s
      /\ \A v \in Users \ {u} : iobuf'[v] = iobuf[v]
  BY <1>1, <1>2, <1>5, <1>6, <1>7 DEF PipeTypes
<1>9. \A v \in Users : CallInv(v)'
  <2>1. k # -2 /\ asked[u].op # "write" /\ Len(iobuf'[u]) = k
    BY <1>3, <1>6, <1>7, <1>8
  <2> QED BY <1>2, <1>3, <1>4, <1>8, <2>1, HandlerCalls
<1>10. PipeTypes' /\ PipeTypeOK'
  BY <1>1, <1>2, <1>4, <1>6, <1>8, TypesKept, EndsKept DEF Answers, PipeTypeOK
<1>11. NoLostWakeup'
  <2>1. ASSUME NEW p \in Proc, state'[p] = "SLEEPING"
        PROVE  tmp'[p] # ChanOf("r") /\ tmp'[p] # ChanOf("w")
    <3>1. state[p] = "SLEEPING" /\ tmp'[p] = tmp[p] /\ tmp[p] # ChanOf("w")
      BY <1>4, <2>1 DEF Answers
    <3>2. count # 0
      BY <1>3
    <3> QED BY <1>2, <3>1, <3>2 DEF NoLostWakeup
  <2> QED BY <2>1 DEF NoLostWakeup
<1>12. /\ InFlight(u) = 0 /\ InFlight(u)' = k
       /\ \A v \in Users \ {u} : InFlight(v)' = InFlight(v)
       /\ \A v \in Users : asked'[v] = asked[v]
  <2>1. \A v \in Users : asked'[v] = asked[v]
    BY <1>4 DEF Answers
  <2>2. /\ InFlight(u) = 0 /\ InFlight(u)' = IF k > 0 THEN k ELSE 0
        /\ \A v \in Users \ {u} : InFlight(v)' = InFlight(v)
    BY <1>3, <1>4, HandlerFlight
  <2> QED BY <1>1, <2>1, <2>2
<1>13. Stream(u)' = Stream(u) \o s
  <2>1. got[u] \o SubSeq(iobuf[u], 1, 0) = got[u] /\ got[u] \in Seq(Byte)
    BY <1>2, <1>7, EmptyRead DEF PipeTypes
  <2>2. SubSeq(iobuf'[u], 1, k) = s
    BY <1>6, <1>8, SubSeqFull
  <2>3. asked[u] # NULL
    BY <1>4, FsServerAssumption DEF Answers
  <2>4. Stream(u) = got[u]
    BY <1>12, <2>1 DEF Stream
  <2>5. Stream(u)' = got[u] \o SubSeq(iobuf'[u], 1, k)
    BY <1>2, <1>7, <1>12, <2>3 DEF Stream
  <2> QED BY <2>2, <2>4, <2>5
<1>14. \A r \in Readers \ {u} : Stream(r)' = Stream(r)
  BY <1>2, <1>8, <1>12, Sizes DEF Stream
<1>15. Counts' = Counts
  <2>1. \A w \in Writers : Accepted(w)' = Accepted(w)
    BY <1>2, <1>7, <1>12, Sizes DEF Accepted
  <2> QED BY <2>1 DEF Counts
<1>16. BytesOnceInOrder'
  <2>1. PICK H, G : H = Holds /\ G = Holds'
    OBVIOUS
  <2>2. /\ H \in [Holders -> Seq(Byte)] /\ Sound(Holders, H, TASK_FS, Readers, Counts)
        /\ H[TASK_FS] = s \o t /\ \A r \in Readers : H[r] = Stream(r)
    BY <1>6, <2>1, StreamsAre, HoldsIs
  <2>3. /\ G \in [Holders -> Seq(Byte)] /\ G[TASK_FS] = t /\ \A r \in Readers : G[r] = Stream(r)'
        /\ Sound(Holders, G, TASK_FS, Readers, Counts') => BytesOnceInOrder'
    BY <1>5, <1>6, <1>9, <1>10, <2>1, StreamsNext
  <2>4. G[u] = H[u] \o s /\ \A x \in Holders \ {TASK_FS, u} : G[x] = H[x]
    BY <1>7, <1>13, <1>14, <2>2, <2>3 DEF Holders
  <2>5. Sound(Holders, G, TASK_FS, Readers, Counts)
    <3>1. TASK_FS \in Holders /\ Readers \subseteq Holders \ {TASK_FS}
      BY HoldsIs
    <3>2. PICK D, A : D = Holders /\ A = Counts
      OBVIOUS
    <3>3. /\ H \in [D -> Seq(Byte)] /\ G \in [D -> Seq(Byte)] /\ Sound(D, H, TASK_FS, Readers, A)
          /\ TASK_FS \in D /\ Readers \subseteq D \ {TASK_FS}
          /\ \A x \in D \ {TASK_FS, u} : G[x] = H[x]
          /\ s \in Seq(Byte) /\ t \in Seq(Byte) /\ u \in Readers
          /\ H[TASK_FS] = s \o t /\ G[TASK_FS] = t /\ G[u] = H[u] \o s
      BY <1>6, <1>7, <2>2, <2>3, <2>4, <3>1, <3>2
    <3>4. Sound(D, G, TASK_FS, Readers, A)
      BY <3>3, TakenSound, Zenon
    <3> QED BY <3>2, <3>4
  <2> QED BY <1>15, <2>3, <2>5
<1> QED BY <1>9, <1>10, <1>11, <1>16 DEF PInv

LEMMA ReadKeeps ==
  ASSUME PInv, IInv', FsRead, UNCHANGED progVars
  PROVE  PInv'
<1>1. At(TASK_FS, "serve") /\ mbuf[TASK_FS].req.op = "read"
  BY DEF FsRead, Serving
<1>2. CASE ReadSome
  BY <1>1, <1>2, ReadSomeKeeps
<1>3. CASE ReadNone
  <2>1. PICK i \in {-2, 0}, c \in {ChanOf("r"), NULL} :
           /\ FsServeWith(i, c, {})
           /\ i = -2 => open["w"] /\ c = ChanOf("r")
    BY <1>3 DEF ReadNone
  <2>2. PICK u : u = Caller
    OBVIOUS
  <2>3. Answers(u, i, c, {})
    BY <2>1, <2>2, Served DEF PInv
  <2>4. UNCHANGED <<data, head, count, open, ref, ofile, iobuf, got, sent>> /\ count = 0
    BY <1>3 DEF ReadNone, pipeVars, progVars
  <2>5. i = -2 => SleepSound(c)'
    BY <2>1, <2>4, Sizes DEF SleepSound, ChanOf
  <2>6. NoLostWakeup'
    BY <2>3, <2>4 DEF PInv, NoLostWakeup, Answers
  <2>7. PipeTypes' /\ PipeTypeOK'
    BY <2>3, <2>4, TypesKept, EndsKept DEF PInv, PipeTypes, PipeTypeOK, Answers
  <2> QED BY <2>1, <2>3, <2>4, <2>5, <2>6, <2>7, QuietKeeps DEF progVars
<1> QED BY <1>2, <1>3 DEF FsRead

(* A write that finds no room changes nothing.                             *)
LEMMA PutNothing ==
  ASSUME PipeTypeOK, NEW s
  PROVE  Put(s, 0) = data
<1>1. ASSUME NEW i \in 0 .. PIPESIZE - 1 PROVE ~((i - head - count) % PIPESIZE < 0)
  <2>1. i - head - count \in Int
    BY Sizes DEF PipeTypeOK
  <2>2. (i - head - count) % PIPESIZE \in 0 .. PIPESIZE - 1
    BY <2>1, Sizes, ModRange
  <2> QED BY <2>2, Sizes
<1>2. DOMAIN data = 0 .. PIPESIZE - 1 /\ data = [i \in 0 .. PIPESIZE - 1 |-> data[i]]
  BY DEF PipeTypeOK
<1>3. Put(s, 0) = [i \in 0 .. PIPESIZE - 1 |-> data[i]]
  BY <1>1, <1>2 DEF Put
<1> QED BY <1>2, <1>3

LEMMA WriteMoreKeeps ==
  ASSUME PInv, IInv', NEW u, u = Caller, At(TASK_FS, "serve"), asked[u].op = "write",
         NEW k \in Nat, k > 0, k <= Len(asked[u].bytes), k <= Room,
         data' = Put(iobuf[u], k), count' = count + k, FsServeWith(k, NULL, {ChanOf("r")}),
         UNCHANGED <<head, open, ref, ofile, iobuf, progVars>>
  PROVE  PInv'
<1>1. IInv /\ PipeTypes /\ PipeTypeOK /\ NoLostWakeup /\ UNCHANGED <<got, sent, head, iobuf, open>>
  BY DEF PInv, progVars
<1>2. Answers(u, k, NULL, {ChanOf("r")})
  <2>1. IInv /\ u = Caller /\ k \in Int /\ FsServeWith(k, NULL, {ChanOf("r")})
    BY <1>1
  <2> QED BY <2>1, Served
<1>3. PICK b : b = asked[u].bytes
  OBVIOUS
<1>4. /\ u \in Users /\ u \in Writers
      /\ asked[u] # NULL /\ After(b, u, sent[u]) /\ sent[u] + Len(b) <= MaxBytes /\ iobuf[u] = b
      /\ sent[u] \in Nat
  BY <1>1, <1>2, <1>3, FsServerAssumption DEF Answers, PInv, CallInv, AskedInv, PipeTypes
<1>5. b \in Seq(Byte) /\ Len(b) \in Nat /\ k <= Len(b)
  BY <1>2, <1>3, RequestIs DEF Answers
<1>6. PICK s, t : s = SubSeq(b, 1, k) /\ t = Contents'
  OBVIOUS
<1>7. /\ s \in Seq(Byte) /\ Len(s) = k /\ \A i \in 1 .. k : s[i] = b[i]
      /\ t \in Seq(Byte) /\ t = Contents \o s
      /\ count' \in 0 .. PIPESIZE /\ data' \in [0 .. PIPESIZE - 1 -> Byte \cup {NULL}]
  <2>1. k \in 0 .. Room
    BY <1>1, Sizes DEF PipeTypeOK, Room
  <2>2. Contents \in Seq(Byte)
    BY StreamsAre
  <2> QED BY <1>1, <1>4, <1>5, <1>6, <2>1, <2>2, WriteRing
<1>8. After(s, u, sent[u]) /\ sent[u] + k <= MaxBytes
  <2>1. \A i \in 1 .. Len(b) : b[i] = <<u, sent[u] + i>>
    BY <1>4 DEF After
  <2>2. ASSUME NEW i \in 1 .. k PROVE s[i] = <<u, sent[u] + i>>
    <3>1. i \in 1 .. Len(b)
      BY <1>5
    <3> QED BY <1>7, <2>1, <3>1
  <2>3. After(s, u, sent[u])
    BY <1>7, <2>2 DEF After
  <2>4. sent[u] + k <= MaxBytes
    BY <1>4, <1>5, Sizes
  <2> QED BY <2>3, <2>4
<1>9. \A v \in Users : CallInv(v)'
  <2>1. asked[u].op # "read" /\ k # -2
    OBVIOUS
  <2> QED BY <1>1, <1>2, <2>1, HandlerCalls
<1>10. PipeTypes' /\ PipeTypeOK'
  <2>1. iobuf' \in [Users -> Seq(Byte)] /\ head' \in 0 .. PIPESIZE - 1
    BY <1>1 DEF PipeTypes, PipeTypeOK
  <2> QED BY <1>1, <1>2, <1>7, <2>1, TypesKept, EndsKept DEF Answers, Byte
<1>11. NoLostWakeup'
  <2>1. ASSUME NEW p \in Proc, state'[p] = "SLEEPING"
        PROVE  tmp'[p] # ChanOf("r") /\ tmp'[p] # ChanOf("w")
    <3>1. state[p] = "SLEEPING" /\ tmp'[p] = tmp[p] /\ tmp[p] # ChanOf("r")
      BY <1>2, <2>1 DEF Answers
    <3>2. count # PIPESIZE
      BY Sizes DEF Room
    <3> QED BY <1>1, <3>1, <3>2 DEF NoLostWakeup
  <2> QED BY <2>1 DEF NoLostWakeup
<1>12. /\ InFlight(u) = 0 /\ InFlight(u)' = k
       /\ \A v \in Users \ {u} : InFlight(v)' = InFlight(v)
       /\ \A v \in Users : asked'[v] = asked[v]
  <2>1. \A v \in Users : asked'[v] = asked[v]
    BY <1>2 DEF Answers
  <2>2. /\ InFlight(u) = 0 /\ InFlight(u)' = IF k > 0 THEN k ELSE 0
        /\ \A v \in Users \ {u} : InFlight(v)' = InFlight(v)
    <3>1. k \in Int
      OBVIOUS
    <3> QED BY <1>2, <3>1, HandlerFlight
  <2> QED BY <2>1, <2>2
<1>13. ASSUME NEW r \in Readers PROVE Stream(r)' = Stream(r)
  BY <1>1, <1>12, Sizes DEF Stream
<1>14. /\ Accepted(u) = sent[u] /\ Accepted(u)' = sent[u] + k
       /\ \A w \in Writers \ {u} : Accepted(w)' = Accepted(w)
  BY <1>1, <1>4, <1>12, Sizes DEF Accepted
<1>15. BytesOnceInOrder'
  <2>1. PICK H, G, a, c, D : H = Holds /\ G = Holds' /\ a = Counts /\ c = Counts' /\ D = Holders
    OBVIOUS
  <2>2. /\ H \in [D -> Seq(Byte)] /\ Sound(D, H, TASK_FS, Readers, a)
        /\ H[TASK_FS] = Contents /\ \A r \in Readers : H[r] = Stream(r)
        /\ TASK_FS \in D /\ Readers \subseteq D \ {TASK_FS}
    BY <2>1, StreamsAre, HoldsIs
  <2>3. /\ G \in [D -> Seq(Byte)] /\ G[TASK_FS] = t /\ \A r \in Readers : G[r] = Stream(r)'
        /\ Sound(D, G, TASK_FS, Readers, c) => BytesOnceInOrder'
    BY <1>6, <1>7, <1>9, <1>10, <2>1, StreamsNext
  <2>4. PutsAt(D, TASK_FS, s, H, G)
    BY <1>7, <1>13, <2>1, <2>2, <2>3 DEF PutsAt, Holders
  <2>5. a[u] = sent[u] /\ CountsUp(u, Len(s), a, c)
    <3>1. \A w \in Writers : a[w] = Accepted(w) /\ c[w] = Accepted(w)'
      BY <2>1 DEF Counts
    <3>2. a[u] = sent[u] /\ c[u] = a[u] + Len(s)
      BY <1>4, <1>7, <1>14, <3>1
    <3>3. \A w \in Writers \ {u} : c[w] = a[w]
      BY <1>14, <3>1
    <3> QED BY <3>2, <3>3 DEF CountsUp
  <2>6. /\ u \in Writers /\ s \in Seq(Byte) /\ a[u] \in Nat /\ a[u] + Len(s) <= MaxBytes
        /\ After(s, u, a[u])
    BY <1>4, <1>7, <1>8, <2>5
  <2>7. Sound(D, G, TASK_FS, Readers, c)
    BY <2>2, <2>3, <2>4, <2>5, <2>6, AddedSound
  <2> QED BY <2>3, <2>7
<1> QED BY <1>9, <1>10, <1>11, <1>15 DEF PInv

LEMMA WriteKeeps ==
  ASSUME PInv, IInv', FsWrite, UNCHANGED progVars
  PROVE  PInv'
<1>1. PICK u : u = Caller
  OBVIOUS
<1>2. At(TASK_FS, "serve") /\ mbuf[TASK_FS].req = asked[u] /\ asked[u].op = "write"
  BY <1>1, CallerIs DEF FsWrite, Serving, PInv
<1>3. CASE WriteRefused
  <2>1. FsServeWith(-1, NULL, {})
        /\ UNCHANGED <<data, head, count, open, ref, ofile, iobuf, got, sent>>
    BY <1>3 DEF WriteRefused, pipeVars, progVars
  <2>2. Answers(u, -1, NULL, {})
    BY <1>1, <2>1, Served DEF PInv
  <2>3. NoLostWakeup'
    BY <2>1, <2>2 DEF PInv, NoLostWakeup, Answers
  <2>4. PipeTypes' /\ PipeTypeOK'
    BY <2>1, <2>2, TypesKept, EndsKept DEF PInv, PipeTypes, PipeTypeOK, Answers
  <2> QED BY <2>1, <2>2, <2>3, <2>4, QuietKeeps DEF progVars
<1>4. CASE WriteSome
  <2>1. PICK k : /\ k = Least(Len(asked[u].bytes), Room)
                 /\ open["r"] /\ data' = Put(iobuf[u], k) /\ count' = count + k
                 /\ IF k = 0 THEN FsServeWith(-2, ChanOf("w"), {ChanOf("r")})
                             ELSE FsServeWith(k, NULL, {ChanOf("r")})
                 /\ UNCHANGED <<head, open, ref, ofile, iobuf>>
    BY <1>1, <1>2, <1>4 DEF WriteSome
  <2>2. asked[u] \in Request
    BY <1>1, <1>2, CallerIs DEF PInv
  <2>3. /\ Len(asked[u].bytes) \in Nat /\ Len(asked[u].bytes) > 0 /\ Room \in Nat
    BY <1>2, <2>2, RequestIs, Sizes DEF Room, PInv, PipeTypeOK
  <2>4. k \in Nat /\ k <= Len(asked[u].bytes) /\ k <= Room /\ (k = 0 => Room = 0)
    BY <2>1, <2>3, LeastIs
  <2>5. CASE k > 0
    <3>1. FsServeWith(k, NULL, {ChanOf("r")})
      BY <2>1, <2>5
    <3> QED BY <1>1, <1>2, <2>1, <2>4, <2>5, <3>1, WriteMoreKeeps
  <2>6. CASE k = 0
    <3>1. FsServeWith(-2, ChanOf("w"), {ChanOf("r")})
      BY <2>1, <2>6
    <3>2. UNCHANGED <<data, head, count, open, ref, ofile, iobuf, got, sent>>
      <4>1. data' = data
        BY <2>1, <2>6, PutNothing DEF PInv
      <4>2. count' = count
        BY <2>1, <2>6, Sizes DEF PInv, PipeTypeOK
      <4> QED BY <2>1, <4>1, <4>2 DEF progVars
    <3>3. Answers(u, -2, ChanOf("w"), {ChanOf("r")})
      BY <1>1, <3>1, Served DEF PInv
    <3>4. NoLostWakeup'
      BY <3>2, <3>3 DEF PInv, NoLostWakeup, Answers
    <3>5. PipeTypes' /\ PipeTypeOK'
      BY <3>2, <3>3, TypesKept, EndsKept DEF PInv, PipeTypes, PipeTypeOK, Answers
    <3>6. SleepSound(ChanOf("w"))'
      <4>1. count = PIPESIZE
        BY <2>4, <2>6, Sizes DEF Room, PInv, PipeTypeOK
      <4> QED BY <2>1, <3>2, <4>1 DEF SleepSound, ChanOf
    <3> QED BY <3>2, <3>3, <3>4, <3>5, <3>6, QuietKeeps DEF progVars
  <2> QED BY <2>4, <2>5, <2>6
<1> QED BY <1>3, <1>4 DEF FsWrite

-----------------------------------------------------------------------------
(* Who has an end open.                                                    *)
Having(e) == {v \in Users : e \in ofile[v]}

LEMMA HavingIs ==
  ASSUME PipeTypeOK, NEW e \in Ends
  PROVE  IsFiniteSet(Having(e)) /\ Cardinality(Having(e)) \in Nat /\ ref[e] = Cardinality(Having(e))
<1>1. IsFiniteSet(Having(e))
  <2>1. IsFiniteSet(Proc) /\ Having(e) \subseteq Proc
    BY PipeIpcAssumption, Slots DEF Having
  <2> QED BY <2>1, FS_Subset
<1>2. Cardinality(Having(e)) \in Nat
  BY <1>1, FS_CardinalityType
<1>3. ref[e] = Cardinality(Having(e))
  BY DEF PipeTypeOK, Having
<1> QED BY <1>1, <1>2, <1>3

LEMMA CloseKeeps ==
  ASSUME PInv, IInv', FsClose, UNCHANGED progVars
  PROVE  PInv'
<1>1. PICK u, e : u = Caller /\ e = mbuf[TASK_FS].req.end
  OBVIOUS
<1>2. /\ At(TASK_FS, "serve") /\ mbuf[TASK_FS].req = asked[u] /\ asked[u].op = "close"
      /\ asked[u] \in Request /\ u \in Users
  BY <1>1, CallerIs DEF FsClose, Serving, PInv
<1>3. e \in Ends
  BY <1>1, <1>2, RequestIs
<1>4. /\ e \in ofile[u] /\ ref' = [ref EXCEPT ![e] = @ - 1]
      /\ ofile' = [ofile EXCEPT ![u] = @ \ {e}]
      /\ IF ref[e] > 1 THEN FsServeWith(0, NULL, {}) /\ open' = open
                       ELSE /\ open' = [open EXCEPT ![e] = FALSE]
                            /\ FsServeWith(0, NULL, {ChanOf(Other(e))})
      /\ UNCHANGED <<data, head, count, iobuf, got, sent>>
  BY <1>1 DEF FsClose, HeldElsewhere, progVars
<1>5. PICK woken : /\ FsServeWith(0, NULL, woken)
                   /\ ref[e] > 1 \/ woken = {ChanOf(Other(e))}
  BY <1>4
<1>6. Answers(u, 0, NULL, woken)
  BY <1>1, <1>5, Served DEF PInv
<1>7. /\ open \in [Ends -> BOOLEAN] /\ ref \in [Ends -> Nat] /\ ofile \in [Users -> SUBSET Ends]
      /\ PipeTypeOK /\ NoLostWakeup
  BY DEF PInv, PipeTypes
<1>8. /\ ref[e] = Cardinality(Having(e)) /\ u \in Having(e) /\ ref[e] # 0
      /\ Cardinality(Having(e) \ {u}) = ref[e] - 1
  <2>1. IsFiniteSet(Having(e)) /\ Cardinality(Having(e)) \in Nat /\ ref[e] = Cardinality(Having(e))
    BY <1>3, <1>7, HavingIs
  <2>2. u \in Having(e)
    BY <1>2, <1>4 DEF Having
  <2>3. Cardinality(Having(e) \ {u}) = Cardinality(Having(e)) - 1
    BY <2>1, <2>2, FS_RemoveElement
  <2>4. Having(e) # {}
    BY <2>2
  <2>5. Cardinality(Having(e)) # 0
    BY <2>1, <2>4, FS_EmptySet
  <2> QED BY <2>1, <2>2, <2>3, <2>5
<1>9. /\ ref' \in [Ends -> Nat] /\ ref'[e] = ref[e] - 1 /\ \A d \in Ends \ {e} : ref'[d] = ref[d]
  BY <1>3, <1>4, <1>7, <1>8
<1>10. /\ open' \in [Ends -> BOOLEAN] /\ (open'[e] <=> ref'[e] > 0)
       /\ \A d \in Ends \ {e} : open'[d] = open[d]
  <2>1. open[e] <=> ref[e] > 0
    BY <1>3, <1>7 DEF PipeTypeOK
  <2>2. ref[e] \in Nat
    BY <1>3, <1>7
  <2>3. CASE ref[e] > 1
    BY <1>4, <1>7, <1>9, <2>1, <2>2, <2>3
  <2>4. CASE ~(ref[e] > 1)
    <3>1. open' = [open EXCEPT ![e] = FALSE] /\ ~(ref'[e] > 0)
      BY <1>4, <1>9, <2>2, <2>4
    <3> QED BY <1>3, <1>7, <3>1
  <2> QED BY <2>3, <2>4
<1>11. /\ ofile' \in [Users -> SUBSET Ends] /\ Having(e)' = Having(e) \ {u}
       /\ \A d \in Ends \ {e} : Having(d)' = Having(d)
  BY <1>2, <1>3, <1>4, <1>7 DEF Having
<1>12. PipeTypeOK'
  <2>1. ASSUME NEW d \in Ends PROVE ref'[d] = Cardinality(Having(d)') /\ (open'[d] <=> ref'[d] > 0)
    <3>1. ref[d] = Cardinality(Having(d)) /\ (open[d] <=> ref[d] > 0)
      BY <1>7 DEF PipeTypeOK, Having
    <3> QED BY <1>8, <1>9, <1>10, <1>11, <3>1
  <2> QED BY <1>4, <1>7, <2>1 DEF PipeTypeOK, Having
<1>13. PipeTypes'
  BY <1>4, <1>6, <1>9, <1>10, <1>11 DEF PInv, PipeTypes, Answers
<1>14. NoLostWakeup'
  <2>1. ASSUME NEW p \in Proc, state'[p] = "SLEEPING"
        PROVE  SleepSound(tmp[p])'
    <3>1. state[p] = "SLEEPING" /\ tmp'[p] = tmp[p] /\ tmp[p] \notin woken
      BY <1>6, <2>1 DEF Answers
    <3>2. SleepSound(tmp[p])
      BY <1>7, <3>1, SleepersAre
    <3>3. CASE ref[e] > 1
      BY <1>4, <3>1, <3>2, <3>3 DEF SleepSound
    <3>4. CASE tmp[p] # ChanOf(Other(e))
      BY <1>3, <1>4, <1>10, <3>1, <3>2, <3>4 DEF SleepSound, Ends, Other, ChanOf
    <3> QED BY <1>5, <3>1, <3>3, <3>4
  <2> QED BY <2>1 DEF NoLostWakeup, SleepSound
<1> QED BY <1>4, <1>6, <1>12, <1>13, <1>14, QuietKeeps DEF progVars

-----------------------------------------------------------------------------
LEMMA InitPInv == PipeInit => PInv
<1> SUFFICES ASSUME PipeInit PROVE PInv
  OBVIOUS
<1>1. IInv /\ Init
  BY InitIInv DEF PipeInit
<1>2. /\ \A u \in Users : pc[u] = "user" /\ asked[u] = NULL /\ state[u] = "RUNNABLE"
      /\ \A p \in Proc : state[p] = "RUNNABLE" /\ tmp[p] = NULL
      /\ pc[TASK_FS] = "recv" /\ state[TASK_FS] = "RUNNABLE"
  BY <1>1, Slots DEF Init
<1>3. \A u \in Users : CallInv(u) /\ InFlight(u) = 0
  BY <1>2 DEF CallInv, Answered, InService, InFlight
<1>4. IsFiniteSet(Users) /\ Cardinality(Users) \in Nat /\ Cardinality(Users) > 0
  <2>1. IsFiniteSet(Users) /\ Users # {}
    BY PipeIpcAssumption, Slots, FS_Subset
  <2> QED BY <2>1, FS_EmptySet, FS_CardinalityType
<1>5. PipeTypes
  <2>1. <<>> \in Seq(Byte)
    OBVIOUS
  <2> QED BY <1>2, <1>4, <2>1, Sizes DEF PipeInit, PipeTypes
<1>6. PipeTypeOK
  <2>1. \A e \in Ends : {u \in Users : e \in ofile[u]} = Users
    BY DEF PipeInit
  <2>2. \A e \in Ends : /\ ref[e] = Cardinality({u \in Users : e \in ofile[u]})
                        /\ open[e] <=> ref[e] > 0
    BY <1>4, <2>1 DEF PipeInit
  <2> QED BY <2>2, Sizes DEF PipeInit, PipeTypeOK
<1>7. NoLostWakeup
  BY <1>2 DEF NoLostWakeup
<1>8. BytesOnceInOrder
  <2>1. Contents = <<>>
    <3>1. count = 0
      BY DEF PipeInit
    <3>2. DOMAIN RdBytes(0) = 1 .. 0
      BY RdBytesIs
    <3>3. \A i \in 1 .. 0 : RdBytes(0)[i] \in Byte
      OBVIOUS
    <3>4. RdBytes(0) \in Seq(Byte) /\ Len(RdBytes(0)) = 0
      BY <3>3, RdBytesIs
    <3> QED BY <3>1, <3>4 DEF Contents
  <2>2. \A r \in Readers : Stream(r) = <<>>
    BY <1>2, Sizes DEF Stream, PipeInit
  <2>3. Holds = [x \in Holders |-> <<>>]
    BY <2>1, <2>2 DEF Holds, Holders
  <2>4. {b \in Byte : b[2] <= Counts[b[1]]} = {}
    <3>1. \A w \in Writers : Counts[w] = 0
      BY <1>2, Sizes DEF Counts, Accepted, PipeInit
    <3> QED BY <3>1, Sizes DEF Byte
  <2>5. Sound(Holders, Holds, TASK_FS, Readers, Counts)
    <3>1. PICK H : H = Holds
      OBVIOUS
    <3>2. \A x \in Holders : H[x] = <<>>
      BY <2>3, <3>1
    <3>3. Range(<<>>) = {} /\ Len(<<>>) = 0 /\ <<>> \o <<>> = <<>>
      BY DEF Range
    <3>4. Placed(Holders, H, Counts)
      BY <2>4, <3>2, <3>3 DEF Placed
    <3>5. Once(Holders, H)
      BY <3>2, <3>3 DEF Once
    <3>6. \A r \in Readers : Ordered(H[r] \o H[TASK_FS])
      <4>1. Ordered(<<>>)
        BY <3>3 DEF Ordered
      <4>2. \A r \in Readers : H[r] = <<>> /\ H[TASK_FS] = <<>>
        BY <3>2 DEF Holders
      <4> QED BY <3>3, <4>1, <4>2
    <3> QED BY <3>1, <3>4, <3>5, <3>6 DEF Sound
  <2>6. Holds \in [Holders -> Seq(Byte)]
    BY <2>3
  <2> QED BY <2>5, <2>6, SoundIs
<1> QED BY <1>1, <1>3, <1>5, <1>6, <1>7, <1>8 DEF PInv

LEMMA NextPInv == PInv /\ [PipeNext]_allVars => PInv'
<1> SUFFICES ASSUME PInv, [PipeNext]_allVars PROVE PInv'
  OBVIOUS
<1>1. IInv'
  BY StepMaps, NextIInv DEF PInv
<1>2. ASSUME NEW u \in Users, ProgStep(u) PROVE PInv'
  BY <1>1, <1>2, CallKeeps, ReturnKeeps, UserRecvKeeps DEF ProgStep
<1>3. CASE FsHandler
  BY <1>1, <1>3, ReadKeeps, WriteKeeps, CloseKeeps DEF FsHandler
<1>4. CASE (FsRecv /\ Rest) \/ (FsReply /\ Rest)
  BY <1>1, <1>4, FsRecvKeeps, FsReplyKeeps
<1>5. CASE UNCHANGED allVars
  <2>1. UNCHANGED <<vars, pipeVars, progVars>>
    BY <1>5 DEF allVars
  <2>2. UNCHANGED <<state, mbuf, sendto, recvfrom, msgstate, tmp, pc, asked>>
    BY <2>1 DEF vars, msgVars
  <2>3. \A u \in Users : /\ Answered(u)' <=> Answered(u)
                         /\ InService(u)' <=> InService(u)
                         /\ InFlight(u)' = InFlight(u)
    BY <2>2 DEF Answered, InService, InFlight
  <2>4. \A u \in Users : CallInv(u)'
    BY <2>1, <2>2, <2>3 DEF PInv, CallInv, AskedInv, ReplyIs, SleepSound, pipeVars, progVars
  <2>5. \A p \in Proc : state'[p] = "SLEEPING" => SleepSound(tmp'[p])
    BY <2>2, SleepersAre DEF PInv
  <2>6. pc'[TASK_FS] # "disk"
    BY <2>2 DEF PInv, PipeTypes
  <2> QED BY <1>1, <2>1, <2>2, <2>3, <2>4, <2>5, <2>6, MessageKeeps
<1> QED BY <1>2, <1>3, <1>4, <1>5 DEF PipeNext, ServerStep

LEMMA PipeInvariant == PipeSpec => []PInv
<1> QED BY InitPInv, NextPInv, PTL DEF PipeSpec

(* The ring and the reference counts are in range, and an end is open      *)
(* exactly while some process holds it (fileclose, pipeclose).             *)
THEOREM PipeTypeCorrect == PipeSpec => []PipeTypeOK
<1>1. PInv => PipeTypeOK
  BY DEF PInv
<1> QED BY PipeInvariant, <1>1, PTL

(* No reader sleeps beside bytes or beside a pipe nobody can write, and no *)
(* writer beside room or a pipe nobody can read.                           *)
THEOREM NoWakeupLost == PipeSpec => []NoLostWakeup
<1>1. PInv => NoLostWakeup
  BY DEF PInv
<1> QED BY PipeInvariant, <1>1, PTL

(* Every byte accepted is in the pipe or with one reader, once, and each   *)
(* writer's bytes stay in order: for any number of readers and writers,    *)
(* any size of the ring and of a call.                                     *)
THEOREM BytesArriveOnceInOrder == PipeSpec => []BytesOnceInOrder
<1>1. PInv => BytesOnceInOrder
  BY DEF PInv
<1> QED BY PipeInvariant, <1>1, PTL

(* The handlers of the pipe are handlers FsServer allows: what is proved   *)
(* of its loop holds of a pipeline.                                        *)
THEOREM PipeImplementsFsServer == PipeSpec => ImplementsFsServer
<1>1. PipeInit => Init
  BY DEF PipeInit
<1> QED BY <1>1, PipeInvariant, StepMaps, PTL DEF PipeSpec, ImplementsFsServer, Spec
=============================================================================
