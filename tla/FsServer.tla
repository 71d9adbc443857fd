------------------------------ MODULE FsServer ------------------------------
(***************************************************************************)
(* Calls to the file-system task: the receive-serve-reply loop of          *)
(* fs/main.c, the BOTH branch of sendrecv in kernel/msg.c and the stubs of *)
(* lib/fs.c that call it.  What a handler computes is left open here: it   *)
(* may wait for the disk, answer with any result, or (read and write only) *)
(* answer -2, which the loop turns into MSG_BESLEEP.                       *)
(*                                                                         *)
(* Slots are preempted between any two actions.  That includes the window  *)
(* between the sendmsg and the recvmsg of one BOTH call, which sendrecv    *)
(* leaves open with interrupts enabled.                                    *)
(***************************************************************************)
EXTENDS Msg

CONSTANTS
    Request,          \* what a call asks: the message but for type and source
    Blocking,         \* the requests a handler may answer with -2
    Result,           \* the values of i1 a handler returns, -2 apart
    Chan,             \* the channels fs_sleep may name
    TtyChan,          \* those of them the keyboard interrupt wakes
    NULL              \* no channel, no request yet

Users == Proc \ {TASK_FS}    \* every slot that calls TASK_FS: TASK_MM too

DISK == "buf"                \* the buffer iderw sleeps on

ASSUME FsServerAssumption ==
    /\ TASK_FS \in Proc
    /\ Blocking \subseteq Request
    /\ TtyChan \subseteq Chan
    /\ {NULL, DISK} \cap Chan = {}
    /\ NULL \notin Request
    /\ 0 \in Result /\ -2 \notin Result

VARIABLES
    pc,               \* where each slot is, see TypeOK
    asked             \* the request a caller is waiting on

vars == <<msgVars, pc, asked>>

Callers   == {"user", "again", "wait", "done"}
ServerPcs == {"recv", "serve", "disk", "reply"}

Message == [type : {"REQ", "SYSRET", "BESLEEP"}, source : Proc,
            req : Request \cup {NULL}, chan : Chan \cup {NULL}, i1 : Result \cup {-2}]

MsgOf(u, r) ==
    [type |-> "REQ", source |-> u, req |-> r, chan |-> NULL, i1 |-> 0]

Init ==
    /\ state = [p \in Proc |-> "RUNNABLE"]
    /\ mbuf = [p \in Proc |-> MsgOf(p, NULL)]
    /\ asked = [u \in Users |-> NULL]
    /\ sendto = [p \in Proc |-> TASK_FS]
    /\ recvfrom = [p \in Proc |-> ANY]
    /\ msgstate = [p \in Proc |-> 0]
    /\ tmp = [p \in Proc |-> NULL]
    /\ pc = [p \in Proc |-> IF p = TASK_FS THEN "recv" ELSE "user"]

Goto(p, l) == pc' = [pc EXCEPT ![p] = l]

At(p, l) == state[p] = "RUNNABLE" /\ pc[p] = l

-----------------------------------------------------------------------------
(* A caller: sys_msg(BOTH, &m, TASK_FS).                                   *)

Send(u, r) ==
    /\ asked' = [asked EXCEPT ![u] = r]
    /\ SendMsg(u, TASK_FS, MsgOf(u, r))
    /\ Goto(u, "wait")

UserCall(u, r) == At(u, "user") /\ Send(u, r)

(* The do-while loops of read and write.                                   *)
UserRetry(u) == At(u, "again") /\ Send(u, asked[u])

(* sendmsg returned: sendrecv returns at once unless it returned 0.        *)
UserRecv(u) ==
    /\ At(u, "wait")
    /\ msgstate[u] = 0
    /\ RecvMsg(u, TASK_FS)
    /\ Goto(u, "done")
    /\ UNCHANGED asked

UserReturn(u) ==
    /\ At(u, "done")
    /\ Goto(u, IF mbuf[u].type = "BESLEEP" THEN "again" ELSE "user")
    /\ UNCHANGED <<msgVars, asked>>

-----------------------------------------------------------------------------
(* The server: task_fs.                                                    *)

FsRecv ==
    /\ At(TASK_FS, "recv")
    /\ RecvMsg(TASK_FS, ANY)
    /\ Goto(TASK_FS, "serve")
    /\ UNCHANGED asked

(* A handler waits for the disk: sleep_on in iderw.                        *)
FsDisk ==
    /\ At(TASK_FS, "serve")
    /\ state' = [state EXCEPT ![TASK_FS] = "SLEEPING"]
    /\ tmp' = [tmp EXCEPT ![TASK_FS] = DISK]
    /\ Goto(TASK_FS, "disk")
    /\ UNCHANGED <<mbuf, sendto, recvfrom, msgstate, asked>>

(* sleep_on returns.                                                       *)
FsResume ==
    /\ At(TASK_FS, "disk")
    /\ tmp' = [tmp EXCEPT ![TASK_FS] = NULL]
    /\ Goto(TASK_FS, "serve")
    /\ UNCHANGED <<state, mbuf, sendto, recvfrom, msgstate, asked>>

(* Mutant: m.type = MSG_SYSRET is missing.                                 *)
ReplyOfUntyped(m, i, c) ==
    IF i = -2 THEN [m EXCEPT !.type = "BESLEEP", !.i1 = i, !.chan = c]
              ELSE [m EXCEPT !.i1 = i]

(* The reply the loop makes of a handler's result i, with fs_sleep = c.    *)
ReplyOf(m, i, c) ==
    IF i = -2 THEN [m EXCEPT !.type = "BESLEEP", !.i1 = i, !.chan = c]
              ELSE [m EXCEPT !.type = "SYSRET", !.i1 = i]

(* A handler returns i after waking the sleepers on the channels in woken. *)
FsServeWith(i, c, woken) ==
    /\ At(TASK_FS, "serve")
    /\ mbuf' = [mbuf EXCEPT ![TASK_FS] = ReplyOf(@, i, c)]
    /\ state' = WakeUp(woken)
    /\ Goto(TASK_FS, "reply")
    /\ UNCHANGED <<sendto, recvfrom, msgstate, tmp, asked>>

FsServe ==
    \E woken \in SUBSET Chan :
        \/ \E i \in Result : FsServeWith(i, NULL, woken)
        \/ /\ mbuf[TASK_FS].req \in Blocking
           /\ \E c \in Chan : FsServeWith(-2, c, woken)

(* Mutant: a reply to a caller that does not wait yet is dropped.          *)
FsReplyDrops ==
    LET dest == mbuf[TASK_FS].source
    IN  /\ At(TASK_FS, "reply")
        /\ \/ Deliver(TASK_FS, dest, [mbuf[TASK_FS] EXCEPT !.source = TASK_FS])
           \/ ~Awaits(dest, TASK_FS) /\ UNCHANGED msgVars
        /\ Goto(TASK_FS, "recv")
        /\ UNCHANGED asked

(* sendrecv overwrites m.source with the sender's slot.                    *)
FsReply ==
    /\ At(TASK_FS, "reply")
    /\ SendMsg(TASK_FS, mbuf[TASK_FS].source,
               [mbuf[TASK_FS] EXCEPT !.source = TASK_FS])
    /\ Goto(TASK_FS, "recv")
    /\ UNCHANGED asked

-----------------------------------------------------------------------------
(* Interrupt handlers.                                                     *)
Wakes(chans) ==
    /\ \E p \in Proc : state[p] = "SLEEPING" /\ tmp[p] \in chans
    /\ state' = WakeUp(chans)
    /\ UNCHANGED <<mbuf, sendto, recvfrom, msgstate, tmp, pc, asked>>

(* Mutant: the disk's interrupt wakes another channel.                     *)
IdeIntrElsewhere == Wakes(TtyChan)

IdeIntr == Wakes({DISK})
TtyIntr == Wakes(TtyChan)

UserStep(u) ==
    \/ \E r \in Request : UserCall(u, r)
    \/ UserRetry(u) \/ UserRecv(u) \/ UserReturn(u)

FsStep == FsRecv \/ FsDisk \/ FsResume \/ FsServe \/ FsReply

Next == (\E u \in Users : UserStep(u)) \/ FsStep \/ IdeIntr \/ TtyIntr

Spec == Init /\ [][Next]_vars

(* A runnable slot in the kernel keeps being scheduled; the disk answers,  *)
(* keys are typed; a handler waits for the disk finitely often.  A program *)
(* need not call.                                                          *)
Fairness ==
    /\ \A u \in Users :
          WF_vars(UserRetry(u) \/ UserRecv(u) \/ UserReturn(u))
    /\ WF_vars(FsStep) /\ SF_vars(FsServe)
    /\ WF_vars(IdeIntr) /\ WF_vars(TtyIntr)

FairSpec == Spec /\ Fairness

-----------------------------------------------------------------------------
(* Where a call is.                                                        *)

(* The server has taken u's request and not delivered its reply.           *)
InService(u) ==
    \/ /\ pc[TASK_FS] \in {"serve", "disk", "reply"}
       /\ state[TASK_FS] # "RECVING"
       /\ mbuf[TASK_FS].source = u
    \/ /\ pc[TASK_FS] = "recv"
       /\ state[TASK_FS] = "SENDING"
       /\ sendto[TASK_FS] = u

(* u's send is over and its receive is not.                                *)
Outstanding(u) ==
    \/ pc[u] = "wait" /\ state[u] = "RUNNABLE"
    \/ pc[u] = "done" /\ state[u] = "RECVING"

Pending(u)  == pc[u] = "wait" /\ state[u] = "SENDING"

Answered(u) == pc[u] = "done" /\ state[u] # "RECVING"

-----------------------------------------------------------------------------
(* Every variable has its type and every slot is in a state its place in   *)
(* the code allows (sendrecv, sendmsg, recvmsg, task_fs).                  *)
TypeOK ==
    /\ state \in [Proc -> {"RUNNABLE", "SLEEPING", "SENDING", "RECVING"}]
    /\ mbuf \in [Proc -> Message]
    /\ sendto \in [Proc -> Proc]
    /\ recvfrom \in [Proc -> Proc \cup {ANY}]
    /\ msgstate \in [Proc -> {0, -1}]
    /\ tmp \in [Proc -> Chan \cup {NULL, DISK}]
    /\ pc \in [Proc -> Callers \cup ServerPcs]
    /\ asked \in [Users -> Request \cup {NULL}]

(* The server holds exactly the calls whose caller waits for a reply: no   *)
(* reply is dropped or sent twice, and no caller waits in recvmsg for a    *)
(* reply nobody will send.                                                 *)
NoCallLost == \A u \in Users : Outstanding(u) <=> InService(u)

(* What a call returns with is the server's reply to the request it made,  *)
(* also after a retry and also when the reply came while the caller was    *)
(* between sendmsg and recvmsg: mcopyout follows the pointer in it.        *)
ReplyMatches ==
    \A u \in Users : Answered(u) =>
        /\ mbuf[u].source = TASK_FS
        /\ mbuf[u].req = asked[u]
        /\ mbuf[u].type \in {"SYSRET", "BESLEEP"}
        /\ mbuf[u].type = "BESLEEP" => asked[u] \in Blocking

(* No call ends in panic: neither dead-lock walk of msg.c finds a cycle,   *)
(* and sys_msg returns the 0 that every stub asserts.                      *)
NoPanic ==
    /\ \A u \in Users :
          /\ At(u, "user") \/ At(u, "again") => ~SendDeadlocks(u, TASK_FS)
          /\ At(u, "wait") => /\ msgstate[u] = 0
                              /\ ~RecvDeadlocks(u, TASK_FS)
          /\ At(u, "done") => msgstate[u] = 0
    /\ At(TASK_FS, "reply")
          => ~SendDeadlocks(TASK_FS, mbuf[TASK_FS].source)

(* The calls are those of an Rpc server.                                   *)
Phase(u) ==
    CASE InService(u) -> "taken"
      [] Pending(u)   -> "pending"
      [] Answered(u)  -> "answered"
      [] OTHER        -> "idle"

Abstract == INSTANCE Rpc WITH
    Caller <- Users,
    None   <- NULL,
    phase  <- [u \in Users |-> Phase(u)],
    req    <- asked,
    got    <- [u \in Users |-> IF Answered(u) THEN mbuf[u].req ELSE NULL]

(* The loop implements Rpc: one call at a time, one reply per call, made   *)
(* for that call; a call taken is answered, and an answer is returned.     *)
ImplementsRpc == Abstract!FairSpec

(* A call that cannot block returns if the other programs stop calling in  *)
(* the end: recvmsg takes the lowest slot first, so without that it need   *)
(* not.  The keyboard wakes a server that MSG_BESLEEP put to sleep.        *)
CallReturns ==
    \A u \in Users :
        (\A v \in Users \ {u} : <>[](pc[v] = "user"))
            => (pc[u] = "wait" /\ asked[u] \notin Blocking ~> pc[u] = "user")

(* Of the two parties of a call it is the caller that MSG_BESLEEP puts to  *)
(* sleep ("sleep it", fs/pipe.c:99); the server sleeps for the disk only.  *)
OnlyCallersSleep == state[TASK_FS] = "SLEEPING" => tmp[TASK_FS] = DISK
=============================================================================
