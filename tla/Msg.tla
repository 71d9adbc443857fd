-------------------------------- MODULE Msg --------------------------------
(***************************************************************************)
(* The kernel's message primitive and its sleep and wake-up calls:         *)
(* sendmsg and recvmsg of kernel/msg.c, wake_up of kernel/proc.c.          *)
(*                                                                         *)
(* Both primitives run between cli() and sti(), so each is one step; a     *)
(* process is preempted before or after it, never inside.  The module has  *)
(* no next-state relation of its own: the task loops and the user stubs    *)
(* that call the primitives are in the modules that extend it.             *)
(*                                                                         *)
(* mbuf[p] is the message buffer in p's kernel stack (sendrecv's mbuf,     *)
(* which msgp points to while p is blocked) together with the caller's     *)
(* struct it is copied from and to: nobody else touches either while p     *)
(* runs.  msgstate[p] is the value the primitive returns to p, that is the *)
(* field after a wait and the literal 0 when the call did not block.       *)
(***************************************************************************)
EXTENDS Integers

CONSTANT Proc         \* the slots of ptable in use

ANY == -1             \* recvmsg's wildcard
TASK_MM == 2          \* slots of the two server tasks
TASK_FS == 3

ASSUME ProcAssumption == Proc \subseteq Nat

VARIABLES
    state,            \* enum procstate of each slot
    mbuf,             \* the message the slot sends or last received
    sendto,           \* whom a SENDING slot waits for
    recvfrom,         \* whom a RECVING slot waits for, or ANY
    msgstate,         \* what the message call returns
    tmp               \* the channel of a SLEEPING slot

msgVars == <<state, mbuf, sendto, recvfrom, msgstate, tmp>>

-----------------------------------------------------------------------------
(* A process that is given a message, or whose message is taken, becomes   *)
(* runnable; MSG_BESLEEP sends it to sleep on the channel in the message.  *)

ReleasedState(m) == IF m.type = "BESLEEP" THEN "SLEEPING" ELSE "RUNNABLE"

ReleasedTmp(p, m) == IF m.type = "BESLEEP" THEN m.chan ELSE tmp[p]

(* sendmsg may hand its message over at once.                              *)
Awaits(dest, me) ==
    /\ state[dest] = "RECVING"
    /\ recvfrom[dest] \in {me, ANY}

(* Mutant: the receiver sees whom it asked for, not who sent.              *)
DeliverRenamed(me, dest, m) ==
    /\ Awaits(dest, me)
    /\ mbuf' = [mbuf EXCEPT ![dest] = [m EXCEPT !.source = recvfrom[dest]]]
    /\ msgstate' = [msgstate EXCEPT ![dest] = 0, ![me] = 0]
    /\ state' = [state EXCEPT ![dest] = ReleasedState(m)]
    /\ tmp' = [tmp EXCEPT ![dest] = ReleasedTmp(dest, m)]
    /\ UNCHANGED <<sendto, recvfrom>>

Deliver(me, dest, m) ==
    /\ Awaits(dest, me)
    /\ mbuf' = [mbuf EXCEPT ![dest] = m]
    /\ msgstate' = [msgstate EXCEPT ![dest] = 0, ![me] = 0]
    /\ state' = [state EXCEPT ![dest] = ReleasedState(m)]
    /\ tmp' = [tmp EXCEPT ![dest] = ReleasedTmp(dest, m)]
    /\ UNCHANGED <<sendto, recvfrom>>

BlockSending(me, dest, m) ==
    /\ ~Awaits(dest, me)
    /\ state' = [state EXCEPT ![me] = "SENDING"]
    /\ mbuf' = [mbuf EXCEPT ![me] = m]
    /\ sendto' = [sendto EXCEPT ![me] = dest]
    /\ msgstate' = [msgstate EXCEPT ![me] = -1]
    /\ UNCHANGED <<recvfrom, tmp>>

(* Mutant: the walk follows sendto of slots that are not sending, too.     *)
SendDeadlocksStale(me, dest) ==
    \A S \in SUBSET Proc :
        (dest \in S /\ \A q \in S : sendto[q] \in S) => \E q \in S : sendto[q] = me

(* The walk along sendto from dest meets a process that sends to me.  The  *)
(* slots the walk visits are the least set that holds dest and follows     *)
(* sendto from every SENDING slot.                                         *)
SendDeadlocks(me, dest) ==
    \A S \in SUBSET Proc :
        (dest \in S /\ \A q \in S : state[q] = "SENDING" => sendto[q] \in S)
            => \E q \in S : state[q] = "SENDING" /\ sendto[q] = me

SendMsg(me, dest, m) ==
    /\ ~SendDeadlocks(me, dest)
    /\ Deliver(me, dest, m) \/ BlockSending(me, dest, m)

-----------------------------------------------------------------------------
(* recvmsg takes the message of a process that is blocked sending to it,   *)
(* the lowest slot when several are.                                       *)
Senders(me, source) ==
    {p \in Proc : state[p] = "SENDING" /\ sendto[p] = me /\ source \in {p, ANY}}

(* Mutant: the sender is not released.                                     *)
TakeKeeps(me, p) ==
    /\ mbuf' = [mbuf EXCEPT ![me] = mbuf[p]]
    /\ msgstate' = [msgstate EXCEPT ![p] = 0, ![me] = 0]
    /\ UNCHANGED <<state, tmp, sendto, recvfrom>>

(* When the message says MSG_BESLEEP it is the SENDER that is put to       *)
(* sleep, the receiver goes on.                                            *)
Take(me, p) ==
    /\ mbuf' = [mbuf EXCEPT ![me] = mbuf[p]]
    /\ msgstate' = [msgstate EXCEPT ![p] = 0, ![me] = 0]
    /\ state' = [state EXCEPT ![p] = ReleasedState(mbuf[p])]
    /\ tmp' = [tmp EXCEPT ![p] = ReleasedTmp(p, mbuf[p])]
    /\ UNCHANGED <<sendto, recvfrom>>

TakeFirst(me, source) ==
    \E p \in Senders(me, source) :
        /\ \A q \in Senders(me, source) : p <= q
        /\ Take(me, p)

BlockReceiving(me, source) ==
    /\ Senders(me, source) = {}
    /\ state' = [state EXCEPT ![me] = "RECVING"]
    /\ recvfrom' = [recvfrom EXCEPT ![me] = source]
    /\ msgstate' = [msgstate EXCEPT ![me] = -1]
    /\ UNCHANGED <<mbuf, sendto, tmp>>

(* The walk along recvfrom.  It stops at a process that receives from ANY: *)
(* the slot before ptable, which the code then reads, is files[95].ip of   *)
(* the built image, never the value of RECVING.                            *)
RecvDeadlocks(me, source) ==
    /\ source # ANY
    /\ \A S \in SUBSET Proc :
        (/\ source \in S
         /\ \A q \in S : state[q] = "RECVING" /\ recvfrom[q] # ANY
                            => recvfrom[q] \in S)
            => \E q \in S : state[q] = "RECVING" /\ recvfrom[q] = me

RecvMsg(me, source) ==
    /\ ~RecvDeadlocks(me, source)
    /\ TakeFirst(me, source) \/ BlockReceiving(me, source)

-----------------------------------------------------------------------------
(* Mutant: one sleeper is woken.                                           *)
WakeUpOne(chans) ==
    LET Sleepers == {p \in Proc : state[p] = "SLEEPING" /\ tmp[p] \in chans}
    IN  [p \in Proc |-> IF p \in Sleepers /\ \A q \in Sleepers : p <= q
                        THEN "RUNNABLE" ELSE state[p]]

(* wake_up(w) for every channel w of a set.                                *)
WakeUp(chans) ==
    [p \in Proc |-> IF state[p] = "SLEEPING" /\ tmp[p] \in chans
                    THEN "RUNNABLE" ELSE state[p]]
=============================================================================
