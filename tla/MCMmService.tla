---------------------------- MODULE MCMmService ----------------------------
(* initproc and three slots for its descendants: an orphan may be handed   *)
(* to initproc by a process that is not its child.                         *)
EXTENDS MmService

MCProc   == {TASK_MM, 4, 5, 6, 7}
MCAll    == {"fork", "exit", "wait", "waitnohang", "exec"}

(* The view leaves out what a slot holds and nobody reads before it is     *)
(* written again.                                                          *)
Kept(live, v) == IF live THEN v ELSE NULL

LiveMsg(p) ==
    IF p = TASK_MM
    THEN (pc[p] # "recv" /\ state[p] # "RECVING") \/ state[p] = "SENDING"
    ELSE \/ state[p] = "SENDING"
         \/ pc[p] = "done" /\ state[p] \in {"RUNNABLE", "SLEEPING"} /\ msgstate[p] = 0

LiveCall(p) == state[p] \notin {"UNUSED", "ZOMBIE"} /\ pc[p] # "user"

View ==
    <<state, nextpid, newp, reaped,
      [p \in Proc |->
          <<Kept(LiveMsg(p), mbuf[p]),
            Kept(state[p] = "SENDING", sendto[p]),
            Kept(state[p] = "RECVING", recvfrom[p]),
            Kept(state[p] = "SLEEPING", tmp[p]),
            Kept(LiveCall(p) \/ state[p] = "ZOMBIE", msgstate[p]),
            Kept(state[p] \notin {"UNUSED", "ZOMBIE"}, pc[p])>>],
      [u \in Users |->
          <<Kept(LiveCall(u) \/ u = initproc, asked[u]),
            Kept(state[u] # "UNUSED", <<parent[u], pid[u], forked[u]>>)>>]>>
=============================================================================
