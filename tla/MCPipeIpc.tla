----------------------------- MODULE MCPipeIpc -----------------------------
(* A reader and two writers, so that both may wait for room.               *)
EXTENDS PipeIpc

MCProc    == {TASK_FS, 4, 5, 6}
MCWriters == {5, 6}
MCReaders == {4}
MCNoTty   == {}

(* The view leaves out what a slot holds and nobody reads before it is     *)
(* written again.                                                          *)
Kept(live, v) == IF live THEN v ELSE NULL

LiveMsg(p) ==
    IF p = TASK_FS
    THEN (pc[p] # "recv" /\ state[p] # "RECVING") \/ state[p] = "SENDING"
    ELSE state[p] = "SENDING" \/ Answered(p)

LiveBytes(u) == pc[u] # "user" /\ (asked[u].op = "write" \/ InFlight(u) > 0)

View ==
    <<state, pc, Contents, head, open, ref, ofile, over, got, sent,
      [p \in Proc |-> <<Kept(LiveMsg(p), mbuf[p]),
                        Kept(state[p] = "SENDING", sendto[p]),
                        Kept(state[p] = "RECVING", recvfrom[p]),
                        Kept(state[p] = "SLEEPING", tmp[p])>>],
      [u \in Users |-> <<Kept(pc[u] # "user", <<asked[u], msgstate[u]>>),
                         Kept(LiveBytes(u), iobuf[u])>>]>>
=============================================================================
