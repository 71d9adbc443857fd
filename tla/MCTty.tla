------------------------------- MODULE MCTty -------------------------------
(* A line buffer of three characters, a display of five rows of two.       *)
EXTENDS Tty

MCKey == {97, NL, BS, EOT}

(* What the ring holds; the rest of in_buf is written before it is read.   *)
Ring == [k \in 1 .. Len(queue) |-> in_buf[(buf_head + k - 1) % BUFSIZE]]

View ==
    <<buf_head, count, queue, Ring, pos, wild, line, echo,
      caps, masked, pc, r, n, target, reader, overtaken>>
=============================================================================
