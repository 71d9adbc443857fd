------------------------------ MODULE MCStdio ------------------------------
(* The header of a block that is neither free nor in use is written before *)
(* it is read again, as is the link of one in use.                         *)
EXTENDS Stdio

HeapView ==
    <<heap.freep, heap.brk, mine,
      {<<a, heap.size[a], heap.ptr[a]>> : a \in FreeBlocks(heap)},
      {<<a, heap.size[a]>> : a \in mine \cup Buffers}>>

View == IF stray THEN <<HeapTiled, StreamsInOrder>> ELSE <<HeapView, iob>>
=============================================================================
