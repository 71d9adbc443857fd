--------------------------- MODULE MCFileBlocks ----------------------------
(* A file of a direct and two indirect blocks on a disk with a block to    *)
(* spare, and a cache that holds some of it.                               *)
EXTENDS FileBlocks

MCSector == 1 .. 8
MCBlocks == 4 .. 8
MCIndex  == 0 .. 8
MCDisk   == [s \in MCSector |-> [i \in MCIndex |-> 0]]

(* The view names buffers by their places in the list, and leaves out what *)
(* a buffer holds before it is valid.                                      *)
Place(b) == CHOOSE i \in DOMAIN lru : lru[i] = b

View ==
    <<[i \in DOMAIN lru |->
          LET b == lru[i]
          IN  <<sector[b], dirty[b], IF valid[b] THEN data[b] ELSE Zeros, valid[b]>>],
      io.at, IF io.at = "none" THEN 0 ELSE Place(io.b), idequeue = <<>>,
      [i \in DOMAIN held |-> Place(held[i])],
      disk, addrs, size, todo, IF todo = <<>> THEN 0 ELSE got, written, lost>>
=============================================================================
