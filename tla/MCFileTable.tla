---------------------------- MODULE MCFileTable ----------------------------
(* Two slots, three files, two descriptors a slot.                         *)
EXTENDS FileTable, TLC

(* What a file in no use keeps is read only by seek, which looks whether   *)
(* it ever had an inode.                                                   *)
Kept(f) ==
    LET g == [files[f] EXCEPT !.ip = IF @ = 0 THEN 0 ELSE 1]
    IN  CASE files[f].type = "pipe"  -> g
          [] files[f].type = "inode" -> [files[f] EXCEPT !.writable = FALSE, !.pipe = 0]
          [] OTHER -> [g EXCEPT !.writable = FALSE, !.pipe = 0]

Alike == Permutations(Procs) \cup Permutations(Page)

View == <<[f \in Files |-> Kept(f)], ofile, cwd, live, iref, pipes, lost, stuck, wild>>
=============================================================================
