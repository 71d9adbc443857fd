----------------------------- MODULE MCFsTree ------------------------------
(* A process that makes, links, removes and enters directories and files   *)
(* in a tree of depth two.                                                 *)
EXTENDS FsTree

MCName == {"a", "b", ".", ".."}

Abs(s) == [abs |-> TRUE, names |-> s]
Rel(s) == [abs |-> FALSE, names |-> s]

MCPath == {Abs(<<"a">>), Abs(<<"a", "b">>), Rel(<<"b">>), Rel(<<"..">>)}

(* Bound: references that no holder has.                                   *)
FewLeaks == MapThenSumSet(LAMBDA i : ref[i] - Holders(i), Inum) <= 1

(* Bound: links that stops have left too many.                             *)
FewMiscounts == MapThenSumSet(LAMBDA i : disk.dino[i].nlink - Links(i), Inum) <= 1

(* The view leaves out the inodes nobody can reach, what free blocks hold, *)
(* and the order of the entries after the dots.                            *)
Targets(S) ==
    S \cup UNION {{e.inum : e \in Entries(d)} : d \in {i \in S : disk.dino[i].type = "dir"}}

Reached == Targets(Targets(Targets({ROOTINO} \cup {i \in Inum : ref[i] > 0})))

View ==
    <<[i \in Inum |->
          IF i \notin Reached THEN <<[Unused EXCEPT !.size = IF disk.dino[i].type = "none" THEN 0 ELSE 1], {}>>
          ELSE <<disk.dino[i], IF disk.dino[i].type = "dir" THEN Entries(i) ELSE {}>>],
      disk.used, ref, mem, file, cwd>>
=============================================================================
