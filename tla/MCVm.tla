-------------------------------- MODULE MCVm --------------------------------
(* Slots are alike, and so are pages: what tells two states apart is how   *)
(* many pages are free, what each slot has mapped, and where the page is   *)
(* that a kfree1 has linked to.                                            *)
EXTENDS Vm, TLC

Shape(s) == <<Mapped(space[s]), {i \in Table : space[s].tab[i] # 0}, space[s].kern # 0>>

Where(g) ==
    <<{k \in DOMAIN free : free[k] = g}, {s \in Slot : kstack[s] = g},
      {s \in Slot : g \in freevm(space[s])}, g = job.got, g \in job.give, g \in pipes,
      {t \in DOMAIN giving : giving[t] = g}>>

Alike == Permutations(Procs)

View ==
    <<[s \in Slot |-> Shape(s)], [p \in Procs |-> <<state[p], brk[p], stack[p], p \in torn>>],
      [job EXCEPT !.got = 0, !.give = {}], Cardinality(job.give), Len(free), Cardinality(Lost),
      Cardinality(pipes),
      [t \in DOMAIN giving |-> IF giving[t] = 0 THEN <<>> ELSE Where(head[t])], corrupt, panic>>
=============================================================================
