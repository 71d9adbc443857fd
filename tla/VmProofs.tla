------------------------------ MODULE VmProofs ------------------------------
(***************************************************************************)
(* Proofs about pages and address spaces, for any processes, any number of *)
(* pages, sizes of table and of address space.                             *)
(***************************************************************************)
EXTENDS Vm, FiniteSetTheorems, WellFoundedInduction, TLAPS

Page0 == Page \cup {0}          \* 0 where there is no page

Spaces == [dir : Page0, kern : Page0, tab : [Table -> Page0], map : [Vpage -> Page0]]

Jobs ==
    [pc : {"idle", "dir", "kern", "alloc", "enter", "give"},
     call : {"none", "fork", "exec", "sbrk"}, p : Slot, q : Slot, at : 0 .. KBASE,
     end : 0 .. KBASE, size : 0 .. KBASE, got : Page0, give : SUBSET Page, missed : BOOLEAN]

FreeSet(f) == {f[k] : k \in 1 .. Len(f)}

(* No page comes twice in the free list.                                   *)
Apart(f) == \A j, k \in 1 .. Len(f) : f[j] = f[k] => j = k

(* A space that has no page at two places.                                 *)
Tidy(s) ==
    /\ s \in Spaces
    /\ s.dir # 0 => s.dir # s.kern
    /\ \A i \in Table : s.tab[i] # 0 => s.tab[i] # s.dir /\ s.tab[i] # s.kern
    /\ \A v \in Vpage : s.map[v] # 0 => s.map[v] # s.dir /\ s.map[v] # s.kern
    /\ \A i \in Table, v \in Vpage : s.map[v] # 0 => s.map[v] # s.tab[i]
    /\ \A i, j \in Table : s.tab[i] = s.tab[j] /\ s.tab[i] # 0 => i = j
    /\ \A v, w \in Vpage : s.map[v] = s.map[w] /\ s.map[v] # 0 => v = w

(* The free list F, the spaces, the kernel stacks, the page in hand, those *)
(* to be given back and the pipes' have no page in common.                 *)
Sound(F, sp, ks, g, V, R) ==
    /\ \A s \in Slot : Tidy(sp[s])
    /\ \A s, t \in Slot : s # t => freevm(sp[s]) \cap freevm(sp[t]) = {}
    /\ \A s, t \in Slot : s # t /\ ks[s] # 0 => ks[s] # ks[t]
    /\ \A s, t \in Slot : ks[t] \notin freevm(sp[s])
    /\ \A s \in Slot : freevm(sp[s]) \cap F = {} /\ freevm(sp[s]) \cap V = {}
    /\ \A s \in Slot : freevm(sp[s]) \cap R = {} /\ g \notin freevm(sp[s])
    /\ \A s \in Slot : ks[s] \notin F /\ ks[s] \notin V /\ ks[s] \notin R
    /\ \A s \in Slot : ks[s] # 0 => ks[s] # g
    /\ g \notin F /\ g \notin V /\ g \notin R
    /\ F \cap V = {} /\ F \cap R = {} /\ V \cap R = {}

Types ==
    /\ free \in Seq(Page) /\ kstack \in [Slot -> Page0] /\ space \in [Slot -> Spaces]
    /\ state \in [Procs -> {"unused", "live", "zombie"}]
    /\ brk \in [Procs -> 0 .. KBASE] /\ stack \in [Procs -> BOOLEAN] /\ torn \subseteq Procs
    /\ job \in Jobs /\ pipes \subseteq Page /\ corrupt \in BOOLEAN /\ panic \in BOOLEAN
    /\ giving \in [{"mm", "fs"} -> Page0] /\ head \in [{"mm", "fs"} -> Page0]

Owners ==
    /\ Apart(free) /\ Sound(FreeSet(free), space, kstack, job.got, job.give, pipes)
    /\ giving["mm"] # 0 => job.pc = "give" /\ giving["mm"] \in job.give
    /\ giving["fs"] # 0 => giving["fs"] \in pipes

(* A free slot has nothing, any other a kernel stack.                      *)
Slots ==
    \A p \in Procs :
        IF state[p] = "unused" THEN space[p] = NoSpace /\ kstack[p] = 0 ELSE kstack[p] # 0

Tables(s) == s.dir # 0 /\ s.kern # 0 /\ \A v \in Mapped(s) : s.tab[PDX(v)] # 0

(* How far a call has come in a space.                                     *)
ForkSpace ==
    /\ job.q \in Procs /\ job.q # job.p /\ state[job.q] = "unused" /\ kstack[Nobody] # 0
    /\ Mapped(space[Nobody]) = {v \in Mapped(space[job.p]) : v < job.at}
    /\ job.pc = "enter" => Todo # {}

ExecSpace ==
    /\ kstack[Nobody] = 0 /\ job.at <= job.end /\ job.size <= KBASE - 2
    /\ job.end = job.size \/ (job.end = KBASE /\ job.at >= KBASE - 2)
    /\ ~job.missed =>
          Mapped(space[Nobody]) = IF job.end = KBASE THEN (0 .. job.size - 1) \cup (KBASE - 2 .. job.at - 1)
                                  ELSE 0 .. job.at - 1
    /\ job.pc = "enter" => job.at < job.end

SbrkSpace ==
    /\ kstack[Nobody] = 0 /\ space[Nobody] = NoSpace /\ job.pc \notin {"dir", "kern"}
    /\ brk[job.p] <= job.at /\ (job.at <= job.end \/ job.at = brk[job.p])
    /\ job.pc = "enter" => job.at < job.end

Job ==
    /\ job.pc \in {"idle", "give"} =>
          job.call = "none" /\ kstack[Nobody] = 0 /\ space[Nobody] = NoSpace
    /\ job.give # {} => job.pc = "give"
    /\ job.got # 0 <=> job.pc = "enter"
    /\ job.pc \notin {"idle", "give"} =>
          /\ job.p \in Procs /\ state[job.p] = "live" /\ job.call # "none"
          /\ job.call = "fork" => ForkSpace
          /\ job.call = "exec" => ExecSpace
          /\ job.call = "sbrk" => SbrkSpace
    /\ job.pc = "dir" => space[Nobody] = NoSpace /\ job.at = 0
    /\ job.pc = "kern" =>
          /\ space[Nobody].dir # 0 /\ space[Nobody].kern = 0
          /\ Mapped(space[Nobody]) = {} /\ job.at = 0
    /\ job.pc \in {"alloc", "enter"} /\ job.call # "sbrk" => Tables(space[Nobody])

VInv == Types /\ Slots /\ Job /\ SpaceMapped /\ (~corrupt => Owners)

-----------------------------------------------------------------------------
LEMMA Sizes ==
  /\ NPAGE \in Nat /\ NPAGE >= 5 /\ KBASE \in Nat /\ KBASE # 0 /\ VSIZE \in Nat /\ VSIZE > KBASE
  /\ NPTENTRIES \in Nat /\ NPTENTRIES # 0
  /\ 0 \notin Page /\ Page \subseteq Nat /\ Nobody \notin Procs /\ Nobody \in Slot /\ Procs \subseteq Slot
BY VmAssumption DEF Page, Slot

LEMMA DivLe ==
  ASSUME NEW a \in Nat, NEW b \in Nat, NEW n \in Nat \ {0}, a <= b
  PROVE  a \div n \in Nat /\ a \div n <= b \div n
BY SMTT(30)

LEMMA TablesAre ==
  /\ NTABLE \in Nat /\ NTABLE # 0
  /\ \A v \in Vpage : PDX(v) \in Table
<1>2. PICK b \in Nat : b = KBASE - 1
  BY Sizes
<1>3. PICK q \in Nat : q = b \div NPTENTRIES
  BY <1>2, DivLe, Sizes
<1>4. NTABLE = q + 1
  BY <1>2, <1>3 DEF NTABLE, PDX
<1>5. ASSUME NEW v \in Vpage PROVE PDX(v) \in Table
  <2>1. v \in Nat /\ v <= b
    BY <1>2, Sizes DEF Vpage
  <2>2. v \div NPTENTRIES \in Nat /\ v \div NPTENTRIES <= q
    BY <1>2, <1>3, <2>1, DivLe, Sizes
  <2> QED BY <1>4, <2>2 DEF Table, PDX
<1> QED BY <1>4, <1>5

LEMMA PagesIs ==
  ASSUME NEW s, NEW g
  PROVE  g \in freevm(s) <=>
            g # 0 /\ \/ g = s.dir \/ g = s.kern
                     \/ \E i \in Table : g = s.tab[i]
                     \/ \E v \in Vpage : g = s.map[v]
BY DEF freevm

LEMMA FreevmPages ==
  ASSUME NEW s \in Spaces
  PROVE  freevm(s) \subseteq Page
BY DEF Spaces, freevm, Page0

LEMMA NoSpaceIs == Tidy(NoSpace) /\ freevm(NoSpace) = {}
<1>1. /\ NoSpace.dir = 0 /\ NoSpace.kern = 0
      /\ \A i \in Table : NoSpace.tab[i] = 0
      /\ \A v \in Vpage : NoSpace.map[v] = 0
      /\ NoSpace \in Spaces
  BY DEF NoSpace, Spaces, Page0
<1>2. Tidy(NoSpace)
  BY <1>1 DEF Tidy
<1>3. \A g : g \notin freevm(NoSpace)
  BY <1>1, PagesIs
<1> QED BY <1>2, <1>3

-----------------------------------------------------------------------------
(* The free list.                                                          *)
LEMMA TailIs ==
  ASSUME NEW f \in Seq(Page), f # <<>>
  PROVE  /\ Head(f) \in Page /\ Tail(f) \in Seq(Page)
         /\ FreeSet(f) = FreeSet(Tail(f)) \cup {Head(f)}
         /\ Apart(f) => Apart(Tail(f)) /\ Head(f) \notin FreeSet(Tail(f))
<1>1. PICK t, n : t = Tail(f) /\ n = Len(t)
  OBVIOUS
<1>2. /\ Head(f) = f[1] /\ Head(f) \in Page /\ t \in Seq(Page) /\ n \in Nat /\ Len(f) = n + 1
      /\ \A k \in 1 .. n : t[k] = f[k + 1]
  BY <1>1
<1>3. FreeSet(f) = FreeSet(t) \cup {f[1]}
  <2>1. ASSUME NEW k \in 1 .. Len(f) PROVE f[k] \in FreeSet(t) \cup {f[1]}
    <3>1. CASE k = 1
      BY <3>1
    <3>2. CASE k # 1
      <4>1. k - 1 \in 1 .. n /\ (k - 1) + 1 = k
        BY <1>2, <3>2
      <4> QED BY <1>1, <1>2, <4>1 DEF FreeSet
    <3> QED BY <3>1, <3>2
  <2>2. ASSUME NEW k \in 1 .. n PROVE t[k] \in FreeSet(f)
    <3>1. k + 1 \in 1 .. Len(f)
      BY <1>2
    <3> QED BY <1>2, <3>1 DEF FreeSet
  <2>3. f[1] \in FreeSet(f)
    BY <1>2 DEF FreeSet
  <2> QED BY <1>1, <2>1, <2>2, <2>3 DEF FreeSet
<1>4. ASSUME Apart(f) PROVE Apart(t) /\ f[1] \notin FreeSet(t)
  <2>1. \A k \in 1 .. n : k + 1 \in 1 .. Len(f) /\ k + 1 # 1 /\ 1 \in 1 .. Len(f)
    BY <1>2
  <2>2. Apart(t)
    BY <1>1, <1>2, <1>4, <2>1 DEF Apart
  <2>3. f[1] \notin FreeSet(t)
    BY <1>1, <1>2, <1>4, <2>1 DEF Apart, FreeSet
  <2> QED BY <2>2, <2>3
<1> QED BY <1>1, <1>2, <1>3, <1>4

LEMMA ConsIs ==
  ASSUME NEW f \in Seq(Page), NEW g \in Page
  PROVE  /\ <<g>> \o f \in Seq(Page)
         /\ FreeSet(<<g>> \o f) = FreeSet(f) \cup {g}
         /\ Apart(f) /\ g \notin FreeSet(f) => Apart(<<g>> \o f)
<1>1. PICK h : h = <<g>> \o f
  OBVIOUS
<1>2. h \in Seq(Page) /\ h # <<>> /\ Head(h) = g /\ Tail(h) = f
  BY <1>1
<1>3. FreeSet(h) = FreeSet(f) \cup {g}
  BY <1>2, TailIs
<1>4. ASSUME Apart(f), g \notin FreeSet(f) PROVE Apart(h)
  <2>1. PICK n \in Nat : n = Len(f) /\ Len(h) = n + 1 /\ h[1] = g /\ \A k \in 1 .. n : h[k + 1] = f[k]
    BY <1>1
  <2>2. ASSUME NEW j \in 2 .. n + 1 PROVE j - 1 \in 1 .. n /\ h[j] = f[j - 1]
    <3>1. j - 1 \in 1 .. n /\ (j - 1) + 1 = j
      BY <2>1
    <3> QED BY <2>1, <3>1
  <2>3. ASSUME NEW j \in 1 .. n + 1, NEW k \in 1 .. n + 1, h[j] = h[k] PROVE j = k
    <3>1. CASE j = 1 /\ k = 1
      BY <3>1
    <3>2. CASE j # 1 /\ k = 1
      BY <1>4, <2>1, <2>2, <2>3, <3>2 DEF FreeSet
    <3>3. CASE j = 1 /\ k # 1
      BY <1>4, <2>1, <2>2, <2>3, <3>3 DEF FreeSet
    <3>4. CASE j # 1 /\ k # 1
      <4>1. j - 1 \in 1 .. n /\ k - 1 \in 1 .. n /\ f[j - 1] = f[k - 1]
        BY <2>2, <2>3, <3>4
      <4>2. j - 1 = k - 1
        BY <1>4, <2>1, <4>1 DEF Apart
      <4> QED BY <4>2
    <3> QED BY <3>1, <3>2, <3>3, <3>4
  <2> QED BY <2>1, <2>3 DEF Apart
<1> QED BY <1>1, <1>2, <1>3, <1>4

-----------------------------------------------------------------------------
(* A page is put into a space.                                             *)
WithDir(s, g) == [s EXCEPT !.dir = g]

WithKern(s, g) == [s EXCEPT !.kern = g]

WithTab(s, i, g) == [s EXCEPT !.tab[i] = g]

WithMap(s, v, g) == [s EXCEPT !.map[v] = g]

LEMMA PutMap ==
  ASSUME NEW s, Tidy(s), NEW g \in Page, g \notin freevm(s), NEW v \in Vpage, s.map[v] = 0,
         NEW t, t = WithMap(s, v, g)
  PROVE  /\ Tidy(t) /\ freevm(t) = freevm(s) \cup {g}
         /\ t.dir = s.dir /\ t.kern = s.kern /\ t.tab = s.tab /\ t.map = [s.map EXCEPT ![v] = g]
<1>1. s \in Spaces /\ g # 0 /\ g \in Page0
  BY Sizes DEF Tidy, Page0
<1>2. /\ t \in Spaces /\ t.dir = s.dir /\ t.kern = s.kern /\ t.tab = s.tab
      /\ t.map = [s.map EXCEPT ![v] = g]
  BY <1>1 DEF WithMap, Spaces
<1>3. t.map[v] = g /\ \A w \in Vpage : w # v => t.map[w] = s.map[w]
  BY <1>1, <1>2 DEF Spaces
<1>4. /\ g # s.dir /\ g # s.kern /\ \A i \in Table : g # s.tab[i]
      /\ \A w \in Vpage : g # s.map[w]
  BY <1>1, PagesIs
<1>5. Tidy(t)
  <2>1. \A i, j \in Table : t.tab[i] = t.tab[j] /\ t.tab[i] # 0 => i = j
    BY <1>2 DEF Tidy
  <2>2. \A a, b \in Vpage : t.map[a] = t.map[b] /\ t.map[a] # 0 => a = b
    BY <1>3, <1>4 DEF Tidy
  <2>3. \A i \in Table, w \in Vpage : t.map[w] # 0 => t.map[w] # t.tab[i]
    BY <1>2, <1>3, <1>4 DEF Tidy
  <2>4. /\ t.dir # 0 => t.dir # t.kern
        /\ \A i \in Table : t.tab[i] # 0 => t.tab[i] # t.dir /\ t.tab[i] # t.kern
        /\ \A w \in Vpage : t.map[w] # 0 => t.map[w] # t.dir /\ t.map[w] # t.kern
    BY <1>2, <1>3, <1>4 DEF Tidy
  <2> QED BY <1>2, <2>1, <2>2, <2>3, <2>4 DEF Tidy
<1>6. freevm(t) = freevm(s) \cup {g}
  <2>1. ASSUME NEW h \in freevm(t) PROVE h \in freevm(s) \cup {g}
    <3>1. CASE h = t.dir \/ h = t.kern \/ \E y \in Table : h = t.tab[y]
      BY <1>2, <3>1, PagesIs
    <3>2. CASE \E y \in Vpage : h = t.map[y]
      BY <1>3, <3>2, PagesIs
    <3> QED BY <3>1, <3>2, PagesIs
  <2>2. g \in freevm(t)
    BY <1>1, <1>3, PagesIs
  <2>3. ASSUME NEW h \in freevm(s) PROVE h \in freevm(t)
    <3>1. CASE h = s.dir \/ h = s.kern \/ \E y \in Table : h = s.tab[y]
      BY <1>2, <3>1, PagesIs
    <3>2. CASE \E y \in Vpage : h = s.map[y]
      <4>1. PICK y \in Vpage : h = s.map[y]
        BY <3>2
      <4>2. y # v /\ h # 0
        BY <4>1, PagesIs
      <4>3. h = t.map[y]
        BY <1>3, <4>1, <4>2
      <4> QED BY <4>2, <4>3, PagesIs
    <3> QED BY <3>1, <3>2, PagesIs
  <2> QED BY <2>1, <2>2, <2>3
<1> QED BY <1>2, <1>5, <1>6

LEMMA PutTab ==
  ASSUME NEW s, Tidy(s), NEW g \in Page, g \notin freevm(s), NEW i \in Table, s.tab[i] = 0,
         NEW t, t = WithTab(s, i, g)
  PROVE  /\ Tidy(t) /\ freevm(t) = freevm(s) \cup {g}
         /\ t.dir = s.dir /\ t.kern = s.kern /\ t.map = s.map /\ t.tab = [s.tab EXCEPT ![i] = g]
<1>1. s \in Spaces /\ g # 0 /\ g \in Page0
  BY Sizes DEF Tidy, Page0
<1>2. /\ t \in Spaces /\ t.dir = s.dir /\ t.kern = s.kern /\ t.map = s.map
      /\ t.tab = [s.tab EXCEPT ![i] = g]
  BY <1>1 DEF WithTab, Spaces
<1>3. t.tab[i] = g /\ \A j \in Table : j # i => t.tab[j] = s.tab[j]
  BY <1>1, <1>2 DEF Spaces
<1>4. /\ g # s.dir /\ g # s.kern /\ \A j \in Table : g # s.tab[j]
      /\ \A w \in Vpage : g # s.map[w]
  BY <1>1, PagesIs
<1>5. Tidy(t)
  <2>1. \A a, b \in Table : t.tab[a] = t.tab[b] /\ t.tab[a] # 0 => a = b
    BY <1>3, <1>4 DEF Tidy
  <2>2. \A a, b \in Vpage : t.map[a] = t.map[b] /\ t.map[a] # 0 => a = b
    BY <1>2 DEF Tidy
  <2>3. \A j \in Table, w \in Vpage : t.map[w] # 0 => t.map[w] # t.tab[j]
    BY <1>2, <1>3, <1>4 DEF Tidy
  <2>4. /\ t.dir # 0 => t.dir # t.kern
        /\ \A j \in Table : t.tab[j] # 0 => t.tab[j] # t.dir /\ t.tab[j] # t.kern
        /\ \A w \in Vpage : t.map[w] # 0 => t.map[w] # t.dir /\ t.map[w] # t.kern
    BY <1>2, <1>3, <1>4 DEF Tidy
  <2> QED BY <1>2, <2>1, <2>2, <2>3, <2>4 DEF Tidy
<1>6. freevm(t) = freevm(s) \cup {g}
  <2>1. ASSUME NEW h \in freevm(t) PROVE h \in freevm(s) \cup {g}
    <3>1. CASE h = t.dir \/ h = t.kern \/ \E y \in Vpage : h = t.map[y]
      BY <1>2, <3>1, PagesIs
    <3>2. CASE \E y \in Table : h = t.tab[y]
      BY <1>3, <3>2, PagesIs
    <3> QED BY <3>1, <3>2, PagesIs
  <2>2. g \in freevm(t)
    BY <1>1, <1>3, PagesIs
  <2>3. ASSUME NEW h \in freevm(s) PROVE h \in freevm(t)
    <3>1. CASE h = s.dir \/ h = s.kern \/ \E y \in Vpage : h = s.map[y]
      BY <1>2, <3>1, PagesIs
    <3>2. CASE \E y \in Table : h = s.tab[y]
      <4>1. PICK y \in Table : h = s.tab[y]
        BY <3>2
      <4>2. y # i /\ h # 0
        BY <4>1, PagesIs
      <4>3. h = t.tab[y]
        BY <1>3, <4>1, <4>2
      <4> QED BY <4>2, <4>3, PagesIs
    <3> QED BY <3>1, <3>2, PagesIs
  <2> QED BY <2>1, <2>2, <2>3
<1> QED BY <1>2, <1>5, <1>6

LEMMA PutDir ==
  ASSUME NEW s, Tidy(s), NEW g \in Page, g \notin freevm(s), s.dir = 0,
         NEW t, t = WithDir(s, g)
  PROVE  /\ Tidy(t) /\ freevm(t) = freevm(s) \cup {g}
         /\ t.dir = g /\ t.kern = s.kern /\ t.tab = s.tab /\ t.map = s.map
<1>1. s \in Spaces /\ g # 0 /\ g \in Page0
  BY Sizes DEF Tidy, Page0
<1>2. t \in Spaces /\ t.dir = g /\ t.kern = s.kern /\ t.tab = s.tab /\ t.map = s.map
  BY <1>1 DEF WithDir, Spaces
<1>3. /\ g # s.kern /\ \A j \in Table : g # s.tab[j]
      /\ \A w \in Vpage : g # s.map[w]
  BY <1>1, PagesIs
<1>4. Tidy(t)
  BY <1>2, <1>3 DEF Tidy
<1>5. freevm(t) = freevm(s) \cup {g}
  <2>1. ASSUME NEW h PROVE h \in freevm(t) <=> h \in freevm(s) \/ h = g
    BY <1>1, <1>2, PagesIs
  <2> QED BY <2>1
<1> QED BY <1>2, <1>4, <1>5

LEMMA PutKern ==
  ASSUME NEW s, Tidy(s), NEW g \in Page, g \notin freevm(s), s.kern = 0,
         NEW t, t = WithKern(s, g)
  PROVE  /\ Tidy(t) /\ freevm(t) = freevm(s) \cup {g}
         /\ t.dir = s.dir /\ t.kern = g /\ t.tab = s.tab /\ t.map = s.map
<1>1. s \in Spaces /\ g # 0 /\ g \in Page0
  BY Sizes DEF Tidy, Page0
<1>2. t \in Spaces /\ t.dir = s.dir /\ t.kern = g /\ t.tab = s.tab /\ t.map = s.map
  BY <1>1 DEF WithKern, Spaces
<1>3. /\ g # s.dir /\ \A j \in Table : g # s.tab[j]
      /\ \A w \in Vpage : g # s.map[w]
  BY <1>1, PagesIs
<1>4. Tidy(t)
  BY <1>2, <1>3 DEF Tidy
<1>5. freevm(t) = freevm(s) \cup {g}
  <2>1. ASSUME NEW h PROVE h \in freevm(t) <=> h \in freevm(s) \/ h = g
    BY <1>1, <1>2, PagesIs
  <2> QED BY <2>1
<1> QED BY <1>2, <1>4, <1>5
LEMMA LeastNat ==
  ASSUME NEW T, T \subseteq Nat, T # {}
  PROVE  \E x \in T : \A y \in T : x <= y
<1>1. PICK L : L = {ss \in Nat \X Nat : ss[1] < ss[2]}
  OBVIOUS
<1>2. IsWellFoundedOn(L, Nat)
  BY <1>1, NatLessThanWellFounded DEF OpToRel
<1>3. PICK x \in T : \A y \in T : ~ (<<y, x>> \in L)
  BY <1>2, WFMin
<1>4. ASSUME NEW y \in T PROVE x <= y
  <2>1. x \in Nat /\ y \in Nat /\ <<y, x>> \notin L
    BY <1>3
  <2> QED BY <1>1, <2>1
<1> QED BY <1>4


-----------------------------------------------------------------------------
(* Who holds a page.                                                       *)
Held(x, F, sp, ks, g, V, R) ==
    \/ x \in F \/ x = g \/ x \in V \/ x \in R
    \/ \E s \in Slot : x \in freevm(sp[s]) \/ x = ks[s]

Arrays(sp, ks) == sp \in [Slot -> Spaces] /\ ks \in [Slot -> Page0]

(* A page is taken off the list, and put there.                            *)
LEMMA Take ==
  ASSUME NEW F, NEW sp, NEW ks, NEW V, NEW R, Sound(F, sp, ks, 0, V, R),
         NEW E, NEW g \in Page, F = E \cup {g}, g \notin E
  PROVE  /\ Sound(E, sp, ks, g, V, R)
         /\ \A x \in Page : Held(x, F, sp, ks, 0, V, R) => Held(x, E, sp, ks, g, V, R)
<1>1. g # 0
  BY Sizes
<1> QED BY <1>1, Sizes DEF Sound, Held

LEMMA StoreGiven ==
  ASSUME NEW F, NEW sp, NEW ks, NEW V, NEW R, Sound(F, sp, ks, 0, V, R), NEW g \in V \cap Page
  PROVE  /\ Sound(F \cup {g}, sp, ks, 0, V \ {g}, R)
         /\ \A x \in Page : Held(x, F, sp, ks, 0, V, R) => Held(x, F \cup {g}, sp, ks, 0, V \ {g}, R)
<1>1. g # 0 /\ g \notin F /\ g \notin R /\ \A s \in Slot : g \notin freevm(sp[s]) /\ g # ks[s]
  BY Sizes DEF Sound
<1> QED BY <1>1 DEF Sound, Held

LEMMA StorePipe ==
  ASSUME NEW F, NEW sp, NEW ks, NEW h, NEW V, NEW R, Sound(F, sp, ks, h, V, R), NEW g \in R \cap Page
  PROVE  /\ Sound(F \cup {g}, sp, ks, h, V, R \ {g})
         /\ \A x \in Page : Held(x, F, sp, ks, h, V, R) => Held(x, F \cup {g}, sp, ks, h, V, R \ {g})
<1>1. g # h /\ g \notin F /\ g \notin V /\ \A s \in Slot : g \notin freevm(sp[s]) /\ g # ks[s]
  BY DEF Sound
<1> QED BY <1>1 DEF Sound, Held

LEMMA TakePipe ==
  ASSUME NEW F, NEW sp, NEW ks, NEW h, NEW V, NEW R, Sound(F, sp, ks, h, V, R),
         NEW E, NEW g \in Page, F = E \cup {g}, g \notin E
  PROVE  /\ Sound(E, sp, ks, h, V, R \cup {g})
         /\ \A x \in Page : Held(x, F, sp, ks, h, V, R) => Held(x, E, sp, ks, h, V, R \cup {g})
<1>1. /\ g # h /\ g \notin V /\ g \notin R /\ g # 0
      /\ \A s \in Slot : g \notin freevm(sp[s]) /\ g # ks[s]
  BY Sizes DEF Sound
<1> QED BY <1>1 DEF Sound, Held

(* The page in hand goes into a space, or becomes a stack, or is dropped.  *)
LEMMA PutSpace ==
  ASSUME NEW F, NEW sp, NEW ks, NEW g \in Page, NEW V, NEW R, Sound(F, sp, ks, g, V, R), Arrays(sp, ks),
         0 \notin F, 0 \notin V, 0 \notin R, NEW n \in Slot, NEW t, Tidy(t),
         freevm(t) = freevm(sp[n]) \cup {g}
  PROVE  /\ Sound(F, [sp EXCEPT ![n] = t], ks, 0, V, R) /\ Arrays([sp EXCEPT ![n] = t], ks)
         /\ \A x \in Page : Held(x, F, sp, ks, g, V, R) => Held(x, F, [sp EXCEPT ![n] = t], ks, 0, V, R)
<1>1. PICK u : u = [sp EXCEPT ![n] = t]
  OBVIOUS
<1>2. /\ u \in [Slot -> Spaces] /\ u[n] = t /\ \A s \in Slot : s # n => u[s] = sp[s]
  BY <1>1 DEF Arrays, Tidy
<1>3. \A s \in Slot : 0 \notin freevm(u[s])
  BY DEF freevm
<1>4. \A s, a \in Slot : s # a => freevm(u[s]) \cap freevm(u[a]) = {}
  <2>1. \A s \in Slot : s # n => freevm(sp[s]) \cap freevm(t) = {}
    BY DEF Sound
  <2> QED BY <1>2, <2>1 DEF Sound
<1>5. \A s, a \in Slot : ks[a] \notin freevm(u[s])
  <2>1. \A a \in Slot : ks[a] \notin freevm(t)
    BY Sizes DEF Sound, Arrays
  <2> QED BY <1>2, <2>1 DEF Sound
<1>6. \A s \in Slot : /\ freevm(u[s]) \cap F = {} /\ freevm(u[s]) \cap V = {} /\ freevm(u[s]) \cap R = {}
                      /\ Tidy(u[s])
  <2>1. freevm(t) \cap F = {} /\ freevm(t) \cap V = {} /\ freevm(t) \cap R = {}
    BY DEF Sound
  <2> QED BY <1>2, <2>1 DEF Sound
<1>7. Sound(F, u, ks, 0, V, R)
  BY <1>3, <1>4, <1>5, <1>6 DEF Sound
<1>8. ASSUME NEW x \in Page, Held(x, F, sp, ks, g, V, R) PROVE Held(x, F, u, ks, 0, V, R)
  <2>1. \A s \in Slot : x \in freevm(sp[s]) => x \in freevm(u[s])
    BY <1>2
  <2>2. x = g => x \in freevm(u[n])
    BY <1>2
  <2> QED BY <1>8, <2>1, <2>2 DEF Held
<1> QED BY <1>1, <1>2, <1>7, <1>8 DEF Arrays

LEMMA PutStack ==
  ASSUME NEW F, NEW sp, NEW ks, NEW g \in Page, NEW V, NEW R, Sound(F, sp, ks, g, V, R), Arrays(sp, ks),
         0 \notin F, 0 \notin V, 0 \notin R, NEW n \in Slot, ks[n] = 0
  PROVE  /\ Sound(F, sp, [ks EXCEPT ![n] = g], 0, V, R) /\ Arrays(sp, [ks EXCEPT ![n] = g])
         /\ \A x \in Page : Held(x, F, sp, ks, g, V, R) => Held(x, F, sp, [ks EXCEPT ![n] = g], 0, V, R)
<1>1. PICK u : u = [ks EXCEPT ![n] = g]
  OBVIOUS
<1>2. u \in [Slot -> Page0] /\ u[n] = g /\ \A s \in Slot : s # n => u[s] = ks[s]
  BY <1>1 DEF Arrays, Page0
<1>3. \A s \in Slot : 0 \notin freevm(sp[s])
  BY DEF freevm
<1>4. \A s, a \in Slot : s # a /\ u[s] # 0 => u[s] # u[a]
  BY <1>2 DEF Sound
<1>5. \A s, a \in Slot : u[a] \notin freevm(sp[s])
  BY <1>2 DEF Sound
<1>6. \A s \in Slot : u[s] \notin F /\ u[s] \notin V /\ u[s] \notin R
  BY <1>2 DEF Sound
<1>7. Sound(F, sp, u, 0, V, R)
  BY <1>3, <1>4, <1>5, <1>6 DEF Sound
<1>8. ASSUME NEW x \in Page, Held(x, F, sp, ks, g, V, R) PROVE Held(x, F, sp, u, 0, V, R)
  <2>1. \A s \in Slot : x = ks[s] => x = u[s]
    BY <1>2, Sizes
  <2> QED BY <1>2, <1>8, <2>1 DEF Held
<1> QED BY <1>1, <1>2, <1>7, <1>8 DEF Arrays

LEMMA Drop ==
  ASSUME NEW F, NEW sp, NEW ks, NEW g, NEW V, NEW R, Sound(F, sp, ks, g, V, R),
         0 \notin F, 0 \notin V, 0 \notin R
  PROVE  Sound(F, sp, ks, 0, V, R)
<1>1. \A s \in Slot : 0 \notin freevm(sp[s])
  BY DEF freevm
<1> QED BY <1>1 DEF Sound

(* A space, or a stack, is to be given back.                               *)
LEMMA GiveSpace ==
  ASSUME NEW F, NEW sp, NEW ks, NEW g, NEW V, NEW R, Sound(F, sp, ks, g, V, R), Arrays(sp, ks), NEW n \in Slot
  PROVE  /\ Sound(F, [sp EXCEPT ![n] = NoSpace], ks, g, V \cup freevm(sp[n]), R)
         /\ Arrays([sp EXCEPT ![n] = NoSpace], ks)
         /\ \A x \in Page : Held(x, F, sp, ks, g, V, R)
               => Held(x, F, [sp EXCEPT ![n] = NoSpace], ks, g, V \cup freevm(sp[n]), R)
<1>1. PICK u, W : u = [sp EXCEPT ![n] = NoSpace] /\ W = V \cup freevm(sp[n])
  OBVIOUS
<1>2. /\ u \in [Slot -> Spaces] /\ u[n] = NoSpace /\ \A s \in Slot : s # n => u[s] = sp[s]
  BY <1>1, NoSpaceIs DEF Arrays, Tidy
<1>3. freevm(u[n]) = {} /\ \A s \in Slot : s # n => freevm(u[s]) = freevm(sp[s])
  BY <1>2, NoSpaceIs
<1>4. /\ \A s, a \in Slot : s # a => freevm(u[s]) \cap freevm(u[a]) = {}
      /\ \A s, a \in Slot : ks[a] \notin freevm(u[s])
  BY <1>3 DEF Sound
<1>5. \A s \in Slot : /\ freevm(u[s]) \cap F = {} /\ freevm(u[s]) \cap R = {}
                      /\ g \notin freevm(u[s])
  BY <1>3 DEF Sound
<1>6. \A s \in Slot : freevm(u[s]) \cap W = {} /\ ks[s] \notin W
  BY <1>1, <1>3 DEF Sound
<1>7. g \notin W /\ F \cap W = {} /\ W \cap R = {} /\ \A s \in Slot : Tidy(u[s])
  BY <1>1, <1>2, NoSpaceIs DEF Sound
<1>8. Sound(F, u, ks, g, W, R)
  BY <1>4, <1>5, <1>6, <1>7 DEF Sound
<1>9. ASSUME NEW x \in Page, Held(x, F, sp, ks, g, V, R) PROVE Held(x, F, u, ks, g, W, R)
  <2>1. \A s \in Slot : x \in freevm(sp[s]) => x \in freevm(u[s]) \/ x \in W
    BY <1>1, <1>3
  <2> QED BY <1>1, <1>9, <2>1 DEF Held
<1> QED BY <1>1, <1>2, <1>8, <1>9 DEF Arrays

LEMMA GiveStack ==
  ASSUME NEW F, NEW sp, NEW ks, NEW g, NEW V, NEW R, Sound(F, sp, ks, g, V, R), Arrays(sp, ks), NEW n \in Slot,
         0 \notin F, 0 \notin V, 0 \notin R
  PROVE  /\ Sound(F, sp, [ks EXCEPT ![n] = 0], g, V \cup Hand(ks[n]), R)
         /\ Arrays(sp, [ks EXCEPT ![n] = 0])
         /\ \A x \in Page : Held(x, F, sp, ks, g, V, R)
               => Held(x, F, sp, [ks EXCEPT ![n] = 0], g, V \cup Hand(ks[n]), R)
<1>1. PICK u, W : u = [ks EXCEPT ![n] = 0] /\ W = V \cup Hand(ks[n])
  OBVIOUS
<1>2. /\ u \in [Slot -> Page0] /\ u[n] = 0 /\ \A s \in Slot : s # n => u[s] = ks[s]
  BY <1>1 DEF Arrays, Page0
<1>3. \A x : x \in W <=> x \in V \/ (x # 0 /\ x = ks[n])
  BY <1>1 DEF Hand
<1>4. \A s \in Slot : 0 \notin freevm(sp[s])
  BY DEF freevm
<1>5. /\ \A s, a \in Slot : s # a /\ u[s] # 0 => u[s] # u[a]
      /\ \A s, a \in Slot : u[a] \notin freevm(sp[s])
      /\ \A s \in Slot : u[s] # 0 => u[s] # g
  BY <1>2, <1>4 DEF Sound
<1>6. \A s \in Slot : u[s] \notin F /\ u[s] \notin R /\ u[s] \notin W
  BY <1>2, <1>3 DEF Sound
<1>7. \A s \in Slot : freevm(sp[s]) \cap W = {}
  BY <1>3 DEF Sound
<1>8. g \notin W /\ F \cap W = {} /\ W \cap R = {}
  BY <1>3 DEF Sound
<1>9. Sound(F, sp, u, g, W, R)
  BY <1>5, <1>6, <1>7, <1>8 DEF Sound
<1>10. ASSUME NEW x \in Page, Held(x, F, sp, ks, g, V, R) PROVE Held(x, F, sp, u, g, W, R)
  <2>1. \A s \in Slot : x = ks[s] => x = u[s] \/ x \in W
    BY <1>2, <1>3, Sizes
  <2>2. V \subseteq W
    BY <1>1
  <2> QED BY <1>10, <2>1, <2>2 DEF Held
<1> QED BY <1>1, <1>2, <1>9, <1>10 DEF Arrays

(* A space, or a stack, goes to another slot.                              *)
LEMMA MoveSpace ==
  ASSUME NEW F, NEW sp, NEW ks, NEW g, NEW V, NEW R, Sound(F, sp, ks, g, V, R), Arrays(sp, ks),
         NEW n \in Slot, NEW q \in Slot, n # q, freevm(sp[q]) = {}
  PROVE  /\ Sound(F, [sp EXCEPT ![q] = sp[n], ![n] = NoSpace], ks, g, V, R)
         /\ Arrays([sp EXCEPT ![q] = sp[n], ![n] = NoSpace], ks)
         /\ \A x \in Page : Held(x, F, sp, ks, g, V, R)
               => Held(x, F, [sp EXCEPT ![q] = sp[n], ![n] = NoSpace], ks, g, V, R)
<1>1. PICK u : u = [sp EXCEPT ![q] = sp[n], ![n] = NoSpace]
  OBVIOUS
<1>2. /\ u \in [Slot -> Spaces] /\ u[n] = NoSpace /\ u[q] = sp[n]
      /\ \A s \in Slot : s # n /\ s # q => u[s] = sp[s]
  BY <1>1, NoSpaceIs DEF Arrays, Tidy
<1>3. /\ freevm(u[n]) = {} /\ freevm(u[q]) = freevm(sp[n])
      /\ \A s \in Slot : s # n /\ s # q => freevm(u[s]) = freevm(sp[s])
  BY <1>2, NoSpaceIs
<1>4. \A s, a \in Slot : s # a => freevm(u[s]) \cap freevm(u[a]) = {}
  BY <1>3 DEF Sound
<1>5. \A s \in Slot :
          /\ freevm(u[s]) \cap F = {} /\ freevm(u[s]) \cap R = {} /\ freevm(u[s]) \cap V = {}
          /\ g \notin freevm(u[s]) /\ \A a \in Slot : ks[a] \notin freevm(u[s])
  BY <1>3 DEF Sound
<1>6. \A s \in Slot : Tidy(u[s])
  BY <1>2, NoSpaceIs DEF Sound
<1>7. Sound(F, u, ks, g, V, R)
  BY <1>4, <1>5, <1>6 DEF Sound
<1>8. ASSUME NEW x \in Page, Held(x, F, sp, ks, g, V, R) PROVE Held(x, F, u, ks, g, V, R)
  <2>1. \A s \in Slot : x \in freevm(sp[s]) => \E a \in Slot : x \in freevm(u[a])
    BY <1>3
  <2> QED BY <1>8, <2>1 DEF Held
<1> QED BY <1>1, <1>2, <1>7, <1>8 DEF Arrays

LEMMA MoveStack ==
  ASSUME NEW F, NEW sp, NEW ks, NEW g, NEW V, NEW R, Sound(F, sp, ks, g, V, R), Arrays(sp, ks),
         0 \notin F, 0 \notin V, 0 \notin R, NEW n \in Slot, NEW q \in Slot, n # q, ks[q] = 0
  PROVE  /\ Sound(F, sp, [ks EXCEPT ![q] = ks[n], ![n] = 0], g, V, R)
         /\ Arrays(sp, [ks EXCEPT ![q] = ks[n], ![n] = 0])
         /\ \A x \in Page : Held(x, F, sp, ks, g, V, R)
               => Held(x, F, sp, [ks EXCEPT ![q] = ks[n], ![n] = 0], g, V, R)
<1>1. PICK u : u = [ks EXCEPT ![q] = ks[n], ![n] = 0]
  OBVIOUS
<1>2. /\ u \in [Slot -> Page0] /\ u[n] = 0 /\ u[q] = ks[n]
      /\ \A s \in Slot : s # n /\ s # q => u[s] = ks[s]
  BY <1>1 DEF Arrays, Page0
<1>3. \A s \in Slot : 0 \notin freevm(sp[s])
  BY DEF freevm
<1>4. \A s, a \in Slot : s # a /\ u[s] # 0 => u[s] # u[a]
  BY <1>2 DEF Sound
<1>5. \A s \in Slot :
          /\ u[s] \notin F /\ u[s] \notin R /\ u[s] \notin V /\ (u[s] # 0 => u[s] # g)
          /\ \A a \in Slot : u[s] \notin freevm(sp[a])
  BY <1>2, <1>3 DEF Sound
<1>6. Sound(F, sp, u, g, V, R)
  BY <1>4, <1>5 DEF Sound
<1>7. ASSUME NEW x \in Page, Held(x, F, sp, ks, g, V, R) PROVE Held(x, F, sp, u, g, V, R)
  <2>1. \A s \in Slot : x = ks[s] => \E a \in Slot : x = u[a]
    BY <1>2, Sizes
  <2> QED BY <1>7, <2>1 DEF Held
<1> QED BY <1>1, <1>2, <1>6, <1>7 DEF Arrays

LEMMA Less ==
  ASSUME NEW F, NEW sp, NEW ks, NEW g, NEW V, NEW R, Sound(F, sp, ks, g, V, R), NEW W, W \subseteq V
  PROVE  Sound(F, sp, ks, g, W, R)
BY DEF Sound

-----------------------------------------------------------------------------
(* Steps that leave most as it is.                                         *)
Kept ==
    \A x \in Page : Held(x, FreeSet(free), space, kstack, job.got, job.give, pipes)
        => Held(x, FreeSet(free'), space', kstack', job'.got, job'.give, pipes')

Loses == Kept \/ corrupt' \/ (None /\ None')

LEMMA Facts ==
  ASSUME Types
  PROVE  /\ Arrays(space, kstack) /\ FreeSet(free) \subseteq Page
         /\ 0 \notin FreeSet(free) /\ 0 \notin job.give /\ 0 \notin pipes
         /\ job.pc \in {"idle", "dir", "kern", "alloc", "enter", "give"}
         /\ job.call \in {"none", "fork", "exec", "sbrk"}
         /\ job.p \in Slot /\ job.q \in Slot /\ job.at \in 0 .. KBASE /\ job.end \in 0 .. KBASE
         /\ job.size \in 0 .. KBASE /\ job.got \in Page0 /\ job.give \subseteq Page
         /\ job.missed \in BOOLEAN
<1>1. FreeSet(free) \subseteq Page
  BY DEF Types, FreeSet
<1>2. job \in Jobs
  BY DEF Types
<1>3. /\ job.pc \in {"idle", "dir", "kern", "alloc", "enter", "give"}
      /\ job.call \in {"none", "fork", "exec", "sbrk"}
      /\ job.p \in Slot /\ job.q \in Slot /\ job.at \in 0 .. KBASE /\ job.end \in 0 .. KBASE
      /\ job.size \in 0 .. KBASE /\ job.got \in Page0 /\ job.give \subseteq Page
      /\ job.missed \in BOOLEAN
  BY <1>2 DEF Jobs
<1> QED BY <1>1, <1>3, Sizes DEF Types, Arrays

LEMMA Kalloc ==
  ASSUME Types, kalloc1
  PROVE  /\ Head(free) \in Page /\ Head(free) # 0 /\ free' \in Seq(Page)
         /\ FreeSet(free) = FreeSet(free') \cup {Head(free)}
         /\ Apart(free) => Apart(free') /\ Head(free) \notin FreeSet(free')
BY TailIs, Sizes DEF Types, kalloc1, None

LEMMA IdleIs ==
  /\ Idle \in Jobs /\ Idle.pc = "idle" /\ Idle.call = "none" /\ Idle.got = 0 /\ Idle.give = {}
  /\ \A S \in SUBSET Page :
        /\ GiveAll(S) \in Jobs /\ GiveAll(S).got = 0 /\ GiveAll(S).give = S
        /\ GiveAll(S).pc = (IF S = {} THEN "idle" ELSE "give") /\ GiveAll(S).call = "none"
<1>1. 0 \in 0 .. KBASE /\ Nobody \in Slot /\ 0 \in Page0 /\ {} \in SUBSET Page
  BY Sizes DEF Page0
<1>2. /\ Idle \in Jobs /\ Idle.pc = "idle" /\ Idle.call = "none" /\ Idle.got = 0 /\ Idle.give = {}
  BY <1>1 DEF Idle, Jobs
<1>4. ASSUME NEW S \in SUBSET Page, NEW j, j = [Idle EXCEPT !.pc = "give", !.give = S]
      PROVE  j \in Jobs /\ j.got = 0 /\ j.give = S /\ j.pc = "give" /\ j.call = "none"
  BY <1>2, <1>4 DEF Jobs
<1>5. ASSUME NEW S \in SUBSET Page, NEW j, j = GiveAll(S)
      PROVE  /\ j \in Jobs /\ j.got = 0 /\ j.give = S
             /\ j.pc = (IF S = {} THEN "idle" ELSE "give") /\ j.call = "none"
  <2>1. CASE S = {}
    <3>1. j = Idle
      BY <1>5, <2>1 DEF GiveAll
    <3> QED BY <1>2, <2>1, <3>1
  <2>2. CASE S # {}
    <3>1. j = [Idle EXCEPT !.pc = "give", !.give = S]
      BY <1>5, <2>2 DEF GiveAll
    <3> QED BY <1>4, <2>2, <3>1
  <2> QED BY <2>1, <2>2
<1> QED BY <1>2, <1>5

(* A call is over; what S names is to be given back.                       *)
LEMMA JobOver ==
  ASSUME NEW S \in SUBSET Page, job' = GiveAll(S), kstack'[Nobody] = 0, space'[Nobody] = NoSpace
  PROVE  /\ Job' /\ job' \in Jobs /\ job'.got = 0 /\ job'.give = S /\ job'.call = "none"
         /\ job'.pc # "give" => S = {}
<1>1. /\ job' \in Jobs /\ job'.got = 0 /\ job'.give = S
      /\ job'.pc = (IF S = {} THEN "idle" ELSE "give") /\ job'.call = "none"
  BY IdleIs
<1> QED BY <1>1 DEF Job

LEMMA GiveNone == GiveAll({}) = Idle
BY DEF GiveAll

LEMMA SpacesStay ==
  ASSUME Types, Slots, SpaceMapped, UNCHANGED slotVars,
         \A p \in Procs : space'[p] = space[p] /\ kstack'[p] = kstack[p],
         job.call = "sbrk" => job.at = brk[job.p],
         job'.call = "sbrk" => job'.at = brk[job'.p]
  PROVE  Slots' /\ SpaceMapped'
<1>1. UNCHANGED <<state, brk, stack, torn>>
  BY DEF slotVars
<1>2. Slots'
  BY <1>1 DEF Slots
<1>3. \A p \in Procs : Reach(p) = brk[p] /\ Reach(p)' = brk[p]
  BY <1>1 DEF Reach
<1>4. ASSUME NEW p \in (Used \ torn)' PROVE p \in Used \ torn /\ p \in Procs
  BY <1>1 DEF Used
<1> QED BY <1>1, <1>2, <1>3, <1>4 DEF SpaceMapped, Mapped

LEMMA AllStay ==
  ASSUME VInv, UNCHANGED <<slotVars, pageVars, job>>
  PROVE  Slots' /\ Job' /\ SpaceMapped'
<1>1. UNCHANGED <<state, brk, stack, torn, kstack, space, job>>
  BY DEF slotVars, pageVars
<1> QED BY <1>1 DEF VInv, Slots, Job, SpaceMapped, Used, Reach, Mapped, ForkSpace, ExecSpace, SbrkSpace,
                    Tables, Todo, CopyAll

LEMMA PanicKeeps == ASSUME VInv, ~corrupt, Panics PROVE VInv' /\ Loses
<1>1. UNCHANGED <<free, slotVars, pageVars, job, pipes, freeing>> /\ panic' = TRUE
  BY DEF Panics
<1>2. Slots' /\ Job' /\ SpaceMapped'
  BY <1>1, AllStay
<1>3. UNCHANGED <<free, state, brk, stack, torn, kstack, space, job, pipes, giving, head, corrupt>>
  BY <1>1 DEF slotVars, pageVars, freeing
<1>4. Types' /\ Owners' /\ Kept
  BY <1>1, <1>3 DEF VInv, Types, Owners, Kept
<1> QED BY <1>2, <1>4 DEF VInv, Loses

(* Either task links a page, which changes nothing else.                   *)
LEMMA LinkKeeps ==
  ASSUME VInv, ~corrupt, NEW t \in {"mm", "fs"}, NEW S, kfree1Link(t, S),
         t = "mm" => S = job.give /\ job.pc = "give", t = "fs" => S = pipes
  PROVE  VInv' /\ Loses
<1>1. PICK g \in S : giving' = [giving EXCEPT ![t] = g]
  BY DEF kfree1Link
<1>2. UNCHANGED <<free, state, brk, stack, torn, kstack, space, job, pipes, corrupt, panic>>
      /\ UNCHANGED <<slotVars, pageVars>> /\ head' = [head EXCEPT ![t] = HeadOf(free)]
  BY DEF kfree1Link, slotVars, pageVars
<1>3. Slots' /\ Job' /\ SpaceMapped'
  BY <1>2, AllStay
<1>4. HeadOf(free) \in Page0 /\ g \in Page0
  <2>1. free # <<>> => Head(free) \in Page
    BY TailIs DEF VInv, Types
  <2>2. S \subseteq Page
    BY Facts DEF VInv, Types
  <2> QED BY <2>1, <2>2 DEF HeadOf, Page0
<1>5. Types'
  BY <1>1, <1>2, <1>4 DEF VInv, Types
<1>6. Owners'
  BY <1>1, <1>2 DEF VInv, Types, Owners
<1> QED BY <1>2, <1>3, <1>5, <1>6 DEF VInv, Loses, Kept

LEMMA GiveLinkKeeps == ASSUME VInv, GiveLink PROVE VInv' /\ Loses
BY LinkKeeps DEF GiveLink, At, Runs

LEMMA PipeLinkKeeps == ASSUME VInv, PipeLink PROVE VInv' /\ Loses
BY LinkKeeps DEF PipeLink

LEMMA GiveStoreKeeps == ASSUME VInv, GiveStore PROVE VInv' /\ Loses
<1>1. PICK g : g = giving["mm"]
  OBVIOUS
<1>2. /\ ~corrupt /\ job.pc = "give" /\ g # 0 /\ free' = <<g>> \o free
      /\ giving' = [giving EXCEPT !["mm"] = 0] /\ head' = [head EXCEPT !["mm"] = 0]
      /\ corrupt' = (head["mm"] # HeadOf(free))
      /\ UNCHANGED <<state, brk, stack, torn, kstack, space, panic, pipes>>
      /\ UNCHANGED slotVars /\ job' = GiveAll(job.give \ {g})
  BY <1>1 DEF GiveStore, At, Runs, kfree1Store, slotVars, pageVars
<1>3. Types /\ Owners /\ Job /\ g \in job.give
  BY <1>1, <1>2 DEF VInv, Owners
<1>4. /\ job.give \subseteq Page /\ 0 \notin job.give /\ job.got = 0 /\ g \in Page /\ Arrays(space, kstack)
      /\ kstack[Nobody] = 0 /\ space[Nobody] = NoSpace /\ job.call = "none"
  BY <1>2, <1>3, Facts DEF Job
<1>5. /\ Job' /\ job' \in Jobs /\ job'.got = 0 /\ job'.give = job.give \ {g} /\ job'.call = "none"
  BY <1>2, <1>4, JobOver
<1>6. Slots' /\ SpaceMapped'
  BY <1>2, <1>4, <1>5, SpacesStay DEF VInv
<1>7. /\ free' \in Seq(Page) /\ FreeSet(free') = FreeSet(free) \cup {g}
      /\ Apart(free) /\ g \notin FreeSet(free) => Apart(free')
  BY <1>2, <1>3, <1>4, ConsIs DEF Types
<1>8. g \notin FreeSet(free)
  BY <1>3 DEF Owners, Sound
<1>9. Types'
  BY <1>2, <1>3, <1>5, <1>7, Sizes DEF Types, Page0
<1>10. Sound(FreeSet(free'), space', kstack', job'.got, job'.give, pipes') /\ Kept
  <2>1. Sound(FreeSet(free), space, kstack, 0, job.give, pipes)
    BY <1>3, <1>4 DEF Owners
  <2>2. g \in job.give \cap Page
    BY <1>3, <1>4
  <2>3. /\ Sound(FreeSet(free) \cup {g}, space, kstack, 0, job.give \ {g}, pipes)
        /\ \A x \in Page : Held(x, FreeSet(free), space, kstack, 0, job.give, pipes)
              => Held(x, FreeSet(free) \cup {g}, space, kstack, 0, job.give \ {g}, pipes)
    BY <2>1, <2>2, StoreGiven
  <2> QED BY <1>2, <1>4, <1>5, <1>7, <2>3 DEF Kept
<1>11. Owners'
  BY <1>2, <1>3, <1>7, <1>8, <1>10 DEF Owners, Types
<1> QED BY <1>5, <1>6, <1>9, <1>10, <1>11 DEF VInv, Loses

LEMMA PipeStoreKeeps == ASSUME VInv, PipeStore PROVE VInv' /\ Loses
<1>1. PICK g : g = giving["fs"]
  OBVIOUS
<1>2. /\ ~corrupt /\ g # 0 /\ free' = <<g>> \o free /\ pipes' = pipes \ {g}
      /\ giving' = [giving EXCEPT !["fs"] = 0] /\ head' = [head EXCEPT !["fs"] = 0]
      /\ corrupt' = (head["fs"] # HeadOf(free))
      /\ UNCHANGED <<state, brk, stack, torn, kstack, space, panic, job>>
      /\ UNCHANGED <<slotVars, pageVars, job>>
  BY <1>1 DEF PipeStore, kfree1Store, slotVars, pageVars
<1>3. Types /\ Owners /\ g \in pipes /\ g \in Page
  BY <1>1, <1>2 DEF VInv, Owners, Types
<1>4. Slots' /\ Job' /\ SpaceMapped'
  BY <1>2, AllStay
<1>5. /\ free' \in Seq(Page) /\ FreeSet(free') = FreeSet(free) \cup {g}
      /\ Apart(free) /\ g \notin FreeSet(free) => Apart(free')
  BY <1>2, <1>3, ConsIs DEF Types
<1>6. g \notin FreeSet(free)
  BY <1>3 DEF Owners, Sound
<1>7. Types'
  BY <1>2, <1>3, <1>5, Sizes DEF Types, Page0
<1>8. Sound(FreeSet(free'), space', kstack', job'.got, job'.give, pipes') /\ Kept
  <2>1. Sound(FreeSet(free), space, kstack, job.got, job.give, pipes) /\ g \in pipes \cap Page
    BY <1>3 DEF Owners
  <2>2. /\ Sound(FreeSet(free) \cup {g}, space, kstack, job.got, job.give, pipes \ {g})
        /\ \A x \in Page : Held(x, FreeSet(free), space, kstack, job.got, job.give, pipes)
              => Held(x, FreeSet(free) \cup {g}, space, kstack, job.got, job.give, pipes \ {g})
    BY <2>1, StorePipe
  <2> QED BY <1>2, <1>5, <2>2 DEF Kept
<1>9. Owners'
  BY <1>2, <1>3, <1>5, <1>6, <1>8 DEF Owners, Types
<1> QED BY <1>4, <1>7, <1>8, <1>9 DEF VInv, Loses

LEMMA PipeTakeKeeps == ASSUME VInv, PipeTake PROVE VInv' /\ Loses
<1>1. PICK g : g = Head(free)
  OBVIOUS
<1>2. /\ ~corrupt /\ kalloc1 /\ pipes' = pipes \cup {g} /\ giving["fs"] = 0
      /\ UNCHANGED <<state, brk, stack, torn, kstack, space, panic, job, giving, head, corrupt>>
      /\ UNCHANGED <<slotVars, pageVars, job>>
  BY <1>1 DEF PipeTake, slotVars, pageVars, freeing
<1>3. Types /\ Owners
  BY <1>2 DEF VInv
<1>4. Slots' /\ Job' /\ SpaceMapped'
  BY <1>2, AllStay
<1>5. /\ g \in Page /\ free' \in Seq(Page)
      /\ FreeSet(free) = FreeSet(free') \cup {g} /\ Apart(free') /\ g \notin FreeSet(free')
  BY <1>1, <1>2, <1>3, Kalloc DEF Owners
<1>6. Types'
  BY <1>2, <1>3, <1>5 DEF Types
<1>7. Sound(FreeSet(free'), space', kstack', job'.got, job'.give, pipes') /\ Kept
  BY <1>2, <1>3, <1>5, TakePipe DEF Kept, Owners
<1>8. Owners'
  BY <1>2, <1>3, <1>5, <1>7 DEF Owners
<1> QED BY <1>4, <1>6, <1>7, <1>8 DEF VInv, Loses

-----------------------------------------------------------------------------
(* Calls that begin, exit and wait.                                        *)
LEMMA NoMap == Mapped(NoSpace) = {}
BY DEF Mapped, NoSpace

LEMMA CallIs ==
  ASSUME VInv, NEW p \in Procs, Calls(p)
  PROVE  /\ Types /\ Slots /\ SpaceMapped /\ Owners /\ ~corrupt /\ state[p] = "live" /\ job.pc = "idle"
         /\ job.call = "none" /\ job.got = 0 /\ job.give = {} /\ giving["mm"] = 0
         /\ kstack[Nobody] = 0 /\ space[Nobody] = NoSpace
BY DEF VInv, Calls, At, Runs, Job, Owners

LEMMA ForkKeeps == ASSUME VInv, NEW p \in Procs, Fork(p) PROVE VInv' /\ Loses
<1>1. PICK q \in Procs :
        /\ state[q] = "unused" /\ kalloc1 /\ kstack' = [kstack EXCEPT ![Nobody] = Head(free)]
        /\ Call(p, [Idle EXCEPT !.pc = "dir", !.call = "fork", !.p = p, !.q = q])
  BY DEF Fork
<1>2. Calls(p) /\ job' = [Idle EXCEPT !.pc = "dir", !.call = "fork", !.p = p, !.q = q]
      /\ UNCHANGED <<state, brk, stack, torn, space, pipes, giving, head, corrupt, panic>>
      /\ UNCHANGED slotVars
  BY <1>1 DEF Call, slotVars, freeing
<1>3. /\ Types /\ Slots /\ SpaceMapped /\ Owners /\ ~corrupt /\ state[p] = "live" /\ job.pc = "idle"
      /\ job.call = "none" /\ job.got = 0 /\ job.give = {} /\ giving["mm"] = 0
      /\ kstack[Nobody] = 0 /\ space[Nobody] = NoSpace
  BY <1>2, CallIs
<1>4. /\ Head(free) \in Page /\ Head(free) # 0 /\ free' \in Seq(Page)
      /\ FreeSet(free) = FreeSet(free') \cup {Head(free)} /\ Apart(free') /\ Head(free) \notin FreeSet(free')
  BY <1>1, <1>3, Kalloc DEF Owners
<1>5. /\ job' \in Jobs /\ job'.pc = "dir" /\ job'.call = "fork" /\ job'.p = p /\ job'.q = q
      /\ job'.got = 0 /\ job'.give = {} /\ job'.at = 0
  BY <1>2, IdleIs, Sizes DEF Idle, Jobs, Slot
<1>6. /\ kstack' \in [Slot -> Page0] /\ kstack'[Nobody] = Head(free)
      /\ \A r \in Procs : kstack'[r] = kstack[r]
  BY <1>1, <1>3, <1>4, Sizes DEF Types, Page0
<1>7. Types'
  BY <1>2, <1>3, <1>4, <1>5, <1>6 DEF Types
<1>8. Slots' /\ SpaceMapped'
  BY <1>2, <1>3, <1>5, <1>6, SpacesStay
<1>9. Job'
  <2>1. Mapped(space'[Nobody]) = {v \in Mapped(space'[p]) : v < 0}
    BY <1>2, <1>3, NoMap, Sizes DEF Mapped, Vpage
  <2>2. ForkSpace'
    BY <1>1, <1>2, <1>3, <1>4, <1>5, <1>6, <2>1 DEF ForkSpace
  <2> QED BY <1>2, <1>3, <1>5, <2>2 DEF Job
<1>10. Sound(FreeSet(free'), space', kstack', job'.got, job'.give, pipes') /\ Kept
  <2>1. Arrays(space, kstack) /\ 0 \notin FreeSet(free) /\ 0 \notin pipes
    BY <1>3, Facts
  <2>2. Sound(FreeSet(free), space, kstack, 0, {}, pipes)
    BY <1>3 DEF Owners
  <2>3. /\ Sound(FreeSet(free'), space, kstack, Head(free), {}, pipes)
        /\ \A x \in Page : Held(x, FreeSet(free), space, kstack, 0, {}, pipes)
              => Held(x, FreeSet(free'), space, kstack, Head(free), {}, pipes)
    BY <1>4, <2>2, Take
  <2>4. 0 \notin FreeSet(free') /\ 0 \notin {}
    BY <1>4, <2>1
  <2>5. /\ Sound(FreeSet(free'), space, kstack', 0, {}, pipes)
        /\ \A x \in Page : Held(x, FreeSet(free'), space, kstack, Head(free), {}, pipes)
              => Held(x, FreeSet(free'), space, kstack', 0, {}, pipes)
    BY <1>1, <1>3, <1>4, <2>1, <2>3, <2>4, PutStack, Sizes
  <2> QED BY <1>2, <1>3, <1>5, <2>3, <2>5 DEF Kept
<1>11. Owners'
  BY <1>2, <1>3, <1>4, <1>10 DEF Owners
<1> QED BY <1>7, <1>8, <1>9, <1>10, <1>11 DEF VInv, Loses

LEMMA BeginKeeps ==
  ASSUME VInv, NEW p \in Procs, NEW j \in Jobs, Call(p, j), UNCHANGED <<free, kstack>>,
         j.p = p, j.got = 0, j.give = {}, j.missed = FALSE,
         \/ /\ j.pc = "dir" /\ j.call = "exec" /\ j.at = 0 /\ j.end = j.size
            /\ j.size \in 1 .. KBASE - 2
         \/ j.pc = "alloc" /\ j.call = "sbrk" /\ j.at = brk[p]
  PROVE  VInv' /\ Loses
<1>1. Calls(p) /\ job' = j
      /\ UNCHANGED <<free, kstack, state, brk, stack, torn, space, pipes, giving, head, corrupt, panic>>
      /\ UNCHANGED slotVars
  BY DEF Call, slotVars, freeing
<1>2. /\ Types /\ Slots /\ SpaceMapped /\ Owners /\ ~corrupt /\ state[p] = "live" /\ job.pc = "idle"
      /\ job.call = "none" /\ job.got = 0 /\ job.give = {} /\ giving["mm"] = 0
      /\ kstack[Nobody] = 0 /\ space[Nobody] = NoSpace
  BY <1>1, CallIs
<1>3. Types' /\ Kept
  BY <1>1, <1>2 DEF Types, Kept
<1>4. Slots' /\ SpaceMapped'
  BY <1>1, <1>2, SpacesStay
<1>5. Owners'
  BY <1>1, <1>2 DEF Owners
<1>6. CASE j.call = "exec"
  <2>1. /\ job'.pc = "dir" /\ job'.at = 0 /\ job'.end = job'.size /\ job'.size \in 1 .. KBASE - 2
        /\ kstack'[Nobody] = 0 /\ job'.p = p
    BY <1>1, <1>2, <1>6
  <2>2. 0 .. job'.at - 1 = {} /\ Mapped(space[Nobody])' = {} /\ job'.end # KBASE
    BY <1>1, <1>2, <2>1, NoMap, Sizes
  <2>3. job'.at <= job'.end /\ job'.size <= KBASE - 2
    BY <2>1, Sizes
  <2>4. ExecSpace'
    BY <2>1, <2>2, <2>3 DEF ExecSpace
  <2>5. Job'
    BY <1>1, <1>2, <1>6, <2>4 DEF Job
  <2> QED BY <1>3, <1>4, <1>5, <2>5 DEF VInv, Loses
<1>7. CASE j.call = "sbrk"
  <2>1. brk[p] \in Nat
    BY <1>2, Sizes DEF Types
  <2>2. SbrkSpace'
    BY <1>1, <1>2, <1>7, <2>1 DEF SbrkSpace
  <2>3. Job'
    BY <1>1, <1>2, <1>7, <2>2 DEF Job
  <2> QED BY <1>3, <1>4, <1>5, <2>3 DEF VInv, Loses
<1> QED BY <1>6, <1>7

LEMMA ExecKeeps == ASSUME VInv, NEW p \in Procs, Exec(p) PROVE VInv' /\ Loses
<1>1. PICK n \in Image :
        /\ Call(p, [Idle EXCEPT !.pc = "dir", !.call = "exec", !.p = p, !.end = n, !.size = n])
        /\ UNCHANGED <<free, kstack>>
  BY DEF Exec
<1>2. PICK j :
        /\ j = [Idle EXCEPT !.pc = "dir", !.call = "exec", !.p = p, !.end = n, !.size = n]
        /\ Call(p, j) /\ UNCHANGED <<free, kstack>>
  BY <1>1
<1>3. n \in 1 .. KBASE - 2 /\ n \in 0 .. KBASE
  BY VmAssumption
<1>4. /\ j \in Jobs /\ j.p = p /\ j.got = 0 /\ j.give = {} /\ j.missed = FALSE
      /\ j.pc = "dir" /\ j.call = "exec" /\ j.at = 0 /\ j.end = n /\ j.size = n
  BY <1>2, <1>3, IdleIs, Sizes DEF Idle, Jobs, Slot
<1> QED BY <1>2, <1>3, <1>4, BeginKeeps

LEMMA SbrkKeeps == ASSUME VInv, NEW p \in Procs, Sbrk(p) PROVE VInv' /\ Loses
<1>1. \E e, j :
        /\ \E n \in Grow : e = End(brk[p], n) /\ e \in 1 .. KBASE
        /\ j = [Idle EXCEPT !.pc = "alloc", !.call = "sbrk", !.p = p, !.at = brk[p], !.end = e]
        /\ Call(p, j) /\ UNCHANGED <<free, kstack>>
  BY DEF Sbrk
<1>2. PICK e, j :
        /\ e \in 1 .. KBASE
        /\ j = [Idle EXCEPT !.pc = "alloc", !.call = "sbrk", !.p = p, !.at = brk[p], !.end = e]
        /\ Call(p, j) /\ UNCHANGED <<free, kstack>>
  BY <1>1
<1>3. e \in 0 .. KBASE /\ brk[p] \in 0 .. KBASE
  BY <1>2, Sizes DEF VInv, Types
<1>4. /\ j \in Jobs /\ j.p = p /\ j.got = 0 /\ j.give = {} /\ j.missed = FALSE
      /\ j.pc = "alloc" /\ j.call = "sbrk" /\ j.at = brk[p] /\ j.end = e
  BY <1>2, <1>3, IdleIs, Sizes DEF Idle, Jobs, Slot
<1> QED BY <1>2, <1>4, BeginKeeps

LEMMA ExitKeeps == ASSUME VInv, NEW p \in Procs, Exit(p) PROVE VInv' /\ Loses
<1>1. Calls(p) /\ state' = [state EXCEPT ![p] = "zombie"]
      /\ UNCHANGED <<free, kstack, brk, stack, torn, space, pipes, giving, head, corrupt, panic, job>>
  BY DEF Exit, pageVars, freeing
<1>2. /\ Types /\ Slots /\ SpaceMapped /\ Owners /\ ~corrupt /\ state[p] = "live" /\ job.pc = "idle"
      /\ job.call = "none" /\ job.got = 0 /\ job.give = {} /\ giving["mm"] = 0
      /\ kstack[Nobody] = 0 /\ space[Nobody] = NoSpace
  BY <1>1, CallIs
<1>3. Types' /\ Owners' /\ Kept /\ Job'
  BY <1>1, <1>2 DEF VInv, Types, Owners, Kept, Job
<1>4. Slots'
  BY <1>1, <1>2 DEF Slots, Types
<1>5. Used' = Used
  BY <1>1, <1>2 DEF Used, Types
<1>6. SpaceMapped'
  BY <1>1, <1>2, <1>5 DEF SpaceMapped, Mapped, Reach
<1> QED BY <1>3, <1>4, <1>6 DEF VInv, Loses

LEMMA WaitKeeps == ASSUME VInv, NEW p \in Procs, Wait(p) PROVE VInv' /\ Loses
<1>1. PICK G : G = freevm(space[p]) \cup Hand(kstack[p])
  OBVIOUS
<1>2. /\ At("idle") /\ job' = GiveAll(G) /\ state' = [state EXCEPT ![p] = "unused"]
      /\ kstack' = [kstack EXCEPT ![p] = 0] /\ space' = [space EXCEPT ![p] = NoSpace]
      /\ brk' = [brk EXCEPT ![p] = 0] /\ stack' = [stack EXCEPT ![p] = FALSE] /\ torn' = torn \ {p}
      /\ UNCHANGED <<free, pipes, giving, head, corrupt, panic>>
  BY <1>1 DEF Wait, freeing
<1>3. /\ Types /\ Slots /\ SpaceMapped /\ Owners /\ ~corrupt /\ job.pc = "idle"
      /\ job.call = "none" /\ job.got = 0 /\ job.give = {} /\ giving["mm"] = 0
      /\ kstack[Nobody] = 0 /\ space[Nobody] = NoSpace
  BY <1>2 DEF VInv, At, Runs, Job, Owners
<1>4. /\ Arrays(space, kstack) /\ 0 \notin FreeSet(free) /\ 0 \notin pipes /\ 0 \notin {}
      /\ p \in Slot /\ p # Nobody
  BY <1>3, Facts, Sizes
<1>5. /\ Sound(FreeSet(free), space, kstack', 0, Hand(kstack[p]), pipes) /\ Arrays(space, kstack')
      /\ \A x \in Page : Held(x, FreeSet(free), space, kstack, 0, {}, pipes)
            => Held(x, FreeSet(free), space, kstack', 0, Hand(kstack[p]), pipes)
  <2>1. Sound(FreeSet(free), space, kstack, 0, {}, pipes)
    BY <1>3 DEF Owners
  <2>2. /\ Sound(FreeSet(free), space, [kstack EXCEPT ![p] = 0], 0, {} \cup Hand(kstack[p]), pipes)
        /\ Arrays(space, [kstack EXCEPT ![p] = 0])
        /\ \A x \in Page : Held(x, FreeSet(free), space, kstack, 0, {}, pipes)
              => Held(x, FreeSet(free), space, [kstack EXCEPT ![p] = 0], 0, {} \cup Hand(kstack[p]), pipes)
    BY <1>4, <2>1, GiveStack
  <2>9. {} \cup Hand(kstack[p]) = Hand(kstack[p])
    OBVIOUS
  <2> QED BY <1>2, <2>2, <2>9
<1>6. /\ Sound(FreeSet(free), space', kstack', 0, G, pipes) /\ Arrays(space', kstack')
      /\ \A x \in Page : Held(x, FreeSet(free), space, kstack', 0, Hand(kstack[p]), pipes)
            => Held(x, FreeSet(free), space', kstack', 0, G, pipes)
  <2>1. Hand(kstack[p]) \cup freevm(space[p]) = G
    BY <1>1
  <2> QED BY <1>2, <1>4, <1>5, <2>1, GiveSpace
<1>7. G \subseteq Page
  BY <1>1, <1>4, FreevmPages DEF Hand, Arrays, Page0
<1>8. kstack'[Nobody] = 0 /\ space'[Nobody] = NoSpace
  BY <1>2, <1>3, <1>4, Sizes DEF Arrays
<1>9. /\ Job' /\ job' \in Jobs /\ job'.got = 0 /\ job'.give = G /\ job'.call = "none"
  BY <1>2, <1>7, <1>8, JobOver
<1>10. Types'
  BY <1>2, <1>3, <1>6, <1>9, Sizes DEF Types, Arrays
<1>11. Slots'
  BY <1>2, <1>3, <1>4 DEF Slots, Types
<1>12. SpaceMapped'
  <2>1. ASSUME NEW r \in (Used \ torn)'
        PROVE  r \in Used \ torn /\ r # p /\ space'[r] = space[r] /\ kstack'[r] = kstack[r]
               /\ stack'[r] = stack[r] /\ Reach(r)' = Reach(r)
    <3>1. r \in Procs /\ state'[r] # "unused" /\ r \notin torn'
      BY DEF Used
    <3>2. r # p /\ state[r] # "unused" /\ r \notin torn
      BY <1>2, <1>3, <3>1 DEF Types
    <3>3. space'[r] = space[r] /\ kstack'[r] = kstack[r] /\ stack'[r] = stack[r] /\ brk'[r] = brk[r]
      BY <1>2, <1>3, <1>4, <3>1, <3>2, Sizes DEF Types, Arrays
    <3> QED BY <1>3, <1>9, <3>1, <3>2, <3>3 DEF Used, Reach
  <2> QED BY <1>3, <2>1 DEF SpaceMapped, Mapped
<1>13. Owners' /\ Kept
  BY <1>2, <1>3, <1>5, <1>6, <1>9 DEF Owners, Kept
<1> QED BY <1>9, <1>10, <1>11, <1>12, <1>13 DEF VInv, Loses

(* A call that fails gives back what it has made.                          *)
LEMMA AbandonKeeps ==
  ASSUME VInv, ~corrupt, NEW s, Abandon(s), job.pc \notin {"idle", "give"}, job.call # "sbrk",
         \/ s = space[Nobody] /\ job.got = 0
         \/ None /\ (s = space[Nobody] \/ s = NoSpace)
  PROVE  VInv' /\ Loses
<1>1. PICK G, W : G = freevm(s) \cup Hand(kstack[Nobody]) /\ W = freevm(space[Nobody]) \cup Hand(kstack[Nobody])
  OBVIOUS
<1>2. /\ job' = GiveAll(G) /\ space' = [space EXCEPT ![Nobody] = NoSpace]
      /\ kstack' = [kstack EXCEPT ![Nobody] = 0]
      /\ UNCHANGED <<free, state, brk, stack, torn, pipes, giving, head, corrupt, panic>>
      /\ UNCHANGED slotVars
  BY <1>1 DEF Abandon, slotVars, freeing
<1>3. Types /\ Slots /\ SpaceMapped /\ Owners /\ job.give = {} /\ giving["mm"] = 0
  BY DEF VInv, Owners, Job
<1>4. /\ Arrays(space, kstack) /\ 0 \notin FreeSet(free) /\ 0 \notin pipes /\ 0 \notin {} /\ Nobody \in Slot
  BY <1>3, Facts, Sizes
<1>5. /\ Sound(FreeSet(free), space, kstack', 0, Hand(kstack[Nobody]), pipes) /\ Arrays(space, kstack')
      /\ \A x \in Page : Held(x, FreeSet(free), space, kstack, 0, {}, pipes)
            => Held(x, FreeSet(free), space, kstack', 0, Hand(kstack[Nobody]), pipes)
  <2>1. Sound(FreeSet(free), space, kstack, job.got, {}, pipes)
    BY <1>3 DEF Owners
  <2>2. Sound(FreeSet(free), space, kstack, 0, {}, pipes)
    BY <1>4, <2>1, Drop
  <2>3. /\ Sound(FreeSet(free), space, [kstack EXCEPT ![Nobody] = 0], 0, {} \cup Hand(kstack[Nobody]), pipes)
        /\ Arrays(space, [kstack EXCEPT ![Nobody] = 0])
        /\ \A x \in Page : Held(x, FreeSet(free), space, kstack, 0, {}, pipes)
              => Held(x, FreeSet(free), space, [kstack EXCEPT ![Nobody] = 0],
                      0, {} \cup Hand(kstack[Nobody]), pipes)
    BY <1>4, <2>2, GiveStack
  <2>9. {} \cup Hand(kstack[Nobody]) = Hand(kstack[Nobody])
    OBVIOUS
  <2> QED BY <1>2, <2>3, <2>9
<1>6. /\ Sound(FreeSet(free), space', kstack', 0, W, pipes) /\ Arrays(space', kstack')
      /\ \A x \in Page : Held(x, FreeSet(free), space, kstack', 0, Hand(kstack[Nobody]), pipes)
            => Held(x, FreeSet(free), space', kstack', 0, W, pipes)
  <2>1. Hand(kstack[Nobody]) \cup freevm(space[Nobody]) = W
    BY <1>1
  <2> QED BY <1>2, <1>4, <1>5, <2>1, GiveSpace
<1>7. G \subseteq W /\ W \subseteq Page
  <2>1. freevm(s) \subseteq freevm(space[Nobody])
    BY NoSpaceIs
  <2> QED BY <1>1, <1>4, <2>1, FreevmPages DEF Hand, Arrays, Page0
<1>8. kstack'[Nobody] = 0 /\ space'[Nobody] = NoSpace
      /\ \A r \in Procs : space'[r] = space[r] /\ kstack'[r] = kstack[r]
  BY <1>2, <1>4, Sizes DEF Arrays
<1>9. /\ Job' /\ job' \in Jobs /\ job'.got = 0 /\ job'.give = G /\ job'.call = "none"
  BY <1>2, <1>7, <1>8, JobOver
<1>10. Types'
  BY <1>2, <1>3, <1>6, <1>9, Sizes DEF Types, Arrays
<1>11. Slots' /\ SpaceMapped'
  BY <1>2, <1>3, <1>8, <1>9, SpacesStay
<1>12. Owners'
  <2>1. Sound(FreeSet(free), space', kstack', 0, G, pipes)
    BY <1>6, <1>7, Less
  <2> QED BY <1>2, <1>3, <1>9, <2>1 DEF Owners
<1>13. Loses
  <2>1. CASE s = space[Nobody] /\ job.got = 0
    <3>1. G = W
      BY <1>1, <2>1
    <3> QED BY <1>2, <1>3, <1>5, <1>6, <1>9, <2>1, <3>1 DEF Loses, Kept
  <2>2. CASE None
    BY <1>2, <2>2 DEF Loses, None
  <2> QED BY <2>1, <2>2
<1> QED BY <1>9, <1>10, <1>11, <1>12, <1>13 DEF VInv

-----------------------------------------------------------------------------
(* A call goes on.                                                         *)
CallsOn == job.p \in Procs /\ job.p \in Slot /\ job.p # Nobody /\ state[job.p] = "live"

LEMMA OnIs ==
  ASSUME VInv, job.pc \notin {"idle", "give"}, ~corrupt
  PROVE  /\ CallsOn /\ Types /\ Slots /\ Job /\ SpaceMapped /\ Owners /\ job.give = {} /\ giving["mm"] = 0
         /\ job.call \in {"fork", "exec", "sbrk"}
         /\ job.call = "fork" => ForkSpace
         /\ job.call = "exec" => ExecSpace
         /\ job.call = "sbrk" => SbrkSpace
         /\ Tidy(space[Nobody]) /\ Nobody \in Slot
  BY Facts, Sizes DEF VInv, Job, Owners, CallsOn, Sound

(* A page is taken and goes into a space.                                  *)
LEMMA TakePut ==
  ASSUME Types, Owners, job.got = 0, job.give = {}, giving["mm"] = 0, kalloc1,
         NEW n \in Slot, NEW t, Tidy(t),
         freevm(t) = freevm(space[n]) \cup {Head(free)}, space' = [space EXCEPT ![n] = t],
         UNCHANGED <<kstack, pipes, giving>>, job'.got = 0, job'.give = {}
  PROVE  Owners' /\ Kept /\ free' \in Seq(Page) /\ space' \in [Slot -> Spaces]
<1>1. /\ Head(free) \in Page /\ free' \in Seq(Page) /\ Arrays(space, kstack)
      /\ FreeSet(free) = FreeSet(free') \cup {Head(free)} /\ Apart(free') /\ Head(free) \notin FreeSet(free')
      /\ 0 \notin FreeSet(free') /\ 0 \notin pipes /\ 0 \notin {}
  BY Kalloc, Facts DEF Owners
<1>2. /\ Sound(FreeSet(free'), space, kstack, Head(free), {}, pipes)
      /\ \A x \in Page : Held(x, FreeSet(free), space, kstack, 0, {}, pipes)
            => Held(x, FreeSet(free'), space, kstack, Head(free), {}, pipes)
  BY <1>1, Take DEF Owners
<1>3. /\ Sound(FreeSet(free'), space', kstack, 0, {}, pipes) /\ Arrays(space', kstack)
      /\ \A x \in Page : Held(x, FreeSet(free'), space, kstack, Head(free), {}, pipes)
            => Held(x, FreeSet(free'), space', kstack, 0, {}, pipes)
  BY <1>1, <1>2, PutSpace
<1> QED BY <1>1, <1>2, <1>3 DEF Owners, Kept, Arrays

LEMMA TakenApart ==
  ASSUME Types, Owners, kalloc1
  PROVE  /\ Head(free) \in Page /\ Head(free) # job.got
         /\ \A s \in Slot : Head(free) \notin freevm(space[s])
BY Kalloc DEF Owners, Sound

(* The space that is being made has what it had.                           *)
LEMMA SetupStays ==
  ASSUME VInv, ~corrupt, NEW c \in {"kern", "alloc"}, job' = [job EXCEPT !.pc = c],
         job.pc \in {"dir", "kern"}, space'[job.p] = space[job.p],
         Mapped(space'[Nobody]) = Mapped(space[Nobody]), UNCHANGED <<kstack, state, brk>>
  PROVE  /\ job' \in Jobs /\ job'.pc = c /\ job'.call = job.call /\ job'.p = job.p /\ job'.at = job.at
         /\ job'.got = job.got /\ job'.give = job.give /\ job.call # "sbrk"
         /\ job'.call = "fork" => ForkSpace'
         /\ job'.call = "exec" => ExecSpace'
<1>1. job.pc \notin {"idle", "give"} /\ job.pc # "enter"
  OBVIOUS
<1>2. /\ job \in Jobs /\ job.p # Nobody /\ job.call # "sbrk"
      /\ job.call = "fork" => ForkSpace
      /\ job.call = "exec" => ExecSpace
  BY <1>1, OnIs DEF Types, SbrkSpace, CallsOn
<1>3. /\ job' \in Jobs /\ job'.pc = c /\ job'.call = job.call /\ job'.p = job.p /\ job'.q = job.q
      /\ job'.at = job.at /\ job'.end = job.end /\ job'.size = job.size
      /\ job'.got = job.got /\ job'.give = job.give /\ job'.missed = job.missed
  BY <1>2 DEF Jobs
<1>4. Mapped(space[Nobody])' = Mapped(space[Nobody]) /\ Mapped(space[job.p])' = Mapped(space[job.p])
  BY <1>3 DEF Mapped
<1>5. ASSUME job.call = "fork" PROVE ForkSpace'
  BY <1>2, <1>3, <1>4, <1>5 DEF ForkSpace
<1>6. ASSUME job.call = "exec" PROVE ExecSpace'
  BY <1>2, <1>3, <1>4, <1>6 DEF ExecSpace
<1> QED BY <1>2, <1>3, <1>5, <1>6

LEMMA MakeDirKeeps == ASSUME VInv, MakeDir PROVE VInv' /\ Loses
<1>1. job.pc = "dir" /\ ~corrupt
  BY DEF MakeDir, At, Runs
<1>2. /\ CallsOn /\ Types /\ Slots /\ SpaceMapped /\ Owners /\ job.give = {} /\ giving["mm"] = 0
      /\ job.call \in {"fork", "exec"} /\ Nobody \in Slot
      /\ job.got = 0 /\ space[Nobody] = NoSpace /\ job.at = 0
  <2>1. job.pc \notin {"idle", "give"} /\ job.pc # "enter"
    BY <1>1
  <2> QED BY <1>1, <2>1, OnIs DEF Job, SbrkSpace
<1>3. CASE None
  <2>1. Abandon(NoSpace)
    BY <1>3 DEF MakeDir
  <2> QED BY <1>1, <1>2, <1>3, <2>1, AbandonKeeps
<1>4. CASE ~None
  <2>1. PICK h, t : h = Head(free) /\ t = WithDir(space[Nobody], h)
    OBVIOUS
  <2>2. /\ kalloc1 /\ space' = [space EXCEPT ![Nobody] = t] /\ job' = [job EXCEPT !.pc = "kern"]
        /\ UNCHANGED <<state, brk, stack, torn, kstack, pipes, giving, head, corrupt, panic>>
        /\ UNCHANGED slotVars
    BY <1>4, <2>1 DEF MakeDir, slotVars, freeing, WithDir
  <2>3. h \in Page /\ h # 0 /\ h \notin freevm(space[Nobody])
    BY <1>2, <2>1, <2>2, TakenApart, Sizes
  <2>4. /\ Tidy(t) /\ freevm(t) = freevm(space[Nobody]) \cup {h}
        /\ t.dir = h /\ t.kern = 0 /\ t.map = NoSpace.map
    <3>1. NoSpace.dir = 0 /\ NoSpace.kern = 0
      BY DEF NoSpace
    <3> QED BY <1>2, <2>1, <2>3, <3>1, NoSpaceIs, PutDir
  <2>5. Mapped(t) = {} /\ Mapped(space[Nobody]) = {}
    BY <1>2, <2>4, NoMap DEF Mapped
  <2>6. space'[Nobody] = t /\ \A r \in Procs : space'[r] = space[r]
    BY <1>2, <2>2, Sizes DEF Types
  <2>7. /\ job' \in Jobs /\ job'.pc = "kern" /\ job'.call = job.call /\ job'.p = job.p /\ job'.at = job.at
        /\ job'.got = 0 /\ job'.give = {}
        /\ job'.call = "fork" => ForkSpace'
        /\ job'.call = "exec" => ExecSpace'
    BY <1>1, <1>2, <2>2, <2>5, <2>6, SetupStays DEF CallsOn
  <2>8. Owners' /\ Kept /\ free' \in Seq(Page) /\ space' \in [Slot -> Spaces]
    BY <1>2, <2>1, <2>2, <2>4, <2>7, TakePut
  <2>9. Types'
    BY <1>2, <2>2, <2>7, <2>8 DEF Types
  <2>10. Slots' /\ SpaceMapped'
    BY <1>2, <2>2, <2>6, <2>7, SpacesStay
  <2>11. Job'
    BY <1>2, <2>2, <2>3, <2>4, <2>5, <2>6, <2>7 DEF Job, CallsOn, Mapped
  <2> QED BY <2>8, <2>9, <2>10, <2>11 DEF VInv, Loses
<1> QED BY <1>3, <1>4

LEMMA MakeKernKeeps == ASSUME VInv, MakeKern PROVE VInv' /\ Loses
<1>1. job.pc = "kern" /\ ~corrupt
  BY DEF MakeKern, At, Runs
<1>2. /\ CallsOn /\ Types /\ Slots /\ SpaceMapped /\ Owners /\ job.give = {} /\ giving["mm"] = 0
      /\ job.call \in {"fork", "exec"} /\ Nobody \in Slot /\ Tidy(space[Nobody])
      /\ job.got = 0 /\ space[Nobody].dir # 0 /\ space[Nobody].kern = 0
      /\ Mapped(space[Nobody]) = {} /\ job.at = 0
  <2>1. job.pc \notin {"idle", "give"} /\ job.pc # "enter"
    BY <1>1
  <2> QED BY <1>1, <2>1, OnIs DEF Job, SbrkSpace
<1>3. CASE None
  <2>1. Abandon(NoSpace)
    BY <1>3 DEF MakeKern
  <2> QED BY <1>1, <1>2, <1>3, <2>1, AbandonKeeps
<1>4. CASE ~None
  <2>1. PICK h, t : h = Head(free) /\ t = WithKern(space[Nobody], h)
    OBVIOUS
  <2>2. /\ kalloc1 /\ space' = [space EXCEPT ![Nobody] = t] /\ job' = [job EXCEPT !.pc = "alloc"]
        /\ UNCHANGED <<state, brk, stack, torn, kstack, pipes, giving, head, corrupt, panic>>
        /\ UNCHANGED slotVars
    BY <1>4, <2>1 DEF MakeKern, slotVars, freeing, WithKern
  <2>3. h \in Page /\ h # 0 /\ h \notin freevm(space[Nobody])
    BY <1>2, <2>1, <2>2, TakenApart, Sizes
  <2>4. /\ Tidy(t) /\ freevm(t) = freevm(space[Nobody]) \cup {h}
        /\ t.dir = space[Nobody].dir /\ t.kern = h /\ t.map = space[Nobody].map
    BY <1>2, <2>1, <2>3, PutKern
  <2>5. Mapped(t) = {}
    BY <1>2, <2>4 DEF Mapped
  <2>6. space'[Nobody] = t /\ \A r \in Procs : space'[r] = space[r]
    BY <1>2, <2>2, Sizes DEF Types
  <2>7. /\ job' \in Jobs /\ job'.pc = "alloc" /\ job'.call = job.call /\ job'.p = job.p /\ job'.at = job.at
        /\ job'.got = 0 /\ job'.give = {}
        /\ job'.call = "fork" => ForkSpace'
        /\ job'.call = "exec" => ExecSpace'
    BY <1>1, <1>2, <2>2, <2>5, <2>6, SetupStays DEF CallsOn
  <2>8. Owners' /\ Kept /\ free' \in Seq(Page) /\ space' \in [Slot -> Spaces]
    BY <1>2, <2>1, <2>2, <2>4, <2>7, TakePut
  <2>9. Types'
    BY <1>2, <2>2, <2>7, <2>8 DEF Types
  <2>10. Slots' /\ SpaceMapped'
    BY <1>2, <2>2, <2>6, <2>7, SpacesStay
  <2>11. Tables(space[Nobody])'
    BY <1>2, <2>3, <2>4, <2>5, <2>6 DEF Tables, Mapped
  <2>12. Job'
    BY <1>2, <2>2, <2>6, <2>7, <2>11 DEF Job, CallsOn
  <2> QED BY <2>8, <2>9, <2>10, <2>12 DEF VInv, Loses
<1> QED BY <1>3, <1>4

LEMMA ExecBadKeeps == ASSUME VInv, ExecBad PROVE VInv' /\ Loses
<1>1. job.pc = "alloc" /\ ~corrupt /\ Abandon(space[Nobody]) /\ job.call = "exec"
  BY DEF ExecBad, At, Runs
<1>2. job.got = 0
  BY <1>1 DEF VInv, Job
<1> QED BY <1>1, <1>2, AbandonKeeps

LEMMA SbrkFailsKeeps ==
  ASSUME VInv, ~corrupt, job.pc = "alloc", job.call = "sbrk", None, SbrkFails
  PROVE  VInv' /\ Loses
<1>1. /\ job' = Idle /\ torn' = IF job.at = brk[job.p] THEN torn ELSE torn \cup {job.p}
      /\ UNCHANGED <<free, state, brk, stack, kstack, space, pipes, giving, head, corrupt, panic>>
  BY DEF SbrkFails, pageVars, freeing
<1>2. /\ CallsOn /\ Types /\ Slots /\ Job /\ SpaceMapped /\ Owners /\ job.give = {} /\ giving["mm"] = 0
      /\ SbrkSpace /\ job.got = 0
  BY OnIs DEF Job
<1>3. /\ Job' /\ job' \in Jobs /\ job'.got = 0 /\ job'.give = {} /\ job'.call = "none"
  BY <1>1, <1>2, GiveNone, JobOver DEF SbrkSpace
<1>4. Types' /\ Slots'
  BY <1>1, <1>2, <1>3 DEF Types, Slots, CallsOn
<1>5. ASSUME NEW r \in (Used \ torn)' PROVE r \in Used \ torn /\ Reach(r)' = Reach(r)
  BY <1>1, <1>2, <1>3 DEF Used, Reach
<1>6. SpaceMapped'
  BY <1>1, <1>2, <1>5 DEF SpaceMapped, Mapped
<1>7. Owners'
  BY <1>1, <1>2, <1>3 DEF Owners
<1> QED BY <1>1, <1>3, <1>4, <1>6, <1>7 DEF VInv, Loses, None

LEMMA AllocPageKeeps == ASSUME VInv, AllocPage PROVE VInv' /\ Loses
<1>1. job.pc = "alloc" /\ ~corrupt /\ Todo # {}
  BY DEF AllocPage, At, Runs
<1>2. job.got = 0
  BY <1>1 DEF VInv, Job
<1>3. CASE None
  <2>1. CASE job.call = "sbrk"
    BY <1>1, <1>3, <2>1, SbrkFailsKeeps DEF AllocPage
  <2>2. CASE job.call # "sbrk"
    <3>1. Abandon(space[Nobody])
      BY <1>3, <2>2 DEF AllocPage
    <3> QED BY <1>1, <1>2, <2>2, <3>1, AbandonKeeps
  <2> QED BY <2>1, <2>2
<1>4. CASE ~None
  <2>1. PICK h : h = Head(free)
    OBVIOUS
  <2>2. /\ kalloc1 /\ job' = [job EXCEPT !.pc = "enter", !.got = h]
        /\ UNCHANGED <<state, brk, stack, torn, kstack, space, pipes, giving, head, corrupt, panic>>
    BY <1>4, <2>1 DEF AllocPage, slotVars, pageVars, freeing
  <2>3. /\ CallsOn /\ Types /\ Slots /\ Job /\ SpaceMapped /\ Owners /\ job.give = {} /\ giving["mm"] = 0
        /\ job.call \in {"fork", "exec", "sbrk"}
        /\ job.call = "fork" => ForkSpace
        /\ job.call = "exec" => ExecSpace
        /\ job.call = "sbrk" => SbrkSpace
    BY <1>1, OnIs
  <2>4. /\ h \in Page /\ h # 0 /\ free' \in Seq(Page)
        /\ FreeSet(free) = FreeSet(free') \cup {h} /\ Apart(free') /\ h \notin FreeSet(free')
    BY <2>1, <2>2, <2>3, Kalloc DEF Owners
  <2>5. /\ job' \in Jobs /\ job'.pc = "enter" /\ job'.call = job.call /\ job'.p = job.p /\ job'.q = job.q
        /\ job'.at = job.at /\ job'.end = job.end /\ job'.size = job.size
        /\ job'.got = h /\ job'.give = job.give /\ job'.missed = job.missed
    BY <2>2, <2>3, <2>4 DEF Types, Jobs, Page0
  <2>6. Types'
    BY <2>2, <2>3, <2>4, <2>5 DEF Types
  <2>7. Slots' /\ SpaceMapped'
    BY <2>2, <2>3, <2>5 DEF Slots, SpaceMapped, Used, Reach, Mapped
  <2>8. Todo' # {} /\ (job.call # "fork" => job.at < job.end)
    <3>1. Todo' = Todo
      BY <2>2, <2>5 DEF Todo, CopyAll, Mapped
    <3>2. job.call # "fork" => job.at .. job.end - 1 # {}
      BY <1>1 DEF Todo
    <3>3. job.at \in Nat /\ job.end \in Nat
      BY <2>3, Facts, Sizes
    <3> QED BY <1>1, <3>1, <3>2, <3>3
  <2>9. Job'
    <3>1. Mapped(space[Nobody])' = Mapped(space[Nobody]) /\ Mapped(space[job.p])' = Mapped(space[job.p])
      BY <2>2, <2>5 DEF Mapped
    <3>2. job.call = "fork" => ForkSpace'
      BY <2>2, <2>3, <2>5, <2>8, <3>1 DEF ForkSpace
    <3>3. job.call = "exec" => ExecSpace'
      BY <2>2, <2>3, <2>5, <2>8, <3>1 DEF ExecSpace
    <3>4. job.call = "sbrk" => SbrkSpace'
      BY <2>2, <2>3, <2>5, <2>8 DEF SbrkSpace
    <3>5. job.call # "sbrk" => Tables(space[Nobody])'
      BY <1>1, <2>2, <2>3 DEF Job, Tables, Mapped
    <3> QED BY <2>2, <2>3, <2>4, <2>5, <3>2, <3>3, <3>4, <3>5 DEF Job, CallsOn
  <2>10. Sound(FreeSet(free'), space', kstack', job'.got, job'.give, pipes') /\ Kept
    <3>1. Sound(FreeSet(free), space, kstack, 0, {}, pipes)
      BY <1>2, <2>3 DEF Owners
    <3>2. /\ Sound(FreeSet(free'), space, kstack, h, {}, pipes)
          /\ \A x \in Page : Held(x, FreeSet(free), space, kstack, 0, {}, pipes)
                => Held(x, FreeSet(free'), space, kstack, h, {}, pipes)
      BY <2>4, <3>1, Take
    <3> QED BY <1>2, <2>2, <2>3, <2>5, <3>2 DEF Kept
  <2>11. Owners'
    BY <2>2, <2>3, <2>4, <2>10 DEF Owners
  <2> QED BY <2>6, <2>7, <2>9, <2>10, <2>11 DEF VInv, Loses
<1> QED BY <1>3, <1>4

-----------------------------------------------------------------------------
(* The page in hand is entered.                                            *)
LEMMA EnterAt ==
  ASSUME VInv, ~corrupt, job.pc = "enter", NEW v, v = Lowest(Todo)
  PROVE  /\ v \in Todo /\ v \in Vpage /\ \A w \in Todo : v <= w
         /\ Into \in Slot /\ (Into = Nobody \/ (Into = job.p /\ job.call = "sbrk"))
         /\ job.call # "fork" => v = job.at /\ job.at < job.end
         /\ job.call = "fork" => v \in Mapped(space[job.p]) /\ v >= job.at
         /\ v + 1 \in 0 .. KBASE /\ PDX(v) \in Table
<1>1. /\ CallsOn /\ job.at \in 0 .. KBASE /\ job.end \in 0 .. KBASE
      /\ job.call \in {"fork", "exec", "sbrk"}
      /\ job.call = "fork" => ForkSpace
      /\ job.call = "exec" => ExecSpace
      /\ job.call = "sbrk" => SbrkSpace
  BY OnIs, Facts DEF VInv
<1>2. Todo \subseteq Vpage
  BY <1>1, Sizes DEF Todo, CopyAll, Mapped, Vpage
<1>3. job.call # "fork" => job.at < job.end /\ job.at \in Todo
  BY <1>1, Sizes DEF ExecSpace, SbrkSpace, Todo
<1>4. Todo # {}
  BY <1>1, <1>3 DEF ForkSpace
<1>5. Todo \subseteq Nat
  BY <1>2, Sizes DEF Vpage
<1>6. v \in Todo /\ \A w \in Todo : v <= w
  <2>1. \E x \in Todo : \A w \in Todo : x <= w
    BY <1>4, <1>5, LeastNat
  <2> QED BY <2>1 DEF Lowest
<1>7. job.call # "fork" => v = job.at
  BY <1>1, <1>3, <1>5, <1>6, Sizes DEF Todo
<1>8. job.call = "fork" => v \in Mapped(space[job.p]) /\ v >= job.at
  BY <1>6 DEF Todo, CopyAll
<1>9. v \in Vpage /\ v + 1 \in 0 .. KBASE /\ PDX(v) \in Table
  <2>1. v \in Vpage
    BY <1>2, <1>6
  <2> QED BY <2>1, Sizes, TablesAre DEF Vpage
<1>10. Into \in Slot /\ (Into = Nobody \/ (Into = job.p /\ job.call = "sbrk"))
  <2>1. job.p \in Slot /\ Nobody \in Slot
    BY <1>1, Sizes DEF CallsOn
  <2> QED BY <2>1 DEF Into
<1> QED BY <1>3, <1>6, <1>7, <1>8, <1>9, <1>10

(* What mappages has done to the space.                                    *)
Entered(s, t, v) ==
    /\ t \in Spaces /\ t.dir = s.dir /\ t.kern = s.kern
    /\ Mapped(t) = Mapped(s) \cup {v} /\ t.tab[PDX(v)] # 0
    /\ \A i \in Table : s.tab[i] # 0 => t.tab[i] # 0

LEMMA EnteredIs ==
  ASSUME NEW s \in Spaces, NEW t \in Spaces, NEW v \in Vpage, NEW g \in Page, t.dir = s.dir, t.kern = s.kern,
         t.map = [s.map EXCEPT ![v] = g], t.tab[PDX(v)] # 0,
         \A i \in Table : s.tab[i] # 0 => t.tab[i] # 0
  PROVE  Entered(s, t, v)
<1>1. t.map[v] = g /\ g # 0 /\ \A w \in Vpage : w # v => t.map[w] = s.map[w]
  BY Sizes DEF Spaces
<1>2. Mapped(t) = Mapped(s) \cup {v}
  BY <1>1 DEF Mapped
<1> QED BY <1>2 DEF Entered

LEMMA EnterOwners ==
  ASSUME VInv, EnterPage
  PROVE  /\ Owners' /\ Kept /\ free' \in Seq(Page) /\ space' \in [Slot -> Spaces]
         /\ Entered(space[Into], space'[Into], Lowest(Todo))
         /\ \A r \in Slot : r # Into => space'[r] = space[r]
<1>1. PICK v, n, s, g, i : v = Lowest(Todo) /\ n = Into /\ s = space[n] /\ g = job.got /\ i = PDX(v)
  OBVIOUS
<1>2. /\ ~corrupt /\ job.pc = "enter" /\ s.map[v] = 0
      /\ IF s.tab[i] # 0 THEN UNCHANGED free ELSE kalloc1
      /\ space' = [space EXCEPT ![n] = [Tabled(s, i) EXCEPT !.map[v] = g]]
      /\ job' = [job EXCEPT !.pc = "alloc", !.at = v + 1, !.got = 0]
      /\ UNCHANGED <<kstack, pipes, giving>>
  BY <1>1 DEF EnterPage, At, Runs, freeing
<1>3. v \in Vpage /\ n \in Slot /\ i \in Table
  BY <1>1, <1>2, EnterAt
<1>4. /\ Types /\ Owners /\ job.give = {} /\ giving["mm"] = 0 /\ g # 0 /\ g \in Page
      /\ Arrays(space, kstack) /\ 0 \notin FreeSet(free) /\ 0 \notin pipes /\ 0 \notin {}
      /\ Sound(FreeSet(free), space, kstack, g, {}, pipes)
  <2>1. /\ Types /\ Owners /\ job.give = {} /\ giving["mm"] = 0 /\ Job
    BY <1>2, OnIs
  <2> QED BY <1>1, <1>2, <2>1, Facts DEF Job, Owners, Page0
<1>5. Tidy(s) /\ s \in Spaces /\ g \notin freevm(s)
  BY <1>1, <1>3, <1>4 DEF Sound, Tidy
<1>6. job'.got = 0 /\ job'.give = {}
  BY <1>2, <1>4 DEF Types, Jobs
<1>7. PICK u, t : u = WithMap(s, v, g) /\ t = [Tabled(s, i) EXCEPT !.map[v] = g]
  OBVIOUS
<1>8. /\ Tidy(u) /\ freevm(u) = freevm(s) \cup {g}
      /\ u.dir = s.dir /\ u.kern = s.kern /\ u.tab = s.tab /\ u.map = [s.map EXCEPT ![v] = g]
  BY <1>2, <1>3, <1>4, <1>5, <1>7, PutMap
<1>9. PICK sp : sp = [space EXCEPT ![n] = u]
  OBVIOUS
<1>10. /\ Sound(FreeSet(free), sp, kstack, 0, {}, pipes) /\ Arrays(sp, kstack)
       /\ \A x \in Page : Held(x, FreeSet(free), space, kstack, g, {}, pipes)
             => Held(x, FreeSet(free), sp, kstack, 0, {}, pipes)
  BY <1>1, <1>3, <1>4, <1>8, <1>9, PutSpace
<1>11. CASE s.tab[i] # 0
  <2>1. t = u /\ space' = sp /\ free' = free
    BY <1>2, <1>7, <1>9, <1>11 DEF Tabled, WithMap
  <2>2. space'[n] = t /\ \A r \in Slot : r # n => space'[r] = space[r]
    BY <1>2, <1>3, <1>4, <1>7 DEF Arrays
  <2>3. Entered(s, t, v)
    BY <1>1, <1>3, <1>4, <1>5, <1>8, <1>11, <2>1, EnteredIs DEF Tidy
  <2>4. Owners' /\ Kept
    BY <1>1, <1>2, <1>4, <1>6, <1>10, <2>1 DEF Owners, Kept
  <2> QED BY <1>1, <1>4, <1>10, <2>1, <2>2, <2>3, <2>4 DEF Arrays, Types
<1>12. CASE s.tab[i] = 0
  <2>1. PICK h, w : h = Head(free) /\ w = WithTab(s, i, h)
    OBVIOUS
  <2>2. /\ kalloc1 /\ h \in Page /\ h # g /\ h # 0 /\ h \notin freevm(s)
    BY <1>1, <1>2, <1>3, <1>4, <1>12, <2>1, TakenApart, Sizes
  <2>3. /\ Tidy(w) /\ freevm(w) = freevm(s) \cup {h}
        /\ w.dir = s.dir /\ w.kern = s.kern /\ w.map = s.map /\ w.tab = [s.tab EXCEPT ![i] = h]
    BY <1>3, <1>5, <1>12, <2>1, <2>2, PutTab
  <2>4. t = WithMap(w, v, g)
    BY <1>7, <1>12, <2>1 DEF Tabled, WithTab, WithMap
  <2>5. /\ Tidy(t) /\ freevm(t) = freevm(w) \cup {g}
        /\ t.dir = w.dir /\ t.kern = w.kern /\ t.tab = w.tab /\ t.map = [w.map EXCEPT ![v] = g]
    <3>1. w.map[v] = 0 /\ g \notin freevm(w)
      BY <1>2, <1>5, <2>2, <2>3
    <3> QED BY <1>3, <1>4, <2>3, <2>4, <3>1, PutMap
  <2>6. freevm(t) = freevm(sp[n]) \cup {h} /\ sp[n] = u
    BY <1>3, <1>4, <1>8, <1>9, <2>3, <2>5 DEF Arrays
  <2>7. space' = [sp EXCEPT ![n] = t]
    BY <1>2, <1>3, <1>4, <1>7, <1>9 DEF Arrays
  <2>8. /\ free' \in Seq(Page) /\ FreeSet(free) = FreeSet(free') \cup {h} /\ h \notin FreeSet(free')
        /\ Apart(free') /\ 0 \notin FreeSet(free')
    BY <1>4, <2>1, <2>2, Kalloc DEF Owners
  <2>9. /\ Sound(FreeSet(free'), sp, kstack, h, {}, pipes)
        /\ \A x \in Page : Held(x, FreeSet(free), sp, kstack, 0, {}, pipes)
              => Held(x, FreeSet(free'), sp, kstack, h, {}, pipes)
    BY <1>10, <2>2, <2>8, Take
  <2>10. /\ Sound(FreeSet(free'), space', kstack, 0, {}, pipes) /\ Arrays(space', kstack)
         /\ \A x \in Page : Held(x, FreeSet(free'), sp, kstack, h, {}, pipes)
               => Held(x, FreeSet(free'), space', kstack, 0, {}, pipes)
    BY <1>3, <1>4, <1>10, <2>2, <2>5, <2>6, <2>7, <2>8, <2>9, PutSpace
  <2>11. space'[n] = t /\ \A r \in Slot : r # n => space'[r] = space[r]
    BY <1>2, <1>3, <1>4, <1>7 DEF Arrays
  <2>12. t.tab[i] = h /\ \A j \in Table : j # i => t.tab[j] = s.tab[j]
    BY <1>3, <1>5, <2>3, <2>5 DEF Spaces
  <2>13. Entered(s, t, v)
    <3>1. \A j \in Table : s.tab[j] # 0 => t.tab[j] # 0
      BY <1>12, <2>12
    <3>2. t \in Spaces /\ t.map = [s.map EXCEPT ![v] = g] /\ t.dir = s.dir /\ t.kern = s.kern
      BY <2>3, <2>5 DEF Tidy
    <3> QED BY <1>1, <1>3, <1>4, <1>5, <2>2, <2>12, <3>1, <3>2, EnteredIs
  <2>14. Owners' /\ Kept
    BY <1>1, <1>2, <1>4, <1>6, <1>10, <2>8, <2>9, <2>10 DEF Owners, Kept
  <2> QED BY <1>1, <2>8, <2>10, <2>11, <2>13, <2>14 DEF Arrays
<1> QED BY <1>11, <1>12

LEMMA EnterPageKeeps == ASSUME VInv, EnterPage PROVE VInv' /\ Loses
<1>1. PICK v, n, t : v = Lowest(Todo) /\ n = Into /\ t = space'[n]
  OBVIOUS
<1>2. /\ ~corrupt /\ job.pc = "enter" /\ job' = [job EXCEPT !.pc = "alloc", !.at = v + 1, !.got = 0]
      /\ UNCHANGED <<state, brk, stack, torn, kstack, pipes, giving, head, corrupt, panic>>
  BY <1>1 DEF EnterPage, At, Runs, slotVars, freeing
<1>3. /\ Owners' /\ Kept /\ free' \in Seq(Page) /\ space' \in [Slot -> Spaces]
      /\ Entered(space[n], t, v) /\ \A r \in Slot : r # n => space'[r] = space[r]
  BY <1>1, EnterOwners
<1>4. /\ CallsOn /\ Types /\ Slots /\ Job /\ SpaceMapped /\ job.give = {}
      /\ job.call \in {"fork", "exec", "sbrk"}
      /\ job.call = "fork" => ForkSpace
      /\ job.call = "exec" => ExecSpace
      /\ job.call = "sbrk" => SbrkSpace
  BY <1>2, OnIs
<1>5. /\ v \in Todo /\ v \in Vpage /\ \A w \in Todo : v <= w
      /\ n \in Slot /\ (n = Nobody \/ (n = job.p /\ job.call = "sbrk"))
      /\ job.call # "fork" => v = job.at /\ job.at < job.end
      /\ job.call = "fork" => v \in Mapped(space[job.p]) /\ v >= job.at
      /\ v + 1 \in 0 .. KBASE /\ PDX(v) \in Table
  BY <1>1, <1>2, EnterAt
<1>6. /\ job' \in Jobs /\ job'.pc = "alloc" /\ job'.call = job.call /\ job'.p = job.p /\ job'.q = job.q
      /\ job'.at = v + 1 /\ job'.end = job.end /\ job'.size = job.size
      /\ job'.got = 0 /\ job'.give = {} /\ job'.missed = job.missed
  BY <1>2, <1>4, <1>5 DEF Types, Jobs, Page0
<1>7. Types'
  BY <1>2, <1>3, <1>4, <1>6 DEF Types
<1>8. /\ job.at \in Nat /\ job.end \in Nat /\ job.size \in Nat /\ v \in Nat /\ KBASE \in Nat
      /\ job.at \in 0 .. KBASE /\ job.end \in 0 .. KBASE /\ job.size \in 0 .. KBASE
  BY <1>4, <1>5, Facts, Sizes DEF Vpage
<1>9. (job.call = "sbrk" /\ n = job.p) \/ (job.call # "sbrk" /\ n = Nobody)
  BY <1>1 DEF Into
<1>10. CASE job.call = "sbrk"
  <2>1. n = job.p /\ n # Nobody /\ n \in Procs
    BY <1>4, <1>9, <1>10 DEF CallsOn
  <2>2. SbrkSpace'
    BY <1>2, <1>3, <1>4, <1>5, <1>6, <1>8, <1>10, <2>1, Sizes DEF SbrkSpace, Types
  <2>3. Job'
    BY <1>2, <1>4, <1>6, <1>10, <2>2 DEF Job, CallsOn
  <2>4. Slots'
    BY <1>2, <1>3, <1>4, <2>1, Sizes DEF Slots, CallsOn
  <2>5. ASSUME NEW r \in (Used \ torn)', r # n
        PROVE  r \in Used \ torn /\ Reach(r)' = Reach(r) /\ space'[r] = space[r]
    BY <1>2, <1>3, <1>6, <1>10, <2>1, <2>5, Sizes DEF Used, Reach
  <2>6. ASSUME n \in Used \ torn
        PROVE  /\ Mapped(t) = (0 .. v) \cup (IF stack[n] THEN {KBASE - 2, KBASE - 1} ELSE {})
               /\ \A w \in Mapped(t) : t.tab[PDX(w)] # 0
               /\ t.dir # 0 /\ t.kern # 0 /\ kstack[n] # 0
    <3>1. Reach(n) = v
      BY <1>5, <1>10, <2>1 DEF Reach
    <3>2. /\ Mapped(space[n]) = (0 .. v - 1) \cup (IF stack[n] THEN {KBASE - 2, KBASE - 1} ELSE {})
          /\ \A w \in Mapped(space[n]) : space[n].tab[PDX(w)] # 0
          /\ space[n].dir # 0 /\ space[n].kern # 0 /\ kstack[n] # 0
      BY <1>4, <2>6, <3>1 DEF SpaceMapped
    <3>3. (0 .. v - 1) \cup {v} = 0 .. v
      BY <1>8
    <3>4. \A w \in Vpage : PDX(w) \in Table
      BY TablesAre
    <3>5. \A w \in Mapped(t) : t.tab[PDX(w)] # 0
      BY <1>3, <3>2, <3>4 DEF Entered, Mapped
    <3> QED BY <1>3, <3>2, <3>3, <3>5 DEF Entered
  <2>7. SpaceMapped'
    <3>1. Reach(n)' - 1 = v
      BY <1>6, <1>8, <1>10, <2>1 DEF Reach
    <3>2. n \in (Used \ torn)' => n \in Used \ torn
      BY <1>2 DEF Used
    <3>3. ASSUME NEW r \in (Used \ torn)', r # n
          PROVE  /\ Mapped(space'[r]) = (0 .. Reach(r)' - 1)
                        \cup (IF stack'[r] THEN {KBASE - 2, KBASE - 1} ELSE {})
                 /\ \A w \in Mapped(space'[r]) : space'[r].tab[PDX(w)] # 0
                 /\ space'[r].dir # 0 /\ space'[r].kern # 0 /\ kstack'[r] # 0
      BY <1>2, <1>4, <2>5, <3>3 DEF SpaceMapped
    <3>4. ASSUME n \in (Used \ torn)'
          PROVE  /\ Mapped(space'[n]) = (0 .. Reach(n)' - 1)
                        \cup (IF stack'[n] THEN {KBASE - 2, KBASE - 1} ELSE {})
                 /\ \A w \in Mapped(space'[n]) : space'[n].tab[PDX(w)] # 0
                 /\ space'[n].dir # 0 /\ space'[n].kern # 0 /\ kstack'[n] # 0
      BY <1>1, <1>2, <2>6, <3>1, <3>2, <3>4
    <3> QED BY <3>3, <3>4 DEF SpaceMapped, Mapped
  <2> QED BY <1>3, <1>7, <2>3, <2>4, <2>7 DEF VInv, Loses
<1>11. CASE job.call # "sbrk"
  <2>1. n = Nobody /\ \A r \in Procs : space'[r] = space[r]
    BY <1>3, <1>9, <1>11, Sizes
  <2>2. Slots' /\ SpaceMapped'
    BY <1>2, <1>4, <1>6, <1>11, <2>1, SpacesStay DEF slotVars
  <2>3. /\ Mapped(space[Nobody])' = Mapped(space[Nobody]) \cup {v}
        /\ Mapped(space[job.p])' = Mapped(space[job.p])
    BY <1>1, <1>3, <1>4, <1>6, <2>1 DEF Entered, Mapped, CallsOn
  <2>4. Tables(space[Nobody])'
    <3>1. Tables(space[Nobody]) /\ \A w \in Vpage : PDX(w) \in Table
      BY <1>2, <1>4, <1>11, TablesAre DEF Job
    <3>2. t = space'[Nobody] /\ Mapped(t) = Mapped(space[Nobody]) \cup {v}
      BY <1>1, <1>3, <2>1 DEF Entered
    <3>3. \A w \in Mapped(t) : t.tab[PDX(w)] # 0
      BY <1>3, <2>1, <3>1, <3>2 DEF Entered, Mapped, Tables
    <3> QED BY <1>3, <2>1, <3>1, <3>2, <3>3 DEF Entered, Tables, Mapped
  <2>5. job.call = "fork" => ForkSpace'
    <3>1. ASSUME job.call = "fork"
          PROVE  Mapped(space[Nobody]) \cup {v} = {w \in Mapped(space[job.p]) : w < v + 1}
      <4>1. Mapped(space[Nobody]) = {w \in Mapped(space[job.p]) : w < job.at} /\ v \in Mapped(space[job.p])
            /\ v >= job.at
        BY <1>4, <1>5, <3>1 DEF ForkSpace
      <4>2. \A w \in Mapped(space[job.p]) : w \in Nat /\ (w >= job.at => v <= w)
        BY <1>5, <3>1, Sizes DEF Todo, CopyAll, Mapped, Vpage
      <4>3. \A w \in Mapped(space[job.p]) : w < v + 1 <=> w < job.at \/ w = v
        <5>1. ASSUME NEW w \in Mapped(space[job.p]) PROVE w < v + 1 <=> w < job.at \/ w = v
          <6>1. w \in Nat /\ (w >= job.at => v <= w) /\ v >= job.at
            BY <4>1, <4>2
          <6> QED BY <1>8, <6>1
        <5> QED BY <5>1
      <4> QED BY <4>1, <4>3
    <3> QED BY <1>2, <1>4, <1>6, <2>3, <3>1 DEF ForkSpace
  <2>6. job.call = "exec" => ExecSpace'
    <3>1. ASSUME job.call = "exec" PROVE ExecSpace'
      <4>1. /\ kstack[Nobody] = 0 /\ job.at < job.end /\ job.size <= KBASE - 2 /\ v = job.at
            /\ job.end = job.size \/ (job.end = KBASE /\ job.at >= KBASE - 2)
            /\ ~job.missed =>
                  Mapped(space[Nobody])
                      = IF job.end = KBASE THEN (0 .. job.size - 1) \cup (KBASE - 2 .. job.at - 1)
                                          ELSE 0 .. job.at - 1
        BY <1>4, <1>5, <3>1 DEF ExecSpace
      <4>2. /\ (0 .. v - 1) \cup {v} = 0 .. v
            /\ v + 1 - 1 = v /\ v + 1 <= job.end
            /\ v >= KBASE - 2 => (KBASE - 2 .. v - 1) \cup {v} = KBASE - 2 .. v
        BY <1>8, <4>1
      <4>3. /\ ~job.missed =>
                  Mapped(space[Nobody])' = IF job.end = KBASE THEN (0 .. job.size - 1) \cup (KBASE - 2 .. v)
                                           ELSE 0 .. v
        <5>1. job.end = KBASE => v >= KBASE - 2
          BY <1>8, <4>1
        <5> QED BY <2>3, <4>1, <4>2, <5>1
      <4>4. job.end = KBASE => v + 1 >= KBASE - 2
        BY <1>8, <4>1
      <4>5. job'.at - 1 = v /\ job'.at <= job'.end /\ job'.size <= KBASE - 2
            /\ (job'.end = job'.size \/ (job'.end = KBASE /\ job'.at >= KBASE - 2))
        BY <1>6, <1>8, <4>1, <4>2, <4>4
      <4>6. kstack'[Nobody] = 0 /\ job'.pc # "enter"
        BY <1>2, <1>6, <4>1
      <4> QED BY <1>6, <4>3, <4>5, <4>6 DEF ExecSpace
    <3> QED BY <3>1
  <2>7. Job'
    BY <1>2, <1>4, <1>6, <1>11, <2>4, <2>5, <2>6 DEF Job, CallsOn
  <2> QED BY <1>3, <1>7, <2>2, <2>7 DEF VInv, Loses
<1> QED BY <1>10, <1>11

LEMMA EnterMissedKeeps == ASSUME VInv, EnterMissed PROVE VInv' /\ Loses
<1>1. PICK v : v = Lowest(Todo)
  OBVIOUS
<1>2. /\ ~corrupt /\ job.pc = "enter" /\ None
  BY DEF EnterMissed, At, Runs
<1>3. CASE job.call = "fork"
  <2>1. Abandon(space[Nobody])
    BY <1>3 DEF EnterMissed
  <2> QED BY <1>2, <1>3, <2>1, AbandonKeeps
<1>4. CASE job.call # "fork"
  <2>1. /\ job' = [job EXCEPT !.pc = "alloc", !.at = v + 1, !.got = 0, !.missed = TRUE]
        /\ torn' = IF job.call = "sbrk" THEN torn \cup {job.p} ELSE torn
        /\ UNCHANGED <<free, state, brk, stack, kstack, space, pipes, giving, head, corrupt, panic>>
    BY <1>1, <1>4 DEF EnterMissed, pageVars, freeing
  <2>2. /\ CallsOn /\ Types /\ Slots /\ Job /\ SpaceMapped /\ Owners /\ job.give = {} /\ giving["mm"] = 0
        /\ job.call \in {"fork", "exec", "sbrk"}
        /\ job.call = "exec" => ExecSpace
        /\ job.call = "sbrk" => SbrkSpace
    BY <1>2, OnIs
  <2>3. /\ v = job.at /\ job.at < job.end /\ v + 1 \in 0 .. KBASE
    BY <1>1, <1>2, <1>4, EnterAt
  <2>4. /\ job' \in Jobs /\ job'.pc = "alloc" /\ job'.call = job.call /\ job'.p = job.p /\ job'.q = job.q
        /\ job'.at = v + 1 /\ job'.end = job.end /\ job'.size = job.size
        /\ job'.got = 0 /\ job'.give = {} /\ job'.missed
    BY <2>1, <2>2, <2>3 DEF Types, Jobs, Page0
  <2>5. Types' /\ Slots'
    BY <2>1, <2>2, <2>4 DEF Types, Slots, CallsOn
  <2>6. /\ job.at \in Nat /\ job.end \in Nat /\ job.size \in Nat /\ KBASE \in Nat
    BY <2>2, Facts, Sizes
  <2>7. job.call = "exec" => ExecSpace'
    BY <2>1, <2>2, <2>3, <2>4, <2>6 DEF ExecSpace
  <2>8. job.call = "sbrk" => SbrkSpace'
    <3>1. brk[job.p] \in Nat
      BY <2>2, Sizes DEF Types, CallsOn
    <3> QED BY <2>1, <2>2, <2>3, <2>4, <2>6, <3>1 DEF SbrkSpace
  <2>9. Job'
    <3>1. job.call = "exec" => Tables(space[Nobody])'
      BY <1>2, <2>1, <2>2 DEF Job, Tables, Mapped
    <3> QED BY <1>4, <2>1, <2>2, <2>4, <2>7, <2>8, <3>1 DEF Job, CallsOn
  <2>10. ASSUME NEW r \in (Used \ torn)' PROVE r \in Used \ torn /\ Reach(r)' = Reach(r)
    BY <2>1, <2>2, <2>4 DEF Used, Reach
  <2>11. SpaceMapped'
    BY <2>1, <2>2, <2>10 DEF SpaceMapped, Mapped
  <2>12. Owners'
    <3>1. Sound(FreeSet(free), space, kstack, 0, {}, pipes)
      <4>1. 0 \notin FreeSet(free) /\ 0 \notin pipes /\ 0 \notin {}
        BY <2>2, Facts
      <4>2. Sound(FreeSet(free), space, kstack, job.got, {}, pipes)
        BY <2>2 DEF Owners
      <4> QED BY <4>1, <4>2, Drop
    <3> QED BY <2>1, <2>2, <2>4, <3>1 DEF Owners
  <2> QED BY <1>2, <2>1, <2>5, <2>9, <2>11, <2>12 DEF VInv, Loses, None
<1> QED BY <1>3, <1>4

LEMMA EnterRemapKeeps == ASSUME VInv, EnterRemap PROVE VInv' /\ Loses
BY PanicKeeps DEF EnterRemap, At, Runs

-----------------------------------------------------------------------------
(* The calls end.                                                          *)
LEMMA DoneIs ==
  ASSUME VInv, NEW c \in {"fork", "exec", "sbrk"}, Done(c)
  PROVE  /\ ~corrupt /\ job.pc = "alloc" /\ Todo = {} /\ job.call = c
         /\ CallsOn /\ Types /\ Slots /\ Job /\ SpaceMapped /\ Owners /\ job.give = {} /\ giving["mm"] = 0
         /\ job.got = 0 /\ Nobody \in Slot /\ (c # "sbrk" => Tables(space[Nobody]))
         /\ Arrays(space, kstack) /\ 0 \notin FreeSet(free) /\ 0 \notin pipes /\ 0 \notin {}
         /\ Sound(FreeSet(free), space, kstack, 0, {}, pipes)
         /\ job.at \in Nat /\ job.end \in Nat /\ job.size \in Nat /\ KBASE \in Nat
         /\ job.end \in 0 .. KBASE /\ job.size \in 0 .. KBASE
         /\ c # "fork" => job.end <= job.at
<1>1. ~corrupt /\ job.pc = "alloc" /\ Todo = {} /\ job.call = c
  BY DEF Done, At, Runs
<1>2. /\ CallsOn /\ Types /\ Slots /\ Job /\ SpaceMapped /\ Owners /\ job.give = {} /\ giving["mm"] = 0
      /\ job.got = 0 /\ Nobody \in Slot /\ (c # "sbrk" => Tables(space[Nobody]))
  BY <1>1, OnIs DEF Job
<1>3. /\ Arrays(space, kstack) /\ 0 \notin FreeSet(free) /\ 0 \notin pipes /\ 0 \notin {}
      /\ job.at \in Nat /\ job.end \in Nat /\ job.size \in Nat /\ KBASE \in Nat
      /\ job.end \in 0 .. KBASE /\ job.size \in 0 .. KBASE
  BY <1>2, Facts, Sizes
<1>4. Sound(FreeSet(free), space, kstack, 0, {}, pipes)
  BY <1>2 DEF Owners
<1>5. ASSUME c # "fork" PROVE job.end <= job.at
  <2>1. job.at .. job.end - 1 = {}
    BY <1>1, <1>5 DEF Todo
  <2>2. job.at <= job.end - 1 => job.at \in job.at .. job.end - 1
    BY <1>3
  <2> QED BY <1>3, <2>1, <2>2
<1> QED BY <1>1, <1>2, <1>3, <1>4, <1>5

LEMMA ForkDoneKeeps == ASSUME VInv, ForkDone PROVE VInv' /\ Loses
<1>1. PICK p, q : p = job.p /\ q = job.q
  OBVIOUS
<1>2. /\ Done("fork") /\ state' = [state EXCEPT ![q] = "live"]
      /\ kstack' = [kstack EXCEPT ![q] = kstack[Nobody], ![Nobody] = 0]
      /\ space' = [space EXCEPT ![q] = space[Nobody], ![Nobody] = NoSpace]
      /\ brk' = [brk EXCEPT ![q] = brk[p]] /\ stack' = [stack EXCEPT ![q] = stack[p]]
      /\ torn' = IF p \in torn THEN torn \cup {q} ELSE torn
      /\ job' = Idle /\ UNCHANGED <<free, pipes, giving, head, corrupt, panic>>
  BY <1>1 DEF ForkDone, freeing
<1>3. /\ ~corrupt /\ job.pc = "alloc" /\ Todo = {} /\ job.call = "fork"
      /\ CallsOn /\ Types /\ Slots /\ Job /\ SpaceMapped /\ Owners /\ job.give = {} /\ giving["mm"] = 0
      /\ job.got = 0 /\ Nobody \in Slot /\ Tables(space[Nobody])
      /\ Arrays(space, kstack) /\ 0 \notin FreeSet(free) /\ 0 \notin pipes /\ 0 \notin {}
      /\ Sound(FreeSet(free), space, kstack, 0, {}, pipes)
  BY <1>2, DoneIs
<1>4. /\ q \in Procs /\ q # p /\ state[q] = "unused" /\ kstack[Nobody] # 0 /\ p \in Procs
      /\ Mapped(space[Nobody]) = {v \in Mapped(space[p]) : v < job.at}
  BY <1>1, <1>3, OnIs DEF ForkSpace, CallsOn
<1>5. q \in Slot /\ q # Nobody /\ p # Nobody /\ p \in Slot /\ space[q] = NoSpace /\ kstack[q] = 0
  BY <1>3, <1>4, Sizes DEF Slots
<1>6. /\ Sound(FreeSet(free), space', kstack, 0, {}, pipes) /\ Arrays(space', kstack)
      /\ \A x \in Page : Held(x, FreeSet(free), space, kstack, 0, {}, pipes)
            => Held(x, FreeSet(free), space', kstack, 0, {}, pipes)
  <2>1. freevm(space[q]) = {} /\ Nobody # q
    BY <1>5, NoSpaceIs
  <2> QED BY <1>2, <1>3, <1>5, <2>1, MoveSpace
<1>7. /\ Sound(FreeSet(free), space', kstack', 0, {}, pipes) /\ Arrays(space', kstack')
      /\ \A x \in Page : Held(x, FreeSet(free), space', kstack, 0, {}, pipes)
            => Held(x, FreeSet(free), space', kstack', 0, {}, pipes)
  BY <1>2, <1>3, <1>5, <1>6, MoveStack
<1>8. /\ kstack'[Nobody] = 0 /\ space'[Nobody] = NoSpace
      /\ kstack'[q] = kstack[Nobody] /\ space'[q] = space[Nobody]
      /\ \A r \in Procs : r # q => kstack'[r] = kstack[r] /\ space'[r] = space[r]
  BY <1>2, <1>3, <1>5, Sizes DEF Arrays
<1>9. /\ Job' /\ job' \in Jobs /\ job'.got = 0 /\ job'.give = {} /\ job'.call = "none"
  BY <1>2, <1>8, GiveNone, JobOver
<1>10. Types'
  BY <1>2, <1>3, <1>4, <1>7, <1>9 DEF Types, Arrays
<1>11. Slots'
  <2>1. state'[q] = "live" /\ kstack'[q] # 0
    BY <1>2, <1>3, <1>4, <1>8 DEF Types
  <2>2. \A r \in Procs : r # q => state'[r] = state[r] /\ space'[r] = space[r] /\ kstack'[r] = kstack[r]
    BY <1>2, <1>3, <1>8 DEF Types
  <2> QED BY <1>3, <2>1, <2>2 DEF Slots
<1>12. Mapped(space[Nobody]) = Mapped(space[p])
  <2>1. \A v \in Mapped(space[p]) : v \in Nat /\ ~(v >= job.at)
    BY <1>1, <1>3, Sizes DEF Todo, CopyAll, Mapped, Vpage
  <2>2. job.at \in Nat
    BY <1>3, Facts, Sizes
  <2>3. \A v \in Mapped(space[p]) : v < job.at
    BY <2>1, <2>2
  <2> QED BY <1>4, <2>3
<1>13. SpaceMapped'
  <2>1. ASSUME NEW r \in (Used \ torn)', r # q
        PROVE  /\ Mapped(space'[r]) = (0 .. Reach(r)' - 1)
                      \cup (IF stack'[r] THEN {KBASE - 2, KBASE - 1} ELSE {})
               /\ \A w \in Mapped(space'[r]) : space'[r].tab[PDX(w)] # 0
               /\ space'[r].dir # 0 /\ space'[r].kern # 0 /\ kstack'[r] # 0
    <3>1. r \in Used \ torn /\ r \in Procs /\ Reach(r)' = Reach(r) /\ stack'[r] = stack[r]
      BY <1>2, <1>3, <1>9, <2>1 DEF Used, Reach, Types
    <3> QED BY <1>3, <1>8, <2>1, <3>1 DEF SpaceMapped
  <2>2. ASSUME q \in (Used \ torn)'
        PROVE  /\ Mapped(space'[q]) = (0 .. Reach(q)' - 1)
                      \cup (IF stack'[q] THEN {KBASE - 2, KBASE - 1} ELSE {})
               /\ \A w \in Mapped(space'[q]) : space'[q].tab[PDX(w)] # 0
               /\ space'[q].dir # 0 /\ space'[q].kern # 0 /\ kstack'[q] # 0
    <3>1. p \in Used \ torn
      BY <1>1, <1>2, <1>3, <1>4, <2>2 DEF Used, CallsOn
    <3>2. Reach(q)' = Reach(p) /\ stack'[q] = stack[p]
      BY <1>2, <1>3, <1>4, <1>9 DEF Reach, Types
    <3>3. Mapped(space[p]) = (0 .. Reach(p) - 1) \cup (IF stack[p] THEN {KBASE - 2, KBASE - 1} ELSE {})
      BY <1>3, <3>1 DEF SpaceMapped
    <3> QED BY <1>3, <1>4, <1>8, <1>12, <3>2, <3>3 DEF Tables
  <2> QED BY <2>1, <2>2 DEF SpaceMapped, Mapped
<1>14. Owners' /\ Kept
  BY <1>2, <1>3, <1>6, <1>7, <1>9 DEF Owners, Kept
<1> QED BY <1>9, <1>10, <1>11, <1>13, <1>14 DEF VInv, Loses

LEMMA ExecLoadsKeeps == ASSUME VInv, ExecLoads PROVE VInv' /\ Loses
<1>1. Done("exec") /\ job.end # KBASE
  BY DEF ExecLoads, Loaded
<1>2. /\ ~corrupt /\ job.pc = "alloc" /\ Todo = {} /\ job.call = "exec"
      /\ CallsOn /\ Types /\ Slots /\ Job /\ SpaceMapped /\ Owners /\ job.give = {} /\ giving["mm"] = 0
      /\ job.got = 0 /\ Tables(space[Nobody]) /\ job.end <= job.at
      /\ job.at \in Nat /\ job.end \in Nat /\ job.size \in Nat /\ KBASE \in Nat
      /\ job.size \in 0 .. KBASE
  BY <1>1, DoneIs
<1>3. CASE Panics
  BY <1>2, <1>3, PanicKeeps
<1>4. CASE ~Panics
  <2>1. /\ job' = [job EXCEPT !.at = KBASE - 2, !.end = KBASE]
        /\ UNCHANGED <<free, state, brk, stack, torn, kstack, space, pipes, giving, head, corrupt, panic>>
    BY <1>4 DEF ExecLoads, slotVars, pageVars, freeing
  <2>2. ExecSpace
    BY <1>2, OnIs
  <2>3. /\ kstack[Nobody] = 0 /\ job.size <= KBASE - 2 /\ job.at = job.size
        /\ ~job.missed => Mapped(space[Nobody]) = 0 .. job.size - 1
    BY <1>1, <1>2, <2>2 DEF ExecSpace
  <2>4. KBASE - 2 \in 0 .. KBASE /\ KBASE \in 0 .. KBASE
    BY <1>2, <2>3
  <2>5. /\ job' \in Jobs /\ job'.pc = "alloc" /\ job'.call = job.call /\ job'.p = job.p /\ job'.q = job.q
        /\ job'.at = KBASE - 2 /\ job'.end = KBASE /\ job'.size = job.size
        /\ job'.got = 0 /\ job'.give = {} /\ job'.missed = job.missed
    BY <1>2, <2>1, <2>4, Sizes DEF Types, Jobs
  <2>6. Types' /\ Owners' /\ Kept /\ Slots'
    BY <1>2, <2>1, <2>5 DEF Types, Owners, Kept, Slots
  <2>7. ExecSpace'
    <3>1. (0 .. job.size - 1) \cup (KBASE - 2 .. (KBASE - 2) - 1) = 0 .. job.size - 1
      BY <1>2
    <3>2. Mapped(space[Nobody])' = Mapped(space[Nobody])
      BY <2>1 DEF Mapped
    <3>3. job'.at <= job'.end /\ job'.at >= KBASE - 2 /\ job'.pc # "enter"
      BY <1>2, <2>5
    <3>4. ~job'.missed => Mapped(space[Nobody])' = (0 .. job'.size - 1) \cup (KBASE - 2 .. job'.at - 1)
      BY <2>3, <2>5, <3>1, <3>2
    <3> QED BY <2>1, <2>3, <2>5, <3>3, <3>4 DEF ExecSpace
  <2>8. Job'
    <3>1. Tables(space[Nobody])'
      BY <1>2, <2>1 DEF Tables, Mapped
    <3> QED BY <1>2, <2>1, <2>5, <2>7, <3>1 DEF Job, CallsOn
  <2>9. SpaceMapped'
    BY <1>2, <2>1, <2>5 DEF SpaceMapped, Used, Reach, Mapped
  <2> QED BY <2>6, <2>8, <2>9 DEF VInv, Loses
<1> QED BY <1>3, <1>4

LEMMA ExecDoneKeeps == ASSUME VInv, ExecDone PROVE VInv' /\ Loses
<1>1. PICK p, G : p = job.p /\ G = freevm(space[p])
  OBVIOUS
<1>2. /\ Done("exec") /\ job.end = KBASE
      /\ space' = [space EXCEPT ![p] = space[Nobody], ![Nobody] = NoSpace]
      /\ brk' = [brk EXCEPT ![p] = job.size] /\ stack' = [stack EXCEPT ![p] = TRUE]
      /\ torn' = IF job.missed THEN torn \cup {p} ELSE torn \ {p}
      /\ job' = GiveAll(G) /\ UNCHANGED <<free, state, kstack, pipes, giving, head, corrupt, panic>>
  BY <1>1 DEF ExecDone, Loaded, freeing, Replaced
<1>3. /\ ~corrupt /\ job.pc = "alloc" /\ Todo = {} /\ job.call = "exec"
      /\ CallsOn /\ Types /\ Slots /\ Job /\ SpaceMapped /\ Owners /\ job.give = {} /\ giving["mm"] = 0
      /\ job.got = 0 /\ Nobody \in Slot /\ Tables(space[Nobody])
      /\ Arrays(space, kstack)
      /\ Sound(FreeSet(free), space, kstack, 0, {}, pipes)
      /\ job.end <= job.at /\ job.at \in Nat /\ job.size \in Nat /\ KBASE \in Nat /\ job.size \in 0 .. KBASE
  BY <1>2, DoneIs
<1>4. p \in Procs /\ p \in Slot /\ p # Nobody /\ state[p] = "live" /\ kstack[p] # 0
  BY <1>1, <1>3 DEF CallsOn, Slots
<1>5. PICK sp : sp = [space EXCEPT ![p] = NoSpace]
  OBVIOUS
<1>6. /\ Sound(FreeSet(free), sp, kstack, 0, G, pipes) /\ Arrays(sp, kstack)
      /\ \A x \in Page : Held(x, FreeSet(free), space, kstack, 0, {}, pipes)
            => Held(x, FreeSet(free), sp, kstack, 0, G, pipes)
  <2>1. /\ Sound(FreeSet(free), [space EXCEPT ![p] = NoSpace], kstack, 0, {} \cup freevm(space[p]), pipes)
        /\ Arrays([space EXCEPT ![p] = NoSpace], kstack)
        /\ \A x \in Page : Held(x, FreeSet(free), space, kstack, 0, {}, pipes)
              => Held(x, FreeSet(free), [space EXCEPT ![p] = NoSpace],
                      kstack, 0, {} \cup freevm(space[p]), pipes)
    BY <1>3, <1>4, GiveSpace
  <2>2. {} \cup freevm(space[p]) = G
    BY <1>1
  <2> QED BY <1>5, <2>1, <2>2
<1>7. /\ Sound(FreeSet(free), space', kstack, 0, G, pipes) /\ Arrays(space', kstack)
      /\ \A x \in Page : Held(x, FreeSet(free), sp, kstack, 0, G, pipes)
            => Held(x, FreeSet(free), space', kstack, 0, G, pipes)
  <2>1. freevm(sp[p]) = {} /\ Nobody # p
    BY <1>3, <1>4, <1>5, NoSpaceIs DEF Arrays
  <2>2. [sp EXCEPT ![p] = sp[Nobody], ![Nobody] = NoSpace] = space'
    BY <1>2, <1>3, <1>4, <1>5 DEF Arrays
  <2> QED BY <1>3, <1>4, <1>6, <2>1, <2>2, MoveSpace
<1>8. G \subseteq Page
  BY <1>1, <1>3, <1>4, FreevmPages DEF Arrays
<1>9. /\ space'[Nobody] = NoSpace /\ space'[p] = space[Nobody]
      /\ \A r \in Procs : r # p => space'[r] = space[r]
  BY <1>2, <1>3, <1>4, Sizes DEF Arrays
<1>10. ExecSpace
  BY <1>3, OnIs
<1>11. /\ Job' /\ job' \in Jobs /\ job'.got = 0 /\ job'.give = G /\ job'.call = "none"
  BY <1>2, <1>8, <1>9, <1>10, JobOver DEF ExecSpace
<1>12. Types'
  BY <1>2, <1>3, <1>4, <1>7, <1>11 DEF Types, Arrays
<1>13. Slots'
  BY <1>2, <1>3, <1>4, <1>9 DEF Slots
<1>14. SpaceMapped'
  <2>1. ASSUME NEW r \in (Used \ torn)', r # p
        PROVE  /\ Mapped(space'[r]) = (0 .. Reach(r)' - 1)
                      \cup (IF stack'[r] THEN {KBASE - 2, KBASE - 1} ELSE {})
               /\ \A w \in Mapped(space'[r]) : space'[r].tab[PDX(w)] # 0
               /\ space'[r].dir # 0 /\ space'[r].kern # 0 /\ kstack'[r] # 0
    <3>1. r \in Used \ torn /\ r \in Procs /\ Reach(r)' = Reach(r) /\ stack'[r] = stack[r]
      BY <1>2, <1>3, <1>4, <1>11, <2>1 DEF Used, Reach, Types
    <3> QED BY <1>2, <1>3, <1>9, <2>1, <3>1 DEF SpaceMapped
  <2>2. ASSUME p \in (Used \ torn)'
        PROVE  /\ Mapped(space'[p]) = (0 .. Reach(p)' - 1)
                      \cup (IF stack'[p] THEN {KBASE - 2, KBASE - 1} ELSE {})
               /\ \A w \in Mapped(space'[p]) : space'[p].tab[PDX(w)] # 0
               /\ space'[p].dir # 0 /\ space'[p].kern # 0 /\ kstack'[p] # 0
    <3>1. ~job.missed
      BY <1>2, <2>2
    <3>2. job.at = KBASE
      BY <1>2, <1>3, <1>10 DEF ExecSpace
    <3>3. Mapped(space[Nobody]) = (0 .. job.size - 1) \cup (KBASE - 2 .. KBASE - 1)
      BY <1>2, <1>10, <3>1, <3>2 DEF ExecSpace
    <3>4. KBASE - 2 .. KBASE - 1 = {KBASE - 2, KBASE - 1}
      BY <1>3
    <3>5. Reach(p)' = job.size /\ stack'[p] = TRUE
      BY <1>2, <1>3, <1>4, <1>11 DEF Reach, Types
    <3>6. Mapped(space'[p]) = (0 .. Reach(p)' - 1) \cup (IF stack'[p] THEN {KBASE - 2, KBASE - 1} ELSE {})
      BY <1>9, <3>3, <3>4, <3>5
    <3>7. /\ \A w \in Mapped(space'[p]) : space'[p].tab[PDX(w)] # 0
          /\ space'[p].dir # 0 /\ space'[p].kern # 0 /\ kstack'[p] # 0
      BY <1>2, <1>3, <1>4, <1>9 DEF Tables
    <3> QED BY <3>6, <3>7
  <2> QED BY <2>1, <2>2 DEF SpaceMapped, Mapped
<1>15. Owners' /\ Kept
  BY <1>2, <1>3, <1>6, <1>7, <1>11 DEF Owners, Kept
<1> QED BY <1>11, <1>12, <1>13, <1>14, <1>15 DEF VInv, Loses

LEMMA SbrkDoneKeeps == ASSUME VInv, SbrkDone PROVE VInv' /\ Loses
<1>1. PICK p : p = job.p
  OBVIOUS
<1>2. /\ Done("sbrk") /\ brk' = [brk EXCEPT ![p] = job.end]
      /\ torn' = IF job.end < brk[p] THEN torn \cup {p} ELSE torn
      /\ job' = Idle /\ UNCHANGED <<free, state, stack, kstack, space, pipes, giving, head, corrupt, panic>>
  BY <1>1 DEF SbrkDone, pageVars, freeing
<1>3. /\ ~corrupt /\ job.pc = "alloc" /\ job.call = "sbrk"
      /\ CallsOn /\ Types /\ Slots /\ Job /\ SpaceMapped /\ Owners /\ job.give = {} /\ giving["mm"] = 0
      /\ job.got = 0 /\ job.end <= job.at /\ job.at \in Nat /\ job.end \in Nat /\ job.end \in 0 .. KBASE
      /\ KBASE \in Nat
  BY <1>2, DoneIs
<1>4. SbrkSpace /\ p \in Procs
  BY <1>1, <1>3, OnIs DEF CallsOn
<1>5. /\ Job' /\ job' \in Jobs /\ job'.got = 0 /\ job'.give = {} /\ job'.call = "none"
  BY <1>2, <1>4, GiveNone, JobOver DEF SbrkSpace
<1>6. Types' /\ Slots'
  BY <1>2, <1>3, <1>4, <1>5 DEF Types, Slots
<1>7. ASSUME NEW r \in (Used \ torn)' PROVE r \in Used \ torn /\ Reach(r)' = Reach(r)
  <2>1. r \in Used \ torn /\ r \in Procs
    BY <1>2 DEF Used
  <2>2. CASE r # p
    BY <1>1, <1>2, <1>3, <1>5, <2>1, <2>2 DEF Reach, Types
  <2>3. CASE r = p
    <3>1. brk[p] \in Nat
      BY <1>3, <1>4, Sizes DEF Types
    <3>2. ~(job.end < brk[p])
      BY <1>2, <1>7, <2>3
    <3>3. job.at = job.end
      BY <1>1, <1>3, <1>4, <3>1, <3>2 DEF SbrkSpace
    <3>4. Reach(p) = job.at /\ Reach(p)' = job.end
      BY <1>1, <1>2, <1>3, <1>4, <1>5 DEF Reach, Types
    <3> QED BY <2>1, <2>3, <3>3, <3>4
  <2> QED BY <2>2, <2>3
<1>8. SpaceMapped'
  BY <1>2, <1>3, <1>7 DEF SpaceMapped, Mapped
<1>9. Owners' /\ Kept
  BY <1>2, <1>3, <1>5 DEF Owners, Kept
<1> QED BY <1>5, <1>6, <1>8, <1>9 DEF VInv, Loses

-----------------------------------------------------------------------------
LEMMA InitKeeps == Init => VInv
<1> SUFFICES ASSUME Init PROVE VInv
  OBVIOUS
<1>1. PICK p \in Procs :
        /\ free = [k \in 1 .. NPAGE - 5 |-> k + 5]
        /\ state = [q \in Procs |-> IF q = p THEN "live" ELSE "unused"]
        /\ kstack = [q \in Slot |-> IF q = p THEN 1 ELSE 0]
        /\ space = [q \in Slot |->
              IF q = p THEN [NoSpace EXCEPT !.dir = 2, !.kern = 3, !.tab[0] = 5, !.map[0] = 4]
              ELSE NoSpace]
        /\ brk = [q \in Procs |-> IF q = p THEN 1 ELSE 0]
        /\ stack = [q \in Procs |-> FALSE] /\ torn = {}
        /\ job = Idle /\ pipes = {}
        /\ giving = [t \in {"mm", "fs"} |-> 0] /\ head = [t \in {"mm", "fs"} |-> 0]
        /\ corrupt = FALSE /\ panic = FALSE
  BY DEF Init
<1>2. PICK s : s = [NoSpace EXCEPT !.dir = 2, !.kern = 3, !.tab[0] = 5, !.map[0] = 4]
  OBVIOUS
<1>3. 0 \in Table /\ 0 \in Vpage /\ {1, 2, 3, 4, 5} \subseteq Page
  BY Sizes, TablesAre DEF Table, Vpage, Page
<1>4. /\ s.dir = 2 /\ s.kern = 3 /\ s \in Spaces
      /\ \A i \in Table : s.tab[i] = IF i = 0 THEN 5 ELSE 0
      /\ \A v \in Vpage : s.map[v] = IF v = 0 THEN 4 ELSE 0
  <2>1. /\ NoSpace.tab = [i \in Table |-> 0] /\ NoSpace.map = [v \in Vpage |-> 0]
        /\ NoSpace = [dir |-> 0, kern |-> 0, tab |-> [i \in Table |-> 0], map |-> [v \in Vpage |-> 0]]
    BY DEF NoSpace
  <2>2. s = [dir |-> 2, kern |-> 3, tab |-> [NoSpace.tab EXCEPT ![0] = 5],
             map |-> [NoSpace.map EXCEPT ![0] = 4]]
    BY <1>2, <2>1
  <2> QED BY <1>3, <2>1, <2>2 DEF Spaces, Page0
<1>5. Tidy(s) /\ freevm(s) = {2, 3, 4, 5}
  <2>1. Tidy(s)
    BY <1>4 DEF Tidy
  <2>2. ASSUME NEW x PROVE x \in freevm(s) <=> x \in {2, 3, 4, 5}
    BY <1>3, <1>4, PagesIs
  <2> QED BY <2>1, <2>2
<1>6. free \in Seq(Page) /\ Apart(free) /\ \A x \in FreeSet(free) : x \in Nat /\ x > 5
  <2>1. PICK n \in Nat : n = NPAGE - 5 /\ NPAGE = n + 5
    BY Sizes
  <2>2. free = [k \in 1 .. n |-> k + 5]
    BY <1>1, <2>1
  <2>3. \A k \in 1 .. n : k + 5 \in Page
    BY <2>1 DEF Page
  <2>4. free \in [1 .. n -> Page]
    BY <2>2, <2>3
  <2>5. free \in Seq(Page) /\ Len(free) = n
    BY <2>1, <2>4
  <2> QED BY <2>2, <2>5 DEF Apart, FreeSet
<1>7. /\ p \in Slot /\ p # Nobody /\ Nobody \in Slot /\ space[p] = s /\ kstack[p] = 1
      /\ \A q \in Slot : q # p => space[q] = NoSpace /\ kstack[q] = 0
  BY <1>1, <1>2, Sizes
<1>8. Types
  <2>1. NoSpace \in Spaces
    BY NoSpaceIs DEF Tidy
  <2>2. kstack \in [Slot -> Page0]
    BY <1>1, <1>3 DEF Page0
  <2>3. space \in [Slot -> Spaces]
    BY <1>1, <1>2, <1>4, <2>1
  <2>4. brk \in [Procs -> 0 .. KBASE]
    BY <1>1, Sizes
  <2>5. job \in Jobs
    BY <1>1, IdleIs
  <2> QED BY <1>1, <1>6, <2>2, <2>3, <2>4, <2>5 DEF Types, Page0
<1>9. Slots
  BY <1>1, <1>7, Sizes DEF Slots
<1>10. Job
  BY <1>1, <1>7, IdleIs DEF Job
<1>11. Sound(FreeSet(free), space, kstack, job.got, job.give, pipes)
  <2>1. /\ freevm(space[p]) = {2, 3, 4, 5} /\ job.got = 0 /\ job.give = {} /\ pipes = {}
        /\ \A q \in Slot : q # p => freevm(space[q]) = {} /\ kstack[q] = 0
        /\ \A q \in Slot : Tidy(space[q])
    BY <1>1, <1>5, <1>7, NoSpaceIs, IdleIs
  <2>2. \A q \in Slot : kstack[q] = 0 \/ (q = p /\ kstack[q] = 1)
    BY <1>7
  <2>3. \A q \in Slot : freevm(space[q]) = {} \/ (q = p /\ freevm(space[q]) = {2, 3, 4, 5})
    BY <2>1
  <2>4. FreeSet(free) \cap {0, 1, 2, 3, 4, 5} = {}
    BY <1>6
  <2> QED BY <2>1, <2>2, <2>3, <2>4 DEF Sound
<1>12. SpaceMapped
  <2>1. Mapped(s) = {0}
    BY <1>3, <1>4 DEF Mapped
  <2>2. PDX(0) = 0 /\ 0 .. 1 - 1 = {0}
    BY Sizes DEF PDX
  <2>3. Used \ torn = {p} /\ Reach(p) = 1 /\ ~stack[p]
    BY <1>1, IdleIs DEF Used, Reach
  <2> QED BY <1>3, <1>4, <1>7, <2>1, <2>2, <2>3 DEF SpaceMapped
<1> QED BY <1>1, <1>6, <1>8, <1>9, <1>10, <1>11, <1>12 DEF VInv, Owners

LEMMA NextKeeps == ASSUME VInv, [Next]_vars PROVE VInv' /\ Loses
<1>1. CASE UNCHANGED vars
  <2>1. /\ UNCHANGED <<free, state, brk, stack, torn, kstack, space, job, pipes, giving, head, corrupt, panic>>
        /\ UNCHANGED <<slotVars, pageVars, job>>
    BY <1>1 DEF vars, slotVars, pageVars, freeing
  <2>2. Slots' /\ Job' /\ SpaceMapped'
    BY <2>1, AllStay
  <2>3. Types' /\ (~corrupt' => Owners') /\ Kept
    BY <2>1 DEF VInv, Types, Owners, Kept
  <2> QED BY <2>2, <2>3 DEF VInv, Loses
<1>2. CASE Next
  <2>1. CASE \E p \in Procs : Fork(p) \/ Exec(p) \/ Sbrk(p) \/ Exit(p) \/ Wait(p)
    BY <2>1, ForkKeeps, ExecKeeps, SbrkKeeps, ExitKeeps, WaitKeeps
  <2>2. CASE MakeDir \/ MakeKern \/ AllocPage \/ EnterPage \/ EnterMissed \/ EnterRemap
    BY <2>2, MakeDirKeeps, MakeKernKeeps, AllocPageKeeps, EnterPageKeeps, EnterMissedKeeps, EnterRemapKeeps
  <2>3. CASE ForkDone \/ ExecLoads \/ ExecBad \/ ExecDone \/ SbrkDone
    BY <2>3, ForkDoneKeeps, ExecLoadsKeeps, ExecBadKeeps, ExecDoneKeeps, SbrkDoneKeeps
  <2>4. CASE GiveLink \/ GiveStore \/ PipeTake \/ PipeLink \/ PipeStore
    BY <2>4, GiveLinkKeeps, GiveStoreKeeps, PipeTakeKeeps, PipeLinkKeeps, PipeStoreKeeps
  <2> QED BY <1>2, <2>1, <2>2, <2>3, <2>4 DEF Next
<1> QED BY <1>1, <1>2

(* Wherever memory has run out and whatever TASK_FS has taken and given    *)
(* back between two steps of a call, a process has the pages up to its brk *)
(* and its stack, with their tables, and no others, but where sbrk has     *)
(* torn it or exec has gone on without a page it had no table for          *)
(* (do_fork, copyuvm, do_exec, allocuvm, do_sbrk).                         *)
THEOREM SpaceMappedAlways == Spec => []SpaceMapped
<1>1. VInv => SpaceMapped
  BY DEF VInv
<1>2. VInv /\ [Next]_vars => VInv'
  BY NextKeeps
<1> QED BY <1>1, <1>2, InitKeeps, PTL DEF Spec

-----------------------------------------------------------------------------
LEMMA CardOne ==
  ASSUME NEW S, \A x, y \in S : x = y
  PROVE  Cardinality(S) \in {0, 1} /\ (S = {} => Cardinality(S) = 0)
<1>1. CASE S = {}
  BY <1>1, FS_EmptySet
<1>2. CASE S # {}
  <2>1. PICK x : S = {x}
    BY <1>2
  <2> QED BY <1>2, <2>1, FS_Singleton
<1> QED BY <1>1, <1>2

(* A page has at most one place, in a slot, and one slot.                  *)
LEMMA OneSlot ==
  ASSUME VInv, ~corrupt, NEW p \in Slot, NEW q \in Slot, NEW g, g \in Own(p), g \in Own(q)
  PROVE  p = q
BY DEF VInv, Owners, Sound, Own, Hand

LEMMA PlacesFew == ASSUME VInv, ~corrupt, NEW g \in Page PROVE Places(g) <= 1
<1>1. PICK A, B, C, D, T, M, n :
        /\ A = {k \in DOMAIN free : free[k] = g} /\ B = {p \in Slot : kstack[p] = g}
        /\ C = {p \in Slot : space[p].dir = g} /\ D = {p \in Slot : space[p].kern = g}
        /\ T = {x \in Slot \X Table : space[x[1]].tab[x[2]] = g}
        /\ M = {x \in Slot \X Vpage : space[x[1]].map[x[2]] = g}
        /\ n = (IF g = job.got THEN 1 ELSE 0) + (IF g \in job.give THEN 1 ELSE 0)
                  + (IF g \in pipes THEN 1 ELSE 0)
  OBVIOUS
<1>3. /\ g # 0 /\ free \in Seq(Page) /\ DOMAIN free = 1 .. Len(free)
      /\ Apart(free) /\ Sound(FreeSet(free), space, kstack, job.got, job.give, pipes)
  BY Sizes DEF VInv, Types, Owners
<1>4. /\ \A p \in Slot : kstack[p] = g => g \in Own(p)
      /\ \A p \in Slot : space[p].dir = g \/ space[p].kern = g => g \in Own(p)
      /\ \A p \in Slot, i \in Table : space[p].tab[i] = g => g \in Own(p)
      /\ \A p \in Slot, v \in Vpage : space[p].map[v] = g => g \in Own(p)
  BY <1>3, PagesIs DEF Own, Hand
<1>5. \A p \in Slot, q \in Slot : g \in Own(p) /\ g \in Own(q) => p = q
  BY OneSlot
<1>6. ASSUME NEW p \in Slot
      PROVE  /\ Tidy(space[p])
             /\ kstack[p] = g => /\ space[p].dir # g /\ space[p].kern # g
                                 /\ \A i \in Table : space[p].tab[i] # g
                                 /\ \A v \in Vpage : space[p].map[v] # g
  <2>1. Tidy(space[p]) /\ kstack[p] \notin freevm(space[p])
    BY <1>3 DEF Sound
  <2> QED BY <1>3, <2>1, PagesIs
<1>7. /\ g \in FreeSet(free) => n = 0 /\ \A p \in Slot : g \notin Own(p)
      /\ n # 0 => \A p \in Slot : g \notin Own(p)
      /\ n \in {0, 1}
  <2>1. \A p \in Slot : g \in Own(p) =>
           g \notin FreeSet(free) /\ g # job.got /\ g \notin job.give /\ g \notin pipes
    BY <1>3 DEF Sound, Own, Hand
  <2>2. /\ g \in FreeSet(free) => g # job.got /\ g \notin job.give /\ g \notin pipes
        /\ g = job.got => g \notin job.give /\ g \notin pipes
        /\ g \in job.give => g \notin pipes
    BY <1>3 DEF Sound
  <2> QED BY <1>1, <2>1, <2>2
<1>8. A # {} => g \in FreeSet(free)
  BY <1>1, <1>3 DEF FreeSet
<1>9. B # {} \/ C # {} \/ D # {} \/ T # {} \/ M # {} => \E p \in Slot : g \in Own(p)
  <2>1. B # {} \/ C # {} \/ D # {} => \E p \in Slot : g \in Own(p)
    BY <1>1, <1>4
  <2>2. T # {} \/ M # {} => \E p \in Slot : g \in Own(p)
    BY <1>1, <1>4
  <2> QED BY <2>1, <2>2
<1>10. \A x, y \in A : x = y
  BY <1>1, <1>3 DEF Apart
<1>11. /\ \A x, y \in B : x = y
       /\ \A x, y \in C : x = y
       /\ \A x, y \in D : x = y
  BY <1>1, <1>4, <1>5
<1>12. \A x, y \in T : x = y
  <2>1. ASSUME NEW x \in T, NEW y \in T PROVE x = y
    <3>1. PICK p \in Slot, i \in Table : x = <<p, i>> /\ space[p].tab[i] = g
      BY <1>1
    <3>2. PICK q \in Slot, j \in Table : y = <<q, j>> /\ space[q].tab[j] = g
      BY <1>1
    <3>3. p = q
      BY <1>4, <1>5, <3>1, <3>2
    <3>4. i = j
      BY <1>3, <1>6, <3>1, <3>2, <3>3 DEF Tidy
    <3> QED BY <3>1, <3>2, <3>3, <3>4
  <2> QED BY <2>1
<1>13. \A x, y \in M : x = y
  <2>1. ASSUME NEW x \in M, NEW y \in M PROVE x = y
    <3>1. PICK p \in Slot, v \in Vpage : x = <<p, v>> /\ space[p].map[v] = g
      BY <1>1
    <3>2. PICK q \in Slot, w \in Vpage : y = <<q, w>> /\ space[q].map[w] = g
      BY <1>1
    <3>3. p = q
      BY <1>4, <1>5, <3>1, <3>2
    <3>4. v = w
      BY <1>3, <1>6, <3>1, <3>2, <3>3 DEF Tidy
    <3> QED BY <3>1, <3>2, <3>3, <3>4
  <2> QED BY <2>1
<1>14. /\ B # {} => C = {} /\ D = {} /\ T = {} /\ M = {}
       /\ C # {} => D = {} /\ T = {} /\ M = {}
       /\ D # {} => T = {} /\ M = {}
       /\ T # {} => M = {}
  <2>1. /\ B # {} => \E p \in Slot : g \in Own(p) /\ kstack[p] = g
        /\ C # {} => \E p \in Slot : g \in Own(p) /\ space[p].dir = g
        /\ D # {} => \E p \in Slot : g \in Own(p) /\ space[p].kern = g
    BY <1>1, <1>4
  <2>2. /\ T # {} => \E p \in Slot : g \in Own(p) /\ \E i \in Table : space[p].tab[i] = g
        /\ M # {} => \E p \in Slot : g \in Own(p) /\ \E v \in Vpage : space[p].map[v] = g
    BY <1>1, <1>4
  <2>3. ASSUME NEW p \in Slot
        PROVE  /\ space[p].dir = g =>
                      /\ space[p].kern # g /\ \A i \in Table : space[p].tab[i] # g
                      /\ \A v \in Vpage : space[p].map[v] # g
               /\ space[p].kern = g =>
                      /\ \A i \in Table : space[p].tab[i] # g
                      /\ \A v \in Vpage : space[p].map[v] # g
               /\ \A i \in Table : space[p].tab[i] = g => \A v \in Vpage : space[p].map[v] # g
    BY <1>3, <1>6 DEF Tidy
  <2>4. B # {} => C = {} /\ D = {} /\ T = {} /\ M = {}
    BY <1>5, <1>6, <2>1, <2>2
  <2>5. C # {} => D = {} /\ T = {} /\ M = {}
    BY <1>5, <2>1, <2>2, <2>3
  <2>6. D # {} => T = {} /\ M = {}
    BY <1>5, <2>1, <2>2, <2>3
  <2>7. T # {} => M = {}
    BY <1>5, <2>2, <2>3
  <2> QED BY <2>4, <2>5, <2>6, <2>7
<1>15. /\ A # {} => n = 0 /\ B = {} /\ C = {} /\ D = {} /\ T = {} /\ M = {}
       /\ n # 0 => B = {} /\ C = {} /\ D = {} /\ T = {} /\ M = {}
  BY <1>1, <1>7, <1>8, <1>9
<1>16. PICK a, b, c, d, t, m :
        /\ a = Cardinality(A) /\ b = Cardinality(B) /\ c = Cardinality(C) /\ d = Cardinality(D)
        /\ t = Cardinality(T) /\ m = Cardinality(M)
  OBVIOUS
<1>17. /\ a \in {0, 1} /\ (A = {} => a = 0)
       /\ b \in {0, 1} /\ (B = {} => b = 0)
       /\ c \in {0, 1} /\ (C = {} => c = 0)
       /\ d \in {0, 1} /\ (D = {} => d = 0)
       /\ t \in {0, 1} /\ (T = {} => t = 0)
       /\ m \in {0, 1} /\ (M = {} => m = 0)
  BY <1>10, <1>11, <1>12, <1>13, <1>16, CardOne
<1>19. a + b + c + d + t + m + n <= 1
  BY <1>7, <1>14, <1>15, <1>17
<1>20. Places(g) = a + b + c + d + t + m + n
  <2>1. PICK i, j, k :
          /\ i = (IF g = job.got THEN 1 ELSE 0) /\ j = (IF g \in job.give THEN 1 ELSE 0)
          /\ k = (IF g \in pipes THEN 1 ELSE 0)
    OBVIOUS
  <2>2. Places(g) = a + b + c + d + t + m + i + j + k
    BY <1>1, <1>16, <2>1, Zenon DEF Places
  <2>3. i \in {0, 1} /\ j \in {0, 1} /\ k \in {0, 1} /\ n = i + j + k
    BY <1>1, <2>1
  <2> QED BY <1>17, <2>2, <2>3
<1> QED BY <1>19, <1>20

(* No page has two owners or is free and owned, as long as no kfree1 is    *)
(* overtaken (kalloc1, kfree1, freevm, do_fork, do_exec, do_wait).         *)
THEOREM PagesOwnedAlways == Spec => []PagesOwned
<1>1. VInv => PagesOwned
  BY PlacesFew DEF PagesOwned
<1>2. VInv /\ [Next]_vars => VInv'
  BY NextKeeps
<1> QED BY <1>1, <1>2, InitKeeps, PTL DEF Spec

-----------------------------------------------------------------------------
LEMMA LostIs ==
  ASSUME VInv, NEW x \in Page
  PROVE  x \in Lost <=> ~Held(x, FreeSet(free), space, kstack, job.got, job.give, pipes)
<1>1. x # 0 /\ free \in Seq(Page) /\ DOMAIN free = 1 .. Len(free)
  BY Sizes DEF VInv, Types
<1>2. x \in FreeSet(free) <=> x \in {free[k] : k \in DOMAIN free}
  BY <1>1 DEF FreeSet
<1>3. x \in UNION {Own(s) : s \in Slot} <=> \E s \in Slot : x \in freevm(space[s]) \/ x = kstack[s]
  BY <1>1 DEF Own, Hand
<1> QED BY <1>1, <1>2, <1>3 DEF Lost, Owned, Held, Hand

(* Fork, exec, wait and the pipes give back or hand on all they take, at   *)
(* whatever step they fail: a page goes lost only where a kalloc1 has      *)
(* found none (setupkvm, mappages, allocuvm).                              *)
THEOREM NothingLostEver == Spec => NothingLost
<1>1. VInv /\ [Next]_vars => VInv'
  BY NextKeeps
<1>2. ASSUME VInv, [Next]_vars PROVE Lost' \subseteq Lost \/ corrupt' \/ (None /\ None')
  <2>1. VInv' /\ Loses
    BY <1>2, NextKeeps
  <2>2. ASSUME NEW x \in Page PROVE x \in Lost <=> ~Held(x, FreeSet(free),
          space, kstack, job.got, job.give, pipes)
    BY <1>2, LostIs
  <2>3. ASSUME NEW x \in Page
        PROVE  x \in Lost' => ~Held(x, FreeSet(free'), space', kstack', job'.got, job'.give, pipes')
    <3>1. x # 0 /\ free' \in Seq(Page) /\ DOMAIN free' = 1 .. Len(free')
      BY <2>1, Sizes DEF VInv, Types
    <3>2. x \in FreeSet(free') <=> x \in {free'[k] : k \in DOMAIN free'}
      BY <3>1 DEF FreeSet
    <3>3. x \in UNION {Own(s)' : s \in Slot} <=> \E s \in Slot : x \in freevm(space'[s]) \/ x = kstack'[s]
      BY <3>1 DEF Own, Hand
    <3> QED BY <3>1, <3>2, <3>3 DEF Lost, Owned, Held, Hand
  <2>4. Lost' \subseteq Page
    BY DEF Lost
  <2>5. Kept => Lost' \subseteq Lost
    BY <2>2, <2>3, <2>4 DEF Kept
  <2> QED BY <2>1, <2>5 DEF Loses
<1>3. VInv /\ [Next]_vars => [Lost' \subseteq Lost \/ corrupt' \/ (None /\ None')]_vars
  BY <1>2
<1> QED BY <1>1, <1>3, InitKeeps, PTL DEF Spec, NothingLost
=============================================================================
