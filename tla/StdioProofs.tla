---------------------------- MODULE StdioProofs ----------------------------
(***************************************************************************)
(* Proofs about the library's heap and streams, for every size of the      *)
(* heap, of a buffer and of what morecore asks for, and any blocks the     *)
(* program takes.                                                          *)
(***************************************************************************)
EXTENDS Stdio, FiniteSetTheorems, SequenceTheorems, WellFoundedInduction, TLAPS

LEMMA Bounds == LIMIT \in Nat \ {0} /\ MORE \in Nat \ {0} /\ PAGEUNITS \in Nat \ {0}
BY MallocAssumption

LEMMA LeastNat ==
  ASSUME NEW T, T \subseteq Nat, T # {}
  PROVE  \E x \in T : \A y \in T : x <= y
<1>1. PICK L : L = {ss \in Nat \X Nat : ss[1] < ss[2]}
  OBVIOUS
<1>2. IsWellFoundedOn(L, Nat)
  BY <1>1, NatLessThanWellFounded DEF OpToRel
<1>3. PICK x \in T : \A y \in T : ~ (<<y, x>> \in L)
  BY <1>2, WFMin
<1>4. ASSUME NEW y \in T PROVE x <= y
  <2>1. x \in Nat /\ y \in Nat /\ <<y, x>> \notin L
    BY <1>3
  <2> QED BY <1>1, <2>1
<1> QED BY <1>4

LEMMA GreatestNat ==
  ASSUME NEW N \in Nat, NEW T, T \subseteq 0 .. N, T # {}
  PROVE  \E x \in T : \A y \in T : y <= x
<1>1. PICK D : D = {N - y : y \in T}
  OBVIOUS
<1>2. D \subseteq Nat /\ D # {}
  <2>1. ASSUME NEW z \in D PROVE z \in Nat
    <3>1. PICK y \in T : z = N - y
      BY <1>1, <2>1
    <3>2. y \in 0 .. N
      BY <3>1
    <3> QED BY <3>1, <3>2
  <2>2. PICK y \in T : TRUE
    OBVIOUS
  <2> QED BY <1>1, <2>1, <2>2
<1>3. PICK z \in D : \A y \in D : z <= y
  BY <1>2, LeastNat
<1>4. PICK x \in T : z = N - x
  BY <1>1, <1>3
<1>5. ASSUME NEW y \in T PROVE y <= x
  <2>1. x \in 0 .. N /\ y \in 0 .. N /\ N - y \in D
    BY <1>1
  <2> QED BY <1>3, <1>4, <2>1
<1> QED BY <1>5

LEMMA SetInduct ==
  ASSUME NEW N \in Nat, NEW T, 0 \in T, \A n \in 1 .. N : n - 1 \in T => n \in T
  PROVE  \A n \in 0 .. N : n \in T
<1>1. SUFFICES ASSUME NEW k \in 0 .. N, k \notin T PROVE FALSE
  OBVIOUS
<1>2. PICK S : S = {n \in 0 .. N : n \notin T}
  OBVIOUS
<1>3. S \subseteq Nat /\ S # {}
  BY <1>1, <1>2
<1>4. PICK x \in S : \A y \in S : x <= y
  BY <1>3, LeastNat
<1>5. x \in 1 .. N /\ x \notin T
  BY <1>2, <1>4
<1>6. x - 1 \notin S /\ x - 1 \in 0 .. N
  <2>1. x \in Nat /\ ~(x <= x - 1)
    BY <1>5
  <2> QED BY <1>4, <1>5, <2>1
<1> QED BY <1>2, <1>5, <1>6

-----------------------------------------------------------------------------
LEMMA SameLinks ==
  ASSUME NEW f, NEW g, f \in [0 .. LIMIT -> 0 .. LIMIT], g \in [0 .. LIMIT -> 0 .. LIMIT],
         \A x \in 0 .. LIMIT : f[x] = g[x]
  PROVE  f = g
<1>1. PICK D : D = 0 .. LIMIT
  OBVIOUS
<1>2. f \in [D -> D] /\ g \in [D -> D] /\ \A x \in D : f[x] = g[x]
  BY <1>1, Zenon
<1>3. f = [x \in D |-> f[x]] /\ g = [x \in D |-> g[x]]
  BY <1>2
<1>4. [x \in D |-> f[x]] = [x \in D |-> g[x]]
  BY <1>2
<1> QED BY <1>3, <1>4

(* The free list.  F is the set of its blocks, base among them; P and S    *)
(* are the links and the sizes.  Blocks in A may touch the next one, as    *)
(* free leaves them for a moment.                                          *)
Linked(P, F) ==
    /\ F \subseteq 0 .. LIMIT /\ BASE \in F
    /\ \A a \in F : P[a] \in F /\ (P[a] > a \/ P[a] = BASE)
    /\ \A a, b \in F : a < b => a < P[a] /\ P[a] <= b

Apart(S, brk, D) ==
    /\ \A a \in D : a # BASE => S[a] > 0 /\ a + S[a] <= brk
    /\ \A a, b \in D : a < b => a + S[a] <= b

Tidy(P, S, brk, F, used, A) ==
    /\ P \in [0 .. LIMIT -> 0 .. LIMIT] /\ S \in [0 .. LIMIT -> Nat] /\ brk \in 1 .. LIMIT
    /\ used \subseteq 1 .. LIMIT /\ F \cap used = {} /\ S[BASE] = 0
    /\ Linked(P, F) /\ Apart(S, brk, F \cup used)
    /\ \A a \in F \ A : a # BASE => P[a] # a + S[a]

LEMMA LinksAre ==
  ASSUME NEW P, NEW F, Linked(P, F)
  PROVE  /\ LIMIT \in Nat /\ LIMIT + 1 \in Nat /\ BASE = 0 /\ 0 \in F /\ F \subseteq 0 .. LIMIT
         /\ \A a \in F : a \in Nat /\ a <= LIMIT /\ P[a] \in F /\ (P[a] > a \/ P[a] = 0)
         /\ \A a \in F : P[a] \in Nat
         /\ \A a, b \in F : a < b => a < P[a] /\ P[a] <= b
<1>1. LIMIT \in Nat /\ LIMIT + 1 \in Nat /\ BASE = 0
  BY Bounds DEF BASE
<1>2. F \subseteq 0 .. LIMIT /\ 0 \in F
  BY <1>1 DEF Linked
<1>3. \A a \in F : a \in Nat /\ a <= LIMIT
  BY <1>1, <1>2
<1>4. \A a \in F : P[a] \in F /\ (P[a] > a \/ P[a] = 0)
  BY <1>1 DEF Linked
<1>5. \A a \in F : P[a] \in Nat
  BY <1>3, <1>4
<1> QED BY <1>1, <1>2, <1>3, <1>4, <1>5 DEF Linked

LEMMA TidyIs ==
  ASSUME NEW P, NEW S, NEW brk, NEW F, NEW used, NEW A, Tidy(P, S, brk, F, used, A)
  PROVE  /\ Linked(P, F) /\ P \in [0 .. LIMIT -> 0 .. LIMIT] /\ S \in [0 .. LIMIT -> Nat]
         /\ brk \in Nat /\ brk >= 1 /\ brk <= LIMIT /\ S[0] = 0
         /\ used \subseteq 1 .. LIMIT /\ F \cap used = {} /\ Apart(S, brk, F \cup used)
         /\ \A a \in used : a \in Nat /\ a >= 1 /\ a <= LIMIT /\ a \notin F
         /\ \A a \in F \cup used : a \in 0 .. LIMIT /\ a \in Nat /\ S[a] \in Nat
         /\ \A a \in F : a # 0 /\ a \notin A => P[a] # a + S[a]
<1>1. Linked(P, F) /\ BASE = 0 /\ LIMIT \in Nat
  BY Bounds DEF Tidy, BASE
<1>2. /\ P \in [0 .. LIMIT -> 0 .. LIMIT] /\ S \in [0 .. LIMIT -> Nat] /\ brk \in 1 .. LIMIT
      /\ used \subseteq 1 .. LIMIT /\ F \cap used = {} /\ S[0] = 0 /\ Apart(S, brk, F \cup used)
  BY <1>1 DEF Tidy
<1>3. \A a \in used : a \in Nat /\ a >= 1 /\ a <= LIMIT /\ a \notin F
  BY <1>1, <1>2
<1>4. \A a \in F \cup used : a \in 0 .. LIMIT /\ a \in Nat
  <2>1. \A a \in F : a \in Nat /\ a <= LIMIT
    BY <1>1, LinksAre
  <2> QED BY <1>1, <1>3, <2>1
<1>5. \A a \in F \cup used : S[a] \in Nat
  BY <1>2, <1>4
<1>7. \A a \in F : a # 0 /\ a \notin A => P[a] # a + S[a]
  BY <1>1 DEF Tidy
<1>8. brk \in Nat /\ brk >= 1 /\ brk <= LIMIT
  BY <1>1, <1>2
<1> QED BY <1>1, <1>2, <1>3, <1>4, <1>5, <1>7, <1>8

LEMMA BlocksApart ==
  ASSUME NEW P, NEW S, NEW brk, NEW F, NEW used, NEW A, Tidy(P, S, brk, F, used, A)
  PROVE  /\ \A a \in F \cup used : a # 0 => S[a] > 0 /\ a + S[a] <= brk
         /\ \A a, b \in F \cup used : a < b => a + S[a] <= b
<1>1. BASE = 0 /\ Apart(S, brk, F \cup used)
  BY Bounds DEF Tidy, BASE
<1> QED BY <1>1 DEF Apart

LEMMA ChainIs ==
  ASSUME NEW h
  PROVE  /\ Node(h, 0) = h.freep
         /\ \A k \in 1 .. LIMIT + 1 : Node(h, k) = h.ptr[Node(h, k - 1)]
<1> DEFINE Is(f, m) == f = [k \in 0 .. m |-> IF k = 0 THEN h.freep ELSE h.ptr[f[k - 1]]]
           T == {m \in 0 .. LIMIT + 1 : \E f : Is(f, m)}
<1>0. LIMIT + 1 \in Nat /\ LIMIT \in Nat
  BY Bounds
<1>1. 0 \in T
  <2>1. PICK f : f = [k \in 0 .. 0 |-> h.freep]
    OBVIOUS
  <2>2. f = [k \in 0 .. 0 |-> IF k = 0 THEN h.freep ELSE h.ptr[f[k - 1]]]
    BY <2>1
  <2> QED BY <1>0, <2>2
<1>2. ASSUME NEW m \in 1 .. LIMIT + 1, m - 1 \in T PROVE m \in T
  <2>1. PICK f : Is(f, m - 1)
    BY <1>2
  <2>2. PICK e : e = [k \in 0 .. m |-> IF k = m THEN h.ptr[f[m - 1]] ELSE f[k]]
    OBVIOUS
  <2>3. \A k \in 0 .. m : e[k] = IF k = m THEN h.ptr[f[m - 1]] ELSE f[k]
    BY <2>2
  <2>4. \A k \in 0 .. m - 1 : f[k] = IF k = 0 THEN h.freep ELSE h.ptr[f[k - 1]]
    BY <2>1
  <2>5. ASSUME NEW k \in 0 .. m PROVE e[k] = IF k = 0 THEN h.freep ELSE h.ptr[e[k - 1]]
    <3>1. CASE k = m
      <4>1. m \in 0 .. m /\ m - 1 \in 0 .. m /\ m - 1 # m /\ m # 0
        BY <1>0
      <4>2. e[m] = h.ptr[f[m - 1]] /\ e[m - 1] = f[m - 1]
        BY <2>3, <4>1
      <4> QED BY <3>1, <4>1, <4>2
    <3>2. CASE k = 0
      <4>1. 0 \in 0 .. m /\ 0 \in 0 .. m - 1 /\ 0 # m
        BY <1>0
      <4> QED BY <2>3, <2>4, <3>2, <4>1
    <3>3. CASE k # m /\ k # 0
      <4>1. k \in 0 .. m - 1 /\ k - 1 \in 0 .. m /\ k - 1 # m
        BY <1>0, <3>3
      <4>2. e[k] = f[k] /\ e[k - 1] = f[k - 1]
        BY <2>3, <3>3, <4>1
      <4> QED BY <2>4, <3>3, <4>1, <4>2
    <3> QED BY <3>1, <3>2, <3>3
  <2>6. Is(e, m)
    BY <2>2, <2>5
  <2> QED BY <2>6
<1>3. \E f : Is(f, LIMIT + 1)
  <2>1. LIMIT + 1 \in T
    <3> HIDE DEF T
    <3>1. LIMIT + 1 \in 0 .. LIMIT + 1
      BY <1>0
    <3> QED BY <1>0, <1>1, <1>2, <3>1, SetInduct
  <2> QED BY <1>0, <2>1
<1>4. PICK f : Is(f, LIMIT + 1)
  BY <1>3
<1>5. PICK g : g = Chain(h)
  OBVIOUS
<1>6. g = [k \in 0 .. LIMIT + 1 |-> IF k = 0 THEN h.freep ELSE h.ptr[g[k - 1]]]
  BY <1>4, <1>5, Zenon DEF Chain
<1>7. \A k \in 0 .. LIMIT + 1 : g[k] = IF k = 0 THEN h.freep ELSE h.ptr[g[k - 1]]
  BY <1>6, Zenon
<1>8. 0 \in 0 .. LIMIT + 1 /\ \A k \in 1 .. LIMIT + 1 : k \in 0 .. LIMIT + 1 /\ k # 0
  BY <1>0
<1> HIDE DEF Is, T
<1> QED BY <1>5, <1>7, <1>8 DEF Node

LEMMA NodesIn ==
  ASSUME NEW h, NEW F, Linked(h.ptr, F), h.freep \in F
  PROVE  \A k \in 0 .. LIMIT + 1 : Node(h, k) \in F
<1>0. LIMIT + 1 \in Nat
  BY Bounds
<1>1. PICK T : T = {k \in 0 .. LIMIT + 1 : Node(h, k) \in F}
  OBVIOUS
<1>2. 0 \in T
  BY <1>0, <1>1, ChainIs
<1>3. ASSUME NEW k \in 1 .. LIMIT + 1, k - 1 \in T PROVE k \in T
  <2>1. Node(h, k) = h.ptr[Node(h, k - 1)] /\ Node(h, k - 1) \in F
    BY <1>1, <1>3, ChainIs
  <2> QED BY <1>0, <1>1, <2>1 DEF Linked
<1> QED BY <1>0, <1>1, <1>2, <1>3, SetInduct

(* No two links lead to one block.                                         *)
LEMMA LinksDiffer ==
  ASSUME NEW P, NEW F, Linked(P, F), NEW a \in F, NEW b \in F, P[a] = P[b]
  PROVE  a = b
<1>1. ASSUME NEW x \in F, NEW y \in F, x < y, P[x] = P[y] PROVE FALSE
  <2>1. x < P[x] /\ P[x] <= y /\ (P[y] > y \/ P[y] = 0) /\ P[x] \in Nat /\ x \in Nat /\ y \in Nat
    BY <1>1, LinksAre
  <2> QED BY <1>1, <2>1
<1>2. ~(a < b) /\ ~(b < a)
  BY <1>1
<1>3. a \in Nat /\ b \in Nat
  BY LinksAre
<1> QED BY <1>2, <1>3

(* Blocks closed under the links are all of them.                          *)
LEMMA LinksReach ==
  ASSUME NEW P, NEW F, Linked(P, F), NEW V, V \subseteq F, V # {}, \A a \in V : P[a] \in V
  PROVE  V = F
<1>1. /\ LIMIT \in Nat /\ 0 \in F /\ F \subseteq 0 .. LIMIT
      /\ \A a \in F : a \in Nat /\ P[a] \in Nat /\ (P[a] > a \/ P[a] = 0)
      /\ \A a, b \in F : a < b => a < P[a] /\ P[a] <= b
  BY LinksAre
<1>2. V \subseteq 0 .. LIMIT
  BY <1>1
<1>3. PICK x \in V : \A y \in V : y <= x
  BY <1>1, <1>2, GreatestNat
<1>4. 0 \in V
  <2>1. x \in V /\ P[x] \in V /\ x \in F
    BY <1>3
  <2>2. P[x] <= x /\ (P[x] > x \/ P[x] = 0) /\ x \in Nat /\ P[x] \in Nat
    BY <1>1, <1>3, <2>1
  <2> QED BY <2>1, <2>2
<1>5. ASSUME NEW b \in F, b \notin V PROVE FALSE
  <2>1. PICK W : W = {a \in V : a < b}
    OBVIOUS
  <2>2. b \in Nat /\ b # 0
    BY <1>1, <1>4, <1>5
  <2>3. 0 \in W
    BY <1>4, <2>1, <2>2
  <2>4. W \subseteq 0 .. LIMIT
    BY <1>2, <2>1
  <2>5. PICK y \in W : \A z \in W : z <= y
    BY <1>1, <2>3, <2>4, GreatestNat
  <2>6. y \in V /\ y < b /\ y \in F
    BY <2>1, <2>5
  <2>7. P[y] \in V /\ P[y] # b
    BY <1>5, <2>6
  <2>8. y < P[y] /\ P[y] <= b /\ y \in Nat /\ P[y] \in Nat
    BY <1>1, <2>6
  <2>9. P[y] < b
    BY <2>2, <2>7, <2>8
  <2>10. P[y] \in W
    BY <2>1, <2>7, <2>9
  <2>11. P[y] <= y
    BY <2>5, <2>10
  <2> QED BY <2>8, <2>11
<1> QED BY <1>5

(* The search comes back to freep, and has been everywhere by then.        *)
LEMMA RoundIs ==
  ASSUME NEW h, NEW F, Linked(h.ptr, F), h.freep \in F
  PROVE  /\ Round(h) \in 1 .. LIMIT + 1 /\ Node(h, Round(h)) = h.freep
         /\ {Node(h, k) : k \in 1 .. Round(h)} = F
<1> DEFINE N(k) == Node(h, k)
<1>0. LIMIT \in Nat /\ LIMIT + 1 \in Nat /\ F \subseteq 0 .. LIMIT
  BY Bounds DEF Linked
<1>1. N(0) = h.freep /\ (\A k \in 1 .. LIMIT + 1 : N(k) = h.ptr[N(k - 1)]) /\ \A k \in 0 .. LIMIT + 1 : N(k) \in F
  BY ChainIs, NodesIn
<1> HIDE DEF N
<1>2. \E i, j \in 0 .. LIMIT + 1 : i < j /\ N(i) = N(j)
  <2>1. PICK f : f = [k \in 0 .. LIMIT + 1 |-> N(k)]
    OBVIOUS
  <2>2. f \in [0 .. LIMIT + 1 -> 0 .. LIMIT]
    BY <1>0, <1>1, <2>1
  <2>3. /\ IsFiniteSet(0 .. LIMIT + 1) /\ Cardinality(0 .. LIMIT + 1) = LIMIT + 2
        /\ IsFiniteSet(0 .. LIMIT) /\ Cardinality(0 .. LIMIT) = LIMIT + 1
    <3>1. 0 \in Int /\ LIMIT \in Int /\ LIMIT + 1 \in Int /\ ~(0 > LIMIT) /\ ~(0 > LIMIT + 1)
      BY <1>0
    <3>2. Cardinality(0 .. LIMIT + 1) = (LIMIT + 1) - 0 + 1 /\ Cardinality(0 .. LIMIT) = LIMIT - 0 + 1
      BY <3>1, FS_Interval
    <3> QED BY <1>0, <3>1, <3>2, FS_Interval
  <2>4. Cardinality(0 .. LIMIT) < Cardinality(0 .. LIMIT + 1)
    BY <1>0, <2>3
  <2>5. PICK x, y \in 0 .. LIMIT + 1 : x # y /\ f[x] = f[y]
    BY <2>2, <2>3, <2>4, FS_PigeonHole
  <2>6. N(x) = N(y) /\ (x < y \/ y < x)
    BY <1>0, <2>1, <2>5
  <2> QED BY <2>5, <2>6
<1>3. PICK i, j \in 0 .. LIMIT + 1 : i < j /\ N(i) = N(j)
  BY <1>2
<1>4. j - i \in 1 .. LIMIT + 1 /\ N(j - i) = h.freep
  <2>1. PICK T : T = {n \in 0 .. i : N(i - n) = N(j - n)}
    OBVIOUS
  <2>2. 0 \in T /\ i \in Nat
    BY <1>0, <1>3, <2>1
  <2>3. ASSUME NEW n \in 1 .. i, n - 1 \in T PROVE n \in T
    <3>1. PICK a, b : a = i - n + 1 /\ b = j - n + 1
      OBVIOUS
    <3>2. /\ a \in 1 .. LIMIT + 1 /\ b \in 1 .. LIMIT + 1 /\ a = i - (n - 1) /\ b = j - (n - 1)
          /\ a - 1 = i - n /\ b - 1 = j - n /\ a - 1 \in 0 .. LIMIT + 1 /\ b - 1 \in 0 .. LIMIT + 1
      BY <1>0, <1>3, <3>1
    <3>3. N(a) = N(b)
      BY <2>1, <2>3, <3>2
    <3>4. h.ptr[N(a - 1)] = h.ptr[N(b - 1)] /\ N(a - 1) \in F /\ N(b - 1) \in F
      BY <1>1, <3>2, <3>3
    <3>5. N(a - 1) = N(b - 1)
      BY <3>4, LinksDiffer
    <3>6. n \in 0 .. i
      BY <2>2
    <3> QED BY <2>1, <3>2, <3>5, <3>6
  <2>4. i \in 0 .. i
    BY <2>2
  <2>5. i \in T
    BY <2>2, <2>3, <2>4, SetInduct
  <2>6. i - i = 0 /\ j - i \in 1 .. LIMIT + 1
    BY <1>0, <1>3
  <2> QED BY <1>1, <2>1, <2>5, <2>6
<1>5. \E r \in 1 .. LIMIT + 1 : N(r) = h.freep /\ \A k \in 1 .. r - 1 : N(k) # h.freep
  <2>1. PICK T : T = {k \in 1 .. LIMIT + 1 : N(k) = h.freep}
    OBVIOUS
  <2>2. T \subseteq Nat /\ T # {}
    BY <1>0, <1>4, <2>1
  <2>3. PICK r \in T : \A k \in T : r <= k
    BY <2>2, LeastNat
  <2>4. r \in 1 .. LIMIT + 1 /\ N(r) = h.freep
    BY <2>1, <2>3
  <2>5. ASSUME NEW k \in 1 .. r - 1 PROVE N(k) # h.freep
    <3>1. k \in 1 .. LIMIT + 1 /\ ~(r <= k)
      BY <1>0, <2>4
    <3> QED BY <2>1, <2>3, <3>1
  <2> QED BY <2>4, <2>5
<1>6. PICK R : R = Round(h)
  OBVIOUS
<1>7. R \in 1 .. LIMIT + 1 /\ N(R) = h.freep
  BY <1>5, <1>6 DEF Round, N
<1>8. {N(k) : k \in 1 .. R} = F
  <2>1. PICK V : V = {N(k) : k \in 1 .. R}
    OBVIOUS
  <2>2. V \subseteq F /\ V # {}
    <3>1. 1 \in 1 .. R /\ \A k \in 1 .. R : k \in 0 .. LIMIT + 1
      BY <1>0, <1>7
    <3> QED BY <1>1, <2>1, <3>1
  <2>3. ASSUME NEW a \in V PROVE h.ptr[a] \in V
    <3>1. PICK k \in 1 .. R : a = N(k)
      BY <2>1
    <3>2. CASE k = R
      <4>1. a = N(0) /\ 1 \in 1 .. LIMIT + 1 /\ 1 - 1 = 0 /\ 1 \in 1 .. R
        BY <1>0, <1>1, <1>7, <3>1, <3>2
      <4> QED BY <1>1, <2>1, <4>1
    <3>3. CASE k # R
      <4>1. k + 1 \in 1 .. LIMIT + 1 /\ (k + 1) - 1 = k /\ k + 1 \in 1 .. R
        BY <1>0, <1>7, <3>1, <3>3
      <4>2. N(k + 1) = h.ptr[a]
        BY <1>1, <3>1, <4>1
      <4> QED BY <2>1, <4>1, <4>2
    <3> QED BY <3>2, <3>3
  <2>4. V = F
    BY <2>2, <2>3, LinksReach
  <2> QED BY <2>1, <2>4
<1> QED BY <1>6, <1>7, <1>8 DEF N

(* Where a block goes.                                                     *)
LEMMA PlaceIs ==
  ASSUME NEW h, NEW F, Linked(h.ptr, F), h.freep \in F, NEW b \in 1 .. LIMIT, b \notin F,
         NEW p, p = Place(h, b)
  PROVE  p \in F /\ p < b /\ (h.ptr[p] > b \/ h.ptr[p] = BASE)
<1>0. /\ LIMIT \in Nat /\ LIMIT + 1 \in Nat /\ 0 \in F /\ F \subseteq 0 .. LIMIT /\ BASE = 0 /\ b \in Nat /\ b # 0
      /\ \A a \in F : a \in Nat /\ h.ptr[a] \in F /\ h.ptr[a] \in Nat /\ (h.ptr[a] > a \/ h.ptr[a] = 0)
  BY LinksAre
<1>1. PICK W : W = {a \in F : a < b}
  OBVIOUS
<1>2. 0 \in W
  BY <1>0, <1>1
<1>3. W \subseteq 0 .. LIMIT
  BY <1>0, <1>1
<1>4. PICK x \in W : \A z \in W : z <= x
  BY <1>0, <1>2, <1>3, GreatestNat
<1>5. /\ x \in F /\ x < b /\ x \in Nat /\ h.ptr[x] \in Nat /\ h.ptr[x] # b
      /\ (h.ptr[x] > b \/ h.ptr[x] = BASE) /\ (h.ptr[x] > x \/ h.ptr[x] = BASE)
  <2>1. x \in F /\ x < b
    BY <1>1, <1>4
  <2>2. h.ptr[x] \in F /\ h.ptr[x] \in Nat /\ x \in Nat /\ (h.ptr[x] > x \/ h.ptr[x] = 0)
    BY <1>0, <2>1
  <2>3. h.ptr[x] # b
    BY <2>2
  <2>4. h.ptr[x] < b => h.ptr[x] <= x
    BY <1>1, <1>4, <2>2
  <2>5. h.ptr[x] > b \/ h.ptr[x] = 0
    BY <1>0, <2>2, <2>3, <2>4
  <2> QED BY <1>0, <2>1, <2>2, <2>3, <2>5
<1>6. Fits(h, x, b)
  BY <1>0, <1>5 DEF Fits
<1>7. \E k \in 0 .. LIMIT : x = Node(h, k)
  <2>1. PICK k \in 1 .. Round(h) : x = Node(h, k)
    BY <1>5, RoundIs
  <2>2. Round(h) \in 1 .. LIMIT + 1 /\ Node(h, Round(h)) = Node(h, 0)
    BY RoundIs, ChainIs
  <2>3. k \in 0 .. LIMIT \/ k = Round(h)
    BY <1>0, <2>1, <2>2
  <2>4. 0 \in 0 .. LIMIT
    BY <1>0
  <2> QED BY <2>1, <2>2, <2>3, <2>4
<1>8. \E k \in 0 .. LIMIT : Fits(h, Node(h, k), b) /\ \A j \in 0 .. k - 1 : ~Fits(h, Node(h, j), b)
  <2>1. PICK T : T = {k \in 0 .. LIMIT : Fits(h, Node(h, k), b)}
    OBVIOUS
  <2>2. T \subseteq Nat /\ T # {}
    BY <1>0, <1>6, <1>7, <2>1
  <2>3. PICK k \in T : \A j \in T : k <= j
    BY <2>2, LeastNat
  <2>4. k \in 0 .. LIMIT /\ Fits(h, Node(h, k), b)
    BY <2>1, <2>3
  <2>5. ASSUME NEW j \in 0 .. k - 1 PROVE ~Fits(h, Node(h, j), b)
    <3>1. j \in 0 .. LIMIT /\ ~(k <= j)
      BY <1>0, <2>4
    <3> QED BY <2>1, <2>3, <3>1
  <2> QED BY <2>4, <2>5
<1>9. PICK k \in 0 .. LIMIT : p = Node(h, k) /\ Fits(h, p, b)
  BY <1>8 DEF Place
<1>10. k \in 0 .. LIMIT + 1
  BY <1>0
<1>11. p \in F
  BY <1>9, <1>10, NodesIn
<1>12. p \in Nat /\ h.ptr[p] \in Nat /\ p # b /\ (h.ptr[p] > p \/ h.ptr[p] = 0)
  BY <1>0, <1>11
<1> QED BY <1>0, <1>9, <1>11, <1>12 DEF Fits

-----------------------------------------------------------------------------
(* What free, malloc and morecore do to the list.                          *)
LEMMA InsertIs ==
  ASSUME NEW P, NEW S, NEW brk, NEW F, NEW used, Tidy(P, S, brk, F, used, {}),
         NEW b \in used, NEW p \in F, p < b, P[p] > b \/ P[p] = BASE,
         NEW Q, Q = [P EXCEPT ![b] = P[p], ![p] = b]
  PROVE  Tidy(Q, S, brk, F \cup {b}, used \ {b}, {p, b})
<1>a. Linked(P, F)
  BY TidyIs
<1>0. /\ LIMIT \in Nat /\ F \subseteq 0 .. LIMIT /\ used \subseteq 1 .. LIMIT /\ BASE = 0 /\ 0 \in F
      /\ F \cap used = {} /\ P \in [0 .. LIMIT -> 0 .. LIMIT]
      /\ \A a \in F : a \in Nat /\ a <= LIMIT /\ P[a] \in F /\ (P[a] > a \/ P[a] = 0)
      /\ \A a \in F : P[a] \in Nat
      /\ \A a, c \in F : a < c => a < P[a] /\ P[a] <= c
  <2>1. used \subseteq 1 .. LIMIT /\ F \cap used = {} /\ P \in [0 .. LIMIT -> 0 .. LIMIT]
    BY DEF Tidy
  <2> QED BY <1>a, <2>1, LinksAre
<1>1. /\ b \in 0 .. LIMIT /\ p \in 0 .. LIMIT /\ p # b /\ b \notin F /\ P[p] \in F
      /\ b \in Nat /\ p \in Nat /\ P[p] \in Nat /\ P[p] \in 0 .. LIMIT /\ b # 0 /\ (P[p] > b \/ P[p] = 0)
  BY <1>0, TidyIs
<1>2. /\ Q \in [0 .. LIMIT -> 0 .. LIMIT] /\ Q[b] = P[p] /\ Q[p] = b
      /\ \A a \in 0 .. LIMIT : a # b /\ a # p => Q[a] = P[a]
  BY <1>0, <1>1
<1>b. \A a \in F : a # p => Q[a] = P[a]
  BY <1>0, <1>1, <1>2
<1>3. Linked(Q, F \cup {b})
  <2>1. F \cup {b} \subseteq 0 .. LIMIT /\ BASE \in F \cup {b}
    BY <1>0, <1>1
  <2>2. ASSUME NEW a \in F \cup {b} PROVE Q[a] \in F \cup {b} /\ (Q[a] > a \/ Q[a] = BASE)
    <3>1. CASE a = b
      BY <1>0, <1>1, <1>2, <3>1
    <3>2. CASE a = p
      BY <1>1, <1>2, <3>2
    <3>3. CASE a # b /\ a # p
      <4>1. a \in F /\ Q[a] = P[a]
        BY <1>b, <3>3
      <4> QED BY <1>0, <4>1
    <3> QED BY <3>1, <3>2, <3>3
  <2>3. ASSUME NEW a \in F \cup {b}, NEW c \in F \cup {b}, a < c PROVE a < Q[a] /\ Q[a] <= c
    <3>0. a \in Nat /\ c \in Nat
      BY <1>0, <1>1
    <3>1. CASE a = b
      <4>1. c \in F /\ p < c
        BY <1>1, <2>3, <3>0, <3>1
      <4>2. p < P[p] /\ P[p] <= c
        BY <1>0, <4>1
      <4> QED BY <1>1, <1>2, <3>0, <3>1, <4>2
    <3>2. CASE a = p
      <4>1. CASE c = b
        BY <1>2, <3>2, <4>1
      <4>2. CASE c \in F
        <5>1. p < P[p] /\ P[p] <= c
          BY <1>0, <2>3, <3>2, <4>2
        <5> QED BY <1>1, <1>2, <3>0, <3>2, <5>1
      <4> QED BY <4>1, <4>2
    <3>3. CASE a # b /\ a # p
      <4>1. a \in F /\ Q[a] = P[a]
        BY <1>b, <3>3
      <4>2. CASE c \in F
        BY <1>0, <2>3, <4>1, <4>2
      <4>3. CASE c = b
        <5>1. CASE a < p
          <6>1. a < P[a] /\ P[a] <= p /\ P[a] \in Nat
            BY <1>0, <4>1, <5>1
          <6> QED BY <1>1, <3>0, <4>1, <4>3, <6>1
        <5>2. CASE p < a
          <6>1. p < P[p] /\ P[p] <= a
            BY <1>0, <4>1, <5>2
          <6> QED BY <1>1, <2>3, <3>0, <4>3, <6>1
        <5> QED BY <1>1, <3>0, <3>3, <5>1, <5>2
      <4> QED BY <4>2, <4>3
    <3> QED BY <3>1, <3>2, <3>3
  <2> QED BY <2>1, <2>2, <2>3 DEF Linked
<1>4. (F \cup {b}) \cup (used \ {b}) = F \cup used /\ (F \cup {b}) \cap (used \ {b}) = {}
  BY <1>0, <1>1
<1>5. \A a \in (F \cup {b}) \ {p, b} : a # BASE => Q[a] # a + S[a]
  <2>1. \A a \in F : a # 0 => P[a] # a + S[a]
    BY <1>0 DEF Tidy
  <2> QED BY <1>0, <1>b, <2>1
<1>6. S \in [0 .. LIMIT -> Nat] /\ brk \in 1 .. LIMIT /\ S[BASE] = 0 /\ Apart(S, brk, F \cup used)
  BY DEF Tidy
<1> QED BY <1>0, <1>2, <1>3, <1>4, <1>5, <1>6 DEF Tidy

LEMMA MergeIs ==
  ASSUME NEW P, NEW S, NEW brk, NEW F, NEW used, NEW A, Tidy(P, S, brk, F, used, A),
         NEW a \in F, a # BASE, NEW q, q = P[a], q = a + S[a], q \notin A,
         NEW Q, Q = [P EXCEPT ![a] = P[q]], NEW Z, Z = [S EXCEPT ![a] = S[a] + S[q]]
  PROVE  Tidy(Q, Z, brk, F \ {q}, used, A \ {a})
<1>a. Linked(P, F)
  BY TidyIs
<1>0. /\ LIMIT \in Nat /\ F \subseteq 0 .. LIMIT /\ used \subseteq 1 .. LIMIT /\ BASE = 0 /\ 0 \in F
      /\ F \cap used = {} /\ P \in [0 .. LIMIT -> 0 .. LIMIT] /\ S \in [0 .. LIMIT -> Nat]
      /\ \A c \in F : c \in Nat /\ c <= LIMIT /\ P[c] \in F /\ (P[c] > c \/ P[c] = 0)
      /\ \A c \in F : P[c] \in Nat
      /\ \A c, d \in F : c < d => c < P[c] /\ P[c] <= d
      /\ brk \in 1 .. LIMIT /\ brk \in Nat /\ S[0] = 0
  <2>1. LIMIT \in Nat /\ BASE = 0
    BY <1>a, LinksAre
  <2>2. /\ used \subseteq 1 .. LIMIT /\ F \cap used = {} /\ P \in [0 .. LIMIT -> 0 .. LIMIT]
        /\ S \in [0 .. LIMIT -> Nat] /\ brk \in 1 .. LIMIT /\ S[0] = 0
    BY <2>1 DEF Tidy
  <2>3. brk \in Nat
    BY <2>1, <2>2
  <2> QED BY <1>a, <2>2, <2>3, LinksAre
<1>b. /\ \A c \in F \cup used : c \in 0 .. LIMIT /\ c \in Nat /\ S[c] \in Nat
      /\ \A c \in F \cup used : c # 0 => S[c] > 0 /\ c + S[c] <= brk
      /\ \A c, d \in F \cup used : c < d => c + S[c] <= d
      /\ \A c \in F : c # 0 /\ c \notin A => P[c] # c + S[c]
  <2>1. \A c \in F \cup used : c \in 0 .. LIMIT /\ c \in Nat /\ S[c] \in Nat
    BY TidyIs
  <2>2. \A c \in F \cup used : c # 0 => S[c] > 0 /\ c + S[c] <= brk
    BY BlocksApart
  <2>3. \A c, d \in F \cup used : c < d => c + S[c] <= d
    BY BlocksApart
  <2>4. \A c \in F : c # 0 /\ c \notin A => P[c] # c + S[c]
    BY <1>0 DEF Tidy
  <2> QED BY <2>1, <2>2, <2>3, <2>4
<1>1. a \in 0 .. LIMIT /\ a \in Nat /\ S[a] > 0 /\ S[a] \in Nat /\ q \in F /\ q > a /\ q # 0 /\ a # 0
  <2>1. a \in F \cup used /\ a # 0 /\ q \in F
    BY <1>0
  <2>2. a \in 0 .. LIMIT /\ a \in Nat /\ S[a] > 0 /\ S[a] \in Nat
    BY <1>b, <2>1
  <2> QED BY <2>1, <2>2
<1>2. /\ q \in 0 .. LIMIT /\ q \in Nat /\ S[q] \in Nat /\ S[q] > 0 /\ q + S[q] <= brk
      /\ P[q] \in F /\ P[q] \in Nat /\ P[q] \in 0 .. LIMIT
  <2>1. q \in F \cup used
    BY <1>1
  <2>2. q \in 0 .. LIMIT /\ q \in Nat /\ S[q] \in Nat /\ S[q] > 0 /\ q + S[q] <= brk
    BY <1>b, <1>1, <2>1
  <2>3. P[q] \in F /\ P[q] \in Nat
    BY <1>0, <1>1
  <2>4. P[q] \in 0 .. LIMIT
    BY <1>0, <2>2
  <2> QED BY <2>2, <2>3, <2>4
<1>3. /\ Q \in [0 .. LIMIT -> 0 .. LIMIT] /\ Q[a] = P[q] /\ \A c \in 0 .. LIMIT : c # a => Q[c] = P[c]
      /\ Z \in [0 .. LIMIT -> Nat] /\ Z[a] = S[a] + S[q] /\ \A c \in 0 .. LIMIT : c # a => Z[c] = S[c]
  <2>1. S[a] + S[q] \in Nat
    BY <1>1, <1>2
  <2> QED BY <1>0, <1>1, <1>2, <2>1
<1>5. \A c \in F : c # a => P[c] # q
  BY <1>a, LinksDiffer
<1>4. P[q] # q /\ (P[q] > q \/ P[q] = 0)
  <2>1. q # a
    BY <1>1, <1>2
  <2> QED BY <1>0, <1>1, <1>5, <2>1
<1>c. /\ \A c \in F : c # a => Q[c] = P[c]
      /\ \A c \in F \cup used : c # a => Z[c] = S[c]
  <2>1. \A c \in F \cup used : c \in 0 .. LIMIT
    BY <1>b
  <2> QED BY <1>3, <2>1
<1>6. Linked(Q, F \ {q})
  <2>1. ASSUME NEW c \in F \ {q} PROVE Q[c] \in F \ {q} /\ (Q[c] > c \/ Q[c] = BASE)
    <3>1. CASE c = a
      BY <1>0, <1>1, <1>2, <1>3, <1>4, <3>1
    <3>2. CASE c # a
      <4>1. Q[c] = P[c] /\ P[c] # q
        BY <1>c, <1>5, <3>2
      <4> QED BY <1>0, <4>1
    <3> QED BY <3>1, <3>2
  <2>2. ASSUME NEW c \in F \ {q}, NEW d \in F \ {q}, c < d PROVE c < Q[c] /\ Q[c] <= d
    <3>0. c \in Nat /\ d \in Nat
      BY <1>0
    <3>1. CASE c = a
      <4>1. q <= d /\ q # d
        BY <1>0, <2>2, <3>1
      <4>2. q < d
        BY <1>2, <3>0, <4>1
      <4>3. q < P[q] /\ P[q] <= d
        BY <1>0, <1>1, <4>2
      <4> QED BY <1>1, <1>2, <1>3, <3>0, <3>1, <4>3
    <3>2. CASE c # a
      BY <1>0, <1>c, <2>2, <3>2
    <3> QED BY <3>1, <3>2
  <2> QED BY <1>0, <1>1, <2>1, <2>2 DEF Linked
<1>7. Apart(Z, brk, (F \ {q}) \cup used)
  <2>1. ASSUME NEW c \in (F \ {q}) \cup used, c # BASE PROVE Z[c] > 0 /\ c + Z[c] <= brk
    <3>1. CASE c = a
      BY <1>1, <1>2, <1>3, <3>1
    <3>2. CASE c # a
      BY <1>0, <1>b, <1>c, <2>1, <3>2
    <3> QED BY <3>1, <3>2
  <2>2. ASSUME NEW c \in (F \ {q}) \cup used, NEW d \in (F \ {q}) \cup used, c < d PROVE c + Z[c] <= d
    <3>1. CASE c = a
      <4>1. q <= d /\ q # d /\ d \in F \cup used /\ d \in Nat
        <5>1. a + S[a] <= d
          BY <1>b, <2>2, <3>1
        <5> QED BY <1>0, <1>1, <1>b, <2>2, <5>1
      <4>2. q < d
        BY <1>2, <4>1
      <4>3. q + S[q] <= d
        BY <1>1, <1>b, <4>1, <4>2
      <4> QED BY <1>1, <1>2, <1>3, <3>1, <4>1, <4>3
    <3>2. CASE c # a
      BY <1>b, <1>c, <2>2, <3>2
    <3> QED BY <3>1, <3>2
  <2> QED BY <2>1, <2>2 DEF Apart
<1>8. \A c \in (F \ {q}) \ (A \ {a}) : c # BASE => Q[c] # c + Z[c]
  <2>1. ASSUME NEW c \in (F \ {q}) \ (A \ {a}), c # BASE PROVE Q[c] # c + Z[c]
    <3>1. CASE c = a
      <4>1. P[q] # q + S[q]
        BY <1>1, <1>b
      <4> QED BY <1>1, <1>2, <1>3, <3>1, <4>1
    <3>2. CASE c # a
      BY <1>0, <1>b, <1>c, <2>1, <3>2
    <3> QED BY <3>1, <3>2
  <2> QED BY <2>1
<1>9. Z[BASE] = 0 /\ (F \ {q}) \cap used = {}
  BY <1>0, <1>1, <1>3
<1> QED BY <1>0, <1>3, <1>6, <1>7, <1>8, <1>9 DEF Tidy

LEMMA SettleIs ==
  ASSUME NEW P, NEW S, NEW brk, NEW F, NEW used, NEW A, Tidy(P, S, brk, F, used, A),
         NEW a, a # BASE => P[a] # a + S[a]
  PROVE  Tidy(P, S, brk, F, used, A \ {a})
<1>1. \A c \in F \ (A \ {a}) : c # BASE => P[c] # c + S[c]
  BY DEF Tidy
<1> QED BY <1>1 DEF Tidy

Heap(h, F, used) ==
    /\ h = [ptr |-> h.ptr, size |-> h.size, freep |-> h.freep, brk |-> h.brk]
    /\ Tidy(h.ptr, h.size, h.brk, F, used, {}) /\ h.freep \in F

LEMMA FreeIs ==
  ASSUME NEW h, NEW F, NEW used, Heap(h, F, used), NEW b \in used, NEW g, g = free(h, b)
  PROVE  \E G : Heap(g, G, used \ {b}) /\ \E a \in G : g.size[a] >= h.size[b]
<1>a. PICK P, S : P = h.ptr /\ S = h.size
  OBVIOUS
<1>b. Tidy(P, S, h.brk, F, used, {}) /\ h.freep \in F /\ h = [ptr |-> P, size |-> S, freep |-> h.freep, brk |-> h.brk]
  BY <1>a DEF Heap
<1>c. Linked(P, F)
  BY <1>b DEF Tidy
<1>0. /\ LIMIT \in Nat /\ used \subseteq 1 .. LIMIT /\ BASE = 0 /\ S[0] = 0 /\ F \cap used = {}
      /\ P \in [0 .. LIMIT -> 0 .. LIMIT] /\ S \in [0 .. LIMIT -> Nat]
      /\ \A a \in F : a \in Nat /\ a <= LIMIT /\ P[a] \in F /\ P[a] \in Nat
  <2>1. LIMIT \in Nat /\ BASE = 0 /\ \A a \in F : a \in Nat /\ a <= LIMIT /\ P[a] \in F /\ P[a] \in Nat
    BY <1>c, LinksAre
  <2> QED BY <1>b, <2>1 DEF Tidy
<1>1. PICK p, q : p = Place(h, b) /\ q = P[p]
  OBVIOUS
<1>2. b \in 1 .. LIMIT /\ b \in 0 .. LIMIT /\ b \in Nat /\ b \notin F /\ b # 0
  BY <1>0
<1>3. /\ p \in F /\ p \in 0 .. LIMIT /\ p \in Nat /\ p < b /\ p # b /\ (q > b \/ q = 0) /\ (q > b \/ q = BASE)
      /\ q \in F /\ q \in 0 .. LIMIT /\ q \in Nat /\ q # b
  <2>1. p \in F /\ p < b /\ (q > b \/ q = BASE)
    BY <1>a, <1>b, <1>c, <1>1, <1>2, PlaceIs
  <2>2. p \in Nat /\ p <= LIMIT /\ q \in F /\ q \in Nat
    BY <1>0, <1>1, <2>1
  <2>3. q <= LIMIT
    BY <1>0, <2>2
  <2> QED BY <1>0, <1>2, <2>1, <2>2, <2>3
<1>4. p # b /\ S[p] \in Nat /\ S[b] \in Nat /\ S[q] \in Nat /\ P[q] \in 0 .. LIMIT
  BY <1>0, <1>2, <1>3
<1>5. PICK P0 : P0 = [P EXCEPT ![b] = q, ![p] = b]
  OBVIOUS
<1>6. Tidy(P0, S, h.brk, F \cup {b}, used \ {b}, {p, b})
  BY <1>b, <1>1, <1>3, <1>5, InsertIs
<1>7. PICK h1 : h1 = JoinNext(h, p, b)
  OBVIOUS
<1>8. PICK P1, S1 : P1 = h1.ptr /\ S1 = h1.size
  OBVIOUS
<1>9. /\ h1 = [ptr |-> P1, size |-> S1, freep |-> h.freep, brk |-> h.brk]
      /\ b + S[b] = q => P1 = [P EXCEPT ![b] = P[q]] /\ S1 = [S EXCEPT ![b] = S[b] + S[q]]
      /\ b + S[b] # q => P1 = [P EXCEPT ![b] = q] /\ S1 = S
  <2>1. h.ptr = P /\ h.size = S
    BY <1>a
  <2>2. CASE b + S[b] = q
    BY <1>b, <1>1, <1>7, <1>8, <2>1, <2>2 DEF JoinNext
  <2>3. CASE b + S[b] # q
    BY <1>b, <1>1, <1>7, <1>8, <2>1, <2>3 DEF JoinNext
  <2> QED BY <2>2, <2>3
<1>10. PICK P01 : P01 = [P1 EXCEPT ![p] = b]
  OBVIOUS
<1>11. P0 \in [0 .. LIMIT -> 0 .. LIMIT] /\ P0[b] = q /\ P0[p] = b
       /\ \A c \in 0 .. LIMIT : c # b /\ c # p => P0[c] = P[c]
  BY <1>0, <1>2, <1>3, <1>4, <1>5
<1>12. \E F1 : /\ Tidy(P01, S1, h.brk, F1, used \ {b}, {p}) /\ p \in F1 /\ b \in F1
               /\ P1 \in [0 .. LIMIT -> 0 .. LIMIT] /\ S1[b] >= S[b] /\ S1[b] \in Nat /\ S1[p] = S[p]
  <2>1. CASE b + S[b] = q
    <3>1. q # p /\ q > b /\ q # BASE /\ b # BASE
      BY <1>0, <1>2, <1>3, <1>4, <2>1
    <3>2. PICK Q : Q = [P0 EXCEPT ![b] = P0[q]]
      OBVIOUS
    <3>3. P0[q] = P[q] /\ P[q] \in 0 .. LIMIT
      BY <1>0, <1>3, <1>11, <3>1
    <3>4. P1 \in [0 .. LIMIT -> 0 .. LIMIT] /\ S1 = [S EXCEPT ![b] = S[b] + S[q]]
      BY <1>0, <1>9, <2>1, <3>3
    <3>5. P01 = Q
      <4>1. P01 = [P1 EXCEPT ![p] = b] /\ P1 = [P EXCEPT ![b] = P[q]]
        BY <1>9, <1>10, <2>1
      <4>2. P01 \in [0 .. LIMIT -> 0 .. LIMIT] /\ Q \in [0 .. LIMIT -> 0 .. LIMIT]
        BY <1>0, <1>2, <1>11, <3>2, <3>3, <3>4, <4>1
      <4>3. \A c \in 0 .. LIMIT : P01[c] = IF c = p THEN b ELSE IF c = b THEN P[q] ELSE P[c]
        BY <1>0, <3>4, <4>1
      <4>4. \A c \in 0 .. LIMIT : Q[c] = IF c = b THEN P[q] ELSE P0[c]
        BY <1>11, <3>2, <3>3
      <4>5. \A c \in 0 .. LIMIT : P01[c] = Q[c]
        BY <1>4, <1>11, <4>3, <4>4
      <4> QED BY <4>2, <4>5, SameLinks, Zenon
    <3>6. Tidy(P01, S1, h.brk, (F \cup {b}) \ {q}, used \ {b}, {p, b} \ {b})
      BY <1>2, <1>3, <1>6, <1>11, <2>1, <3>1, <3>2, <3>4, <3>5, MergeIs
    <3>7. {p, b} \ {b} = {p} /\ p \in (F \cup {b}) \ {q} /\ b \in (F \cup {b}) \ {q}
      BY <1>3, <1>4, <3>1
    <3>8. S1[b] = S[b] + S[q] /\ S1[p] = S[p]
      BY <1>0, <1>2, <1>3, <1>4, <3>4
    <3>9. Tidy(P01, S1, h.brk, (F \cup {b}) \ {q}, used \ {b}, {p})
      BY <3>6, <3>7
    <3>10. S1[b] >= S[b] /\ S1[b] \in Nat
      BY <1>4, <3>8
    <3> QED BY <3>4, <3>7, <3>8, <3>9, <3>10
  <2>2. CASE b + S[b] # q
    <3>1. P1 \in [0 .. LIMIT -> 0 .. LIMIT] /\ S1 = S /\ P1 = [P EXCEPT ![b] = q]
      BY <1>0, <1>3, <1>9, <2>2
    <3>2. P01 = P0
      <4>1. P01 \in [0 .. LIMIT -> 0 .. LIMIT]
        BY <1>2, <1>10, <3>1
      <4>2. \A c \in 0 .. LIMIT : P01[c] = P0[c]
        BY <1>0, <1>4, <1>10, <1>11, <3>1
      <4> QED BY <1>11, <4>1, <4>2, SameLinks, Zenon
    <3>3. Tidy(P0, S, h.brk, F \cup {b}, used \ {b}, {p, b} \ {b})
      BY <1>6, <1>11, <2>2, SettleIs
    <3>4. {p, b} \ {b} = {p} /\ S1[b] >= S[b] /\ p \in F \cup {b} /\ b \in F \cup {b}
      BY <1>3, <1>4, <3>1
    <3>5. Tidy(P01, S1, h.brk, F \cup {b}, used \ {b}, {p})
      BY <3>1, <3>2, <3>3, <3>4
    <3> QED BY <1>4, <3>1, <3>4, <3>5
  <2> QED BY <2>1, <2>2
<1>13. PICK F1 : /\ Tidy(P01, S1, h.brk, F1, used \ {b}, {p}) /\ p \in F1 /\ b \in F1
                 /\ P1 \in [0 .. LIMIT -> 0 .. LIMIT] /\ S1[b] >= S[b] /\ S1[b] \in Nat /\ S1[p] = S[p]
  BY <1>12
<1>14. P01 \in [0 .. LIMIT -> 0 .. LIMIT] /\ P01[p] = b /\ P01[b] = P1[b] /\ S1 \in [0 .. LIMIT -> Nat]
       /\ P1[b] \in 0 .. LIMIT
  <2>1. S1 \in [0 .. LIMIT -> Nat]
    BY <1>13 DEF Tidy
  <2> QED BY <1>2, <1>3, <1>4, <1>10, <1>13, <2>1
<1>15. PICK P2, S2 : P2 = g.ptr /\ S2 = g.size
  OBVIOUS
<1>16. /\ g = [ptr |-> P2, size |-> S2, freep |-> p, brk |-> h.brk]
       /\ p + S1[p] = b => P2 = [P1 EXCEPT ![p] = P1[b]] /\ S2 = [S1 EXCEPT ![p] = S1[p] + S1[b]]
       /\ p + S1[p] # b => P2 = P01 /\ S2 = S1
  <2>0. PICK h2 : h2 = JoinPrev(h1, p, b)
    OBVIOUS
  <2>1. g = [h2 EXCEPT !.freep = p]
    BY <1>1, <1>7, <2>0 DEF free, FreeAfter
  <2>2. CASE p + S1[p] = b
    <3>1. h2 = [h1 EXCEPT !.size[p] = @ + h1.size[b], !.ptr[p] = h1.ptr[b]]
      BY <1>8, <2>0, <2>2 DEF JoinPrev
    <3>2. h2 = [ptr |-> [P1 EXCEPT ![p] = P1[b]], size |-> [S1 EXCEPT ![p] = S1[p] + S1[b]], freep |-> h.freep, brk |-> h.brk]
      BY <1>9, <3>1
    <3> QED BY <1>15, <2>1, <2>2, <3>2
  <2>3. CASE p + S1[p] # b
    <3>1. h2 = [h1 EXCEPT !.ptr[p] = b]
      BY <1>8, <2>0, <2>3 DEF JoinPrev
    <3>2. h2 = [ptr |-> P01, size |-> S1, freep |-> h.freep, brk |-> h.brk]
      BY <1>9, <1>10, <3>1
    <3> QED BY <1>15, <2>1, <2>3, <3>2
  <2> QED BY <2>2, <2>3
<1>17. {p} \ {p} = {}
  OBVIOUS
<1>18. \E G : Tidy(P2, S2, h.brk, G, used \ {b}, {}) /\ p \in G /\ \E a \in G : S2[a] >= S[b]
  <2>1. CASE p + S1[p] = b
    <3>1. p # BASE
      BY <1>0, <1>2, <1>13, <2>1
    <3>2. PICK Q : Q = [P01 EXCEPT ![p] = P01[b]]
      OBVIOUS
    <3>3. P2 = Q
      <4>1. Q \in [0 .. LIMIT -> 0 .. LIMIT] /\ P2 \in [0 .. LIMIT -> 0 .. LIMIT]
        BY <1>13, <1>14, <1>16, <2>1, <3>2
      <4>2. \A c \in 0 .. LIMIT : Q[c] = P2[c]
        BY <1>3, <1>10, <1>13, <1>14, <1>16, <2>1, <3>2
      <4> QED BY <4>1, <4>2, SameLinks, Zenon
    <3>4. Tidy(P2, S2, h.brk, F1 \ {b}, used \ {b}, {p} \ {p})
      <4>1. b = P01[p] /\ b = p + S1[p] /\ b \notin {p}
        BY <1>4, <1>14, <2>1
      <4>2. S2 = [S1 EXCEPT ![p] = S1[p] + S1[b]]
        BY <1>16, <2>1
      <4> QED BY <1>13, <3>1, <3>2, <3>3, <4>1, <4>2, MergeIs
    <3>5. S2[p] = S1[p] + S1[b] /\ p \in F1 \ {b}
      BY <1>3, <1>4, <1>13, <1>14, <1>16, <2>1
    <3>6. S2[p] >= S[b]
      BY <1>4, <1>13, <3>5
    <3> QED BY <1>17, <3>4, <3>5, <3>6
  <2>2. CASE p + S1[p] # b
    <3>1. Tidy(P01, S1, h.brk, F1, used \ {b}, {p} \ {p})
      BY <1>13, <1>14, <2>2, SettleIs
    <3> QED BY <1>13, <1>16, <1>17, <2>2, <3>1
  <2> QED BY <2>1, <2>2
<1>19. PICK G : Tidy(P2, S2, h.brk, G, used \ {b}, {}) /\ p \in G /\ \E a \in G : S2[a] >= S[b]
  BY <1>18
<1>20. Heap(g, G, used \ {b})
  BY <1>15, <1>16, <1>19 DEF Heap
<1> QED BY <1>a, <1>15, <1>19, <1>20

(* malloc's outcome m, of n units, next to the blocks used.                *)
Gives(m, used, n) ==
    /\ m.at \in 1 .. LIMIT /\ m.at \notin used
    /\ \E G : Heap(m.heap, G, used \cup {m.at})

LEMMA TakenIs ==
  ASSUME NEW h, NEW F, NEW used, Heap(h, F, used), NEW prev \in F, NEW p, p = h.ptr[prev],
         NEW n \in Nat \ {0}, h.size[p] >= n, NEW m, m = Taken(h, prev, p, n)
  PROVE  Gives(m, used, n)
<1>a. PICK P, S, brk : P = h.ptr /\ S = h.size /\ brk = h.brk
  OBVIOUS
<1>b. Tidy(P, S, brk, F, used, {}) /\ h = [ptr |-> P, size |-> S, freep |-> h.freep, brk |-> brk]
  BY <1>a DEF Heap
<1>c. Linked(P, F)
  BY <1>b DEF Tidy
<1>0. /\ LIMIT \in Nat /\ used \subseteq 1 .. LIMIT /\ BASE = 0 /\ S[0] = 0 /\ F \cap used = {}
      /\ P \in [0 .. LIMIT -> 0 .. LIMIT] /\ S \in [0 .. LIMIT -> Nat] /\ brk \in 1 .. LIMIT /\ brk \in Nat /\ brk <= LIMIT
      /\ 0 \in F /\ F \subseteq 0 .. LIMIT
      /\ \A a \in F : a # 0 => P[a] # a + S[a]
  <2>1. LIMIT \in Nat /\ BASE = 0 /\ 0 \in F /\ F \subseteq 0 .. LIMIT
    BY <1>c, LinksAre
  <2>2. brk \in 1 .. LIMIT /\ brk \in Nat /\ brk <= LIMIT
    BY <1>b, <2>1 DEF Tidy
  <2> QED BY <1>b, <2>1, <2>2 DEF Tidy
<1>2. /\ \A x \in F \cup used : x \in 0 .. LIMIT /\ x \in Nat /\ S[x] \in Nat
      /\ \A x \in F \cup used : x # 0 => S[x] > 0 /\ x + S[x] <= brk
      /\ \A x, y \in F \cup used : x < y => x + S[x] <= y
      /\ \A a \in F : P[a] \in F /\ P[a] \in Nat /\ (P[a] > a \/ P[a] = 0)
      /\ \A a, c \in F : a < c => a < P[a] /\ P[a] <= c
  <2>1. \A x \in F \cup used : x \in 0 .. LIMIT /\ x \in Nat /\ S[x] \in Nat
    BY <1>b, TidyIs
  <2>2. /\ \A x \in F \cup used : x # 0 => S[x] > 0 /\ x + S[x] <= brk
        /\ \A x, y \in F \cup used : x < y => x + S[x] <= y
    BY <1>b, BlocksApart
  <2>3. /\ \A a \in F : P[a] \in F /\ P[a] \in Nat /\ (P[a] > a \/ P[a] = 0)
        /\ \A a, c \in F : a < c => a < P[a] /\ P[a] <= c
    BY <1>c, LinksAre
  <2> QED BY <2>1, <2>2, <2>3
<1>d. p = P[prev] /\ S[p] >= n /\ prev \in Nat /\ prev \in 0 .. LIMIT /\ p \in F
  <2>1. p = P[prev] /\ S[p] >= n
    BY <1>a
  <2> QED BY <1>2, <2>1
<1>1. /\ p \in 0 .. LIMIT /\ p \in Nat /\ p # 0 /\ S[p] \in Nat /\ p # prev
      /\ p + S[p] <= brk /\ p \in 1 .. LIMIT /\ p \notin used /\ P[p] \in F /\ P[p] \in Nat /\ P[p] \in 0 .. LIMIT
  <2>1. p \in 0 .. LIMIT /\ p \in Nat /\ S[p] \in Nat /\ P[p] \in F /\ P[p] \in Nat
    BY <1>2, <1>d
  <2>2. p # 0
    BY <1>0, <1>d
  <2>3. p + S[p] <= brk
    BY <1>2, <1>d, <2>2
  <2>4. p # prev
    BY <1>2, <1>d, <2>1, <2>2
  <2>5. p \notin used /\ P[p] \in 0 .. LIMIT
    BY <1>0, <1>d, <2>1
  <2>6. p \in 1 .. LIMIT
    BY <2>1, <2>2
  <2> QED BY <2>1, <2>2, <2>3, <2>4, <2>5, <2>6
<1>f. LIMIT \in Nat /\ brk \in Nat /\ brk <= LIMIT
  BY <1>0
<1>e. prev < p
  <2>1. P[prev] > prev \/ P[prev] = 0
    BY <1>2
  <2> QED BY <1>1, <1>d, <2>1
<1>3. CASE S[p] = n
  <2>1. PICK Q : Q = [P EXCEPT ![prev] = P[p]]
    OBVIOUS
  <2>2. Q \in [0 .. LIMIT -> 0 .. LIMIT] /\ Q[prev] = P[p] /\ \A c \in 0 .. LIMIT : c # prev => Q[c] = P[c]
    BY <1>0, <1>1, <2>1
  <2>3. m.at = p /\ m.heap = [ptr |-> Q, size |-> S, freep |-> prev, brk |-> brk]
    BY <1>a, <1>b, <1>3, <2>1 DEF Taken
  <2>4. p = P[prev] /\ P[p] # p /\ \A c \in F : c # prev => P[c] # p
    <3>1. \A c \in F : P[c] = P[prev] => c = prev
      BY <1>c, LinksDiffer
    <3> QED BY <1>1, <1>d, <3>1
  <2>5. Linked(Q, F \ {p})
    <3>1. ASSUME NEW c \in F \ {p} PROVE Q[c] \in F \ {p} /\ (Q[c] > c \/ Q[c] = BASE)
      <4>1. CASE c = prev
        <5>1. P[p] > p \/ P[p] = 0
          BY <1>2, <1>d
        <5>2. P[p] > prev \/ P[p] = 0
          BY <1>1, <1>d, <1>e, <5>1
        <5> QED BY <1>0, <1>1, <2>2, <2>4, <4>1, <5>2
      <4>2. CASE c # prev
        <5>1. c \in 0 .. LIMIT /\ Q[c] = P[c]
          BY <1>2, <2>2, <4>2
        <5> QED BY <1>0, <1>2, <2>4, <4>2, <5>1
      <4> QED BY <4>1, <4>2
    <3>2. ASSUME NEW c \in F \ {p}, NEW d \in F \ {p}, c < d PROVE c < Q[c] /\ Q[c] <= d
      <4>0. c \in Nat /\ d \in Nat
        BY <1>2
      <4>1. CASE c = prev
        <5>1. prev < p /\ p <= d /\ p # d
          BY <1>2, <1>d, <3>2, <4>1
        <5>2. p < P[p] /\ P[p] <= d
          <6>1. p < d
            BY <1>1, <4>0, <5>1
          <6> QED BY <1>d, <1>2, <6>1
        <5>3. Q[c] = P[p] /\ c < p
          BY <2>2, <4>1, <5>1
        <5> QED BY <1>1, <4>0, <5>2, <5>3
      <4>2. CASE c # prev
        <5>1. c \in 0 .. LIMIT /\ Q[c] = P[c]
          BY <1>2, <2>2, <4>2
        <5> QED BY <1>2, <3>2, <5>1
      <4> QED BY <4>1, <4>2
    <3> QED BY <1>0, <1>1, <3>1, <3>2 DEF Linked
  <2>6. \A c \in F \ {p} : c # BASE => Q[c] # c + S[c]
    <3>1. ASSUME NEW c \in F \ {p}, c # BASE PROVE Q[c] # c + S[c]
      <4>1. CASE c = prev
        <5>1. c \in Nat /\ S[c] \in Nat /\ S[c] > 0 /\ c + S[c] <= p
          <6>1. c \in F \cup used /\ p \in F \cup used /\ c < p /\ c # 0
            BY <1>0, <1>d, <1>e, <3>1, <4>1
          <6> QED BY <1>2, <6>1
        <5>2. P[p] > p \/ P[p] = 0
          BY <1>2, <1>d
        <5>3. P[p] # c + S[c]
          BY <1>1, <5>1, <5>2
        <5> QED BY <2>2, <4>1, <5>3
      <4>2. CASE c # prev
        <5>1. c \in 0 .. LIMIT /\ Q[c] = P[c]
          BY <1>2, <2>2, <4>2
        <5> QED BY <1>0, <3>1, <5>1
      <4> QED BY <4>1, <4>2
    <3> QED BY <3>1
  <2>7. (F \ {p}) \cup (used \cup {p}) = F \cup used /\ (F \ {p}) \cap (used \cup {p}) = {} /\ used \cup {p} \subseteq 1 .. LIMIT
    BY <1>0, <1>1, <1>d
  <2>8. Tidy(Q, S, brk, F \ {p}, used \cup {p}, {})
    <3>1. Apart(S, brk, F \cup used)
      BY <1>b DEF Tidy
    <3> QED BY <1>0, <2>2, <2>5, <2>6, <2>7, <3>1 DEF Tidy
  <2>9. Heap(m.heap, F \ {p}, used \cup {p})
    <3>1. prev \in F \ {p}
      BY <1>1
    <3> QED BY <2>3, <2>8, <3>1 DEF Heap
  <2> QED BY <1>1, <2>3, <2>9 DEF Gives
<1>4. CASE S[p] # n
  <2>1. PICK t, Z : t = p + S[p] - n /\ Z = [S EXCEPT ![p] = S[p] - n, ![t] = n]
    OBVIOUS
  <2>2. S[p] > n /\ t \in Nat /\ t \in 1 .. LIMIT /\ t \in 0 .. LIMIT /\ p < t /\ t + n = p + S[p]
    <3>1. S[p] > n
      BY <1>1, <1>4, <1>d
    <3>2. t \in Nat /\ p < t /\ t + n = p + S[p]
      BY <1>1, <2>1, <3>1
    <3>3. t <= brk
      BY <1>f, <1>1, <3>2
    <3>4. t >= 1 /\ t <= LIMIT
      BY <1>f, <1>1, <3>2, <3>3
    <3> QED BY <1>f, <3>1, <3>2, <3>4
  <2>b. S[p] - n \in Nat /\ S[p] - n > 0 /\ p + (S[p] - n) = t /\ t + n <= brk /\ n > 0 /\ t <= brk
    <3>1. n > 0 /\ n \in Nat /\ S[p] \in Nat /\ p \in Nat /\ p + S[p] <= brk
      BY <1>1
    <3> QED BY <1>f, <2>2, <3>1
  <2>3. t \notin F \cup used
    <3>1. ASSUME t \in F \cup used PROVE FALSE
      <4>1. p + S[p] <= t
        BY <1>2, <1>d, <2>2, <3>1
      <4> QED BY <1>1, <2>2, <4>1
    <3> QED BY <3>1
  <2>4. /\ Z \in [0 .. LIMIT -> Nat] /\ Z[p] = S[p] - n /\ Z[t] = n
        /\ \A c \in 0 .. LIMIT : c # p /\ c # t => Z[c] = S[c]
    <3>1. S[p] - n \in Nat /\ n \in Nat /\ p # t
      BY <1>1, <2>2
    <3> QED BY <1>0, <1>1, <2>1, <2>2, <3>1
  <2>a. \A c \in F \cup used : c # p => Z[c] = S[c]
    <3>1. \A c \in F \cup used : c \in 0 .. LIMIT /\ c # t
      BY <1>2, <2>3
    <3> QED BY <2>4, <3>1
  <2>5. m.at = t /\ m.heap = [ptr |-> P, size |-> Z, freep |-> prev, brk |-> brk]
    BY <1>a, <1>b, <1>4, <2>1 DEF Taken
  <2>6. Apart(Z, brk, F \cup (used \cup {t}))
    <3>1. ASSUME NEW c \in F \cup (used \cup {t}), c # BASE PROVE Z[c] > 0 /\ c + Z[c] <= brk
      <4>1. CASE c = t
        BY <2>4, <2>b, <4>1
      <4>2. CASE c = p
        BY <2>4, <2>b, <4>2
      <4>3. CASE c # t /\ c # p
        BY <1>0, <1>2, <2>a, <3>1, <4>3
      <4> QED BY <4>1, <4>2, <4>3
    <3>2. ASSUME NEW c \in F \cup (used \cup {t}), NEW d \in F \cup (used \cup {t}), c < d PROVE c + Z[c] <= d
      <4>0. c \in Nat /\ d \in Nat /\ t \in Nat /\ p \in Nat
        <5>1. \A x \in F \cup (used \cup {t}) : x \in Nat
          BY <1>2, <2>2
        <5> QED BY <1>1, <2>2, <5>1
      <4>1. CASE c = t
        <5>1. d \in F \cup used /\ p < d
          BY <2>2, <3>2, <4>0, <4>1
        <5>2. p + S[p] <= d
          BY <1>d, <1>2, <5>1
        <5> QED BY <1>1, <2>2, <2>4, <4>0, <4>1, <5>2
      <4>2. CASE c = p
        <5>1. CASE d = t
          BY <1>1, <2>2, <2>4, <4>0, <4>2, <5>1
        <5>2. CASE d # t
          <6>1. p + S[p] <= d
            BY <1>d, <1>2, <3>2, <4>2, <5>2
          <6>2. t <= d /\ c + Z[c] = t
            BY <1>1, <2>2, <2>4, <2>b, <4>0, <4>2, <6>1
          <6> QED BY <6>2
        <5> QED BY <5>1, <5>2
      <4>3. CASE c # t /\ c # p
        <5>1. c \in F \cup used /\ Z[c] = S[c] /\ S[c] \in Nat
          BY <1>2, <2>a, <4>3
        <5>2. CASE d # t
          BY <1>2, <3>2, <5>1, <5>2
        <5>3. CASE d = t
          <6>1. CASE c < p
            <7>1. c + S[c] <= p
              BY <1>d, <1>2, <5>1, <6>1
            <7> QED BY <2>2, <4>0, <5>1, <5>3, <7>1
          <6>2. CASE p < c
            <7>1. p + S[p] <= c
              BY <1>d, <1>2, <5>1, <6>2
            <7> QED BY <1>1, <2>2, <3>2, <4>0, <5>3, <7>1
          <6> QED BY <4>0, <4>3, <6>1, <6>2
        <5> QED BY <5>2, <5>3
      <4> QED BY <4>1, <4>2, <4>3
    <3> QED BY <3>1, <3>2 DEF Apart
  <2>7. \A c \in F : c # BASE => P[c] # c + Z[c]
    <3>1. ASSUME NEW c \in F, c # BASE PROVE P[c] # c + Z[c]
      <4>1. CASE c = p
        <5>1. CASE P[p] > p
          <6>1. p + S[p] <= P[p]
            BY <1>d, <1>1, <1>2, <5>1
          <6>2. t \in Nat /\ t < p + S[p] /\ P[p] \in Nat
            BY <1>1, <1>2, <1>d, <2>2
          <6>3. c + Z[c] = t
            BY <2>4, <2>b, <4>1
          <6>4. p + S[p] \in Nat
            BY <1>1
          <6> QED BY <4>1, <6>1, <6>2, <6>3, <6>4
        <5>2. CASE P[p] = 0
          BY <2>2, <2>4, <2>b, <4>1, <5>2
        <5> QED BY <1>d, <1>2, <5>1, <5>2
      <4>2. CASE c # p
        BY <1>0, <2>a, <3>1, <4>2
      <4> QED BY <4>1, <4>2
    <3> QED BY <3>1
  <2>8. Z[BASE] = 0 /\ F \cap (used \cup {t}) = {} /\ used \cup {t} \subseteq 1 .. LIMIT
    BY <1>0, <1>1, <2>2, <2>3, <2>4
  <2>9. Tidy(P, Z, brk, F, used \cup {t}, {})
    BY <1>c, <1>0, <2>4, <2>6, <2>7, <2>8 DEF Tidy
  <2>10. Heap(m.heap, F, used \cup {t})
    BY <2>5, <2>9 DEF Heap
  <2> QED BY <2>2, <2>3, <2>5, <2>10 DEF Gives
<1> QED BY <1>3, <1>4

LEMMA TakeFirstIs ==
  ASSUME NEW h, NEW F, NEW used, Heap(h, F, used), NEW n \in Nat \ {0}, Enough(h, n) # {},
         NEW m, m = TakeFirst(h, n)
  PROVE  Gives(m, used, n)
<1>0. LIMIT \in Nat /\ Linked(h.ptr, F) /\ h.freep \in F
  BY Bounds DEF Heap, Tidy
<1>1. Round(h) \in 1 .. LIMIT + 1
  BY <1>0, RoundIs
<1>2. PICK E : E = Enough(h, n)
  OBVIOUS
<1>3. E \subseteq Nat /\ E # {}
  BY <1>1, <1>2 DEF Enough
<1>4. PICK k : k = Min(E)
  OBVIOUS
<1>5. k \in E
  <2>1. \E x \in E : \A y \in E : x <= y
    BY <1>3, LeastNat
  <2> QED BY <1>4, <2>1 DEF Min
<1>6. k \in 1 .. LIMIT + 1 /\ h.size[Node(h, k)] >= n
  BY <1>0, <1>1, <1>2, <1>5 DEF Enough
<1>7. k - 1 \in 0 .. LIMIT + 1
  BY <1>0, <1>6
<1>8. Node(h, k) = h.ptr[Node(h, k - 1)] /\ Node(h, k - 1) \in F
  BY <1>0, <1>6, <1>7, ChainIs, NodesIn
<1>9. m = Taken(h, Node(h, k - 1), Node(h, k), n)
  BY <1>2, <1>4 DEF TakeFirst
<1> QED BY <1>6, <1>8, <1>9, TakenIs

LEMMA EnoughIs ==
  ASSUME NEW h, NEW F, NEW used, Heap(h, F, used), NEW n, NEW a \in F, h.size[a] >= n
  PROVE  Enough(h, n) # {}
<1>1. PICK k \in 1 .. Round(h) : Node(h, k) = a
  BY RoundIs DEF Heap, Tidy
<1> QED BY <1>1 DEF Enough

LEMMA PagesIs ==
  ASSUME NEW n \in Nat \ {0}
  PROVE  Pages(n) \in Nat /\ Pages(n) >= n
<1>0. PAGEUNITS \in Nat \ {0}
  BY Bounds
<1>1. PICK x, d, r : x = n + PAGEUNITS - 1 /\ d = x \div PAGEUNITS /\ r = x % PAGEUNITS
  OBVIOUS
<1>2. x \in Nat
  BY <1>0, <1>1
<1>3. d \in Nat /\ r \in 0 .. PAGEUNITS - 1 /\ x = PAGEUNITS * d + r
  BY <1>0, <1>1, <1>2
<1>4. PICK y : y = d * PAGEUNITS
  OBVIOUS
<1>5. y \in Nat /\ y = PAGEUNITS * d
  BY <1>0, <1>3, <1>4
<1>6. y >= n
  BY <1>0, <1>1, <1>3, <1>5
<1>7. Pages(n) = y
  BY <1>1, <1>4 DEF Pages
<1> QED BY <1>5, <1>6, <1>7

LEMMA MorecoreIs ==
  ASSUME NEW h, NEW F, NEW used, Heap(h, F, used), NEW n \in Nat \ {0}, MayGrow(h, n),
         NEW g, g = morecore(h, n)
  PROVE  \E G : Heap(g, G, used) /\ \E a \in G : g.size[a] >= n
<1>a. PICK P, S, brk : P = h.ptr /\ S = h.size /\ brk = h.brk
  OBVIOUS
<1>b. /\ Tidy(P, S, brk, F, used, {}) /\ h = [ptr |-> P, size |-> S, freep |-> h.freep, brk |-> brk]
      /\ h.freep \in F
  BY <1>a DEF Heap
<1>c. Linked(P, F)
  BY <1>b DEF Tidy
<1>0. /\ LIMIT \in Nat /\ used \subseteq 1 .. LIMIT /\ BASE = 0 /\ S[0] = 0 /\ F \cap used = {}
      /\ P \in [0 .. LIMIT -> 0 .. LIMIT] /\ S \in [0 .. LIMIT -> Nat] /\ 0 \in F
      /\ \A a \in F : a # 0 => P[a] # a + S[a]
  <2>1. LIMIT \in Nat /\ BASE = 0 /\ 0 \in F
    BY <1>c, LinksAre
  <2> QED BY <1>b, <2>1 DEF Tidy
<1>d. LIMIT \in Nat /\ brk \in Nat /\ brk >= 1 /\ brk <= LIMIT /\ brk \in 1 .. LIMIT /\ brk \in 0 .. LIMIT
  <2>1. LIMIT \in Nat /\ brk \in 1 .. LIMIT
    BY <1>b, <1>0 DEF Tidy
  <2> QED BY <2>1
<1>8. /\ \A x \in F \cup used : x \in 0 .. LIMIT /\ x \in Nat /\ S[x] \in Nat
      /\ \A x \in F \cup used : x # 0 => S[x] > 0 /\ x + S[x] <= brk
      /\ \A x, y \in F \cup used : x < y => x + S[x] <= y
  <2>1. \A x \in F \cup used : x \in 0 .. LIMIT /\ x \in Nat /\ S[x] \in Nat
    BY <1>b, TidyIs
  <2> QED BY <1>b, <2>1, BlocksApart
<1>1. PICK u, v : u = Units(n) /\ v = Pages(u)
  OBVIOUS
<1>2. u \in Nat \ {0} /\ u \in Nat /\ u > 0 /\ u >= n
  BY <1>1, Bounds DEF Units
<1>3. v \in Nat /\ v >= u /\ brk + v <= LIMIT
  <2>1. v \in Nat /\ v >= u
    BY <1>1, <1>2, PagesIs
  <2> QED BY <1>a, <1>1, <2>1 DEF MayGrow
<1>4. PICK Z : Z = [S EXCEPT ![brk] = u]
  OBVIOUS
<1>5. PICK e : e = [ptr |-> P, size |-> Z, freep |-> h.freep, brk |-> brk + v]
  OBVIOUS
<1>6. g = free(e, brk)
  <2>1. PICK fr : fr = h.freep
    OBVIOUS
  <2>2. h = [ptr |-> P, size |-> S, freep |-> fr, brk |-> brk]
    BY <1>b, <2>1
  <2>3. e = [ptr |-> P, size |-> Z, freep |-> fr, brk |-> brk + v]
    BY <1>5, <2>1
  <2>4. PICK w : w = brk + v
    OBVIOUS
  <2>5. PICK h1 : h1 = [h EXCEPT !.size[brk] = u]
    OBVIOUS
  <2>6. h1 = [ptr |-> P, size |-> Z, freep |-> fr, brk |-> brk]
    BY <1>4, <2>2, <2>5
  <2>7. e = [ptr |-> P, size |-> Z, freep |-> fr, brk |-> w]
    BY <2>3, <2>4
  <2>8. e = [h1 EXCEPT !.brk = w]
    BY <2>6, <2>7
  <2>9. e = [h EXCEPT !.size[brk] = u, !.brk = @ + v]
    BY <1>a, <2>4, <2>5, <2>8
  <2> QED BY <1>a, <1>1, <2>9 DEF morecore
<1>7. /\ Z \in [0 .. LIMIT -> Nat] /\ Z[brk] = u /\ brk # 0
      /\ \A c \in 0 .. LIMIT : c # brk => Z[c] = S[c]
  <2>1. S \in [0 .. LIMIT -> Nat] /\ brk \in 0 .. LIMIT /\ u \in Nat /\ brk # 0
    BY <1>0, <1>d, <1>2
  <2>2. PICK D : D = 0 .. LIMIT
    OBVIOUS
  <2>3. S \in [D -> Nat] /\ brk \in D /\ u \in Nat /\ brk # 0
    BY <2>1, <2>2, Zenon
  <2>4. Z \in [D -> Nat] /\ Z[brk] = u /\ \A c \in D : c # brk => Z[c] = S[c]
    BY <1>4, <2>3
  <2> QED BY <2>2, <2>3, <2>4, Zenon
<1>9. \A x \in F \cup used : x < brk /\ x # brk
  <2>1. ASSUME NEW x \in F \cup used PROVE x < brk
    <3>1. CASE x = 0
      BY <1>d, <3>1
    <3>2. CASE x # 0
      <4>1. x \in Nat /\ S[x] \in Nat /\ S[x] > 0 /\ x + S[x] <= brk
        BY <1>8, <3>2
      <4> QED BY <1>d, <4>1
    <3> QED BY <3>1, <3>2
  <2>2. \A x \in F \cup used : x \in Nat
    BY <1>8
  <2> QED BY <1>d, <2>1, <2>2
<1>e. \A x \in F \cup used : Z[x] = S[x]
  BY <1>7, <1>8, <1>9
<1>10. Apart(Z, brk + v, F \cup (used \cup {brk}))
  <2>1. ASSUME NEW c \in F \cup (used \cup {brk}), c # BASE PROVE Z[c] > 0 /\ c + Z[c] <= brk + v
    <3>1. CASE c = brk
      BY <1>d, <1>2, <1>3, <1>7, <3>1
    <3>2. CASE c # brk
      <4>1. c \in F \cup used /\ c # 0 /\ Z[c] = S[c]
        BY <1>0, <1>e, <2>1, <3>2
      <4>2. S[c] > 0 /\ S[c] \in Nat /\ c \in Nat /\ c + S[c] <= brk
        BY <1>8, <4>1
      <4> QED BY <1>d, <1>3, <4>1, <4>2
    <3> QED BY <3>1, <3>2
  <2>2. ASSUME NEW c \in F \cup (used \cup {brk}), NEW d \in F \cup (used \cup {brk}), c < d PROVE c + Z[c] <= d
    <3>0. d \in F \cup used \/ d = brk
      OBVIOUS
    <3>1. c \in F \cup used
      <4>1. ~(brk < brk) /\ \A x \in F \cup used : ~(brk < x)
        <5>1. \A x \in F \cup used : x \in Nat /\ x < brk
          BY <1>8, <1>9
        <5> QED BY <1>d, <5>1
      <4> QED BY <2>2, <4>1
    <3>2. Z[c] = S[c] /\ S[c] \in Nat /\ c \in Nat
      BY <1>8, <1>e, <3>1
    <3>3. CASE d = brk
      <4>1. c = 0 \/ c + S[c] <= brk
        BY <1>8, <3>1
      <4> QED BY <1>0, <1>d, <3>2, <3>3, <4>1
    <3>4. CASE d \in F \cup used
      BY <1>8, <2>2, <3>1, <3>2, <3>4
    <3> QED BY <3>0, <3>3, <3>4
  <2> QED BY <2>1, <2>2 DEF Apart
<1>11. \A c \in F : c # BASE => P[c] # c + Z[c]
  <2>1. \A c \in F : c # 0 => P[c] # c + S[c]
    BY <1>0
  <2> QED BY <1>0, <1>e, <2>1
<1>12. /\ Z[BASE] = 0 /\ F \cap (used \cup {brk}) = {} /\ used \cup {brk} \subseteq 1 .. LIMIT
       /\ brk + v \in 1 .. LIMIT
  <2>1. Z[0] = 0
    BY <1>0, <1>e
  <2>2. brk \notin F
    BY <1>9
  <2>3. brk + v \in 1 .. LIMIT
    BY <1>d, <1>3
  <2> QED BY <1>0, <1>d, <2>1, <2>2, <2>3
<1>13. Tidy(P, Z, brk + v, F, used \cup {brk}, {})
  BY <1>c, <1>0, <1>7, <1>10, <1>11, <1>12 DEF Tidy
<1>14. Heap(e, F, used \cup {brk})
  BY <1>b, <1>5, <1>13 DEF Heap
<1>15. brk \in used \cup {brk} /\ (used \cup {brk}) \ {brk} = used
  BY <1>9
<1>16. PICK G : Heap(g, G, used) /\ \E a \in G : g.size[a] >= e.size[brk]
  BY <1>6, <1>14, <1>15, FreeIs
<1>17. PICK a \in G : g.size[a] >= u
  BY <1>5, <1>7, <1>16
<1>18. g.size[a] \in Nat
  <2>1. g.size \in [0 .. LIMIT -> Nat] /\ Linked(g.ptr, G)
    BY <1>16 DEF Heap, Tidy
  <2>2. a \in 0 .. LIMIT
    BY <2>1 DEF Linked
  <2> QED BY <2>1, <2>2
<1>19. g.size[a] >= n
  BY <1>2, <1>17, <1>18
<1> QED BY <1>16, <1>19

(* The heap before and after the first malloc.                             *)
Whole(h, used) ==
    /\ \E F : Heap(Begun(h), F, used)
    /\ h.freep = NONE => h = NoHeap /\ used = {}

LEMMA NoHeapWhole == Whole(NoHeap, {})
<1>0. LIMIT \in Nat \ {0} /\ BASE = 0 /\ NONE = -1 /\ Start = 1
  BY Bounds DEF BASE, NONE, Start
<1>1. PICK P, S : P = [a \in 0 .. LIMIT |-> BASE] /\ S = [a \in 0 .. LIMIT |-> 0]
  OBVIOUS
<1>2. Begun(NoHeap) = [ptr |-> P, size |-> S, freep |-> BASE, brk |-> Start]
  BY <1>1 DEF Begun, NoHeap
<1>3. /\ P \in [0 .. LIMIT -> 0 .. LIMIT] /\ S \in [0 .. LIMIT -> Nat] /\ P[BASE] = BASE /\ S[BASE] = 0
      /\ Start \in 1 .. LIMIT
  BY <1>0, <1>1
<1>4. Linked(P, {BASE})
  BY <1>0, <1>3 DEF Linked
<1>5. Apart(S, Start, {BASE} \cup {})
  BY <1>0, <1>3 DEF Apart
<1>6. Tidy(P, S, Start, {BASE}, {}, {})
  BY <1>3, <1>4, <1>5 DEF Tidy
<1>7. Heap(Begun(NoHeap), {BASE}, {})
  BY <1>2, <1>6 DEF Heap
<1> QED BY <1>7 DEF Whole

LEMMA HeapWhole ==
  ASSUME NEW h, NEW F, NEW used, Heap(h, F, used) PROVE Whole(h, used)
<1>1. h.freep # NONE
  BY Bounds DEF Heap, Tidy, Linked, NONE
<1>2. Begun(h) = h
  BY <1>1 DEF Begun
<1> QED BY <1>1, <1>2 DEF Whole

(* malloc's outcomes: NULL, or a block nobody has.                         *)
LEMMA MallocIs ==
  ASSUME NEW h, NEW used, Whole(h, used), NEW n \in Nat \ {0}, NEW m \in malloc(h, n)
  PROVE  \/ m.at = NONE /\ Whole(m.heap, used)
         \/ m.at \in 1 .. LIMIT /\ m.at \notin used /\ Whole(m.heap, used \cup {m.at})
<1>1. PICK b : b = Begun(h)
  OBVIOUS
<1>2. PICK F : Heap(b, F, used)
  BY <1>1 DEF Whole
<1>3. m \in MallocFrom(b, n)
  BY <1>1 DEF malloc
<1>4. CASE m = [heap |-> b, at |-> NONE]
  BY <1>2, <1>4, HeapWhole
<1>5. CASE Enough(b, n) # {} /\ m = TakeFirst(b, n)
  <2>1. Gives(m, used, n)
    BY <1>2, <1>5, TakeFirstIs
  <2> QED BY <2>1, HeapWhole DEF Gives
<1>6. CASE MayGrow(b, n) /\ m = TakeFirst(morecore(b, n), n)
  <2>1. PICK g : g = morecore(b, n)
    OBVIOUS
  <2>2. PICK G : Heap(g, G, used) /\ \E a \in G : g.size[a] >= n
    BY <1>2, <1>6, <2>1, MorecoreIs
  <2>3. Enough(g, n) # {}
    BY <2>2, EnoughIs
  <2>4. Gives(m, used, n)
    BY <1>6, <2>1, <2>2, <2>3, TakeFirstIs
  <2> QED BY <2>4, HeapWhole DEF Gives
<1>7. m = [heap |-> b, at |-> NONE] \/ (Enough(b, n) # {} /\ m = TakeFirst(b, n))
      \/ (MayGrow(b, n) /\ m = TakeFirst(morecore(b, n), n))
  BY <1>3 DEF MallocFrom
<1> QED BY <1>4, <1>5, <1>6, <1>7

LEMMA FreeWhole ==
  ASSUME NEW h, NEW used, Whole(h, used), NEW b \in used
  PROVE  Whole(free(h, b), used \ {b})
<1>1. Begun(h) = h
  BY DEF Whole, Begun
<1>2. PICK F : Heap(h, F, used)
  BY <1>1 DEF Whole
<1>3. PICK G : Heap(free(h, b), G, used \ {b})
  BY <1>2, FreeIs
<1> QED BY <1>3, HeapWhole

LEMMA WholeTiled ==
  ASSUME NEW h, NEW used, Whole(h, used)
  PROVE  Tiled(h, used) /\ used \subseteq 1 .. LIMIT
<1>0. PICK F : Heap(Begun(h), F, used)
  BY DEF Whole
<1>1. used \subseteq 1 .. LIMIT
  BY <1>0 DEF Heap, Tidy
<1>2. CASE h.freep = NONE
  <2>1. FreeBlocks(h) = {} /\ used = {}
    BY <1>2 DEF Whole, FreeBlocks
  <2> QED BY <2>1 DEF Tiled
<1>3. CASE h.freep # NONE
  <2>1. Begun(h) = h
    BY <1>3 DEF Begun
  <2>2. PICK P, S, brk : P = h.ptr /\ S = h.size /\ brk = h.brk
    OBVIOUS
  <2>3. Tidy(P, S, brk, F, used, {}) /\ h.freep \in F
    BY <1>0, <2>1, <2>2 DEF Heap
  <2>4. Linked(P, F) /\ F \cap used = {} /\ brk \in Nat /\ \A a \in used : a # 0
    <3>1. Linked(P, F) /\ F \cap used = {} /\ brk \in Nat
      BY <2>3, TidyIs
    <3>2. 0 \in F
      BY <3>1, LinksAre
    <3> QED BY <3>1, <3>2
  <2>5. \A a \in F \cup used : a \in Nat /\ S[a] \in Nat
    BY <2>3, TidyIs
  <2>6. \A a \in F : a # 0 => P[a] # a + S[a]
    BY <2>3 DEF Tidy, BASE
  <2>7. /\ \A a \in F \cup used : a # 0 => S[a] > 0 /\ a + S[a] <= brk
        /\ \A a, b \in F \cup used : a < b => a + S[a] <= b
    BY <2>3, BlocksApart
  <2>8. /\ BASE = 0 /\ Start = 1 /\ \A a \in F : P[a] \in F /\ P[a] \in Nat /\ (P[a] > a \/ P[a] = 0)
    BY <2>4, LinksAre DEF Start
  <2>9. FreeBlocks(h) = F \ {0}
    <3>1. {Node(h, k) : k \in 1 .. Round(h)} = F
      BY <2>2, <2>3, <2>4, RoundIs
    <3> QED BY <1>3, <2>8, <3>1 DEF FreeBlocks
  <2>10. \A a \in FreeBlocks(h) \cup used : a \in F \cup used /\ a # 0
    BY <2>4, <2>9
  <2>11. ASSUME NEW a \in FreeBlocks(h) PROVE P[a] > a + S[a] \/ P[a] = BASE
    <3>1. a \in F /\ a # 0 /\ P[a] \in F /\ P[a] \in Nat /\ (P[a] > a \/ P[a] = 0) /\ P[a] # a + S[a]
      BY <2>6, <2>8, <2>9
    <3>2. a \in Nat /\ S[a] \in Nat
      BY <2>5, <3>1
    <3>3. CASE P[a] > a
      <4>1. a + S[a] <= P[a]
        BY <2>7, <3>1, <3>2, <3>3
      <4> QED BY <3>1, <3>2, <4>1
    <3> QED BY <2>8, <3>1, <3>3
  <2>12. ASSUME NEW a \in FreeBlocks(h) \cup used PROVE S[a] > 0 /\ Extent(h, a) \subseteq Start .. brk - 1
    <3>1. a \in Nat /\ S[a] \in Nat /\ S[a] > 0 /\ a + S[a] <= brk /\ a # 0
      BY <2>5, <2>7, <2>10
    <3>2. Extent(h, a) = a .. a + S[a] - 1
      BY <2>2 DEF Extent
    <3> QED BY <2>4, <2>8, <3>1, <3>2
  <2>13. ASSUME NEW a \in FreeBlocks(h) \cup used, NEW b \in FreeBlocks(h) \cup used, a # b
         PROVE  Extent(h, a) \cap Extent(h, b) = {}
    <3>1. a \in Nat /\ b \in Nat /\ S[a] \in Nat /\ S[b] \in Nat
      BY <2>5, <2>10
    <3>2. a + S[a] <= b \/ b + S[b] <= a
      <4>1. a < b \/ b < a
        BY <2>13, <3>1
      <4> QED BY <2>7, <2>10, <4>1
    <3>3. Extent(h, a) = a .. a + S[a] - 1 /\ Extent(h, b) = b .. b + S[b] - 1
      BY <2>2 DEF Extent
    <3> QED BY <3>1, <3>2, <3>3
  <2>14. FreeBlocks(h) \cap used = {}
    BY <2>4, <2>9
  <2> QED BY <1>1, <2>2, <2>11, <2>12, <2>13, <2>14 DEF Tiled
<1> QED BY <1>1, <1>2, <1>3

-----------------------------------------------------------------------------
(* A stream.  All that was put and has not been lost is in sink and data.  *)
File ==
    [flags : SUBSET {"READ", "WRITE", "EOF", "ERR"}, buf : {NONE} \cup 1 .. LIMIT, cnt : Nat,
     data : Seq(Nat), put : Nat, sink : Seq(Nat), pos : Nat]

Rises(q, n) ==
    /\ \A i \in 1 .. Len(q) : q[i] <= n
    /\ \A i, j \in 1 .. Len(q) : i < j => q[i] < q[j]

Counts(q, n) == q = Numbers(0, n)

Writes(fp) ==
    /\ "WRITE" \in fp.flags /\ "READ" \notin fp.flags
    /\ Rises(fp.sink \o fp.data, fp.put)
    /\ fp.flags = {"WRITE"} => fp.sink \o fp.data = Numbers(0, fp.put)
    /\ fp.buf # NONE => Len(fp.data) = fp.cnt

Reads(fp) ==
    /\ "READ" \in fp.flags /\ "WRITE" \notin fp.flags
    /\ fp.sink = <<>> /\ fp.cnt <= fp.pos
    /\ fp.data = Numbers(fp.pos - fp.cnt, fp.pos)

Flows(f, fp) ==
    /\ fp \in File
    /\ f = "in" => Reads(fp)
    /\ f = "out" => Writes(fp)
    /\ f = "file" => fp = Blank \/ Reads(fp) \/ Writes(fp)

Fresh(fp) == fp.buf = NONE => fp.data = <<>>

(* What a call works on, besides the program's blocks M.                   *)
Bufs(s) == {s.iob[f].buf : f \in Streams} \ {NONE}

Owned(s, M) ==
    /\ s = [heap |-> s.heap, iob |-> s.iob] /\ s.iob \in [Streams -> File]
    /\ Whole(s.heap, M \cup Bufs(s)) /\ M \cap Bufs(s) = {}
    /\ \A f, g \in Streams : s.iob[f].buf = s.iob[g].buf /\ s.iob[f].buf # NONE => f = g

Kept(s, t, f) == \A g \in Streams : g # f => t.iob[g] = s.iob[g]

Lent(s, t, f, b) == t.iob[f] = [s.iob[f] EXCEPT !.buf = b]

Ok(s, M) == Owned(s, M) /\ \A f \in Streams : Flows(f, s.iob[f]) /\ Fresh(s.iob[f])

LEMMA NumbersAre ==
  ASSUME NEW a \in Nat, NEW b \in Nat, a <= b
  PROVE  /\ Numbers(a, b) \in Seq(Nat) /\ Len(Numbers(a, b)) = b - a
         /\ \A k \in 1 .. b - a : Numbers(a, b)[k] = a + k
<1>1. b - a \in Nat /\ \A k \in 1 .. b - a : a + k \in Nat
  OBVIOUS
<1>2. PICK n, q : n = b - a /\ q = [k \in 1 .. n |-> a + k]
  OBVIOUS
<1>3. q \in Seq(Nat) /\ Len(q) = n /\ \A k \in 1 .. n : q[k] = a + k
  BY <1>1, <1>2
<1> QED BY <1>2, <1>3 DEF Numbers

LEMMA NumbersEnd ==
  ASSUME NEW a \in Nat, NEW b \in Nat, a <= b, NEW q \in Seq(Nat), Len(q) = b - a,
         \A k \in 1 .. b - a : q[k] = a + k
  PROVE  q = Numbers(a, b)
<1>1. PICK z : z = Numbers(a, b)
  OBVIOUS
<1>2. z \in Seq(Nat) /\ Len(z) = b - a /\ \A k \in 1 .. b - a : z[k] = a + k
  BY <1>1, NumbersAre
<1>3. \A k \in 1 .. Len(q) : q[k] = z[k]
  BY <1>2
<1>4. q = z
  BY <1>2, <1>3, SeqEqual
<1> QED BY <1>1, <1>4

LEMMA CountIs ==
  ASSUME NEW n \in Nat
  PROVE  /\ Numbers(0, n) \in Seq(Nat) /\ Len(Numbers(0, n)) = n
         /\ \A k \in 1 .. n : Numbers(0, n)[k] = k
<1>1. 0 \in Nat /\ 0 <= n /\ n - 0 = n
  OBVIOUS
<1>2. PICK z : z = Numbers(0, n)
  OBVIOUS
<1>3. z \in Seq(Nat) /\ Len(z) = n - 0 /\ \A k \in 1 .. n - 0 : z[k] = 0 + k
  BY <1>1, <1>2, NumbersAre
<1>4. z \in Seq(Nat) /\ Len(z) = n /\ \A k \in 1 .. n : z[k] = k
  BY <1>1, <1>3
<1> QED BY <1>2, <1>4

LEMMA RisesNumbers ==
  ASSUME NEW n \in Nat PROVE Rises(Numbers(0, n), n)
<1>1. PICK z : z = Numbers(0, n)
  OBVIOUS
<1>2. Len(z) = n /\ \A k \in 1 .. n : z[k] = k
  BY <1>1, CountIs
<1>3. Rises(z, n)
  BY <1>2 DEF Rises
<1> QED BY <1>1, <1>3

(* One more character, and a write of the first k.                         *)
LEMMA PutMore ==
  ASSUME NEW s \in Seq(Nat), NEW d \in Seq(Nat), NEW n \in Nat, Rises(s \o d, n),
         NEW e, e = Append(d, n + 1)
  PROVE  /\ e \in Seq(Nat) /\ Len(e) = Len(d) + 1
         /\ Rises(s \o e, n + 1)
         /\ Counts(s \o d, n) => Counts(s \o e, n + 1)
<1>1. n + 1 \in Nat /\ Len(s) \in Nat /\ Len(d) \in Nat
  OBVIOUS
<1>2. /\ e \in Seq(Nat) /\ Len(e) = Len(d) + 1 /\ (\A i \in 1 .. Len(d) : e[i] = d[i]) /\ e[Len(d) + 1] = n + 1
  BY <1>1, AppendProperties
<1>3. PICK L, q, r : L = Len(s) + Len(d) /\ q = s \o d /\ r = s \o e
  OBVIOUS
<1>4. q \in Seq(Nat) /\ Len(q) = L /\ \A i \in 1 .. L : q[i] = IF i <= Len(s) THEN s[i] ELSE d[i - Len(s)]
  BY <1>3, ConcatProperties
<1>5. r \in Seq(Nat) /\ Len(r) = L + 1 /\ \A i \in 1 .. L + 1 : r[i] = IF i <= Len(s) THEN s[i] ELSE e[i - Len(s)]
  <2>1. Len(s) + Len(e) = L + 1
    BY <1>1, <1>2, <1>3
  <2>2. /\ r \in Seq(Nat) /\ Len(r) = Len(s) + Len(e)
        /\ \A i \in 1 .. Len(s) + Len(e) : r[i] = IF i <= Len(s) THEN s[i] ELSE e[i - Len(s)]
    BY <1>2, <1>3, ConcatProperties
  <2> QED BY <2>1, <2>2
<1>6. ASSUME NEW i \in 1 .. L PROVE r[i] = q[i]
  <2>1. i \in 1 .. L + 1
    BY <1>1, <1>3
  <2>2. CASE i <= Len(s)
    BY <1>4, <1>5, <2>1, <2>2
  <2>3. CASE ~(i <= Len(s))
    <3>1. i - Len(s) \in 1 .. Len(d)
      BY <1>1, <1>3, <2>3
    <3> QED BY <1>2, <1>4, <1>5, <2>1, <2>3, <3>1
  <2> QED BY <2>2, <2>3
<1>7. r[L + 1] = n + 1
  <2>1. PICK i : i = L + 1
    OBVIOUS
  <2>2. i \in 1 .. L + 1 /\ ~(i <= Len(s)) /\ i - Len(s) = Len(d) + 1
    BY <1>1, <1>3, <2>1
  <2>3. r[i] = e[i - Len(s)]
    BY <1>5, <2>2
  <2>4. e[i - Len(s)] = n + 1
    BY <1>2, <2>2
  <2> QED BY <2>1, <2>3, <2>4
<1>8. Rises(r, n + 1)
  <2>0. Rises(q, n) /\ Len(q) = L /\ q \in Seq(Nat)
    BY <1>3, <1>4
  <2>1. /\ \A i \in 1 .. L : q[i] <= n /\ q[i] \in Nat
        /\ \A i, j \in 1 .. L : i < j => q[i] < q[j]
    BY <2>0 DEF Rises
  <2>2. L \in Nat
    BY <1>1, <1>3
  <2>3. ASSUME NEW i \in 1 .. L + 1 PROVE r[i] <= n + 1
    <3>1. CASE i \in 1 .. L
      <4>1. r[i] = q[i] /\ q[i] <= n /\ q[i] \in Nat
        BY <1>6, <2>1, <3>1
      <4> QED BY <4>1
    <3>2. CASE i = L + 1
      <4>1. r[i] = n + 1 /\ n + 1 \in Nat
        BY <1>7, <3>2
      <4> QED BY <4>1
    <3> QED BY <2>2, <3>1, <3>2
  <2>4. ASSUME NEW i \in 1 .. L + 1, NEW j \in 1 .. L + 1, i < j PROVE r[i] < r[j]
    <3>1. i \in 1 .. L
      BY <2>2, <2>4
    <3>2. CASE j \in 1 .. L
      BY <1>6, <2>1, <2>4, <3>1, <3>2
    <3>3. CASE j = L + 1
      BY <1>6, <1>7, <2>1, <3>1, <3>3
    <3> QED BY <2>2, <3>2, <3>3
  <2> QED BY <1>5, <2>3, <2>4 DEF Rises
<1>9. ASSUME q = Numbers(0, n) PROVE r = Numbers(0, n + 1)
  <2>1. Len(q) = n /\ \A k \in 1 .. n : q[k] = k
    BY <1>9, CountIs
  <2>2. L = n
    BY <1>4, <2>1
  <2>3. ASSUME NEW k \in 1 .. n + 1 PROVE r[k] = k
    <3>1. CASE k \in 1 .. n
      BY <1>6, <2>1, <2>2, <3>1
    <3>2. CASE k = n + 1
      BY <1>7, <2>2, <3>2
    <3> QED BY <3>1, <3>2
  <2>4. PICK m : m = n + 1
    OBVIOUS
  <2>5. m \in Nat /\ 0 \in Nat /\ 0 <= m /\ m - 0 = m /\ Len(r) = m /\ r \in Seq(Nat)
    BY <1>5, <2>2, <2>4
  <2>6. \A k \in 1 .. m - 0 : r[k] = 0 + k
    BY <2>3, <2>4, <2>5
  <2>7. r = Numbers(0, m)
    BY <2>5, <2>6, NumbersEnd
  <2> QED BY <2>4, <2>7
<1> QED BY <1>2, <1>3, <1>8, <1>9 DEF Counts

LEMMA WriteSome ==
  ASSUME NEW s \in Seq(Nat), NEW d \in Seq(Nat), NEW n \in Nat, Rises(s \o d, n),
         NEW k \in 0 .. Len(d), NEW t, t = s \o SubSeq(d, 1, k)
  PROVE  /\ t \in Seq(Nat) /\ Rises(t \o <<>>, n)
         /\ k = Len(d) => t \o <<>> = s \o d
<1>1. Len(s) \in Nat /\ Len(d) \in Nat /\ k \in Nat /\ k \in Int /\ 1 \in Int /\ \A i \in 1 .. k : d[i] \in Nat
  OBVIOUS
<1>2. PICK e : e = SubSeq(d, 1, k)
  OBVIOUS
<1>3. e \in Seq(Nat) /\ Len(e) = k /\ \A i \in 1 .. k : e[i] = d[i]
  <2>1. /\ e \in Seq(Nat) /\ Len(e) = IF 1 <= k THEN k - 1 + 1 ELSE 0
        /\ \A i \in 1 .. k - 1 + 1 : e[i] = d[1 + i - 1]
    BY <1>1, <1>2, SubSeqProperties
  <2> QED BY <1>1, <2>1
<1>4. t \in Seq(Nat) /\ Len(t) = Len(s) + k /\ \A i \in 1 .. Len(s) + k : t[i] = IF i <= Len(s) THEN s[i] ELSE e[i - Len(s)]
  <2>1. t = s \o e
    BY <1>2
  <2>2. /\ t \in Seq(Nat) /\ Len(t) = Len(s) + Len(e)
        /\ \A i \in 1 .. Len(s) + Len(e) : t[i] = IF i <= Len(s) THEN s[i] ELSE e[i - Len(s)]
    BY <1>3, <2>1, ConcatProperties
  <2> QED BY <1>3, <2>2
<1>5. t \o <<>> = t
  BY <1>4, ConcatEmptySeq
<1>6. PICK q : q = s \o d
  OBVIOUS
<1>7. /\ q \in Seq(Nat) /\ Len(q) = Len(s) + Len(d)
      /\ \A i \in 1 .. Len(s) + Len(d) : q[i] = IF i <= Len(s) THEN s[i] ELSE d[i - Len(s)]
  BY <1>6, ConcatProperties
<1>8. ASSUME NEW i \in 1 .. Len(s) + k PROVE i \in 1 .. Len(q) /\ t[i] = q[i]
  <2>1. i \in 1 .. Len(s) + Len(d)
    BY <1>1
  <2>2. CASE i <= Len(s)
    BY <1>4, <1>7, <2>1, <2>2
  <2>3. CASE ~(i <= Len(s))
    <3>1. i - Len(s) \in 1 .. k
      BY <1>1, <2>3
    <3> QED BY <1>3, <1>4, <1>7, <2>1, <2>3, <3>1
  <2> QED BY <2>2, <2>3
<1>9. Rises(t, n)
  BY <1>4, <1>6, <1>8 DEF Rises
<1>10. k = Len(d) => t = q
  BY <1>4, <1>7, <1>8, SeqEqual
<1> QED BY <1>4, <1>5, <1>6, <1>9, <1>10

LEMMA TailNumbers ==
  ASSUME NEW a \in Nat, NEW b \in Nat, a < b
  PROVE  Tail(Numbers(a, b)) = Numbers(a + 1, b) /\ Tail(Numbers(a, b)) \in Seq(Nat)
<1>1. PICK q : q = Numbers(a, b)
  OBVIOUS
<1>2. q \in Seq(Nat) /\ Len(q) = b - a /\ \A k \in 1 .. b - a : q[k] = a + k
  <2>1. a <= b
    OBVIOUS
  <2> QED BY <1>1, <2>1, NumbersAre
<1>3. q # <<>>
  BY <1>2, EmptySeq
<1>4. Tail(q) \in Seq(Nat) /\ Len(Tail(q)) = Len(q) - 1 /\ \A i \in 1 .. Len(Tail(q)) : Tail(q)[i] = q[i + 1]
  BY <1>2, <1>3, HeadTailProperties
<1>5. a + 1 \in Nat /\ Len(Tail(q)) = b - (a + 1) /\ a + 1 <= b
  BY <1>2, <1>4
<1>6. \A k \in 1 .. b - (a + 1) : Tail(q)[k] = (a + 1) + k
  BY <1>2, <1>4, <1>5
<1> QED BY <1>1, <1>4, <1>5, <1>6, NumbersEnd

LEMMA NoNumbers ==
  ASSUME NEW a \in Nat PROVE Numbers(a, a) = <<>>
<1>1. PICK z : z = Numbers(a, a)
  OBVIOUS
<1>2. z \in Seq(Nat) /\ Len(z) = a - a
  BY <1>1, NumbersAre
<1>3. Len(z) = 0
  BY <1>2
<1> QED BY <1>1, <1>2, <1>3, EmptySeq

LEMMA FirstBytes ==
  /\ Reader \in File /\ Writer \in File /\ Blank \in File
  /\ Reads(Reader) /\ Writes(Writer) /\ Fresh(Reader) /\ Fresh(Writer) /\ Fresh(Blank)
<1>0. BUFSIZ \in Nat /\ <<>> \in Seq(Nat) /\ <<>> \o <<>> = <<>> /\ Len(<<>>) = 0 /\ NONE = -1
  BY StdioAssumption DEF NONE
<1>a. PICK o, b, z, d, x, y, n : o = {} /\ b = NONE /\ z = 0 /\ d = <<>> /\ x = {"READ"} /\ y = {"WRITE"} /\ n = BUFSIZ
  OBVIOUS
<1>b. PICK r : r = [flags |-> o, buf |-> b, cnt |-> z, data |-> d, put |-> z, sink |-> d, pos |-> z]
  OBVIOUS
<1>c. r = Blank
  BY <1>a, <1>b DEF Blank
<1>1. Reader = [flags |-> {"READ"}, buf |-> NONE, cnt |-> 0, data |-> <<>>, put |-> 0, sink |-> <<>>, pos |-> 0]
  <2>1. [r EXCEPT !.flags = x] = [flags |-> x, buf |-> b, cnt |-> z, data |-> d, put |-> z, sink |-> d, pos |-> z]
    BY <1>b
  <2> QED BY <1>a, <1>c, <2>1 DEF Reader
<1>2. Writer = [flags |-> {"WRITE"}, buf |-> NONE, cnt |-> BUFSIZ, data |-> <<>>, put |-> 0, sink |-> <<>>, pos |-> 0]
  <2>1. PICK q : q = [r EXCEPT !.flags = y]
    OBVIOUS
  <2>2. q = [flags |-> y, buf |-> b, cnt |-> z, data |-> d, put |-> z, sink |-> d, pos |-> z]
    BY <1>b, <2>1
  <2>3. [q EXCEPT !.cnt = n] = [flags |-> y, buf |-> b, cnt |-> n, data |-> d, put |-> z, sink |-> d, pos |-> z]
    BY <2>2
  <2>4. Writer = [q EXCEPT !.cnt = n]
    BY <1>a, <1>c, <2>1 DEF Writer
  <2> QED BY <1>a, <2>3, <2>4
<1>3. Reader \in File /\ Writer \in File /\ Blank \in File
  BY <1>0, <1>1, <1>2 DEF File, Blank
<1>4. Numbers(0, 0) = <<>> /\ 0 - 0 = 0
  BY NoNumbers
<1>5. Rises(<<>>, 0)
  BY <1>0 DEF Rises
<1>6. Reads(Reader) /\ Fresh(Reader)
  BY <1>0, <1>1, <1>4 DEF Reads, Fresh
<1>7. Writes(Writer) /\ Fresh(Writer)
  BY <1>0, <1>2, <1>4, <1>5 DEF Writes, Fresh
<1> QED BY <1>3, <1>6, <1>7 DEF Fresh, Blank

-----------------------------------------------------------------------------
(* One stream of a call's state changes, and keeps its buffer.             *)
LEMMA SetOwned ==
  ASSUME NEW s, NEW M, Owned(s, M), NEW f \in Streams, NEW fp \in File, fp.buf = s.iob[f].buf,
         NEW t, t = Set(s, f, fp)
  PROVE  Owned(t, M) /\ t.iob[f] = fp /\ Kept(s, t, f)
<1>1. PICK w : w = [s.iob EXCEPT ![f] = fp]
  OBVIOUS
<1>2. s = [heap |-> s.heap, iob |-> s.iob] /\ s.iob \in [Streams -> File]
  BY DEF Owned
<1>3. t = [heap |-> s.heap, iob |-> w]
  BY <1>1, <1>2 DEF Set
<1>4. w \in [Streams -> File] /\ w[f] = fp /\ \A g \in Streams : g # f => w[g] = s.iob[g]
  BY <1>1, <1>2
<1>5. \A g \in Streams : w[g].buf = s.iob[g].buf
  BY <1>4
<1>6. Bufs(t) = Bufs(s)
  BY <1>3, <1>5 DEF Bufs
<1>7. Whole(t.heap, M \cup Bufs(t)) /\ M \cap Bufs(t) = {} /\ t.heap = s.heap /\ t.iob = w
  <2>1. t.heap = s.heap /\ t.iob = w
    BY <1>3
  <2>2. Whole(s.heap, M \cup Bufs(s)) /\ M \cap Bufs(s) = {}
    BY DEF Owned
  <2> QED BY <1>6, <2>1, <2>2
<1>8. \A g, e \in Streams : w[g].buf = w[e].buf /\ w[g].buf # NONE => g = e
  BY <1>5 DEF Owned
<1>9. t = [heap |-> t.heap, iob |-> t.iob]
  BY <1>3, <1>7
<1>10. Owned(t, M)
  BY <1>4, <1>7, <1>8, <1>9 DEF Owned
<1> QED BY <1>4, <1>7, <1>10 DEF Kept

LEMMA SetOk ==
  ASSUME NEW s, NEW M, Ok(s, M), NEW f \in Streams, NEW fp, Flows(f, fp), Fresh(fp),
         fp.buf = s.iob[f].buf, NEW t, t = Set(s, f, fp)
  PROVE  Ok(t, M) /\ t.iob[f] = fp /\ Kept(s, t, f)
<1>1. fp \in File /\ Owned(s, M)
  BY DEF Flows, Ok
<1>2. Owned(t, M) /\ t.iob[f] = fp /\ Kept(s, t, f)
  BY <1>1, SetOwned
<1>3. ASSUME NEW g \in Streams PROVE Flows(g, t.iob[g]) /\ Fresh(t.iob[g])
  <2>1. CASE g = f
    BY <1>2, <2>1
  <2>2. CASE g # f
    <3>1. t.iob[g] = s.iob[g]
      BY <1>2, <2>2 DEF Kept
    <3> QED BY <3>1 DEF Ok
  <2> QED BY <2>1, <2>2
<1> QED BY <1>2, <1>3 DEF Ok

LEMMA BufferedIs ==
  ASSUME NEW s, NEW M, Owned(s, M), NEW f \in Streams, s.iob[f].buf = NONE, NEW t \in Buffered(s, f)
  PROVE  \E b \in {NONE} \cup 1 .. LIMIT : Owned(t, M) /\ Lent(s, t, f, b) /\ Kept(s, t, f)
<1>0. /\ s.iob \in [Streams -> File] /\ Whole(s.heap, M \cup Bufs(s)) /\ M \cap Bufs(s) = {}
      /\ \A g, e \in Streams : s.iob[g].buf = s.iob[e].buf /\ s.iob[g].buf # NONE => g = e
  BY DEF Owned
<1>1. PICK m \in malloc(s.heap, BufUnits) : t = [heap |-> m.heap, iob |-> [s.iob EXCEPT ![f].buf = m.at]]
  BY DEF Buffered
<1>2. PICK b, used, fp, w : b = m.at /\ used = M \cup Bufs(s) /\ fp = [s.iob[f] EXCEPT !.buf = b] /\ w = [s.iob EXCEPT ![f] = fp]
  OBVIOUS
<1>3. \/ b = NONE /\ Whole(m.heap, used)
      \/ b \in 1 .. LIMIT /\ b \notin used /\ Whole(m.heap, used \cup {b})
  <2>1. BufUnits \in Nat \ {0} /\ Whole(s.heap, used)
    BY <1>0, <1>2, StdioAssumption
  <2> QED BY <1>1, <1>2, <2>1, MallocIs
<1>4. b \in {NONE} \cup 1 .. LIMIT
  BY <1>3
<1>5. t = [heap |-> m.heap, iob |-> w]
  BY <1>0, <1>1, <1>2
<1>6. fp \in File /\ fp.buf = b
  <2>1. s.iob[f] \in File
    BY <1>0
  <2> QED BY <1>2, <1>4, <2>1 DEF File
<1>7. w \in [Streams -> File] /\ w[f] = fp /\ \A g \in Streams : g # f => w[g] = s.iob[g]
  BY <1>0, <1>2, <1>6
<1>8. Bufs(t) = Bufs(s) \cup ({b} \ {NONE})
  <2>1. Bufs(t) \subseteq Bufs(s) \cup ({b} \ {NONE})
    BY <1>5, <1>6, <1>7 DEF Bufs
  <2>2. Bufs(s) \subseteq Bufs(t)
    <3>1. ASSUME NEW x \in Bufs(s) PROVE x \in Bufs(t)
      <4>1. PICK g \in Streams : x = s.iob[g].buf /\ x # NONE
        BY DEF Bufs
      <4>2. g # f
        BY <4>1
      <4> QED BY <1>5, <1>7, <4>1, <4>2 DEF Bufs
    <3> QED BY <3>1
  <2>3. b # NONE => b \in Bufs(t)
    BY <1>5, <1>6, <1>7 DEF Bufs
  <2> QED BY <2>1, <2>2, <2>3
<1>9. Whole(m.heap, M \cup Bufs(t)) /\ M \cap Bufs(t) = {}
  <2>1. CASE b = NONE
    <3>1. NONE \notin 1 .. LIMIT
      BY Bounds DEF NONE
    <3>2. Whole(m.heap, used)
      BY <1>3, <2>1, <3>1
    <3>3. Bufs(t) = Bufs(s)
      BY <1>8, <2>1
    <3> QED BY <1>0, <1>2, <3>2, <3>3
  <2>2. CASE b # NONE
    <3>1. M \cup Bufs(t) = used \cup {b}
      BY <1>2, <1>8, <2>2
    <3> QED BY <1>0, <1>2, <1>3, <1>8, <2>2, <3>1
  <2> QED BY <2>1, <2>2
<1>10. ASSUME NEW g \in Streams, NEW e \in Streams, w[g].buf = w[e].buf, w[g].buf # NONE PROVE g = e
  <2>1. \A x \in Streams : x # f /\ s.iob[x].buf # NONE => s.iob[x].buf # b
    <3>1. \A x \in Streams : s.iob[x].buf # NONE => s.iob[x].buf \in used
      BY <1>2 DEF Bufs
    <3> QED BY <1>3, <3>1
  <2>2. CASE g # f /\ e # f
    BY <1>0, <1>7, <1>10, <2>2
  <2>3. CASE g = f /\ e # f
    BY <1>6, <1>7, <1>10, <2>1, <2>3
  <2>4. CASE g # f /\ e = f
    BY <1>6, <1>7, <1>10, <2>1, <2>4
  <2> QED BY <2>2, <2>3, <2>4
<1>11. Owned(t, M)
  BY <1>5, <1>7, <1>9, <1>10 DEF Owned
<1>12. Lent(s, t, f, b) /\ Kept(s, t, f)
  BY <1>2, <1>5, <1>7 DEF Kept, Lent
<1> QED BY <1>4, <1>11, <1>12

(* fflush of a stream that is open, and with it what a write leaves.       *)
LEMMA WrittenFlows ==
  ASSUME NEW f \in Streams, NEW fp, Flows(f, fp), Writes(fp), fp.buf # NONE, NEW k \in 0 .. fp.cnt,
         NEW e, e = Written(fp, k)
  PROVE  Flows(f, e) /\ Writes(e) /\ Fresh(e) /\ e.buf = fp.buf
<1>0. /\ fp \in File /\ Len(fp.data) = fp.cnt /\ Rises(fp.sink \o fp.data, fp.put)
      /\ fp.data \in Seq(Nat) /\ fp.sink \in Seq(Nat) /\ fp.put \in Nat
      /\ "WRITE" \in fp.flags /\ "READ" \notin fp.flags /\ fp.flags \subseteq {"READ", "WRITE", "EOF", "ERR"}
  BY DEF Flows, Writes, File
<1>1. PICK z, fl : z = fp.sink \o SubSeq(fp.data, 1, k) /\ fl = IF k = fp.cnt THEN fp.flags ELSE fp.flags \cup {"ERR"}
  OBVIOUS
<1>2. z \in Seq(Nat) /\ Rises(z \o <<>>, fp.put) /\ (k = Len(fp.data) => z \o <<>> = fp.sink \o fp.data)
  <2>1. PICK s, d, n : s = fp.sink /\ d = fp.data /\ n = fp.put
    OBVIOUS
  <2>2. s \in Seq(Nat) /\ d \in Seq(Nat) /\ n \in Nat /\ Rises(s \o d, n) /\ k \in 0 .. Len(d)
    BY <1>0, <2>1
  <2>3. z = s \o SubSeq(d, 1, k)
    BY <1>1, <2>1
  <2>4. z \in Seq(Nat)
    BY <2>2, <2>3, WriteSome
  <2>5. Rises(z \o <<>>, n)
    BY <2>2, <2>3, WriteSome
  <2>6. k = Len(d) => z \o <<>> = s \o d
    BY <2>2, <2>3, WriteSome
  <2> QED BY <2>1, <2>4, <2>5, <2>6
<1>3. fp = [flags |-> fp.flags, buf |-> fp.buf, cnt |-> fp.cnt, data |-> fp.data, put |-> fp.put, sink |-> fp.sink, pos |-> fp.pos]
  BY <1>0 DEF File
<1>4. e = [flags |-> fl, buf |-> fp.buf, cnt |-> 0, data |-> <<>>, put |-> fp.put, sink |-> z, pos |-> fp.pos]
  BY <1>1, <1>3 DEF Written
<1>5. fl \subseteq {"READ", "WRITE", "EOF", "ERR"} /\ "WRITE" \in fl /\ "READ" \notin fl /\ (fl = {"WRITE"} => k = fp.cnt /\ fl = fp.flags)
  BY <1>0, <1>1
<1>6. <<>> \in Seq(Nat) /\ Len(<<>>) = 0
  OBVIOUS
<1>7. e \in File
  <2>1. fp.buf \in {NONE} \cup 1 .. LIMIT /\ fp.pos \in Nat /\ 0 \in Nat
    BY <1>0 DEF File
  <2> QED BY <1>0, <1>2, <1>4, <1>5, <1>6, <2>1 DEF File
<1>8. fl = {"WRITE"} => z \o <<>> = Numbers(0, fp.put)
  BY <1>0, <1>2, <1>5 DEF Writes
<1>9. Writes(e)
  BY <1>2, <1>4, <1>5, <1>6, <1>8 DEF Writes
<1>10. f # "in"
  BY <1>0 DEF Flows, Reads
<1> QED BY <1>4, <1>7, <1>9, <1>10 DEF Flows, Fresh

(* What there was is lost, or there was nothing.                           *)
LEMMA EmptiedFlows ==
  ASSUME NEW f \in Streams, NEW fp, Flows(f, fp), fp.flags # {}, Reads(fp) \/ fp.data = <<>>,
         NEW b \in {NONE} \cup 1 .. LIMIT,
         NEW e, e = [flags |-> fp.flags, buf |-> b, cnt |-> 0, data |-> <<>>, put |-> fp.put, sink |-> fp.sink, pos |-> fp.pos]
  PROVE  Flows(f, e) /\ Fresh(e) /\ (Reads(fp) => Reads(e)) /\ (Writes(fp) => Writes(e))
<1>0. /\ fp \in File /\ fp.sink \in Seq(Nat) /\ fp.put \in Nat /\ fp.pos \in Nat
      /\ fp.flags \in SUBSET {"READ", "WRITE", "EOF", "ERR"} /\ <<>> \in Seq(Nat) /\ 0 \in Nat /\ Len(<<>>) = 0
  BY DEF Flows, File
<1>1. e \in File
  BY <1>0 DEF File
<1>2. Reads(fp) => Reads(e)
  <2>1. Numbers(fp.pos - 0, fp.pos) = <<>> /\ 0 <= fp.pos
    BY <1>0, NoNumbers
  <2> QED BY <2>1 DEF Reads
<1>3. Writes(fp) => Writes(e)
  <2>1. ASSUME Writes(fp) PROVE Writes(e)
    <3>1. fp.data = <<>>
      BY <2>1 DEF Reads, Writes
    <3> QED BY <1>0, <2>1, <3>1 DEF Writes
  <2> QED BY <2>1
<1>4. fp # Blank
  BY DEF Blank
<1> QED BY <1>1, <1>2, <1>3, <1>4 DEF Flows, Fresh

LEMMA FflushIs ==
  ASSUME NEW s, NEW M, Ok(s, M), NEW f \in Streams, s.iob[f].flags # {}, NEW t \in fflush(s, f)
  PROVE  /\ Ok(t, M) /\ (Reads(s.iob[f]) => Reads(t.iob[f])) /\ (Writes(s.iob[f]) => Writes(t.iob[f]))
         /\ Kept(s, t, f)
<1>0. Owned(s, M) /\ Flows(f, s.iob[f]) /\ Fresh(s.iob[f])
  BY DEF Ok
<1>1. PICK fp : fp = s.iob[f]
  OBVIOUS
<1>2. /\ fp \in File
      /\ fp = [flags |-> fp.flags, buf |-> fp.buf, cnt |-> fp.cnt, data |-> fp.data, put |-> fp.put, sink |-> fp.sink, pos |-> fp.pos]
  BY <1>0, <1>1 DEF Flows, File
<1>3. Reads(fp) \/ Writes(fp)
  BY <1>0, <1>1 DEF Flows, Blank, Streams
<1>4. CASE fp.buf = NONE
  <2>1. PICK u \in Buffered(s, f) : t = [u EXCEPT !.iob[f].cnt = 0]
    BY <1>1, <1>4 DEF fflush
  <2>0. Owned(s, M) /\ s.iob[f].buf = NONE
    BY <1>0, <1>1, <1>4
  <2>2. PICK b \in {NONE} \cup 1 .. LIMIT : Owned(u, M) /\ Lent(s, u, f, b) /\ Kept(s, u, f)
    BY <2>0, BufferedIs
  <2>3. fp.data = <<>>
    BY <1>0, <1>1, <1>4 DEF Fresh
  <2>4. PICK e : e = [flags |-> fp.flags, buf |-> b, cnt |-> 0, data |-> <<>>, put |-> fp.put, sink |-> fp.sink, pos |-> fp.pos]
    OBVIOUS
  <2>5. Flows(f, e) /\ Fresh(e) /\ (Reads(fp) => Reads(e)) /\ (Writes(fp) => Writes(e))
    BY <1>0, <1>1, <2>3, <2>4, EmptiedFlows
  <2>6. u.iob[f] = [flags |-> fp.flags, buf |-> b, cnt |-> fp.cnt, data |-> <<>>, put |-> fp.put, sink |-> fp.sink, pos |-> fp.pos]
    <3>1. u.iob[f] = [fp EXCEPT !.buf = b]
      BY <1>1, <2>2 DEF Lent
    <3> QED BY <1>2, <2>3, <3>1
  <2>7. t = Set(u, f, e)
    <3>1. u = [heap |-> u.heap, iob |-> u.iob] /\ u.iob \in [Streams -> File]
      BY <2>2 DEF Owned
    <3>2. [u.iob[f] EXCEPT !.cnt = 0] = e
      BY <2>4, <2>6
    <3> QED BY <2>1, <3>1, <3>2 DEF Set
  <2>8. e \in File /\ e.buf = u.iob[f].buf
    BY <2>4, <2>5, <2>6 DEF Flows
  <2>9. Owned(t, M) /\ t.iob[f] = e /\ Kept(u, t, f)
    <3>1. Owned(u, M)
      BY <2>2
    <3> QED BY <2>7, <2>8, <3>1, SetOwned
  <2>a. Kept(s, t, f)
    BY <2>2, <2>9 DEF Kept
  <2>10. ASSUME NEW g \in Streams PROVE Flows(g, t.iob[g]) /\ Fresh(t.iob[g])
    <3>1. CASE g = f
      BY <2>5, <2>9, <3>1
    <3>2. CASE g # f
      <4>1. t.iob[g] = s.iob[g]
        BY <2>a, <3>2 DEF Kept
      <4> QED BY <4>1 DEF Ok
    <3> QED BY <3>1, <3>2
  <2> QED BY <1>1, <2>5, <2>9, <2>a, <2>10 DEF Ok
<1>5. CASE fp.buf # NONE /\ "WRITE" \in fp.flags
  <2>1. PICK k \in 0 .. fp.cnt : t = Set(s, f, Written(fp, k))
    BY <1>1, <1>5 DEF fflush
  <2>2. PICK e : e = Written(fp, k)
    OBVIOUS
  <2>3. Writes(fp) /\ ~Reads(fp)
    BY <1>3, <1>5 DEF Reads
  <2>4. Flows(f, e) /\ Writes(e) /\ Fresh(e) /\ e.buf = fp.buf
    BY <1>0, <1>1, <1>5, <2>2, <2>3, WrittenFlows
  <2>5. Ok(t, M) /\ t.iob[f] = e /\ Kept(s, t, f)
    BY <1>1, <2>1, <2>2, <2>4, SetOk
  <2> QED BY <1>1, <2>3, <2>4, <2>5
<1>6. CASE fp.buf # NONE /\ "WRITE" \notin fp.flags
  <2>1. t = Set(s, f, Discarded(fp))
    BY <1>1, <1>6 DEF fflush
  <2>2. PICK e : e = Discarded(fp)
    OBVIOUS
  <2>3. Reads(fp) /\ ~Writes(fp)
    BY <1>3, <1>6 DEF Writes
  <2>4. e = [flags |-> fp.flags, buf |-> fp.buf, cnt |-> 0, data |-> <<>>, put |-> fp.put, sink |-> fp.sink, pos |-> fp.pos]
    BY <1>2, <2>2 DEF Discarded
  <2>5. fp.buf \in {NONE} \cup 1 .. LIMIT
    BY <1>2 DEF File
  <2>6. Flows(f, e) /\ Fresh(e) /\ Reads(e) /\ e.buf = fp.buf
    BY <1>0, <1>1, <2>3, <2>4, <2>5, EmptiedFlows
  <2>7. Ok(t, M) /\ t.iob[f] = e /\ Kept(s, t, f)
    BY <1>1, <2>1, <2>2, <2>6, SetOk
  <2> QED BY <1>1, <2>3, <2>6, <2>7
<1> QED BY <1>4, <1>5, <1>6

-----------------------------------------------------------------------------
(* What fputc, fgetc and fclose do with a stream.                          *)
LEMMA FileIs ==
  ASSUME NEW fp \in File
  PROVE  /\ fp = [flags |-> fp.flags, buf |-> fp.buf, cnt |-> fp.cnt, data |-> fp.data, put |-> fp.put,
                  sink |-> fp.sink, pos |-> fp.pos]
         /\ fp.flags \in SUBSET {"READ", "WRITE", "EOF", "ERR"} /\ fp.buf \in {NONE} \cup 1 .. LIMIT
         /\ fp.cnt \in Nat /\ fp.data \in Seq(Nat) /\ fp.put \in Nat /\ fp.sink \in Seq(Nat) /\ fp.pos \in Nat
BY DEF File

LEMMA IsFile ==
  ASSUME NEW fl \in SUBSET {"READ", "WRITE", "EOF", "ERR"}, NEW b \in {NONE} \cup 1 .. LIMIT, NEW c \in Nat,
         NEW d \in Seq(Nat), NEW p \in Nat, NEW q \in Seq(Nat), NEW x \in Nat,
         NEW e, e = [flags |-> fl, buf |-> b, cnt |-> c, data |-> d, put |-> p, sink |-> q, pos |-> x]
  PROVE  e \in File
BY DEF File

LEMMA StoredFlows ==
  ASSUME NEW f \in {"out", "file"}, NEW fp, Flows(f, fp), Writes(fp), fp.buf # NONE,
         NEW e, e = Stored(fp)
  PROVE  Flows(f, e) /\ Fresh(e) /\ e.buf = fp.buf /\ e.flags = fp.flags
<1>0. fp \in File
  BY DEF Flows
<1>1. PICK fl, b, c, d, p, q, x : fp = [flags |-> fl, buf |-> b, cnt |-> c, data |-> d, put |-> p, sink |-> q, pos |-> x]
  BY <1>0, FileIs
<1>2. /\ fl \in SUBSET {"READ", "WRITE", "EOF", "ERR"} /\ b \in {NONE} \cup 1 .. LIMIT /\ c \in Nat
      /\ d \in Seq(Nat) /\ p \in Nat /\ q \in Seq(Nat) /\ x \in Nat
  BY <1>0, <1>1, FileIs
<1>3. /\ "WRITE" \in fl /\ "READ" \notin fl /\ Rises(q \o d, p) /\ b # NONE
      /\ (fl = {"WRITE"} => q \o d = Numbers(0, p)) /\ Len(d) = c
  BY <1>1 DEF Writes
<1>4. PICK c1, p1, d1 : c1 = c + 1 /\ p1 = p + 1 /\ d1 = Append(d, p + 1)
  OBVIOUS
<1>5. e = [flags |-> fl, buf |-> b, cnt |-> c1, data |-> d1, put |-> p1, sink |-> q, pos |-> x]
  <2>1. PICK e1 : e1 = [fp EXCEPT !.cnt = c1]
    OBVIOUS
  <2>2. e1 = [flags |-> fl, buf |-> b, cnt |-> c1, data |-> d, put |-> p, sink |-> q, pos |-> x]
    BY <1>1, <2>1
  <2>3. PICK e2 : e2 = [e1 EXCEPT !.put = p1]
    OBVIOUS
  <2>4. e2 = [flags |-> fl, buf |-> b, cnt |-> c1, data |-> d, put |-> p1, sink |-> q, pos |-> x]
    BY <2>2, <2>3
  <2>5. [e2 EXCEPT !.data = d1] = [flags |-> fl, buf |-> b, cnt |-> c1, data |-> d1, put |-> p1, sink |-> q, pos |-> x]
    BY <2>4
  <2>6. fp.cnt = c /\ fp.put = p /\ fp.data = d
    BY <1>1
  <2>7. e = [fp EXCEPT !.cnt = c1, !.put = p1, !.data = d1]
    BY <1>4, <2>6 DEF Stored
  <2> QED BY <2>1, <2>3, <2>5, <2>7
<1>6. d1 \in Seq(Nat) /\ Len(d1) = Len(d) + 1
  BY <1>2, <1>3, <1>4, PutMore
<1>7. Rises(q \o d1, p + 1)
  BY <1>2, <1>3, <1>4, PutMore
<1>8. Counts(q \o d, p) => Counts(q \o d1, p + 1)
  BY <1>2, <1>3, <1>4, PutMore
<1>9. c1 \in Nat /\ p1 \in Nat /\ Len(d1) = c1
  BY <1>2, <1>3, <1>4, <1>6
<1>10. e \in File
  BY <1>2, <1>5, <1>6, <1>9, IsFile
<1>11. Rises(q \o d1, p1) /\ (fl = {"WRITE"} => q \o d1 = Numbers(0, p1))
  BY <1>3, <1>4, <1>7, <1>8 DEF Counts
<1>12. Writes(e)
  BY <1>3, <1>5, <1>9, <1>11 DEF Writes
<1>13. e.buf = fp.buf /\ e.flags = fp.flags
  BY <1>1, <1>5
<1> QED BY <1>10, <1>12, <1>13 DEF Flows, Fresh

LEMMA ReadsFlow ==
  ASSUME NEW f \in {"in", "file"}, NEW e \in File, Reads(e) PROVE Flows(f, e)
BY DEF Flows

LEMMA ConsumedReads ==
  ASSUME NEW fp \in File, Reads(fp), fp.cnt > 0, NEW e, e = Consumed(fp)
  PROVE  e \in File /\ Reads(e) /\ e.buf = fp.buf
<1>1. PICK fl, b, c, d, p, q, x : fp = [flags |-> fl, buf |-> b, cnt |-> c, data |-> d, put |-> p, sink |-> q, pos |-> x]
  BY FileIs
<1>2. /\ fl \in SUBSET {"READ", "WRITE", "EOF", "ERR"} /\ b \in {NONE} \cup 1 .. LIMIT /\ c \in Nat
      /\ d \in Seq(Nat) /\ p \in Nat /\ q \in Seq(Nat) /\ x \in Nat
  BY <1>1, FileIs
<1>3. /\ "READ" \in fl /\ "WRITE" \notin fl /\ q = <<>> /\ c <= x /\ d = Numbers(x - c, x) /\ c > 0
  BY <1>1 DEF Reads
<1>4. PICK a, c1, d1 : a = x - c /\ c1 = c - 1 /\ d1 = Tail(d)
  OBVIOUS
<1>5. e = [flags |-> fl, buf |-> b, cnt |-> c1, data |-> d1, put |-> p, sink |-> q, pos |-> x]
  <2>1. PICK e1 : e1 = [fp EXCEPT !.cnt = c1]
    OBVIOUS
  <2>2. e1 = [flags |-> fl, buf |-> b, cnt |-> c1, data |-> d, put |-> p, sink |-> q, pos |-> x]
    BY <1>1, <2>1
  <2>3. [e1 EXCEPT !.data = d1] = [flags |-> fl, buf |-> b, cnt |-> c1, data |-> d1, put |-> p, sink |-> q, pos |-> x]
    BY <2>2
  <2>4. fp.cnt = c /\ fp.data = d
    BY <1>1
  <2>5. e = [fp EXCEPT !.cnt = c1, !.data = d1]
    BY <1>4, <2>4 DEF Consumed
  <2> QED BY <2>1, <2>3, <2>5
<1>6. a \in Nat /\ a < x /\ d = Numbers(a, x) /\ c1 \in Nat /\ c1 <= x /\ x - c1 = a + 1
  BY <1>2, <1>3, <1>4
<1>7. d1 = Numbers(a + 1, x) /\ d1 \in Seq(Nat)
  BY <1>2, <1>4, <1>6, TailNumbers
<1>8. e \in File
  BY <1>2, <1>5, <1>6, <1>7, IsFile
<1>9. Reads(e)
  BY <1>3, <1>5, <1>6, <1>7 DEF Reads
<1> QED BY <1>1, <1>5, <1>8, <1>9

LEMMA FailedReads ==
  ASSUME NEW fp \in File, Reads(fp), NEW e, e = Failed(fp)
  PROVE  e \in File /\ Reads(e) /\ Fresh(e) /\ e.buf = fp.buf
<1>1. PICK fl, b, c, d, p, q, x : fp = [flags |-> fl, buf |-> b, cnt |-> c, data |-> d, put |-> p, sink |-> q, pos |-> x]
  BY FileIs
<1>2. /\ fl \in SUBSET {"READ", "WRITE", "EOF", "ERR"} /\ b \in {NONE} \cup 1 .. LIMIT
      /\ p \in Nat /\ q \in Seq(Nat) /\ x \in Nat
  BY <1>1, FileIs
<1>3. "READ" \in fl /\ "WRITE" \notin fl /\ q = <<>>
  BY <1>1 DEF Reads
<1>4. PICK z, o, fl1 : z = 0 /\ o = <<>> /\ fl1 = fl \cup {"ERR"}
  OBVIOUS
<1>5. e = [flags |-> fl1, buf |-> b, cnt |-> z, data |-> o, put |-> p, sink |-> q, pos |-> x]
  <2>1. PICK e1 : e1 = [fp EXCEPT !.cnt = z]
    OBVIOUS
  <2>2. e1 = [flags |-> fl, buf |-> b, cnt |-> z, data |-> d, put |-> p, sink |-> q, pos |-> x]
    BY <1>1, <2>1
  <2>3. PICK e2 : e2 = [e1 EXCEPT !.data = o]
    OBVIOUS
  <2>4. e2 = [flags |-> fl, buf |-> b, cnt |-> z, data |-> o, put |-> p, sink |-> q, pos |-> x]
    BY <2>2, <2>3
  <2>5. [e2 EXCEPT !.flags = fl1] = [flags |-> fl1, buf |-> b, cnt |-> z, data |-> o, put |-> p, sink |-> q, pos |-> x]
    BY <2>4
  <2>6. fp.flags = fl
    BY <1>1
  <2>7. e = [fp EXCEPT !.cnt = z, !.data = o, !.flags = fl1]
    BY <1>4, <2>6 DEF Failed
  <2> QED BY <2>1, <2>3, <2>5, <2>7
<1>6. z \in Nat /\ o \in Seq(Nat) /\ fl1 \in SUBSET {"READ", "WRITE", "EOF", "ERR"} /\ "READ" \in fl1 /\ "WRITE" \notin fl1
  BY <1>2, <1>3, <1>4
<1>7. z <= x /\ o = Numbers(x - z, x)
  <2>1. x - z = x /\ z <= x
    BY <1>2, <1>4
  <2> QED BY <1>2, <1>4, <2>1, NoNumbers
<1>8. e \in File
  BY <1>2, <1>5, <1>6, IsFile
<1>9. Reads(e)
  BY <1>3, <1>5, <1>6, <1>7 DEF Reads
<1> QED BY <1>1, <1>4, <1>5, <1>8, <1>9 DEF Fresh

(* read has given n characters.                                            *)
LEMMA FilledReads ==
  ASSUME NEW fp \in File, Reads(fp), NEW n \in Nat, NEW e, e = Filled(fp, n)
  PROVE  /\ e \in File /\ Reads(e) /\ e.buf = fp.buf /\ e.cnt = n
         /\ n = 0 => Fresh(e)
<1>1. PICK fl, b, c, d, p, q, x : fp = [flags |-> fl, buf |-> b, cnt |-> c, data |-> d, put |-> p, sink |-> q, pos |-> x]
  BY FileIs
<1>2. /\ fl \in SUBSET {"READ", "WRITE", "EOF", "ERR"} /\ b \in {NONE} \cup 1 .. LIMIT
      /\ p \in Nat /\ q \in Seq(Nat) /\ x \in Nat
  BY <1>1, FileIs
<1>3. "READ" \in fl /\ "WRITE" \notin fl /\ q = <<>>
  BY <1>1 DEF Reads
<1>4. PICK x1, d1, fl1 : x1 = x + n /\ d1 = [k \in 1 .. n |-> x + k] /\ fl1 = IF n = 0 THEN fl \cup {"EOF"} ELSE fl
  OBVIOUS
<1>5. e = [flags |-> fl1, buf |-> b, cnt |-> n, data |-> d1, put |-> p, sink |-> q, pos |-> x1]
  <2>1. PICK e1 : e1 = [fp EXCEPT !.cnt = n]
    OBVIOUS
  <2>2. e1 = [flags |-> fl, buf |-> b, cnt |-> n, data |-> d, put |-> p, sink |-> q, pos |-> x]
    BY <1>1, <2>1
  <2>3. PICK e2 : e2 = [e1 EXCEPT !.data = d1]
    OBVIOUS
  <2>4. e2 = [flags |-> fl, buf |-> b, cnt |-> n, data |-> d1, put |-> p, sink |-> q, pos |-> x]
    BY <2>2, <2>3
  <2>5. PICK e3 : e3 = [e2 EXCEPT !.pos = x1]
    OBVIOUS
  <2>6. e3 = [flags |-> fl, buf |-> b, cnt |-> n, data |-> d1, put |-> p, sink |-> q, pos |-> x1]
    BY <2>4, <2>5
  <2>7. [e3 EXCEPT !.flags = fl1] = [flags |-> fl1, buf |-> b, cnt |-> n, data |-> d1, put |-> p, sink |-> q, pos |-> x1]
    BY <2>6
  <2>8. fp.flags = fl /\ fp.pos = x
    BY <1>1
  <2>9. e = [fp EXCEPT !.cnt = n, !.data = d1, !.pos = x1, !.flags = fl1]
    BY <1>4, <2>8 DEF Filled
  <2> QED BY <2>1, <2>3, <2>5, <2>7, <2>9
<1>6. x1 \in Nat /\ n <= x1 /\ x1 - n = x /\ x1 - x = n /\ x <= x1
  BY <1>2, <1>4
<1>7. fl1 \in SUBSET {"READ", "WRITE", "EOF", "ERR"} /\ "READ" \in fl1 /\ "WRITE" \notin fl1
  BY <1>2, <1>3, <1>4
<1>8. d1 = Numbers(x1 - n, x1)
  BY <1>4, <1>6 DEF Numbers
<1>9. d1 \in Seq(Nat)
  <2>1. d1 = Numbers(x, x1)
    BY <1>6, <1>8
  <2> QED BY <1>2, <1>6, <2>1, NumbersAre
<1>10. e \in File
  BY <1>2, <1>5, <1>6, <1>7, <1>9, IsFile
<1>11. Reads(e)
  BY <1>3, <1>5, <1>6, <1>7, <1>8 DEF Reads
<1>12. n = 0 => d1 = <<>>
  <2>1. n = 0 => x1 = x /\ d1 = Numbers(x, x)
    BY <1>2, <1>4, <1>6, <1>8
  <2> QED BY <1>2, <2>1, NoNumbers
<1> QED BY <1>1, <1>5, <1>10, <1>11, <1>12 DEF Fresh

-----------------------------------------------------------------------------
(* The heap's used blocks are the program's and the streams', each had by  *)
(* one; every stream flows; no character waits in a stream that has no     *)
(* buffer, unless one has gone through NULL.                               *)
IInv ==
    /\ Owned(Now, mine)
    /\ \A f \in Streams : Flows(f, iob[f])
    /\ ~stray => \A f \in Streams : Fresh(iob[f])

LEMMA NowIs == Now.heap = heap /\ Now.iob = iob
BY DEF Now

LEMMA IInvOk ==
  ASSUME IInv, ~stray PROVE Ok(Now, mine)
BY NowIs DEF IInv, Ok

LEMMA EndsKeeps ==
  ASSUME NEW t, Owned(t, mine), \A f \in Streams : Flows(f, t.iob[f]),
         stray' \/ \A f \in Streams : Fresh(t.iob[f]), Ends(t)
  PROVE  IInv'
<1>1. t = [heap |-> t.heap, iob |-> t.iob]
  BY DEF Owned
<1>2. Now' = t /\ mine' = mine /\ iob' = t.iob
  BY <1>1 DEF Ends, Now
<1> QED BY <1>2 DEF IInv

LEMMA OkKeeps ==
  ASSUME NEW t, Ok(t, mine), Ends(t) PROVE IInv'
BY EndsKeeps DEF Ok

LEMMA InitKeeps == Init => IInv
<1> SUFFICES ASSUME Init PROVE IInv
  OBVIOUS
<1>1. heap = NoHeap /\ mine = {} /\ iob["in"] = Reader /\ iob["out"] = Writer /\ iob["file"] = Blank
  BY DEF Init, Streams
<1>2. /\ Reader \in File /\ Writer \in File /\ Blank \in File /\ Reads(Reader) /\ Writes(Writer)
      /\ Fresh(Reader) /\ Fresh(Writer) /\ Fresh(Blank)
  BY FirstBytes
<1>3. Reader.buf = NONE /\ Writer.buf = NONE /\ Blank.buf = NONE
  BY DEF Reader, Writer, Blank
<1>4. ASSUME NEW f \in Streams PROVE iob[f] \in File /\ Flows(f, iob[f]) /\ Fresh(iob[f]) /\ iob[f].buf = NONE
  <2>1. CASE f = "in"
    BY <1>1, <1>2, <1>3, <2>1 DEF Flows
  <2>2. CASE f = "out"
    BY <1>1, <1>2, <1>3, <2>2 DEF Flows
  <2>3. CASE f = "file"
    BY <1>1, <1>2, <1>3, <2>3 DEF Flows
  <2> QED BY <2>1, <2>2, <2>3 DEF Streams
<1>5. iob \in [Streams -> File]
  <2>1. DOMAIN iob = Streams /\ iob = [f \in Streams |-> iob[f]]
    BY DEF Init
  <2> QED BY <1>4, <2>1
<1>6. Bufs(Now) = {}
  BY <1>4, NowIs DEF Bufs
<1>7. Whole(heap, mine \cup Bufs(Now))
  <2>1. mine \cup Bufs(Now) = {}
    BY <1>1, <1>6
  <2> QED BY <1>1, <2>1, NoHeapWhole
<1>8. Owned(Now, mine)
  <2>1. Now = [heap |-> Now.heap, iob |-> Now.iob]
    BY DEF Now
  <2>2. mine \cap Bufs(Now) = {}
    BY <1>6
  <2>3. \A f, g \in Streams : Now.iob[f].buf = Now.iob[g].buf /\ Now.iob[f].buf # NONE => f = g
    BY <1>4, NowIs
  <2>4. Whole(Now.heap, mine \cup Bufs(Now)) /\ Now.iob \in [Streams -> File]
    BY <1>5, <1>7, NowIs
  <2> QED BY <2>1, <2>2, <2>3, <2>4 DEF Owned
<1> QED BY <1>4, <1>8 DEF IInv

LEMMA PutKeeps ==
  ASSUME IInv, NEW f \in {"out", "file"}, Put(f) PROVE IInv'
<1>1. Ok(Now, mine) /\ f \in Streams /\ Writes(iob[f]) /\ iob[f].flags # {}
  <2>1. ~stray /\ iob[f].flags = {"WRITE"} /\ f \in Streams
    BY DEF Put, Streams
  <2>2. Flows(f, iob[f])
    BY <2>1 DEF IInv
  <2>3. Blank.flags = {}
    BY DEF Blank
  <2> QED BY <2>1, <2>2, <2>3, IInvOk DEF Flows, Reads
<1>2. PICK newline \in BOOLEAN, s \in Roomed(Now, f) :
          /\ stray' = (s.iob[f].buf = NONE)
          /\ IF s.iob[f].buf = NONE THEN Ends(s)
             ELSE \E t \in LineEnd(Set(s, f, Stored(s.iob[f])), f, newline) : Ends(t)
  BY DEF Put
<1>3. Ok(s, mine) /\ Writes(s.iob[f])
  <2>1. CASE s \in fflush(Now, f)
    BY <1>1, <2>1, NowIs, FflushIs
  <2>2. CASE s = Now
    BY <1>1, <2>2, NowIs
  <2>3. s \in fflush(Now, f) \/ s = Now
    BY <1>2 DEF Roomed
  <2> QED BY <2>1, <2>2, <2>3
<1>4. CASE s.iob[f].buf = NONE
  BY <1>2, <1>3, <1>4, OkKeeps
<1>5. CASE s.iob[f].buf # NONE
  <2>1. PICK fp, e : fp = s.iob[f] /\ e = Stored(fp)
    OBVIOUS
  <2>2. Flows(f, fp) /\ Writes(fp) /\ fp.buf # NONE
    BY <1>1, <1>3, <1>5, <2>1 DEF Ok
  <2>3. Flows(f, e) /\ Fresh(e) /\ e.buf = fp.buf /\ e.flags = fp.flags
    BY <2>1, <2>2, StoredFlows
  <2>4. PICK u : u = Set(s, f, e)
    OBVIOUS
  <2>5. e.buf = s.iob[f].buf
    BY <2>1, <2>3
  <2>6. Ok(u, mine) /\ u.iob[f] = e
    BY <1>1, <1>3, <2>3, <2>4, <2>5, SetOk
  <2>7. PICK t \in LineEnd(u, f, newline) : Ends(t)
    BY <1>2, <1>5, <2>1, <2>4
  <2>8. u.iob[f].flags # {}
    BY <2>2, <2>3, <2>6 DEF Writes
  <2>9. CASE t \in fflush(u, f)
    <3>1. Ok(t, mine)
      BY <1>1, <2>6, <2>8, <2>9, FflushIs
    <3> QED BY <2>7, <3>1, OkKeeps
  <2>10. CASE t = u
    BY <2>6, <2>7, <2>10, OkKeeps
  <2>11. t \in fflush(u, f) \/ t = u
    BY <2>7 DEF LineEnd
  <2> QED BY <2>9, <2>10, <2>11
<1> QED BY <1>4, <1>5

LEMMA FlushGoes ==
  ASSUME IInv, NEW f \in {"in", "out"}, Flush(f) PROVE IInv'
<1>1. Ok(Now, mine) /\ f \in Streams
  BY IInvOk DEF Flush, Streams
<1>2. Now.iob[f].flags # {}
  <2>1. Flows(f, iob[f])
    BY <1>1 DEF IInv
  <2> QED BY <2>1, NowIs DEF Flows, Reads, Writes
<1>3. PICK s \in fflush(Now, f) : Ends(s)
  BY DEF Flush
<1>4. Ok(s, mine)
  BY <1>1, <1>2, <1>3, FflushIs
<1> QED BY <1>3, <1>4, OkKeeps

(* ffill has its buffer, or goes on without.                               *)
LEMMA FillingIs ==
  ASSUME NEW s, NEW M, Ok(s, M), NEW f \in {"in", "file"}, Reads(s.iob[f]), ~(s.iob[f].cnt > 0),
         NEW t \in Filling(s, f)
  PROVE  Ok(t, M) /\ Reads(t.iob[f])
<1>0. f \in Streams /\ Owned(s, M) /\ Flows(f, s.iob[f])
  BY DEF Ok, Streams
<1>1. CASE t = s
  BY <1>1
<1>2. CASE s.iob[f].buf = NONE /\ t \in Buffered(s, f)
  <2>1. PICK b \in {NONE} \cup 1 .. LIMIT : Owned(t, M) /\ Lent(s, t, f, b) /\ Kept(s, t, f)
    BY <1>0, <1>2, BufferedIs
  <2>2. PICK fp : fp = s.iob[f]
    OBVIOUS
  <2>3. fp \in File /\ fp.cnt \in Nat /\ fp.pos \in Nat /\ Reads(fp) /\ Flows(f, fp)
    BY <1>0, <2>2 DEF Flows, File
  <2>4. fp.cnt = 0
    BY <2>2, <2>3
  <2>5. fp.data = <<>>
    <3>1. fp.data = Numbers(fp.pos - fp.cnt, fp.pos) /\ fp.pos - fp.cnt = fp.pos
      BY <2>3, <2>4 DEF Reads
    <3> QED BY <2>3, <3>1, NoNumbers
  <2>6. PICK e : e = [flags |-> fp.flags, buf |-> b, cnt |-> 0, data |-> <<>>, put |-> fp.put, sink |-> fp.sink, pos |-> fp.pos]
    OBVIOUS
  <2>7. t.iob[f] = e
    <3>1. t.iob[f] = [fp EXCEPT !.buf = b]
      BY <2>1, <2>2 DEF Lent
    <3>2. fp = [flags |-> fp.flags, buf |-> fp.buf, cnt |-> fp.cnt, data |-> fp.data, put |-> fp.put, sink |-> fp.sink, pos |-> fp.pos]
      BY <2>3, FileIs
    <3> QED BY <2>4, <2>5, <2>6, <3>1, <3>2
  <2>8. fp.flags # {}
    BY <2>3 DEF Reads
  <2>9. Flows(f, e) /\ Fresh(e) /\ Reads(e)
    BY <1>0, <2>3, <2>6, <2>8, EmptiedFlows
  <2>10. ASSUME NEW g \in Streams PROVE Flows(g, t.iob[g]) /\ Fresh(t.iob[g])
    <3>1. CASE g = f
      BY <2>7, <2>9, <3>1
    <3>2. CASE g # f
      <4>1. t.iob[g] = s.iob[g]
        BY <2>1, <3>2 DEF Kept
      <4> QED BY <4>1 DEF Ok
    <3> QED BY <3>1, <3>2
  <2> QED BY <2>1, <2>7, <2>9, <2>10 DEF Ok
<1>3. t = s \/ (s.iob[f].buf = NONE /\ t \in Buffered(s, f))
  BY DEF Filling
<1> QED BY <1>1, <1>2, <1>3

(* One stream changes and may have lost its freshness.                     *)
LEMMA SetKeeps ==
  ASSUME NEW s, Ok(s, mine), NEW f \in {"in", "file"}, NEW fp \in File, Reads(fp), fp.buf = s.iob[f].buf,
         Fresh(fp) \/ stray', Ends(Set(s, f, fp))
  PROVE  IInv'
<1>0. f \in Streams /\ Owned(s, mine) /\ Flows(f, fp)
  BY ReadsFlow DEF Ok, Streams
<1>1. PICK t : t = Set(s, f, fp)
  OBVIOUS
<1>2. Owned(t, mine) /\ t.iob[f] = fp /\ Kept(s, t, f)
  BY <1>0, <1>1, SetOwned
<1>3. ASSUME NEW g \in Streams PROVE Flows(g, t.iob[g]) /\ (stray' \/ Fresh(t.iob[g]))
  <2>1. CASE g = f
    BY <1>0, <1>2, <2>1
  <2>2. CASE g # f
    <3>1. t.iob[g] = s.iob[g]
      BY <1>2, <2>2 DEF Kept
    <3> QED BY <3>1 DEF Ok
  <2> QED BY <2>1, <2>2
<1>4. Ends(t)
  BY <1>1
<1> QED BY <1>2, <1>3, <1>4, EndsKeeps

LEMMA GetKeeps ==
  ASSUME IInv, NEW f \in {"in", "file"}, Get(f) PROVE IInv'
<1>1. Ok(Now, mine) /\ f \in Streams /\ Reads(iob[f])
  <2>1. ~stray /\ iob[f].flags = {"READ"} /\ f \in Streams
    BY DEF Get, Streams
  <2>2. Flows(f, iob[f])
    BY <2>1 DEF IInv
  <2>3. Blank.flags = {}
    BY DEF Blank
  <2> QED BY <2>1, <2>2, <2>3, IInvOk DEF Flows, Writes
<1>2. PICK s \in Flushed(Now, f) :
          IF s.iob[f].cnt > 0 THEN Ends(Set(s, f, Consumed(s.iob[f]))) /\ UNCHANGED stray
          ELSE ffill(s, f)
  BY DEF Get
<1>3. Ok(s, mine) /\ Reads(s.iob[f])
  <2>1. CASE f = "in" /\ s \in fflush(Now, "out")
    <3>1. "out" \in Streams /\ f # "out"
      BY <2>1 DEF Streams
    <3>2. Now.iob["out"].flags # {}
      <4>1. Flows("out", iob["out"])
        BY <3>1 DEF IInv
      <4> QED BY <4>1, NowIs DEF Flows, Writes
    <3>3. Ok(s, mine) /\ Kept(Now, s, "out")
      BY <1>1, <2>1, <3>1, <3>2, FflushIs
    <3>4. s.iob[f] = iob[f]
      BY <1>1, <3>1, <3>3, NowIs DEF Kept
    <3> QED BY <1>1, <3>3, <3>4
  <2>2. CASE s = Now
    BY <1>1, <2>2, NowIs
  <2>3. (f = "in" /\ s \in fflush(Now, "out")) \/ s = Now
    BY <1>2 DEF Flushed
  <2> QED BY <2>1, <2>2, <2>3
<1>4. CASE s.iob[f].cnt > 0
  <2>1. PICK fp, e : fp = s.iob[f] /\ e = Consumed(fp)
    OBVIOUS
  <2>2. fp \in File /\ Reads(fp) /\ Fresh(fp) /\ fp.cnt > 0
    BY <1>1, <1>3, <1>4, <2>1 DEF Ok, Flows
  <2>3. e \in File /\ Reads(e) /\ e.buf = fp.buf
    BY <2>1, <2>2, ConsumedReads
  <2>4. fp.buf # NONE
    <3>1. fp.pos \in Nat /\ fp.cnt \in Nat /\ fp.cnt <= fp.pos /\ fp.data = Numbers(fp.pos - fp.cnt, fp.pos)
      BY <2>2, FileIs DEF Reads
    <3>2. PICK a : a = fp.pos - fp.cnt
      OBVIOUS
    <3>3. a \in Nat /\ a <= fp.pos /\ fp.pos - a = fp.cnt
      BY <3>1, <3>2
    <3>4. Len(fp.data) = fp.pos - a
      BY <3>1, <3>2, <3>3, NumbersAre
    <3>5. Len(<<>>) = 0 /\ fp.cnt # 0
      BY <2>2, <3>1
    <3>6. fp.data # <<>>
      BY <3>3, <3>4, <3>5
    <3> QED BY <2>2, <3>6 DEF Fresh
  <2>5. Fresh(e) /\ e.buf = s.iob[f].buf
    BY <2>1, <2>3, <2>4 DEF Fresh
  <2>6. Ends(Set(s, f, e))
    BY <1>2, <1>4, <2>1
  <2> QED BY <1>3, <2>3, <2>5, <2>6, SetKeeps
<1>5. CASE ~(s.iob[f].cnt > 0)
  <2>1. ffill(s, f)
    BY <1>2, <1>5
  <2>2. PICK t \in Filling(s, f) :
          \/ Ends(Set(t, f, Failed(t.iob[f])))
          \/ Ends(Set(t, f, Filled(t.iob[f], 0)))
          \/ \E n \in 1 .. Least(BUFSIZ, Left) :
                /\ Ends(Set(t, f, Consumed(Filled(t.iob[f], n))))
                /\ stray' = (t.iob[f].buf = NONE)
    BY <2>1 DEF ffill
  <2>3. Ok(t, mine) /\ Reads(t.iob[f])
    BY <1>3, <1>5, <2>2, FillingIs
  <2>4. PICK fp : fp = t.iob[f]
    OBVIOUS
  <2>5. fp \in File /\ Reads(fp)
    BY <1>1, <2>3, <2>4 DEF Ok, Flows
  <2>6. CASE Ends(Set(t, f, Failed(t.iob[f])))
    <3>1. PICK e : e = Failed(fp)
      OBVIOUS
    <3>2. e \in File /\ Reads(e) /\ Fresh(e) /\ e.buf = t.iob[f].buf
      BY <2>4, <2>5, <3>1, FailedReads
    <3>3. Ends(Set(t, f, e))
      BY <2>4, <2>6, <3>1
    <3> QED BY <2>3, <3>2, <3>3, SetKeeps
  <2>7. CASE Ends(Set(t, f, Filled(t.iob[f], 0)))
    <3>1. PICK e : e = Filled(fp, 0)
      OBVIOUS
    <3>2. e \in File /\ Reads(e) /\ e.buf = t.iob[f].buf /\ Fresh(e)
      BY <2>4, <2>5, <3>1, FilledReads
    <3>3. Ends(Set(t, f, e))
      BY <2>4, <2>7, <3>1
    <3> QED BY <2>3, <3>2, <3>3, SetKeeps
  <2>8. CASE \E n \in 1 .. Least(BUFSIZ, Left) :
                /\ Ends(Set(t, f, Consumed(Filled(t.iob[f], n))))
                /\ stray' = (t.iob[f].buf = NONE)
    <3>1. PICK n \in 1 .. Least(BUFSIZ, Left) :
                /\ Ends(Set(t, f, Consumed(Filled(fp, n))))
                /\ stray' = (fp.buf = NONE)
      BY <2>4, <2>8
    <3>2. n \in Nat /\ n > 0
      BY <3>1
    <3>3. PICK d, e : d = Filled(fp, n) /\ e = Consumed(d)
      OBVIOUS
    <3>4. d \in File /\ Reads(d) /\ d.buf = fp.buf /\ d.cnt > 0
      BY <2>5, <3>2, <3>3, FilledReads
    <3>5. e \in File /\ Reads(e) /\ e.buf = fp.buf
      BY <3>3, <3>4, ConsumedReads
    <3>6. Fresh(e) \/ stray'
      BY <3>1, <3>5 DEF Fresh
    <3>7. Ends(Set(t, f, e)) /\ e.buf = t.iob[f].buf
      BY <2>4, <3>1, <3>3, <3>5
    <3> QED BY <2>3, <3>5, <3>6, <3>7, SetKeeps
  <2> QED BY <2>2, <2>6, <2>7, <2>8
<1> QED BY <1>4, <1>5

LEMMA ClearerrKeeps ==
  ASSUME IInv, Clearerr PROVE IInv'
<1>1. Ok(Now, mine) /\ "in" \in Streams /\ Flows("in", iob["in"])
  BY IInvOk DEF Clearerr, Streams, IInv
<1>2. PICK fp, x : fp = iob["in"] /\ x = {"READ"}
  OBVIOUS
<1>3. PICK e : e = [fp EXCEPT !.flags = x]
  OBVIOUS
<1>4. fp \in File /\ Reads(fp) /\ Fresh(fp)
  BY <1>1, <1>2, NowIs DEF Flows, Ok
<1>5. e = [flags |-> x, buf |-> fp.buf, cnt |-> fp.cnt, data |-> fp.data, put |-> fp.put, sink |-> fp.sink, pos |-> fp.pos]
  <2>1. fp = [flags |-> fp.flags, buf |-> fp.buf, cnt |-> fp.cnt, data |-> fp.data, put |-> fp.put, sink |-> fp.sink, pos |-> fp.pos]
    BY <1>4, FileIs
  <2> QED BY <1>3, <2>1
<1>6. e \in File
  <2>1. x \in SUBSET {"READ", "WRITE", "EOF", "ERR"}
    BY <1>2
  <2>2. /\ fp.buf \in {NONE} \cup 1 .. LIMIT /\ fp.cnt \in Nat /\ fp.data \in Seq(Nat) /\ fp.put \in Nat
        /\ fp.sink \in Seq(Nat) /\ fp.pos \in Nat
    BY <1>4, FileIs
  <2> QED BY <1>5, <2>1, <2>2, IsFile
<1>7. Reads(e) /\ Fresh(e) /\ e.buf = fp.buf
  BY <1>2, <1>4, <1>5 DEF Reads, Fresh
<1>8. Ends(Set(Now, "in", e))
  <2>1. Ends([Now EXCEPT !.iob["in"].flags = {"READ"}])
    BY DEF Clearerr
  <2>2. Set(Now, "in", e) = [Now EXCEPT !.iob["in"].flags = {"READ"}]
    BY <1>2, <1>3, NowIs DEF Set
  <2> QED BY <2>1, <2>2
<1>9. e.buf = Now.iob["in"].buf
  BY <1>2, <1>7, NowIs
<1> QED BY <1>1, <1>6, <1>7, <1>8, <1>9, SetKeeps

LEMMA FopenKeeps ==
  ASSUME IInv, Fopen PROVE IInv'
<1>1. Ok(Now, mine) /\ "file" \in Streams /\ Flows("file", iob["file"])
  BY IInvOk DEF Fopen, Streams, IInv
<1>2. iob["file"] = Blank
  BY <1>1 DEF Fopen, Flows, Reads, Writes
<1>3. PICK new \in {Reader, Writer} : Ends(Set(Now, "file", new))
  BY DEF Fopen
<1>4. PICK e : e = new
  OBVIOUS
<1>5. Flows("file", e) /\ Fresh(e)
  BY <1>3, <1>4, FirstBytes DEF Flows
<1>6. e.buf = Now.iob["file"].buf
  BY <1>2, <1>3, <1>4, NowIs DEF Reader, Writer, Blank
<1>7. PICK t : t = Set(Now, "file", e)
  OBVIOUS
<1>8. Ok(t, mine)
  BY <1>1, <1>5, <1>6, <1>7, SetOk
<1> QED BY <1>3, <1>4, <1>7, <1>8, OkKeeps

(* The blocks the program and the other streams have stay where they are.  *)
LEMMA FcloseKeeps ==
  ASSUME IInv, Fclose PROVE IInv'
<1>1. Ok(Now, mine) /\ Owned(Now, mine) /\ "file" \in Streams
  BY IInvOk DEF Fclose, Streams, IInv
<1>2. PICK b, w : b = iob["file"].buf /\ w = [iob EXCEPT !["file"] = Blank]
  OBVIOUS
<1>3. PICK h : h = Unbuffered(heap, b)
  OBVIOUS
<1>4. PICK t : t = [heap |-> h, iob |-> w]
  OBVIOUS
<1>5. Ends(t)
  BY <1>2, <1>3, <1>4 DEF Fclose
<1>6. Flows("file", Blank) /\ Fresh(Blank) /\ Blank \in File /\ Blank.buf = NONE
  BY FirstBytes DEF Flows, Blank
<1>7. iob \in [Streams -> File]
  BY <1>1, NowIs DEF Owned
<1>8. w \in [Streams -> File] /\ w["file"] = Blank /\ \A g \in Streams : g # "file" => w[g] = iob[g]
  BY <1>1, <1>2, <1>6, <1>7
<1>9. \A g, e \in Streams : iob[g].buf = iob[e].buf /\ iob[g].buf # NONE => g = e
  BY <1>1, NowIs DEF Owned
<1>10. Bufs(t) = Bufs(Now) \ {b}
  <2>1. t.iob = w
    BY <1>4
  <2>2. ASSUME NEW x \in Bufs(t) PROVE x \in Bufs(Now) \ {b}
    <3>1. PICK g \in Streams : x = w[g].buf /\ x # NONE
      BY <2>1 DEF Bufs
    <3>2. g # "file" /\ w[g] = iob[g]
      BY <1>6, <1>8, <3>1
    <3>3. x # b
      BY <1>1, <1>2, <1>9, <3>1, <3>2
    <3> QED BY <3>1, <3>2, <3>3, NowIs DEF Bufs
  <2>3. ASSUME NEW x \in Bufs(Now), x # b PROVE x \in Bufs(t)
    <3>1. PICK g \in Streams : x = iob[g].buf /\ x # NONE
      BY NowIs DEF Bufs
    <3>2. g # "file"
      BY <1>2, <2>3, <3>1
    <3> QED BY <1>8, <2>1, <3>1, <3>2 DEF Bufs
  <2> QED BY <2>2, <2>3
<1>11. Whole(heap, mine \cup Bufs(Now)) /\ mine \cap Bufs(Now) = {}
  BY <1>1, NowIs DEF Owned
<1>12. Whole(h, mine \cup Bufs(t))
  <2>1. CASE b = NONE
    <3>1. b \notin Bufs(Now)
      BY <2>1 DEF Bufs
    <3>2. Bufs(t) = Bufs(Now)
      BY <1>10, <3>1
    <3> QED BY <1>3, <1>11, <2>1, <3>2 DEF Unbuffered
  <2>2. CASE b # NONE
    <3>1. b \in Bufs(Now)
      BY <1>1, <1>2, <2>2, NowIs DEF Bufs
    <3>2. PICK used : used = mine \cup Bufs(Now)
      OBVIOUS
    <3>3. Whole(free(heap, b), used \ {b})
      BY <1>11, <3>1, <3>2, FreeWhole
    <3>4. used \ {b} = mine \cup Bufs(t)
      BY <1>10, <1>11, <3>1, <3>2
    <3> QED BY <1>3, <2>2, <3>3, <3>4 DEF Unbuffered
  <2> QED BY <2>1, <2>2
<1>13. Owned(t, mine)
  <2>1. t.heap = h /\ t.iob = w /\ t = [heap |-> t.heap, iob |-> t.iob]
    BY <1>4
  <2>2. mine \cap Bufs(t) = {}
    BY <1>10, <1>11
  <2>3. ASSUME NEW g \in Streams, NEW e \in Streams, w[g].buf = w[e].buf, w[g].buf # NONE PROVE g = e
    <3>1. g # "file" /\ e # "file"
      BY <1>6, <1>8, <2>3
    <3> QED BY <1>8, <1>9, <2>3, <3>1
  <2> QED BY <1>8, <1>12, <2>1, <2>2, <2>3 DEF Owned
<1>14. ASSUME NEW g \in Streams PROVE Flows(g, t.iob[g]) /\ Fresh(t.iob[g])
  <2>1. CASE g = "file"
    BY <1>4, <1>6, <1>8, <2>1
  <2>2. CASE g # "file"
    BY <1>1, <1>4, <1>8, <2>2, NowIs DEF Ok
  <2> QED BY <2>1, <2>2
<1>15. Ok(t, mine)
  BY <1>13, <1>14 DEF Ok
<1> QED BY <1>5, <1>15, OkKeeps

(* The program gets a block or gives one back.                             *)
LEMMA MineKeeps ==
  ASSUME IInv, ~stray, UNCHANGED <<iob, stray>>, Whole(heap', mine' \cup Bufs(Now)), mine' \cap Bufs(Now) = {}
  PROVE  IInv'
<1>1. Now' = [heap |-> heap', iob |-> iob] /\ iob' = iob /\ stray' = stray
  BY DEF Now
<1>2. Now'.heap = heap' /\ Now'.iob = iob /\ Now' = [heap |-> Now'.heap, iob |-> Now'.iob]
  BY <1>1
<1>3. Bufs(Now') = Bufs(Now)
  BY <1>2, NowIs DEF Bufs
<1>4. Owned(Now, mine)
  BY DEF IInv
<1>5. Owned(Now', mine')
  BY <1>2, <1>3, <1>4, NowIs DEF Owned
<1>6. Owned(Now, mine)'
  BY <1>5
<1> QED BY <1>1, <1>6 DEF IInv

LEMMA AllocKeeps ==
  ASSUME IInv, Alloc PROVE IInv'
<1>1. /\ ~stray /\ UNCHANGED <<iob, stray>> /\ Owned(Now, mine)
      /\ Whole(heap, mine \cup Bufs(Now)) /\ mine \cap Bufs(Now) = {}
  BY NowIs DEF Alloc, IInv, Owned
<1>2. PICK n \in Want : \E m \in malloc(heap, n) : heap' = m.heap /\ mine' = mine \cup ({m.at} \ {NONE})
  BY DEF Alloc
<1>3. n \in Nat \ {0}
  BY StdioAssumption
<1>4. PICK m \in malloc(heap, n) : heap' = m.heap /\ mine' = mine \cup ({m.at} \ {NONE})
  BY <1>2
<1>5. PICK used : used = mine \cup Bufs(Now)
  OBVIOUS
<1>6. \/ m.at = NONE /\ Whole(m.heap, used)
      \/ m.at \in 1 .. LIMIT /\ m.at \notin used /\ Whole(m.heap, used \cup {m.at})
  BY <1>1, <1>3, <1>5, MallocIs
<1>7. Whole(heap', mine' \cup Bufs(Now)) /\ mine' \cap Bufs(Now) = {}
  <2>1. CASE m.at = NONE /\ Whole(m.heap, used)
    <3>1. mine' = mine
      BY <1>4, <2>1
    <3> QED BY <1>1, <1>4, <1>5, <2>1, <3>1
  <2>2. CASE m.at \in 1 .. LIMIT /\ m.at \notin used /\ Whole(m.heap, used \cup {m.at})
    <3>1. m.at # NONE
      BY <2>2 DEF NONE
    <3>2. mine' = mine \cup {m.at}
      BY <1>4, <3>1
    <3>3. mine' \cup Bufs(Now) = used \cup {m.at}
      BY <1>5, <3>2
    <3>4. mine' \cap Bufs(Now) = {}
      BY <1>1, <1>5, <2>2, <3>2
    <3> QED BY <1>4, <2>2, <3>3, <3>4
  <2> QED BY <1>6, <2>1, <2>2
<1> QED BY <1>1, <1>7, MineKeeps

LEMMA FreeKeeps ==
  ASSUME IInv, Free PROVE IInv'
<1>1. /\ ~stray /\ UNCHANGED <<iob, stray>>
      /\ Whole(heap, mine \cup Bufs(Now)) /\ mine \cap Bufs(Now) = {}
  BY NowIs DEF Free, IInv, Owned
<1>2. PICK a \in 1 .. LIMIT : a \in mine /\ heap' = free(heap, a) /\ mine' = mine \ {a}
  BY DEF Free
<1>3. PICK used : used = mine \cup Bufs(Now)
  OBVIOUS
<1>4. Whole(free(heap, a), used \ {a})
  BY <1>1, <1>2, <1>3, FreeWhole
<1>5. mine' \cup Bufs(Now) = used \ {a} /\ mine' \cap Bufs(Now) = {}
  BY <1>1, <1>2, <1>3
<1> QED BY <1>1, <1>2, <1>4, <1>5, MineKeeps

LEMMA IInvKeeps == IInv /\ [Next]_vars => IInv'
<1> SUFFICES ASSUME IInv, [Next]_vars PROVE IInv'
  OBVIOUS
<1>1. ASSUME NEW f \in {"out", "file"}, Put(f) PROVE IInv'
  BY <1>1, PutKeeps
<1>2. ASSUME NEW f \in {"in", "out"}, Flush(f) PROVE IInv'
  BY <1>2, FlushGoes
<1>3. ASSUME NEW f \in {"in", "file"}, Get(f) PROVE IInv'
  BY <1>3, GetKeeps
<1>4. CASE Clearerr
  BY <1>4, ClearerrKeeps
<1>5. CASE Fopen
  BY <1>5, FopenKeeps
<1>6. CASE Fclose
  BY <1>6, FcloseKeeps
<1>7. CASE Alloc
  BY <1>7, AllocKeeps
<1>8. CASE Free
  BY <1>8, FreeKeeps
<1>9. CASE UNCHANGED vars
  BY <1>9 DEF vars, IInv, Now
<1> QED BY <1>1, <1>2, <1>3, <1>4, <1>5, <1>6, <1>7, <1>8, <1>9 DEF Next

-----------------------------------------------------------------------------
(* HeapTiled holds always: whatever the order of malloc and free, and      *)
(* whichever block each takes, no two blocks overlap, none leaves what     *)
(* sbrk gave, and no two free ones touch (lib/malloc.c).                   *)
THEOREM HeapTiledAlways == Spec => []HeapTiled
<1>1. IInv => HeapTiled
  <2>1. Buffers = Bufs(Now)
    BY NowIs DEF Buffers, Bufs
  <2>2. ASSUME IInv PROVE HeapTiled
    <3>1. Whole(heap, mine \cup Buffers) /\ mine \cap Buffers = {}
      BY <2>1, <2>2, NowIs DEF IInv, Owned
    <3>2. Tiled(heap, mine \cup Buffers)
      BY <3>1, WholeTiled
    <3> QED BY <3>1, <3>2 DEF HeapTiled
  <2> QED BY <2>2
<1> QED BY <1>1, InitKeeps, IInvKeeps, PTL DEF Spec

LEMMA SinkRises ==
  ASSUME NEW fp \in File, Reads(fp) \/ Writes(fp) \/ fp = Blank
  PROVE  \A i, j \in DOMAIN fp.sink : i < j => fp.sink[i] < fp.sink[j]
<1>1. PICK q, d : q = fp.sink /\ d = fp.data
  OBVIOUS
<1>2. q \in Seq(Nat) /\ d \in Seq(Nat) /\ DOMAIN q = 1 .. Len(q)
  BY <1>1, FileIs
<1>3. CASE q = <<>>
  BY <1>1, <1>3
<1>4. CASE Writes(fp)
  <2>1. PICK r : r = q \o d
    OBVIOUS
  <2>2. Rises(r, fp.put)
    BY <1>1, <1>4, <2>1 DEF Writes
  <2>3. /\ Len(r) = Len(q) + Len(d)
        /\ \A i \in 1 .. Len(q) + Len(d) : r[i] = IF i <= Len(q) THEN q[i] ELSE d[i - Len(q)]
    BY <1>2, <2>1, ConcatProperties
  <2>4. Len(q) \in Nat /\ Len(d) \in Nat
    BY <1>2
  <2>5. \A i \in 1 .. Len(q) : i \in 1 .. Len(r) /\ r[i] = q[i]
    BY <2>3, <2>4
  <2> QED BY <1>1, <1>2, <2>2, <2>5 DEF Rises
<1>5. Writes(fp) \/ q = <<>>
  BY <1>1 DEF Reads, Blank
<1> QED BY <1>3, <1>4, <1>5

(* StreamsInOrder holds always: short writes, failed reads, buffers that   *)
(* malloc refuses and flushes in any order neither reorder nor double a    *)
(* character, and lose none but by a short write (lib/stdio.c).            *)
THEOREM StreamsInOrderAlways == Spec => []StreamsInOrder
<1>1. IInv => StreamsInOrder
  <2>1. SUFFICES ASSUME IInv, NEW f \in Streams
                 PROVE  /\ \A i, j \in DOMAIN iob[f].sink : i < j => iob[f].sink[i] < iob[f].sink[j]
                        /\ iob[f].flags = {"WRITE"} => iob[f].sink \o iob[f].data = Numbers(0, iob[f].put)
                        /\ ~stray /\ "READ" \in iob[f].flags =>
                              iob[f].data = Numbers(iob[f].pos - iob[f].cnt, iob[f].pos)
    BY DEF StreamsInOrder
  <2>2. PICK fp : fp = iob[f]
    OBVIOUS
  <2>3. Flows(f, fp)
    BY <2>1, <2>2 DEF IInv
  <2>4. fp \in File /\ (Reads(fp) \/ Writes(fp) \/ fp = Blank)
    BY <2>1, <2>3 DEF Flows, Streams
  <2>5. \A i, j \in DOMAIN fp.sink : i < j => fp.sink[i] < fp.sink[j]
    BY <2>4, SinkRises
  <2>6. Blank.flags = {}
    BY DEF Blank
  <2>7. fp.flags = {"WRITE"} => fp.sink \o fp.data = Numbers(0, fp.put)
    BY <2>4, <2>6 DEF Reads, Writes
  <2>8. "READ" \in fp.flags => fp.data = Numbers(fp.pos - fp.cnt, fp.pos)
    BY <2>4, <2>6 DEF Reads, Writes
  <2> QED BY <2>2, <2>5, <2>7, <2>8
<1> QED BY <1>1, InitKeeps, IInvKeeps, PTL DEF Spec
=============================================================================
