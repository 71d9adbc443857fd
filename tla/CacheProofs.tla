---------------------------- MODULE CacheProofs ----------------------------
(***************************************************************************)
(* Proofs about the buffer cache under the calls on a file, for every      *)
(* number of buffers, every disk and every size of file, and whatever the  *)
(* blocks hold.  A call's list of operations is read by a small machine    *)
(* that counts the buffers held and remembers whether the latest has been  *)
(* changed and not yet written: what the code's brackets are to a C        *)
(* compiler is here that each list takes the machine from a count back to  *)
(* the same count.                                                         *)
(***************************************************************************)
EXTENDS FileBlocks, SequenceTheorems, FiniteSetTheorems, WellFoundedInduction, TLAPS

Mark == Nat \X BOOLEAN

Level(d) == <<d, FALSE>>

Changed(d) == <<d, TRUE>>

Idle    == {"setaddr", "useaddr", "unset", "grow", "copy"}
Keeping == {"load", "freeword"}
Closing == {"brelse", "look", "pick"}     \* look and pick release it at last
Setting == {"clear", "fill", "inode", "setword"}

Move(op, q, r) ==
    \/ op \in {"bread", "breadgot"} /\ \E d \in Nat : q = Level(d) /\ r = Level(d + 1)
    \/ op \in Closing /\ \E d \in Nat : q = Level(d + 1) /\ r = Level(d)
    \/ op = "bwrite" /\ \E d \in Nat : q \in {Level(d + 1), Changed(d + 1)} /\ r = Level(d + 1)
    \/ op \in Setting /\ \E d \in Nat : q = Level(d + 1) /\ r = Changed(d + 1)
    \/ op \in Keeping /\ \E d \in Nat : q = Level(d + 1) /\ r = q
    \/ op \in Idle /\ \E d \in Nat : q = Level(d) /\ r = q

IsSeq(s) == \E S : s \in Seq(S)

Run(s, f, q, r) ==
    /\ f \in [0 .. Len(s) -> Mark] /\ f[0] = q /\ f[Len(s)] = r
    /\ \A k \in 1 .. Len(s) : Move(s[k].op, f[k - 1], f[k])

(* The list s takes the machine from q to r.                               *)
Leads(s, q, r) == IsSeq(s) /\ \E f : Run(s, f, q, r)

-----------------------------------------------------------------------------
LEMMA SeqIs ==
  ASSUME NEW s, IsSeq(s)
  PROVE  Len(s) \in Nat /\ DOMAIN s = 1 .. Len(s)
BY LenProperties DEF IsSeq

LEMMA CatIs ==
  ASSUME NEW s, NEW t, IsSeq(s), IsSeq(t)
  PROVE  /\ IsSeq(s \o t) /\ Len(s \o t) = Len(s) + Len(t)
         /\ \A i \in 1 .. Len(s) : (s \o t)[i] = s[i]
         /\ \A i \in 1 .. Len(t) : (s \o t)[Len(s) + i] = t[i]
<1>1. PICK S, T : s \in Seq(S) /\ t \in Seq(T)
  BY DEF IsSeq
<1>2. PICK U : U = S \cup T
  OBVIOUS
<1>3. s \in Seq(U) /\ t \in Seq(U)
  BY <1>1, <1>2, SeqMonotonic
<1>4. /\ s \o t \in Seq(U) /\ Len(s \o t) = Len(s) + Len(t)
      /\ \A i \in 1 .. Len(s) + Len(t) : (s \o t)[i] = IF i <= Len(s) THEN s[i] ELSE t[i - Len(s)]
  BY <1>3, ConcatProperties
<1>5. Len(s) \in Nat /\ Len(t) \in Nat
  BY SeqIs
<1>6. ASSUME NEW i \in 1 .. Len(s) PROVE (s \o t)[i] = s[i]
  <2>1. i \in 1 .. Len(s) + Len(t) /\ i <= Len(s)
    BY <1>5
  <2> QED BY <1>4, <2>1
<1>7. ASSUME NEW i \in 1 .. Len(t) PROVE (s \o t)[Len(s) + i] = t[i]
  <2>1. PICK j : j = Len(s) + i
    OBVIOUS
  <2>2. j \in 1 .. Len(s) + Len(t) /\ ~(j <= Len(s)) /\ j - Len(s) = i
    BY <1>5, <2>1
  <2> QED BY <1>4, <2>1, <2>2
<1> QED BY <1>4, <1>6, <1>7 DEF IsSeq

LEMMA LeadsNone ==
  ASSUME NEW q \in Mark PROVE Leads(<<>>, q, q)
<1>1. Len(<<>>) = 0 /\ IsSeq(<<>>)
  BY EmptySeq DEF IsSeq
<1>2. PICK f : f = [k \in 0 .. 0 |-> q]
  OBVIOUS
<1>3. Run(<<>>, f, q, q)
  BY <1>1, <1>2 DEF Run
<1> QED BY <1>1, <1>3 DEF Leads

LEMMA NoneLeads ==
  ASSUME NEW q, NEW r, Leads(<<>>, q, r) PROVE q = r
<1>1. Len(<<>>) = 0
  BY EmptySeq
<1> QED BY <1>1 DEF Leads, Run

LEMMA LeadsOne ==
  ASSUME NEW x, NEW q \in Mark, NEW r \in Mark, Move(x.op, q, r) PROVE Leads(<<x>>, q, r)
<1>1. PICK s : s = <<x>>
  OBVIOUS
<1>2. s \in Seq({x}) /\ Len(s) = 1 /\ s[1] = x
  BY <1>1
<1>3. PICK f : f = [k \in 0 .. 1 |-> IF k = 0 THEN q ELSE r]
  OBVIOUS
<1>4. Run(s, f, q, r)
  BY <1>2, <1>3 DEF Run
<1> QED BY <1>1, <1>2, <1>4 DEF Leads, IsSeq

LEMMA LeadsCat ==
  ASSUME NEW s, NEW t, NEW q, NEW m, NEW r, Leads(s, q, m), Leads(t, m, r)
  PROVE  Leads(s \o t, q, r)
<1>1. PICK f : Run(s, f, q, m)
  BY DEF Leads
<1>2. PICK g : Run(t, g, m, r)
  BY DEF Leads
<1>3. IsSeq(s) /\ IsSeq(t)
  BY DEF Leads
<1>4. PICK a, b : a = Len(s) /\ b = Len(t)
  OBVIOUS
<1>5. a \in Nat /\ b \in Nat
  BY <1>3, <1>4, SeqIs
<1>6. PICK u : u = s \o t
  OBVIOUS
<1>7. /\ IsSeq(u) /\ Len(u) = a + b
      /\ \A i \in 1 .. a : u[i] = s[i]
      /\ \A i \in 1 .. b : u[a + i] = t[i]
  BY <1>3, <1>4, <1>6, CatIs
<1>8. PICK h : h = [k \in 0 .. a + b |-> IF k <= a THEN f[k] ELSE g[k - a]]
  OBVIOUS
<1>9. /\ f \in [0 .. a -> Mark] /\ g \in [0 .. b -> Mark]
      /\ f[0] = q /\ f[a] = m /\ g[0] = m /\ g[b] = r
  BY <1>1, <1>2, <1>4 DEF Run
<1>10. ASSUME NEW k \in 0 .. a PROVE h[k] = f[k]
  <2>1. k \in 0 .. a + b /\ k <= a
    BY <1>5
  <2> QED BY <1>8, <2>1
<1>11. ASSUME NEW k \in 0 .. b PROVE h[a + k] = g[k]
  <2>1. PICK j : j = a + k
    OBVIOUS
  <2>2. j \in 0 .. a + b /\ j - a = k
    BY <1>5, <2>1
  <2>3. CASE j <= a
    <3>1. k = 0 /\ j = a
      BY <1>5, <2>1, <2>3
    <3> QED BY <1>8, <1>9, <2>1, <2>2, <2>3, <3>1
  <2>4. CASE ~(j <= a)
    BY <1>8, <2>1, <2>2, <2>4
  <2> QED BY <2>3, <2>4
<1>12. h \in [0 .. a + b -> Mark]
  <2>1. ASSUME NEW k \in 0 .. a + b PROVE h[k] \in Mark
    <3>1. CASE k <= a
      <4>1. k \in 0 .. a
        BY <1>5, <3>1
      <4> QED BY <1>9, <1>10, <4>1
    <3>2. CASE ~(k <= a)
      <4>1. PICK j : j = k - a
        OBVIOUS
      <4>2. j \in 0 .. b /\ a + j = k
        BY <1>5, <3>2, <4>1
      <4> QED BY <1>9, <1>11, <4>2
    <3> QED BY <3>1, <3>2
  <2> QED BY <1>8, <2>1
<1>13. h[0] = q /\ h[a + b] = r
  <2>1. 0 \in 0 .. a /\ b \in 0 .. b
    BY <1>5
  <2> QED BY <1>9, <1>10, <1>11, <2>1
<1>14. ASSUME NEW k \in 1 .. a + b PROVE Move(u[k].op, h[k - 1], h[k])
  <2>1. CASE k <= a
    <3>1. k \in 1 .. a /\ k \in 0 .. a /\ k - 1 \in 0 .. a
      BY <1>5, <2>1
    <3>2. h[k] = f[k] /\ h[k - 1] = f[k - 1] /\ u[k] = s[k]
      BY <1>7, <1>10, <3>1
    <3> QED BY <1>1, <1>4, <3>1, <3>2 DEF Run
  <2>2. CASE ~(k <= a)
    <3>1. PICK j : j = k - a
      OBVIOUS
    <3>2. j \in 1 .. b /\ j \in 0 .. b /\ j - 1 \in 0 .. b /\ a + j = k /\ a + (j - 1) = k - 1
      BY <1>5, <2>2, <3>1
    <3>3. h[k] = g[j] /\ h[k - 1] = g[j - 1] /\ u[k] = t[j]
      BY <1>7, <1>11, <3>2
    <3> QED BY <1>2, <1>4, <3>2, <3>3 DEF Run
  <2> QED BY <2>1, <2>2
<1>15. Run(u, h, q, r)
  BY <1>7, <1>12, <1>13, <1>14 DEF Run
<1> QED BY <1>6, <1>7, <1>15 DEF Leads

(* The first operation of a list, and the rest.                            *)
LEMMA LeadsFirst ==
  ASSUME NEW s, NEW q, NEW r, Leads(s, q, r), s # <<>>
  PROVE  \E m \in Mark : Move(Head(s).op, q, m) /\ Leads(Tail(s), m, r)
<1>1. PICK f : Run(s, f, q, r)
  BY DEF Leads
<1>2. PICK S : s \in Seq(S)
  BY DEF Leads, IsSeq
<1>3. PICK t, n : t = Tail(s) /\ n = Len(t)
  OBVIOUS
<1>4. /\ t \in Seq(S) /\ n = Len(s) - 1 /\ \A i \in 1 .. n : t[i] = s[i + 1]
  BY <1>2, <1>3, HeadTailProperties
<1>5. Len(s) \in Nat /\ n \in Nat /\ Len(s) = n + 1
  BY <1>2, <1>3, <1>4, LenProperties
<1>6. PICK g : g = [k \in 0 .. n |-> f[k + 1]]
  OBVIOUS
<1>7. f \in [0 .. n + 1 -> Mark] /\ f[0] = q /\ f[n + 1] = r
  BY <1>1, <1>5 DEF Run
<1>8. \A k \in 0 .. n : k + 1 \in 0 .. n + 1
  BY <1>5
<1>9. g \in [0 .. n -> Mark]
  BY <1>6, <1>7, <1>8
<1>10. ASSUME NEW k \in 1 .. n PROVE Move(t[k].op, g[k - 1], g[k])
  <2>1. k + 1 \in 1 .. Len(s) /\ k \in 0 .. n /\ k - 1 \in 0 .. n /\ (k + 1) - 1 = k /\ (k - 1) + 1 = k
    BY <1>5
  <2>2. Move(s[k + 1].op, f[k], f[k + 1])
    BY <1>1, <2>1 DEF Run
  <2>3. g[k - 1] = f[k] /\ g[k] = f[k + 1]
    BY <1>6, <2>1
  <2> QED BY <1>4, <2>2, <2>3
<1>11. g[0] = f[1] /\ g[n] = r /\ f[1] \in Mark
  BY <1>5, <1>6, <1>7, <1>8
<1>12. Run(t, g, f[1], r)
  BY <1>3, <1>9, <1>10, <1>11 DEF Run
<1>13. Move(s[1].op, f[0], f[1])
  BY <1>1, <1>5 DEF Run
<1>14. Head(s) = s[1]
  BY <1>2
<1> QED BY <1>3, <1>4, <1>7, <1>11, <1>12, <1>13, <1>14 DEF Leads, IsSeq

-----------------------------------------------------------------------------
LEMMA LevelIs ==
  ASSUME NEW d \in Nat PROVE d + 1 \in Nat /\ Level(d) \in Mark /\ Changed(d) \in Mark
<1>1. \A e \in BOOLEAN : <<d, e>> \in Mark
  BY DEF Mark
<1>2. Level(d) \in Mark
  BY <1>1, Zenon DEF Level
<1>3. Changed(d) \in Mark
  BY <1>1, Zenon DEF Changed
<1> QED BY <1>2, <1>3

LEMMA BreadLeads ==
  ASSUME NEW d \in Nat
  PROVE  /\ \A x : Leads(Bread(x), Level(d), Level(d + 1))
         /\ Leads(BreadGot, Level(d), Level(d + 1))
<1>1. Level(d) \in Mark /\ Level(d + 1) \in Mark
  BY LevelIs
<1>2. Move("bread", Level(d), Level(d + 1)) /\ Move("breadgot", Level(d), Level(d + 1))
  BY DEF Move
<1>3. ASSUME NEW x PROVE Leads(Bread(x), Level(d), Level(d + 1))
  <2>1. PICK y : y = [op |-> "bread", x |-> x]
    OBVIOUS
  <2>2. Leads(<<y>>, Level(d), Level(d + 1))
    BY <1>1, <1>2, <2>1, LeadsOne
  <2> QED BY <2>1, <2>2 DEF Bread
<1>4. Leads(BreadGot, Level(d), Level(d + 1))
  <2>1. PICK y : y = [op |-> "breadgot"]
    OBVIOUS
  <2>2. Leads(<<y>>, Level(d), Level(d + 1))
    BY <1>1, <1>2, <2>1, LeadsOne
  <2> QED BY <2>1, <2>2 DEF BreadGot
<1> QED BY <1>3, <1>4

LEMMA ReleaseLeads ==
  ASSUME NEW d \in Nat PROVE Leads(Release, Level(d + 1), Level(d))
<1>1. Level(d) \in Mark /\ Level(d + 1) \in Mark
  BY LevelIs
<1>2. Move("brelse", Level(d + 1), Level(d))
  BY DEF Move, Closing
<1>3. PICK y : y = [op |-> "brelse"]
  OBVIOUS
<1>4. Leads(<<y>>, Level(d + 1), Level(d))
  BY <1>1, <1>2, <1>3, LeadsOne
<1> QED BY <1>3, <1>4 DEF Release

LEMMA WriteLeads ==
  ASSUME NEW d \in Nat
  PROVE  /\ Leads(Write, Changed(d + 1), Level(d + 1))
         /\ Leads(Write \o Release, Changed(d + 1), Level(d))
<1>1. Changed(d + 1) \in Mark /\ Level(d + 1) \in Mark
  BY LevelIs
<1>2. Move("bwrite", Changed(d + 1), Level(d + 1))
  BY DEF Move
<1>3. PICK y : y = [op |-> "bwrite"]
  OBVIOUS
<1>4. Leads(<<y>>, Changed(d + 1), Level(d + 1))
  BY <1>1, <1>2, <1>3, LeadsOne
<1>5. Leads(Write, Changed(d + 1), Level(d + 1))
  BY <1>3, <1>4 DEF Write
<1>6. Leads(Release, Level(d + 1), Level(d))
  BY ReleaseLeads
<1> QED BY <1>5, <1>6, LeadsCat

(* What is done between the operations of the cache.                       *)
LEMMA DoLeads ==
  ASSUME NEW d \in Nat, NEW f, NEW v
  PROVE  /\ f \in Idle => Leads(Do(f, v), Level(d), Level(d))
         /\ f \in Keeping => Leads(Do(f, v), Level(d + 1), Level(d + 1))
         /\ f \in {"look", "pick"} => Leads(Do(f, v), Level(d + 1), Level(d))
         /\ f \in Setting => Leads(Do(f, v), Level(d + 1), Changed(d + 1))
<1>1. Level(d) \in Mark /\ Level(d + 1) \in Mark /\ Changed(d + 1) \in Mark
  BY LevelIs
<1>2. PICK y : y = [op |-> f, x |-> v]
  OBVIOUS
<1>3. y.op = f /\ Do(f, v) = <<y>>
  BY <1>2 DEF Do
<1>4. ASSUME f \in Idle PROVE Leads(<<y>>, Level(d), Level(d))
  <2>1. Move(y.op, Level(d), Level(d))
    BY <1>3, <1>4 DEF Move
  <2> QED BY <1>1, <2>1, LeadsOne
<1>5. ASSUME f \in Keeping PROVE Leads(<<y>>, Level(d + 1), Level(d + 1))
  <2>1. Move(y.op, Level(d + 1), Level(d + 1))
    BY <1>3, <1>5 DEF Move
  <2> QED BY <1>1, <2>1, LeadsOne
<1>6. ASSUME f \in {"look", "pick"} PROVE Leads(<<y>>, Level(d + 1), Level(d))
  <2>1. Move(y.op, Level(d + 1), Level(d))
    BY <1>3, <1>6 DEF Move, Closing
  <2> QED BY <1>1, <2>1, LeadsOne
<1>7. ASSUME f \in Setting PROVE Leads(<<y>>, Level(d + 1), Changed(d + 1))
  <2>1. Move(y.op, Level(d + 1), Changed(d + 1))
    BY <1>3, <1>7 DEF Move
  <2> QED BY <1>1, <2>1, LeadsOne
<1> QED BY <1>3, <1>4, <1>5, <1>6, <1>7

(* The functions of inode.c give back what they hold.                      *)
LEMMA BlockLeads ==
  ASSUME NEW d \in Nat
  PROVE  /\ Leads(readsb, Level(d), Level(d)) /\ Leads(balloc, Level(d), Level(d))
         /\ \A b : Leads(bzero(b), Level(d), Level(d)) /\ Leads(bfree(b), Level(d), Level(d))
         /\ Leads(iupdate, Level(d), Level(d)) /\ Leads(iget, Level(d), Level(d))
<1>1. /\ \A x : Leads(Bread(x), Level(d), Level(d + 1))
      /\ Leads(Release, Level(d + 1), Level(d))
      /\ Leads(Write, Changed(d + 1), Level(d + 1))
  BY BreadLeads, ReleaseLeads, WriteLeads
<1>2. /\ \A v : Leads(Do("pick", v), Level(d + 1), Level(d))
      /\ \A v : Leads(Do("fill", v), Level(d + 1), Changed(d + 1))
      /\ \A v : Leads(Do("clear", v), Level(d + 1), Changed(d + 1))
      /\ \A v : Leads(Do("inode", v), Level(d + 1), Changed(d + 1))
      /\ \A v : Leads(Do("load", v), Level(d + 1), Level(d + 1))
  <2>1. "fill" \in Setting /\ "clear" \in Setting /\ "inode" \in Setting /\ "load" \in Keeping
    BY DEF Setting, Keeping
  <2> QED BY <2>1, DoLeads
<1>3. Leads(readsb, Level(d), Level(d))
  BY <1>1, LeadsCat DEF readsb
<1>4. ASSUME NEW x PROVE Leads(readsb \o Bread(x), Level(d), Level(d + 1))
  BY <1>1, <1>3, LeadsCat
<1>5. Leads(balloc, Level(d), Level(d))
  BY <1>2, <1>4, LeadsCat DEF balloc
<1>6. ASSUME NEW s, Leads(s, Level(d), Changed(d + 1))
      PROVE  Leads(s \o Write \o Release, Level(d), Level(d))
  <2>1. Leads(s \o Write, Level(d), Level(d + 1))
    BY <1>1, <1>6, LeadsCat
  <2> QED BY <1>1, <2>1, LeadsCat
<1>7. ASSUME NEW b PROVE Leads(bzero(b), Level(d), Level(d))
  <2>1. Leads(Bread(b) \o Do("fill", 0), Level(d), Changed(d + 1))
    BY <1>1, <1>2, LeadsCat
  <2> QED BY <1>6, <2>1 DEF bzero
<1>8. ASSUME NEW b PROVE Leads(bfree(b), Level(d), Level(d))
  <2>1. Leads(readsb \o Bread(BM) \o Do("clear", b), Level(d), Changed(d + 1))
    BY <1>2, <1>4, LeadsCat
  <2> QED BY <1>6, <2>1 DEF bfree
<1>9. Leads(iupdate, Level(d), Level(d))
  <2>1. Leads(Bread(IB) \o Do("inode", 0), Level(d), Changed(d + 1))
    BY <1>1, <1>2, LeadsCat
  <2> QED BY <1>6, <2>1 DEF iupdate
<1>10. Leads(iget, Level(d), Level(d))
  <2>1. Leads(Bread(IB) \o Do("load", 0), Level(d), Level(d + 1))
    BY <1>1, <1>2, LeadsCat
  <2> QED BY <1>1, <2>1, LeadsCat DEF iget
<1> QED BY <1>3, <1>5, <1>7, <1>8, <1>9, <1>10

LEMMA BmapLeads ==
  ASSUME NEW d \in Nat
  PROVE  \A bn : Leads(bmap(bn), Level(d), Level(d))
<1>1. /\ \A v : Leads(Do("setaddr", v), Level(d), Level(d))
      /\ \A v : Leads(Do("useaddr", v), Level(d), Level(d))
      /\ \A v : Leads(Do("look", v), Level(d + 1), Level(d))
  <2>1. "setaddr" \in Idle /\ "useaddr" \in Idle
    BY DEF Idle
  <2> QED BY <2>1, DoLeads
<1>2. Leads(balloc, Level(d), Level(d)) /\ Leads(BreadGot, Level(d), Level(d + 1))
  BY BlockLeads, BreadLeads
<1>3. ASSUME NEW i PROVE Leads(Addr(i), Level(d), Level(d))
  <2>1. Leads(balloc \o Do("setaddr", i), Level(d), Level(d))
    BY <1>1, <1>2, LeadsCat
  <2> QED BY <1>1, <2>1 DEF Addr
<1>4. ASSUME NEW bn PROVE Leads(bmap(bn), Level(d), Level(d))
  <2>1. Leads(Addr(NDIRECT) \o BreadGot, Level(d), Level(d + 1))
    BY <1>2, <1>3, LeadsCat
  <2>2. Leads(Addr(NDIRECT) \o BreadGot \o Do("look", bn - NDIRECT), Level(d), Level(d))
    BY <1>1, <2>1, LeadsCat
  <2> QED BY <1>3, <2>2 DEF bmap
<1> QED BY <1>4

LEMMA AccessLeads ==
  ASSUME NEW d \in Nat
  PROVE  /\ \A bn : Leads(readi(bn), Level(d), Level(d))
         /\ \A bn, v : Leads(writei(bn, v), Level(d), Level(d))
<1>1. /\ \A bn : Leads(bmap(bn), Level(d), Level(d))
      /\ Leads(BreadGot, Level(d), Level(d + 1)) /\ Leads(Release, Level(d + 1), Level(d))
      /\ Leads(Write, Changed(d + 1), Level(d + 1)) /\ Leads(iupdate, Level(d), Level(d))
  BY BmapLeads, BreadLeads, ReleaseLeads, WriteLeads, BlockLeads
<1>2. /\ \A v : Leads(Do("copy", v), Level(d + 1), Level(d + 1))
      /\ \A v : Leads(Do("fill", v), Level(d + 1), Changed(d + 1))
      /\ \A v : Leads(Do("grow", v), Level(d), Level(d))
  <2>1. "copy" \in Idle /\ "fill" \in Setting /\ "grow" \in Idle /\ d + 1 \in Nat
    BY DEF Idle, Setting
  <2> QED BY <2>1, DoLeads
<1>3. ASSUME NEW bn PROVE Leads(bmap(bn) \o BreadGot, Level(d), Level(d + 1))
  BY <1>1, LeadsCat
<1>4. ASSUME NEW bn PROVE Leads(readi(bn), Level(d), Level(d))
  <2>1. Leads(bmap(bn) \o BreadGot \o Do("copy", bn), Level(d), Level(d + 1))
    BY <1>2, <1>3, LeadsCat
  <2> QED BY <1>1, <2>1, LeadsCat DEF readi
<1>5. ASSUME NEW bn, NEW v PROVE Leads(writei(bn, v), Level(d), Level(d))
  <2>1. Leads(bmap(bn) \o BreadGot \o Do("fill", v), Level(d), Changed(d + 1))
    BY <1>2, <1>3, LeadsCat
  <2>2. Leads(bmap(bn) \o BreadGot \o Do("fill", v) \o Write, Level(d), Level(d + 1))
    BY <1>1, <2>1, LeadsCat
  <2>3. Leads(bmap(bn) \o BreadGot \o Do("fill", v) \o Write \o Release, Level(d), Level(d))
    BY <1>1, <2>2, LeadsCat
  <2>4. Leads(Do("grow", bn + 1) \o iupdate, Level(d), Level(d)) /\ Leads(<<>>, Level(d), Level(d))
    BY <1>1, <1>2, LeadsCat, LeadsNone, LevelIs
  <2>5. PICK t : t = IF bn + 1 > size THEN Do("grow", bn + 1) \o iupdate ELSE <<>>
    OBVIOUS
  <2>6. Leads(t, Level(d), Level(d))
    BY <2>4, <2>5
  <2>7. Leads(bmap(bn) \o BreadGot \o Do("fill", v) \o Write \o Release \o t, Level(d), Level(d))
    BY <2>3, <2>6, LeadsCat
  <2> QED BY <2>5, <2>7 DEF writei
<1> QED BY <1>4, <1>5

LEMMA LeastNat ==
  ASSUME NEW T, T \subseteq Nat, T # {}
  PROVE  \E x \in T : \A y \in T : x <= y
<1>1. PICK L : L = {ss \in Nat \X Nat : ss[1] < ss[2]}
  OBVIOUS
<1>2. IsWellFoundedOn(L, Nat)
  BY <1>1, NatLessThanWellFounded DEF OpToRel
<1>3. PICK x \in T : \A y \in T : ~ (<<y, x>> \in L)
  BY <1>2, WFMin
<1>4. ASSUME NEW y \in T PROVE x <= y
  <2>1. x \in Nat /\ y \in Nat /\ <<y, x>> \notin L
    BY <1>3
  <2> QED BY <1>1, <2>1
<1> QED BY <1>4

LEMMA SetInduct ==
  ASSUME NEW N \in Nat, NEW T, 1 \in T, \A n \in 1 .. N : n # 1 /\ n - 1 \in T => n \in T
  PROVE  \A n \in 1 .. N : n \in T
<1>1. SUFFICES ASSUME NEW k \in 1 .. N, k \notin T PROVE FALSE
  OBVIOUS
<1>2. PICK S : S = {n \in 1 .. N : n \notin T}
  OBVIOUS
<1>3. S \subseteq Nat /\ S # {}
  BY <1>1, <1>2
<1>4. PICK x \in S : \A y \in S : x <= y
  BY <1>3, LeastNat
<1>5. x \in 1 .. N /\ x \notin T /\ x # 1
  BY <1>2, <1>4
<1>6. x - 1 \notin S /\ x - 1 \in 1 .. N
  <2>1. x \in Nat /\ ~(x <= x - 1)
    BY <1>5
  <2> QED BY <1>4, <1>5, <2>1
<1> QED BY <1>2, <1>5, <1>6

(* The lists of a sequence of lists, one after the other.                  *)
LEMMA FlattenIs ==
  ASSUME NEW F, NEW n \in Nat, n # 0, Len(F) = n
  PROVE  \E g : /\ FlattenSeq(F) = g[n] /\ g[1] = F[1]
                /\ \A i \in 1 .. n : i # 1 => g[i] = g[i - 1] \o F[i]
<1> DEFINE Is(f, m) == f = [i \in 1 .. m |-> IF i = 1 THEN F[i] ELSE f[i - 1] \o F[i]]
           T == {m \in 1 .. n : \E f : Is(f, m)}
<1>1. 1 \in T
  <2>1. PICK f : f = [i \in 1 .. 1 |-> F[i]]
    OBVIOUS
  <2>2. f = [i \in 1 .. 1 |-> IF i = 1 THEN F[i] ELSE f[i - 1] \o F[i]]
    <3>1. \A i \in 1 .. 1 : i = 1
      OBVIOUS
    <3> QED BY <2>1, <3>1, Zenon
  <2>3. 1 \in 1 .. n
    OBVIOUS
  <2> QED BY <2>2, <2>3
<1>2. ASSUME NEW m \in 1 .. n, m # 1, m - 1 \in T PROVE m \in T
  <2>1. PICK f : Is(f, m - 1)
    BY <1>2
  <2>2. PICK h : h = [i \in 1 .. m |-> IF i = m THEN f[m - 1] \o F[m] ELSE f[i]]
    OBVIOUS
  <2>3. \A i \in 1 .. m : i # m => i \in 1 .. m - 1
    OBVIOUS
  <2>4. \A i \in 1 .. m - 1 : i \in 1 .. m /\ i # m /\ (i # 1 => i - 1 \in 1 .. m - 1)
    OBVIOUS
  <2>5. m \in 1 .. m /\ m # 1 /\ m - 1 \in 1 .. m - 1
    BY <1>2
  <2>6. \A i \in 1 .. m - 1 : h[i] = f[i]
    BY <2>2, <2>4
  <2>7. h[m] = h[m - 1] \o F[m]
    BY <2>2, <2>5, <2>6
  <2>8. \A i \in 1 .. m - 1 : h[i] = IF i = 1 THEN F[i] ELSE h[i - 1] \o F[i]
    <3>1. \A i \in 1 .. m - 1 : f[i] = IF i = 1 THEN F[i] ELSE f[i - 1] \o F[i]
      BY <2>1, Zenon
    <3> HIDE DEF Is, T
    <3> QED BY <2>4, <2>6, <3>1
  <2>9. \A i \in 1 .. m : h[i] = IF i = 1 THEN F[i] ELSE h[i - 1] \o F[i]
    BY <2>3, <2>5, <2>7, <2>8
  <2>10. h = [i \in 1 .. m |-> IF i = 1 THEN F[i] ELSE h[i - 1] \o F[i]]
    <3>1. h = [i \in 1 .. m |-> h[i]]
      BY <2>2, Zenon
    <3> QED BY <2>9, <3>1, Zenon
  <2> QED BY <2>10
<1>3. n \in T
  <2> HIDE DEF T
  <2>1. \A m \in 1 .. n : m \in T
    BY <1>1, <1>2, SetInduct
  <2>2. n \in 1 .. n
    OBVIOUS
  <2> QED BY <2>1, <2>2
<1>4. PICK f : Is(f, n)
  BY <1>3
<1>5. \E g : Is(g, n) /\ FlattenSeq(F) = g[n]
  BY <1>4, Len(F) = n, n # 0, Zenon DEF FlattenSeq
<1>6. PICK g : Is(g, n) /\ FlattenSeq(F) = g[n]
  BY <1>5
<1>7. \A i \in 1 .. n : g[i] = IF i = 1 THEN F[i] ELSE g[i - 1] \o F[i]
  BY <1>6, Zenon
<1>8. 1 \in 1 .. n
  OBVIOUS
<1> HIDE DEF Is, T
<1> QED BY <1>6, <1>7, <1>8

LEMMA FlattenLeads ==
  ASSUME NEW n \in Nat, NEW F, F = [k \in 1 .. n |-> F[k]], NEW q \in Mark,
         \A k \in 1 .. n : Leads(F[k], q, q)
  PROVE  Leads(FlattenSeq(F), q, q)
<1>1. PICK S : S = {F[k] : k \in 1 .. n}
  OBVIOUS
<1>2. F \in [1 .. n -> S]
  BY <1>1
<1>3. F \in Seq(S) /\ Len(F) = n
  BY <1>2
<1>4. CASE n = 0
  <2>1. F = <<>>
    BY <1>3, <1>4, EmptySeq
  <2>2. FlattenSeq(F) = <<>>
    BY <1>3, <1>4, <2>1 DEF FlattenSeq
  <2> QED BY <2>2, LeadsNone
<1>5. CASE n # 0
  <2>1. PICK g : /\ FlattenSeq(F) = g[n] /\ g[1] = F[1]
                 /\ \A i \in 1 .. n : i # 1 => g[i] = g[i - 1] \o F[i]
    BY <1>3, <1>5, FlattenIs
  <2>2. PICK T : T = {i \in 1 .. n : Leads(g[i], q, q)}
    OBVIOUS
  <2>3. 1 \in T
    <3>1. 1 \in 1 .. n
      BY <1>5
    <3> QED BY <2>1, <2>2, <3>1
  <2>4. ASSUME NEW i \in 1 .. n, i # 1, i - 1 \in T PROVE i \in T
    <3>1. Leads(g[i - 1], q, q) /\ Leads(F[i], q, q)
      BY <2>2, <2>4
    <3>2. Leads(g[i - 1] \o F[i], q, q)
      BY <3>1, LeadsCat
    <3> QED BY <2>1, <2>2, <2>4, <3>2
  <2>5. \A i \in 1 .. n : i \in T
    BY <2>3, <2>4, SetInduct
  <2>6. n \in T
    BY <1>5, <2>5
  <2> QED BY <2>1, <2>2, <2>6
<1> QED BY <1>4, <1>5

LEMMA ItruncLeads ==
  ASSUME NEW d \in Nat PROVE Leads(itrunc, Level(d), Level(d))
<1>1. /\ \A b : Leads(bfree(b), Level(d), Level(d)) /\ Leads(iupdate, Level(d), Level(d))
      /\ \A x : Leads(Bread(x), Level(d), Level(d + 1))
      /\ Leads(Release, Level(d + 1), Level(d)) /\ Leads(<<>>, Level(d), Level(d))
      /\ Level(d) \in Mark /\ Level(d + 1) \in Mark
  BY BlockLeads, BreadLeads, ReleaseLeads, LeadsNone, LevelIs
<1>2. /\ \A v : Leads(Do("unset", v), Level(d), Level(d))
      /\ \A v : Leads(Do("grow", v), Level(d), Level(d))
      /\ \A v : Leads(Do("freeword", v), Level(d + 1), Level(d + 1))
  <2>1. "unset" \in Idle /\ "grow" \in Idle /\ "freeword" \in Keeping
    BY DEF Idle, Keeping
  <2> QED BY <2>1, DoLeads
<1>3. ASSUME NEW i PROVE Leads(FreeDirect(i), Level(d), Level(d))
  <2>1. Leads(bfree(addrs[i]) \o Do("unset", i), Level(d), Level(d))
    BY <1>1, <1>2, LeadsCat
  <2> QED BY <1>1, <2>1 DEF FreeDirect
<1>4. PICK D : D = [k \in 1 .. NDIRECT |-> FreeDirect(k - 1)]
  OBVIOUS
<1>5. Leads(FlattenSeq(D), Level(d), Level(d))
  <2>1. D = [k \in 1 .. NDIRECT |-> D[k]] /\ \A k \in 1 .. NDIRECT : Leads(D[k], Level(d), Level(d))
    BY <1>3, <1>4
  <2> QED BY <1>1, <2>1, FlattenLeads, FileBlocksAssumption
<1>6. PICK I : I = [i \in 1 .. NINDIRECT |-> Do("freeword", i - 1)]
  OBVIOUS
<1>7. Leads(FlattenSeq(I), Level(d + 1), Level(d + 1))
  <2>1. I = [i \in 1 .. NINDIRECT |-> I[i]] /\ \A i \in 1 .. NINDIRECT : Leads(I[i], Level(d + 1), Level(d + 1))
    BY <1>2, <1>6
  <2> QED BY <1>1, <2>1, FlattenLeads, FileBlocksAssumption
<1>8. PICK a : a = addrs[NDIRECT]
  OBVIOUS
<1>9. PICK t : t = Bread(a) \o FlattenSeq(I) \o Release \o bfree(a) \o Do("unset", NDIRECT)
  OBVIOUS
<1>10. Leads(t, Level(d), Level(d))
  <2>1. Leads(Bread(a) \o FlattenSeq(I), Level(d), Level(d + 1))
    BY <1>1, <1>7, LeadsCat
  <2>2. Leads(Bread(a) \o FlattenSeq(I) \o Release, Level(d), Level(d))
    BY <1>1, <2>1, LeadsCat
  <2>3. Leads(Bread(a) \o FlattenSeq(I) \o Release \o bfree(a), Level(d), Level(d))
    BY <1>1, <2>2, LeadsCat
  <2> QED BY <1>2, <1>9, <2>3, LeadsCat
<1>11. PICK u : u = IF a = 0 THEN <<>> ELSE t
  OBVIOUS
<1>12. Leads(u, Level(d), Level(d))
  BY <1>1, <1>10, <1>11
<1>13. Leads(FlattenSeq(D) \o u \o Do("grow", 0) \o iupdate, Level(d), Level(d))
  <2>1. Leads(FlattenSeq(D) \o u, Level(d), Level(d))
    BY <1>5, <1>12, LeadsCat
  <2>2. Leads(FlattenSeq(D) \o u \o Do("grow", 0), Level(d), Level(d))
    BY <1>2, <2>1, LeadsCat
  <2> QED BY <1>1, <2>2, LeadsCat
<1>14. itrunc = FlattenSeq(D) \o u \o Do("grow", 0) \o iupdate
  BY <1>4, <1>6, <1>8, <1>9, <1>11, Zenon DEF itrunc
<1> QED BY <1>13, <1>14

-----------------------------------------------------------------------------
LEMMA Sizes ==
  /\ NBUF \in Nat /\ 1 \in Buf /\ Buf \subseteq Nat /\ NoDev \notin Sector
  /\ DOMAIN Disk0 = Sector
BY BufCacheAssumption DEF Buf, NoDev

Listed(s) == s \in Seq(Buf) /\ Len(s) = NBUF /\ \A b \in Buf : \E i \in 1 .. NBUF : s[i] = b

LEMMA LruStart == Listed(Lru0)
<1>1. PICK s : s = [i \in 1 .. NBUF |-> i]
  OBVIOUS
<1>2. s \in Seq(Buf) /\ Len(s) = NBUF /\ \A i \in 1 .. NBUF : s[i] = i
  <2>1. s \in [1 .. NBUF -> Buf]
    BY <1>1, Sizes DEF Buf
  <2> QED BY <1>1, <2>1, Sizes
<1>3. Lru0 = [i \in 1 .. NBUF |-> s[(NBUF - i) + 1]]
  <2>1. s = [i \in Buf |-> i]
    BY <1>1 DEF Buf
  <2>2. Reverse(s) = [i \in 1 .. NBUF |-> s[(NBUF - i) + 1]]
    BY <1>2, Zenon DEF Reverse
  <2> QED BY <2>1, <2>2, Zenon DEF Lru0
<1>4. \A i \in 1 .. NBUF : (NBUF - i) + 1 \in 1 .. NBUF /\ (NBUF - ((NBUF - i) + 1)) + 1 = i
  BY Sizes
<1>5. \A i \in 1 .. NBUF : Lru0[i] = (NBUF - i) + 1
  BY <1>2, <1>3, <1>4
<1>6. Lru0 \in [1 .. NBUF -> Buf]
  BY <1>3, <1>4, <1>5 DEF Buf
<1>7. Lru0 \in Seq(Buf) /\ Len(Lru0) = NBUF
  BY <1>6, Sizes
<1>8. ASSUME NEW b \in Buf PROVE \E i \in 1 .. NBUF : Lru0[i] = b
  <2>1. PICK i : i = (NBUF - b) + 1
    OBVIOUS
  <2>2. i \in 1 .. NBUF /\ Lru0[i] = b
    BY <1>4, <1>5, <2>1 DEF Buf
  <2> QED BY <2>2
<1> QED BY <1>7, <1>8 DEF Listed

(* brelse loses no buffer.                                                 *)
LEMMA ToFront ==
  ASSUME NEW s, Listed(s), NEW i \in 1 .. NBUF
  PROVE  Listed(<<s[i]>> \o RemoveAt(s, i))
<1>1. s \in Seq(Buf) /\ Len(s) = NBUF /\ s[i] \in Buf /\ NBUF \in Nat /\ i \in Nat
  BY Sizes DEF Listed
<1>2. PICK h, u, v : h = <<s[i]>> /\ u = SubSeq(s, 1, i - 1) /\ v = SubSeq(s, i + 1, NBUF)
  OBVIOUS
<1>3. h \in Seq(Buf) /\ Len(h) = 1 /\ h[1] = s[i]
  BY <1>1, <1>2
<1>4. u \in Seq(Buf) /\ Len(u) = i - 1 /\ \A k \in 1 .. i - 1 : u[k] = s[k]
  BY <1>1, <1>2, SubSeqProperties
<1>5. v \in Seq(Buf) /\ Len(v) = NBUF - i /\ \A k \in 1 .. NBUF - i : v[k] = s[i + k]
  BY <1>1, <1>2, SubSeqProperties
<1>6. PICK r, t : r = u \o v /\ t = h \o r
  OBVIOUS
<1>7. IsSeq(u) /\ IsSeq(v) /\ IsSeq(h)
  BY <1>3, <1>4, <1>5 DEF IsSeq
<1>8. /\ r \in Seq(Buf) /\ Len(r) = NBUF - 1
      /\ \A k \in 1 .. i - 1 : r[k] = s[k]
      /\ \A k \in 1 .. NBUF - i : r[(i - 1) + k] = s[i + k]
  <2>1. r \in Seq(Buf)
    BY <1>4, <1>5, <1>6
  <2>2. /\ Len(u \o v) = Len(u) + Len(v)
        /\ \A k \in 1 .. Len(u) : (u \o v)[k] = u[k]
        /\ \A k \in 1 .. Len(v) : (u \o v)[Len(u) + k] = v[k]
    BY <1>7, CatIs
  <2>3. (i - 1) + (NBUF - i) = NBUF - 1
    BY <1>1
  <2> QED BY <1>4, <1>5, <1>6, <2>1, <2>2, <2>3
<1>9. /\ t \in Seq(Buf) /\ Len(t) = NBUF /\ t[1] = s[i]
      /\ \A k \in 1 .. NBUF - 1 : t[1 + k] = r[k]
  <2>1. t \in Seq(Buf) /\ IsSeq(r)
    BY <1>3, <1>6, <1>8 DEF IsSeq
  <2>2. /\ Len(h \o r) = Len(h) + Len(r)
        /\ \A k \in 1 .. Len(h) : (h \o r)[k] = h[k]
        /\ \A k \in 1 .. Len(r) : (h \o r)[Len(h) + k] = r[k]
    BY <1>7, <2>1, CatIs
  <2>3. 1 + (NBUF - 1) = NBUF /\ 1 \in 1 .. 1
    BY <1>1
  <2> QED BY <1>3, <1>6, <1>8, <2>1, <2>2, <2>3
<1>10. ASSUME NEW b \in Buf PROVE \E k \in 1 .. NBUF : t[k] = b
  <2>1. PICK j \in 1 .. NBUF : s[j] = b
    BY DEF Listed
  <2>2. CASE j = i
    BY <1>1, <1>9, <2>1, <2>2
  <2>3. CASE j < i
    <3>1. j \in 1 .. i - 1 /\ j \in 1 .. NBUF - 1 /\ 1 + j \in 1 .. NBUF
      BY <1>1, <2>3
    <3>2. t[1 + j] = b
      BY <1>8, <1>9, <2>1, <3>1
    <3> QED BY <3>1, <3>2
  <2>4. CASE j > i
    <3>1. PICK k : k = j - i
      OBVIOUS
    <3>2. /\ k \in 1 .. NBUF - i /\ i + k = j /\ (i - 1) + k \in 1 .. NBUF - 1
          /\ 1 + ((i - 1) + k) = j
      BY <1>1, <2>4, <3>1
    <3>3. t[j] = b
      BY <1>8, <1>9, <2>1, <3>2
    <3> QED BY <3>3
  <2> QED BY <1>1, <2>2, <2>3, <2>4
<1>11. RemoveAt(s, i) = r
  BY <1>1, <1>2, <1>6 DEF RemoveAt
<1>12. <<s[i]>> \o RemoveAt(s, i) = t
  BY <1>2, <1>6, <1>11
<1>13. Listed(t)
  BY <1>9, <1>10 DEF Listed
<1> QED BY <1>12, <1>13

-----------------------------------------------------------------------------
(* The invariant.  The disk serves one request at a time, of the buffer    *)
(* read last, and only that one may differ from its sector: because it is  *)
(* being changed, and its write is still to come in todo, or because the   *)
(* write has been asked for.                                               *)
BuffersAre ==
    /\ Listed(lru)
    /\ DOMAIN sector = Buf /\ DOMAIN data = Buf /\ DOMAIN disk = Sector
    /\ valid \in [Buf -> BOOLEAN] /\ dirty \in [Buf -> BOOLEAN]
    /\ held \in Seq(Buf)

OneBuffer == \A a, b \in Buf : sector[a] = sector[b] /\ sector[a] # NoDev => a = b

Transfer ==
    /\ io \in [at : {"none", "issued", "asleep", "woken"}, b : Nat]
    /\ io.at \in {"none", "woken"} => idequeue = <<>>
    /\ io.at = "issued" => idequeue = <<>> \/ idequeue = <<io.b>>
    /\ io.at = "asleep" => idequeue = <<io.b>>
    /\ io.at # "none" => held # <<>> /\ io.b = Top
    /\ \A b \in Buf : dirty[b] => idequeue = <<b>>

Exact(b) == valid[b] /\ sector[b] \in Sector => data[b] = disk[sector[b]]

IsTop(b) == held # <<>> /\ b = Top

Settled ==
    /\ Leads(todo, Level(Len(held)), Level(0))
    /\ \A b \in Buf : Exact(b) \/ (IsTop(b) /\ dirty[b])

Altered ==
    /\ Leads(todo, Changed(Len(held)), Level(0)) /\ io.at = "none"
    /\ \A b \in Buf : Exact(b) \/ IsTop(b)

CInv == BuffersAre /\ OneBuffer /\ Transfer /\ (Settled \/ Altered)

LEMMA LevelOne ==
  ASSUME NEW a, NEW b
  PROVE  /\ Level(a) = Level(b) => a = b
         /\ Changed(a) = Changed(b) => a = b
         /\ Level(a) # Changed(b)
BY DEF Level, Changed

LEMMA MoveFrom ==
  ASSUME NEW n \in Nat, NEW f, NEW r, Move(f, Level(n), r)
  PROVE  /\ f \in {"bread", "breadgot"} => r = Level(n + 1)
         /\ f \in Closing => n # 0 /\ r = Level(n - 1)
         /\ f \in Setting => n # 0 /\ r = Changed(n)
         /\ f = "bwrite" => n # 0 /\ r = Level(n)
         /\ f \in Keeping => n # 0 /\ r = Level(n)
         /\ f \in Idle => r = Level(n)
<1>1. CASE f \in {"bread", "breadgot"} /\ \E d \in Nat : Level(n) = Level(d) /\ r = Level(d + 1)
  BY <1>1, LevelOne DEF Closing, Setting, Keeping, Idle
<1>2. CASE f \in Closing /\ \E d \in Nat : Level(n) = Level(d + 1) /\ r = Level(d)
  <2>1. PICK d \in Nat : n = d + 1 /\ r = Level(d)
    BY <1>2, LevelOne
  <2>2. n # 0 /\ d = n - 1
    BY <2>1
  <2> QED BY <1>2, <2>1, <2>2 DEF Closing, Setting, Keeping, Idle
<1>3. CASE f = "bwrite" /\ \E d \in Nat : Level(n) \in {Level(d + 1), Changed(d + 1)} /\ r = Level(d + 1)
  <2>1. PICK d \in Nat : n = d + 1 /\ r = Level(d + 1)
    BY <1>3, LevelOne
  <2>2. n # 0 /\ r = Level(n)
    BY <2>1
  <2> QED BY <1>3, <2>2 DEF Closing, Setting, Keeping, Idle
<1>4. CASE f \in Setting /\ \E d \in Nat : Level(n) = Level(d + 1) /\ r = Changed(d + 1)
  <2>1. PICK d \in Nat : n = d + 1 /\ r = Changed(d + 1)
    BY <1>4, LevelOne
  <2>2. n # 0 /\ r = Changed(n)
    BY <2>1
  <2> QED BY <1>4, <2>2 DEF Closing, Setting, Keeping, Idle
<1>5. CASE f \in Keeping /\ \E d \in Nat : Level(n) = Level(d + 1) /\ r = Level(n)
  <2>1. PICK d \in Nat : n = d + 1
    BY <1>5, LevelOne
  <2>2. n # 0
    BY <2>1
  <2> QED BY <1>5, <2>2 DEF Closing, Setting, Keeping, Idle
<1>6. CASE f \in Idle /\ \E d \in Nat : Level(n) = Level(d) /\ r = Level(n)
  BY <1>6 DEF Closing, Setting, Keeping, Idle
<1> QED BY <1>1, <1>2, <1>3, <1>4, <1>5, <1>6 DEF Move

LEMMA MoveChanged ==
  ASSUME NEW n \in Nat, NEW f, NEW r, Move(f, Changed(n), r)
  PROVE  f = "bwrite" /\ n # 0 /\ r = Level(n)
<1>1. f = "bwrite" /\ \E d \in Nat : Changed(n) \in {Level(d + 1), Changed(d + 1)} /\ r = Level(d + 1)
  BY LevelOne DEF Move
<1>2. PICK d \in Nat : n = d + 1 /\ r = Level(d + 1)
  BY <1>1, LevelOne
<1>3. n # 0 /\ r = Level(n)
  BY <1>2
<1> QED BY <1>1, <1>3

LEMMA HeldIs ==
  ASSUME CInv
  PROVE  /\ Len(held) \in Nat /\ (Len(held) = 0 <=> held = <<>>)
         /\ held # <<>> => /\ Top \in Buf /\ Tail(held) \in Seq(Buf) /\ Top = held[1]
                           /\ Len(Tail(held)) = Len(held) - 1
         /\ \A b \in Buf : /\ <<b>> \o held \in Seq(Buf) /\ Len(<<b>> \o held) = Len(held) + 1
                           /\ <<b>> \o held # <<>> /\ Head(<<b>> \o held) = b
<1>1. held \in Seq(Buf)
  BY DEF CInv, BuffersAre
<1> QED BY <1>1 DEF Top

(* Whenever a step of the call is taken, no transfer is under way.         *)
LEMMA NowIs ==
  ASSUME CInv, NEW f, Now(f)
  PROVE  /\ idequeue = <<>> /\ io.at = "none" /\ \A b \in Buf : ~dirty[b]
         /\ \E r \in Mark :
               /\ Leads(Rest, r, Level(0))
               /\ \/ Move(f, Level(Len(held)), r) /\ \A b \in Buf : Exact(b)
                  \/ Move(f, Changed(Len(held)), r) /\ \A b \in Buf : Exact(b) \/ IsTop(b)
<1>1. todo # <<>> /\ io.at = "none" /\ Head(todo).op = f /\ Rest = Tail(todo)
  BY DEF Now, Rest
<1>2. idequeue = <<>> /\ \A b \in Buf : ~dirty[b]
  <2>1. idequeue = <<>> /\ \A b \in Buf : dirty[b] => idequeue = <<b>>
    BY <1>1 DEF CInv, Transfer
  <2>2. \A b \in Buf : <<b>> # <<>>
    OBVIOUS
  <2> QED BY <2>1, <2>2
<1>3. CASE Settled
  <2>1. PICK r \in Mark : Move(f, Level(Len(held)), r) /\ Leads(Rest, r, Level(0))
    BY <1>1, <1>3, LeadsFirst DEF Settled
  <2>2. \A b \in Buf : Exact(b)
    BY <1>2, <1>3 DEF Settled
  <2> QED BY <1>1, <1>2, <2>1, <2>2
<1>4. CASE Altered
  <2>1. PICK r \in Mark : Move(f, Changed(Len(held)), r) /\ Leads(Rest, r, Level(0))
    BY <1>1, <1>4, LeadsFirst DEF Altered
  <2>2. \A b \in Buf : Exact(b) \/ IsTop(b)
    BY <1>4 DEF Altered
  <2> QED BY <1>1, <1>2, <2>1, <2>2
<1> QED BY <1>3, <1>4 DEF CInv

(* What the next operation leaves to do, when it is not a bwrite.          *)
LEMMA NowLeads ==
  ASSUME CInv, NEW f, Now(f), f # "bwrite"
  PROVE  /\ \A b \in Buf : Exact(b)
         /\ f \in {"bread", "breadgot"} => Leads(Rest, Level(Len(held) + 1), Level(0))
         /\ f \in Closing => held # <<>> /\ Leads(Rest, Level(Len(held) - 1), Level(0))
         /\ f \in Setting => held # <<>> /\ Leads(Rest, Changed(Len(held)), Level(0))
         /\ f \in Keeping => held # <<>> /\ Leads(Rest, Level(Len(held)), Level(0))
         /\ f \in Idle => Leads(Rest, Level(Len(held)), Level(0))
<1>1. PICK n \in Nat : n = Len(held) /\ (n = 0 <=> held = <<>>)
  BY HeldIs
<1>2. PICK r \in Mark :
               /\ Leads(Rest, r, Level(0))
               /\ \/ Move(f, Level(n), r) /\ \A b \in Buf : Exact(b)
                  \/ Move(f, Changed(n), r) /\ \A b \in Buf : Exact(b) \/ IsTop(b)
  BY <1>1, NowIs
<1>3. Move(f, Level(n), r) /\ \A b \in Buf : Exact(b)
  BY <1>2, MoveChanged
<1>4. /\ f \in {"bread", "breadgot"} => r = Level(n + 1)
      /\ f \in Closing => n # 0 /\ r = Level(n - 1)
      /\ f \in Setting => n # 0 /\ r = Changed(n)
      /\ f \in Keeping => n # 0 /\ r = Level(n)
      /\ f \in Idle => r = Level(n)
  BY <1>3, MoveFrom
<1> QED BY <1>1, <1>2, <1>3, <1>4

-----------------------------------------------------------------------------
LEMMA CInvInit == Init => CInv
<1> SUFFICES ASSUME Init PROVE CInv
  OBVIOUS
<1>1. held = <<>> /\ todo = <<>> /\ BufInit
  BY DEF Init
<1>2. BuffersAre
  BY <1>1, LruStart, Sizes DEF BuffersAre, BufInit
<1>3. OneBuffer
  BY <1>1 DEF OneBuffer, BufInit
<1>4. Transfer
  BY <1>1 DEF Transfer, BufInit, NoIo
<1>5. Settled
  <2>1. Len(held) = 0 /\ Level(0) \in Mark
    BY <1>1, LevelIs
  <2>2. Leads(todo, Level(Len(held)), Level(0))
    BY <1>1, <2>1, LeadsNone
  <2>3. \A b \in Buf : Exact(b)
    BY <1>1 DEF Exact, BufInit
  <2> QED BY <2>2, <2>3 DEF Settled
<1> QED BY <1>2, <1>3, <1>4, <1>5 DEF CInv

(* Only what there is left to do changes.                                  *)
LEMMA TodoStep ==
  ASSUME CInv, \A b \in Buf : Exact(b), UNCHANGED bufVars, held' = held,
         Leads(todo', Level(Len(held)), Level(0))
  PROVE  CInv'
<1>1. BuffersAre' /\ OneBuffer' /\ Transfer'
  BY DEF CInv, BuffersAre, OneBuffer, Transfer, bufVars, Top
<1>2. \A b \in Buf : Exact(b)'
  BY DEF Exact, bufVars
<1>3. Settled'
  BY <1>2 DEF Settled
<1> QED BY <1>1, <1>3 DEF CInv

LEMMA Between ==
  ASSUME CInv, todo = <<>>
  PROVE  held = <<>> /\ Len(held) = 0 /\ \A b \in Buf : Exact(b)
<1>1. Level(0) # Changed(Len(held))
  BY LevelOne
<1>2. Settled
  BY <1>1, NoneLeads DEF CInv, Altered
<1>3. Len(held) = 0
  BY <1>2, NoneLeads, LevelOne DEF Settled
<1>4. held = <<>>
  BY <1>3, HeldIs
<1> QED BY <1>2, <1>3, <1>4 DEF Settled, IsTop

LEMMA BeginStep ==
  ASSUME CInv, NEW s, Begin(s), Leads(s, Level(0), Level(0)), UNCHANGED bufVars
  PROVE  CInv'
<1>1. todo = <<>> /\ todo' = s /\ held' = held
  BY DEF Begin
<1>2. Len(held) = 0 /\ \A b \in Buf : Exact(b)
  BY <1>1, Between
<1> QED BY <1>1, <1>2, TodoStep

LEMMA RestartStep ==
  ASSUME CInv, NEW s, Begin(s), Leads(s, Level(0), Level(0)), BufRestart
  PROVE  CInv'
<1>1. todo = <<>> /\ todo' = s /\ held' = held
  BY DEF Begin
<1>2. held' = <<>> /\ Len(held') = 0
  BY <1>1, Between
<1>3. BuffersAre'
  <2>1. DOMAIN disk' = Sector
    BY DEF CInv, BuffersAre, BufRestart
  <2> QED BY <1>2, <2>1, LruStart DEF BuffersAre, BufRestart
<1>4. OneBuffer'
  BY DEF OneBuffer, BufRestart
<1>5. Transfer'
  BY DEF Transfer, BufRestart, NoIo
<1>6. Settled'
  <2>1. \A b \in Buf : Exact(b)'
    BY DEF Exact, BufRestart
  <2> QED BY <1>1, <1>2, <2>1 DEF Settled
<1> QED BY <1>3, <1>4, <1>5, <1>6 DEF CInv

(* The word of the latest buffer that a step changes.                      *)
LEMMA DataStep ==
  ASSUME CInv, NEW e, held # <<>>, io.at = "none", \A b \in Buf : Exact(b),
         data' = [data EXCEPT ![Top] = e],
         UNCHANGED <<lru, sector, valid, dirty, idequeue, disk, io, held>>,
         Leads(todo', Changed(Len(held)), Level(0))
  PROVE  CInv'
<1>1. BuffersAre' /\ OneBuffer'
  BY DEF CInv, BuffersAre, OneBuffer
<1>2. Transfer'
  BY DEF CInv, Transfer, Top
<1>3. Altered'
  <2>1. ASSUME NEW b \in Buf PROVE Exact(b)' \/ IsTop(b)'
    <3>1. CASE b = Top
      BY <3>1 DEF IsTop, Top
    <3>2. CASE b # Top
      <4>1. data'[b] = data[b]
        BY <3>2 DEF CInv, BuffersAre
      <4> QED BY <4>1 DEF Exact
    <3> QED BY <3>1, <3>2
  <2> QED BY <2>1 DEF Altered
<1> QED BY <1>1, <1>2, <1>3 DEF CInv

LEMMA ChangeStep ==
  ASSUME CInv, NEW f \in Setting, Now(f), NEW e, data' = [data EXCEPT ![Top] = e],
         UNCHANGED <<lru, sector, valid, dirty, idequeue, disk, io, held>>, todo' = Rest
  PROVE  CInv'
<1>1. f # "bwrite"
  BY DEF Setting
<1>2. held # <<>> /\ Leads(Rest, Changed(Len(held)), Level(0)) /\ \A b \in Buf : Exact(b)
  BY <1>1, NowLeads
<1>3. io.at = "none"
  BY DEF Now
<1> QED BY <1>2, <1>3, DataStep

(* A transfer is asked for, of the buffer read last.                       *)
LEMMA IderwIs ==
  ASSUME NEW b \in Buf, NEW v, NEW d, Transfer, idequeue = <<>>, io.at = "none",
         Iderw(b, v, d), held' # <<>>, Top' = b,
         \A c \in Buf : c # b => ~dirty'[c], dirty'[b] => ~v \/ d
  PROVE  Transfer'
<1>1. io \in [at : {"none", "issued", "asleep", "woken"}, b : Nat] /\ b \in Nat
  BY Sizes DEF Transfer
<1>2. CASE v /\ ~d
  <2>1. idequeue' = <<>> /\ io' = io /\ \A c \in Buf : ~dirty'[c]
    BY <1>2 DEF Iderw
  <2> QED BY <1>1, <2>1 DEF Transfer
<1>3. CASE ~(v /\ ~d)
  <2>1. idequeue' = Append(<<>>, b) /\ io' = [at |-> "issued", b |-> b]
    BY <1>3 DEF Iderw
  <2>2. idequeue' = <<b>>
    BY <2>1
  <2>3. io' \in [at : {"none", "issued", "asleep", "woken"}, b : Nat] /\ io'.at = "issued" /\ io'.b = b
    BY <1>1, <2>1
  <2>4. \A c \in Buf : dirty'[c] => idequeue' = <<c>>
    BY <2>2
  <2> QED BY <2>2, <2>3, <2>4 DEF Transfer
<1> QED BY <1>2, <1>3

LEMMA ReadStep ==
  ASSUME CInv, NEW f \in {"bread", "breadgot"}, Now(f), NEW s, Read(s)
  PROVE  CInv'
<1>1. PICK b \in Buf : (BreadHit(b, s) \/ BreadMiss(b, s)) /\ held' = <<b>> \o held
  BY DEF Read
<1>2. /\ \A c \in Buf : Exact(c)
      /\ Leads(Rest, Level(Len(held) + 1), Level(0)) /\ todo' = Rest
  BY NowLeads DEF Read
<1>3. idequeue = <<>> /\ io.at = "none" /\ \A c \in Buf : ~dirty[c]
  BY NowIs
<1>4. held' \in Seq(Buf) /\ Len(held') = Len(held) + 1 /\ held' # <<>> /\ Top' = b
  BY <1>1, HeldIs DEF Top
<1>5. BuffersAre /\ OneBuffer /\ Transfer
  BY DEF CInv
<1>6. Leads(todo', Level(Len(held')), Level(0))
  BY <1>2, <1>4
<1>7. CASE BreadHit(b, s)
  <2>1. Iderw(b, valid[b], dirty[b]) /\ UNCHANGED <<lru, sector, valid, dirty, data, disk>>
    BY <1>7 DEF BreadHit
  <2>2. BuffersAre' /\ OneBuffer'
    BY <1>4, <1>5, <2>1 DEF BuffersAre, OneBuffer
  <2>3. \A c \in Buf : ~dirty'[c]
    BY <1>3, <2>1
  <2>4. Transfer'
    BY <1>3, <1>4, <1>5, <2>1, <2>3, IderwIs
  <2>5. \A c \in Buf : Exact(c)'
    BY <1>2, <2>1 DEF Exact
  <2>6. Settled'
    BY <1>6, <2>5 DEF Settled
  <2> QED BY <2>2, <2>4, <2>6 DEF CInv
<1>8. CASE BreadMiss(b, s)
  <2>1. /\ Cached(s) = {} /\ sector' = [sector EXCEPT ![b] = s]
        /\ valid' = [valid EXCEPT ![b] = FALSE] /\ dirty' = [dirty EXCEPT ![b] = FALSE]
        /\ Iderw(b, valid'[b], dirty'[b]) /\ UNCHANGED <<lru, data, disk>>
    BY <1>8 DEF BreadMiss, FlagsCleared
  <2>2. BuffersAre'
    BY <1>4, <1>5, <2>1 DEF BuffersAre
  <2>3. /\ \A c \in Buf : c # b => sector'[c] = sector[c] /\ valid'[c] = valid[c] /\ dirty'[c] = dirty[c]
        /\ sector'[b] = s /\ ~valid'[b] /\ ~dirty'[b]
    BY <1>5, <2>1 DEF BuffersAre
  <2>4. OneBuffer'
    <3>1. \A c \in Buf : sector[c] # s
      BY <2>1 DEF Cached
    <3> QED BY <1>5, <2>3, <3>1 DEF OneBuffer
  <2>5. Transfer'
    <3>1. \A c \in Buf : ~dirty'[c]
      BY <1>3, <2>3
    <3> QED BY <1>3, <1>4, <1>5, <2>1, <3>1, IderwIs
  <2>6. ASSUME NEW c \in Buf PROVE Exact(c)'
    BY <1>2, <2>1, <2>3 DEF Exact
  <2>7. Settled'
    BY <1>6, <2>6 DEF Settled
  <2> QED BY <2>2, <2>4, <2>5, <2>7 DEF CInv
<1> QED BY <1>1, <1>7, <1>8

LEMMA WriteStep == ASSUME CInv, StepWrite PROVE CInv'
<1>1. Now("bwrite") /\ Bwrite(Top) /\ todo' = Rest /\ held' = held
  BY DEF StepWrite
<1>2. PICK r \in Mark :
               /\ Leads(Rest, r, Level(0))
               /\ Move("bwrite", Level(Len(held)), r) \/ Move("bwrite", Changed(Len(held)), r)
               /\ \A b \in Buf : Exact(b) \/ IsTop(b)
  BY <1>1, NowIs
<1>3. Len(held) \in Nat /\ (Len(held) = 0 <=> held = <<>>)
  BY HeldIs
<1>4. held # <<>> /\ Leads(Rest, Level(Len(held)), Level(0))
  <2>1. Len(held) # 0 /\ r = Level(Len(held))
    BY <1>2, <1>3, MoveFrom, MoveChanged
  <2> QED BY <1>2, <1>3, <2>1
<1>5. PICK t \in Buf : t = Top /\ Top' = t
  BY <1>1, <1>4, HeldIs DEF Top
<1>6. idequeue = <<>> /\ io.at = "none" /\ \A c \in Buf : ~dirty[c]
  BY <1>1, NowIs
<1>7. BuffersAre /\ OneBuffer /\ Transfer
  BY DEF CInv
<1>8. /\ dirty' = [dirty EXCEPT ![t] = TRUE] /\ Iderw(t, valid[t], TRUE)
      /\ UNCHANGED <<lru, sector, valid, data, disk>>
  BY <1>1, <1>5 DEF Bwrite
<1>9. dirty' \in [Buf -> BOOLEAN] /\ dirty'[t] /\ \A c \in Buf : c # t => ~dirty'[c]
  BY <1>6, <1>7, <1>8 DEF BuffersAre
<1>10. BuffersAre' /\ OneBuffer'
  BY <1>1, <1>7, <1>8, <1>9 DEF BuffersAre, OneBuffer
<1>11. Transfer'
  BY <1>1, <1>4, <1>5, <1>6, <1>7, <1>8, <1>9, IderwIs
<1>12. ASSUME NEW b \in Buf PROVE Exact(b)' \/ (IsTop(b)' /\ dirty'[b])
  <2>1. CASE b = t
    BY <1>1, <1>4, <1>5, <1>9, <2>1 DEF IsTop
  <2>2. CASE b # t
    BY <1>2, <1>5, <1>8, <2>2 DEF IsTop, Exact
  <2> QED BY <2>1, <2>2
<1>13. Settled'
  BY <1>1, <1>4, <1>12 DEF Settled
<1> QED BY <1>10, <1>11, <1>13 DEF CInv

LEMMA ReleaseStep == ASSUME CInv, StepRelease PROVE CInv'
<1>1. Now("brelse") /\ Brelse(Top) /\ held' = Tail(held) /\ todo' = Rest
  BY DEF StepRelease
<1>2. /\ \A c \in Buf : Exact(c)
      /\ held # <<>> /\ Leads(Rest, Level(Len(held) - 1), Level(0))
  BY <1>1, NowLeads DEF Closing
<1>3. idequeue = <<>> /\ io.at = "none" /\ \A c \in Buf : ~dirty[c]
  BY <1>1, NowIs
<1>4. Tail(held) \in Seq(Buf) /\ Len(held') = Len(held) - 1
  BY <1>1, <1>2, HeldIs
<1>5. PICK i \in DOMAIN lru : lru[i] = Top /\ lru' = <<lru[i]>> \o RemoveAt(lru, i)
  BY <1>1 DEF Brelse
<1>6. UNCHANGED <<sector, valid, dirty, data, idequeue, disk, io>>
  BY <1>1 DEF Brelse
<1>7. Listed(lru')
  <2>1. Listed(lru) /\ i \in 1 .. NBUF
    BY DEF CInv, BuffersAre, Listed
  <2> QED BY <1>5, <2>1, ToFront
<1>8. BuffersAre' /\ OneBuffer' /\ Transfer'
  <2>1. BuffersAre /\ OneBuffer /\ Transfer
    BY DEF CInv
  <2>2. BuffersAre'
    BY <1>1, <1>4, <1>6, <1>7, <2>1 DEF BuffersAre
  <2>3. OneBuffer'
    BY <1>6, <2>1 DEF OneBuffer
  <2>4. Transfer'
    BY <1>3, <1>6, <2>1 DEF Transfer
  <2> QED BY <2>2, <2>3, <2>4
<1>9. Settled'
  <2>1. \A c \in Buf : Exact(c)'
    BY <1>2, <1>6 DEF Exact
  <2>2. Leads(todo', Level(Len(held')), Level(0))
    BY <1>1, <1>2, <1>4
  <2> QED BY <2>1, <2>2 DEF Settled
<1> QED BY <1>8, <1>9 DEF CInv

LEMMA PickStep == ASSUME CInv, StepPick PROVE CInv'
<1>1. PICK b : Now("pick") /\ Change(b, 1, Write \o Release \o bzero(b) \o Rest)
  BY DEF StepPick
<1>2. held # <<>> /\ Leads(Rest, Level(Len(held) - 1), Level(0)) /\ \A c \in Buf : Exact(c)
  BY <1>1, NowLeads DEF Closing
<1>3. PICK d \in Nat : Len(held) = d + 1 /\ Len(held) - 1 = d
  <2>1. Len(held) \in Nat /\ Len(held) # 0
    BY <1>2, HeldIs
  <2>2. Len(held) - 1 \in Nat /\ Len(held) = (Len(held) - 1) + 1
    BY <2>1
  <2> QED BY <2>2
<1>4. Leads(Write \o Release \o bzero(b) \o Rest, Changed(d + 1), Level(0))
  <2>1. Leads(Write \o Release, Changed(d + 1), Level(d))
    BY WriteLeads
  <2>2. Leads(Write \o Release \o bzero(b), Changed(d + 1), Level(d))
    BY <2>1, BlockLeads, LeadsCat
  <2>3. Leads(Rest, Level(d), Level(0))
    BY <1>2, <1>3
  <2> QED BY <2>2, <2>3, LeadsCat
<1>5. io.at = "none"
  BY <1>1 DEF Now
<1>6. PICK e : data' = [data EXCEPT ![Top] = e]
  BY <1>1 DEF Change
<1>7. /\ UNCHANGED <<lru, sector, valid, dirty, idequeue, disk, io, held>>
      /\ todo' = Write \o Release \o bzero(b) \o Rest
  BY <1>1 DEF Change
<1>8. Leads(todo', Changed(Len(held)), Level(0))
  BY <1>3, <1>4, <1>7
<1> QED BY <1>2, <1>5, <1>6, <1>7, <1>8, DataStep

LEMMA SettingSteps ==
  ASSUME CInv, StepClear \/ StepFill \/ StepInode \/ StepSetWord
  PROVE  CInv'
<1>1. CASE StepClear
  <2>1. Now("clear") /\ Change(Arg, 0, Rest) /\ "clear" \in Setting
    BY <1>1 DEF StepClear, Setting
  <2>2. PICK e : data' = [data EXCEPT ![Top] = e]
    BY <2>1 DEF Change
  <2>3. UNCHANGED <<lru, sector, valid, dirty, idequeue, disk, io, held>> /\ todo' = Rest
    BY <2>1 DEF Change
  <2> QED BY <2>1, <2>2, <2>3, ChangeStep
<1>2. CASE StepFill
  <2>1. PICK e : data' = [data EXCEPT ![Top] = e]
    BY <1>2 DEF StepFill
  <2>2. /\ UNCHANGED <<lru, sector, valid, dirty, idequeue, disk, io, held>> /\ todo' = Rest
        /\ Now("fill") /\ "fill" \in Setting
    BY <1>2 DEF StepFill, Setting
  <2> QED BY <2>1, <2>2, ChangeStep
<1>3. CASE StepInode
  <2>1. PICK e : data' = [data EXCEPT ![Top] = e]
    BY <1>3 DEF StepInode
  <2>2. /\ UNCHANGED <<lru, sector, valid, dirty, idequeue, disk, io, held>> /\ todo' = Rest
        /\ Now("inode") /\ "inode" \in Setting
    BY <1>3 DEF StepInode, Setting
  <2> QED BY <2>1, <2>2, ChangeStep
<1>4. CASE StepSetWord
  <2>1. Now("setword") /\ Change(Arg, got, Rest) /\ "setword" \in Setting
    BY <1>4 DEF StepSetWord, Setting
  <2>2. PICK e : data' = [data EXCEPT ![Top] = e]
    BY <2>1 DEF Change
  <2>3. UNCHANGED <<lru, sector, valid, dirty, idequeue, disk, io, held>> /\ todo' = Rest
    BY <2>1 DEF Change
  <2> QED BY <2>1, <2>2, <2>3, ChangeStep
<1> QED BY <1>1, <1>2, <1>3, <1>4

(* bmap reads the indirect block and goes on with it, or with a new block. *)
LEMMA LookStep == ASSUME CInv, StepLook PROVE CInv'
<1>1. /\ Now("look") /\ UNCHANGED bufVars /\ held' = held
      /\ \/ todo' = Release \o Rest
         \/ todo' = balloc \o Do("setword", Arg) \o Write \o Release \o Rest
  BY DEF StepLook
<1>2. held # <<>> /\ Leads(Rest, Level(Len(held) - 1), Level(0)) /\ \A c \in Buf : Exact(c)
  BY <1>1, NowLeads DEF Closing
<1>3. PICK d \in Nat : Len(held) = d + 1 /\ Len(held) - 1 = d
  <2>1. Len(held) \in Nat /\ Len(held) # 0
    BY <1>2, HeldIs
  <2>2. Len(held) - 1 \in Nat /\ Len(held) = (Len(held) - 1) + 1
    BY <2>1
  <2> QED BY <2>2
<1>4. Leads(Rest, Level(d), Level(0)) /\ Leads(Release, Level(d + 1), Level(d)) /\ d + 1 \in Nat
  BY <1>2, <1>3, ReleaseLeads
<1>5. Leads(Release \o Rest, Level(d + 1), Level(0))
  BY <1>4, LeadsCat
<1>6. Leads(balloc \o Do("setword", Arg) \o Write \o Release \o Rest, Level(d + 1), Level(0))
  <2>1. Leads(Do("setword", Arg), Level(d + 1), Changed(d + 1)) /\ Leads(balloc, Level(d + 1), Level(d + 1))
    BY <1>4, DoLeads, BlockLeads DEF Setting
  <2>2. Leads(balloc \o Do("setword", Arg), Level(d + 1), Changed(d + 1))
    BY <2>1, LeadsCat
  <2>3. Leads(balloc \o Do("setword", Arg) \o Write, Level(d + 1), Level(d + 1))
    BY <2>2, WriteLeads, LeadsCat
  <2>4. Leads(balloc \o Do("setword", Arg) \o Write \o Release, Level(d + 1), Level(d))
    BY <1>4, <2>3, LeadsCat
  <2> QED BY <1>4, <2>4, LeadsCat
<1>7. Leads(todo', Level(Len(held)), Level(0))
  BY <1>1, <1>3, <1>5, <1>6
<1> QED BY <1>1, <1>2, <1>7, TodoStep

LEMMA FreeWordStep == ASSUME CInv, StepFreeWord PROVE CInv'
<1>1. PICK s : s = IF data[Top][Arg] # 0 THEN bfree(data[Top][Arg]) ELSE <<>>
  OBVIOUS
<1>2. Now("freeword") /\ UNCHANGED bufVars /\ held' = held /\ todo' = s \o Rest
  BY <1>1 DEF StepFreeWord
<1>3. Leads(Rest, Level(Len(held)), Level(0)) /\ \A c \in Buf : Exact(c)
  BY <1>2, NowLeads DEF Keeping
<1>4. Leads(s, Level(Len(held)), Level(Len(held)))
  <2>1. Len(held) \in Nat /\ Level(Len(held)) \in Mark
    BY HeldIs, LevelIs
  <2> QED BY <1>1, <2>1, BlockLeads, LeadsNone
<1>5. Leads(todo', Level(Len(held)), Level(0))
  BY <1>2, <1>3, <1>4, LeadsCat
<1> QED BY <1>2, <1>3, <1>5, TodoStep

LEMMA MemoryStep == ASSUME CInv, StepMemory PROVE CInv'
<1>1. PICK f \in {"setaddr", "useaddr", "unset", "grow", "load", "copy"} : Now(f)
  BY DEF StepMemory
<1>2. UNCHANGED bufVars /\ held' = held /\ todo' = Rest
  BY DEF StepMemory
<1>3. f # "bwrite" /\ (f \in Idle \/ f \in Keeping)
  BY <1>1 DEF Idle, Keeping
<1>4. Leads(Rest, Level(Len(held)), Level(0)) /\ \A c \in Buf : Exact(c)
  BY <1>1, <1>3, NowLeads
<1> QED BY <1>2, <1>4, TodoStep

-----------------------------------------------------------------------------
(* The driver.                                                             *)
LEMMA DriverStep == ASSUME CInv, Driver PROVE CInv'
<1>1. UNCHANGED <<lru, sector, valid, dirty, data, idequeue, disk, todo, held>> /\ io.at # "none"
  BY DEF Driver, IdeSleep, IdeReturn, fileVars
<1>2. BuffersAre' /\ OneBuffer'
  BY <1>1 DEF CInv, BuffersAre, OneBuffer
<1>3. Transfer
  BY DEF CInv
<1>4. Transfer'
  <2>1. CASE IdeSleep
    <3>1. io.at = "issued" /\ Serving(io.b) /\ io' = [io EXCEPT !.at = "asleep"]
      BY <2>1 DEF IdeSleep
    <3>2. idequeue = <<io.b>>
      BY <1>3, <3>1 DEF Serving, Transfer
    <3>3. /\ io' \in [at : {"none", "issued", "asleep", "woken"}, b : Nat]
          /\ io'.at = "asleep" /\ io'.b = io.b
      BY <1>3, <3>1 DEF Transfer
    <3> QED BY <1>1, <1>3, <3>1, <3>2, <3>3 DEF Transfer, Top
  <2>2. CASE IdeReturn
    <3>1. io' = NoIo /\ (io.at = "woken" \/ (io.at = "issued" /\ ~Serving(io.b)))
      BY <2>2 DEF IdeReturn
    <3>2. idequeue = <<>>
      <4>1. idequeue = <<io.b>> => Serving(io.b)
        BY DEF Serving
      <4> QED BY <1>3, <3>1, <4>1 DEF Transfer
    <3>3. io' \in [at : {"none", "issued", "asleep", "woken"}, b : Nat] /\ io'.at = "none"
      BY <3>1 DEF NoIo
    <3> QED BY <1>1, <1>3, <3>2, <3>3 DEF Transfer
  <2> QED BY <2>1, <2>2 DEF Driver
<1>5. Settled'
  <2>1. Settled
    BY <1>1 DEF CInv, Altered
  <2>2. \A b \in Buf : (Exact(b)' <=> Exact(b)) /\ (IsTop(b)' <=> IsTop(b)) /\ (dirty'[b] <=> dirty[b])
    BY <1>1 DEF Exact, IsTop, Top
  <2> QED BY <1>1, <2>1, <2>2 DEF Settled
<1> QED BY <1>2, <1>4, <1>5 DEF CInv

LEMMA DiskStep == ASSUME CInv, Disk PROVE CInv'
<1>1. PICK b : /\ idequeue # <<>> /\ b = Head(idequeue)
               /\ idequeue' = Tail(idequeue)
               /\ IF dirty[b]
                  THEN /\ disk' = [disk EXCEPT ![sector[b]] = data[b]]
                       /\ UNCHANGED data
                  ELSE /\ data' = [data EXCEPT ![b] = disk[sector[b]]]
                       /\ UNCHANGED disk
               /\ valid' = [valid EXCEPT ![b] = TRUE]
               /\ dirty' = [dirty EXCEPT ![b] = FALSE]
               /\ Wakes(b)
  BY DEF Disk, IdeIntr
<1>2. UNCHANGED <<lru, sector, todo, held>>
  BY DEF Disk, IdeIntr, fileVars
<1>3. BuffersAre /\ OneBuffer /\ Transfer
  BY DEF CInv
<1>4. idequeue = <<b>> /\ io.b = b /\ io.at \in {"issued", "asleep"} /\ held # <<>> /\ b = Top
  BY <1>1, <1>3 DEF Transfer
<1>5. b \in Buf
  BY <1>4, HeldIs
<1>6. Settled /\ \A c \in Buf : c # b => ~dirty[c] /\ Exact(c)
  <2>1. Settled
    BY <1>4 DEF CInv, Altered
  <2>2. \A c \in Buf : c # b => ~dirty[c]
    BY <1>3, <1>4 DEF Transfer
  <2> QED BY <2>1, <2>2 DEF Settled
<1>7. /\ DOMAIN data' = Buf /\ DOMAIN disk' = Sector
      /\ valid' \in [Buf -> BOOLEAN] /\ dirty' \in [Buf -> BOOLEAN]
      /\ valid'[b] /\ ~dirty'[b]
      /\ \A c \in Buf : c # b => valid'[c] = valid[c] /\ dirty'[c] = dirty[c] /\ data'[c] = data[c]
  <2>1. DOMAIN data' = Buf /\ DOMAIN disk' = Sector /\ \A c \in Buf : c # b => data'[c] = data[c]
    BY <1>1, <1>3, <1>5 DEF BuffersAre
  <2>2. valid' \in [Buf -> BOOLEAN] /\ valid'[b] /\ \A c \in Buf : c # b => valid'[c] = valid[c]
    BY <1>1, <1>3, <1>5 DEF BuffersAre
  <2>3. dirty' \in [Buf -> BOOLEAN] /\ ~dirty'[b] /\ \A c \in Buf : c # b => dirty'[c] = dirty[c]
    BY <1>1, <1>3, <1>5 DEF BuffersAre
  <2> QED BY <2>1, <2>2, <2>3
<1>8. BuffersAre' /\ OneBuffer'
  BY <1>2, <1>3, <1>7 DEF BuffersAre, OneBuffer
<1>9. Transfer'
  <2>1. idequeue' = <<>>
    BY <1>1, <1>4
  <2>2. /\ io' \in [at : {"none", "issued", "asleep", "woken"}, b : Nat]
        /\ io'.at \in {"issued", "woken"} /\ io'.b = b
    <3>1. io \in [at : {"none", "issued", "asleep", "woken"}, b : Nat]
      BY <1>3 DEF Transfer
    <3>2. CASE io.at = "issued"
      <4>1. io # [at |-> "asleep", b |-> b]
        BY <3>2
      <4> QED BY <1>1, <1>4, <3>1, <3>2, <4>1 DEF Wakes
    <3>3. CASE io.at = "asleep"
      <4>1. io = [at |-> "asleep", b |-> b]
        BY <1>4, <3>1, <3>3
      <4>2. io' = [io EXCEPT !.at = "woken"]
        BY <1>1, <4>1 DEF Wakes
      <4> QED BY <1>4, <3>1, <4>2
    <3> QED BY <1>4, <3>2, <3>3
  <2>3. \A c \in Buf : ~dirty'[c]
    BY <1>6, <1>7
  <2>4. held' # <<>> /\ Top' = b
    BY <1>2, <1>4 DEF Top
  <2> QED BY <2>1, <2>2, <2>3, <2>4 DEF Transfer
<1>10. ASSUME NEW c \in Buf PROVE Exact(c)'
  <2>1. SUFFICES ASSUME valid'[c], sector[c] \in Sector PROVE data'[c] = disk'[sector[c]]
    BY <1>2 DEF Exact
  <2>2. CASE dirty[b]
    <3>1. disk' = [disk EXCEPT ![sector[b]] = data[b]] /\ data' = data /\ DOMAIN disk = Sector
      BY <1>1, <1>3, <2>2 DEF BuffersAre
    <3>2. CASE c = b
      BY <2>1, <3>1, <3>2
    <3>3. CASE c # b
      <4>1. sector[c] # sector[b]
        <5>1. sector[c] # NoDev
          BY <2>1, Sizes
        <5> QED BY <1>3, <1>5, <3>3, <5>1 DEF OneBuffer
      <4>2. disk'[sector[c]] = disk[sector[c]]
        BY <2>1, <3>1, <4>1
      <4> QED BY <1>6, <1>7, <2>1, <3>1, <3>3, <4>2 DEF Exact
    <3> QED BY <3>2, <3>3
  <2>3. CASE ~dirty[b]
    <3>1. data' = [data EXCEPT ![b] = disk[sector[b]]] /\ disk' = disk /\ DOMAIN data = Buf
      BY <1>1, <1>3, <2>3 DEF BuffersAre
    <3>2. CASE c = b
      BY <3>1, <3>2
    <3>3. CASE c # b
      BY <1>6, <1>7, <2>1, <3>1, <3>3 DEF Exact
    <3> QED BY <3>2, <3>3
  <2> QED BY <2>2, <2>3
<1>11. Settled'
  BY <1>2, <1>6, <1>10 DEF Settled
<1> QED BY <1>8, <1>9, <1>11 DEF CInv

-----------------------------------------------------------------------------
LEMMA CInvNext == CInv /\ [Next]_vars => CInv'
<1> SUFFICES ASSUME CInv, [Next]_vars PROVE CInv'
  OBVIOUS
<1>0. Level(0) = Level(0) /\ 0 \in Nat
  OBVIOUS
<1>1. CASE CallWrite
  <2>1. PICK bn, v : Begin(writei(bn, v)) /\ UNCHANGED bufVars
    BY <1>1 DEF CallWrite
  <2> QED BY <1>0, <2>1, AccessLeads, BeginStep
<1>2. CASE CallRead
  <2>1. PICK bn : Begin(readi(bn)) /\ UNCHANGED bufVars
    BY <1>2 DEF CallRead
  <2> QED BY <1>0, <2>1, AccessLeads, BeginStep
<1>3. CASE CallTruncate
  <2>1. Begin(itrunc) /\ UNCHANGED bufVars
    BY <1>3 DEF CallTruncate
  <2> QED BY <1>0, <2>1, ItruncLeads, BeginStep
<1>4. CASE Reopen
  <2>1. Begin(iget) /\ (BufRestart \/ UNCHANGED bufVars)
    BY <1>4 DEF Reopen
  <2>2. Leads(iget, Level(0), Level(0))
    BY <1>0, BlockLeads
  <2> QED BY <2>1, <2>2, BeginStep, RestartStep
<1>5. CASE StepRead
  <2>1. PICK f, s : f \in {"bread", "breadgot"} /\ Now(f) /\ Read(s)
    BY <1>5 DEF StepRead
  <2> QED BY <2>1, ReadStep
<1>6. CASE StepWrite
  BY <1>6, WriteStep
<1>7. CASE StepRelease
  BY <1>7, ReleaseStep
<1>8. CASE StepPick
  BY <1>8, PickStep
<1>9. CASE StepClear \/ StepFill \/ StepInode \/ StepSetWord
  BY <1>9, SettingSteps
<1>10. CASE StepLook
  BY <1>10, LookStep
<1>11. CASE StepFreeWord
  BY <1>11, FreeWordStep
<1>12. CASE StepMemory
  BY <1>12, MemoryStep
<1>13. CASE Driver
  BY <1>13, DriverStep
<1>14. CASE Disk
  BY <1>14, DiskStep
<1>15. CASE UNCHANGED vars
  <2>1. CInv' <=> CInv
    <3>1. BuffersAre' <=> BuffersAre
      BY <1>15 DEF vars, bufVars, fileVars, BuffersAre
    <3>2. OneBuffer' <=> OneBuffer
      BY <1>15 DEF vars, bufVars, fileVars, OneBuffer
    <3>3. Transfer' <=> Transfer
      BY <1>15 DEF vars, bufVars, fileVars, Transfer, Top
    <3>4. Settled' <=> Settled
      BY <1>15 DEF vars, bufVars, fileVars, Settled, Exact, IsTop, Top
    <3>5. Altered' <=> Altered
      BY <1>15 DEF vars, bufVars, fileVars, Altered, Exact, IsTop, Top
    <3> QED BY <3>1, <3>2, <3>3, <3>4, <3>5 DEF CInv
  <2> QED BY <2>1
<1> QED BY <1>1, <1>2, <1>3, <1>4, <1>5, <1>6, <1>7, <1>8, <1>9, <1>10, <1>11, <1>12,
           <1>13, <1>14, <1>15 DEF Next, Call, Step

LEMMA CInvAlways == Spec => []CInv
BY CInvInit, CInvNext, PTL DEF Spec

(* The cache never holds a sector twice nor loses a buffer, and a buffer   *)
(* nobody holds agrees with the disk, however the interrupts fall between  *)
(* the steps of iderw and whatever the disk's blocks say: for every number *)
(* of buffers, also where a buffer in use is given to another sector       *)
(* (bget, bread, bwrite, brelse, iderw, ideintr under inode.c's calls).    *)
THEOREM CacheCoherentAlways == Spec => []CacheCoherent
<1>1. ASSUME CInv PROVE CacheCoherent
  <2>1. Listed(lru) /\ OneBuffer /\ held \in Seq(Buf)
    BY <1>1 DEF CInv, BuffersAre
  <2>2. {lru[i] : i \in DOMAIN lru} = Buf /\ Len(lru) = NBUF
    BY <2>1 DEF Listed
  <2>3. ASSUME NEW b \in Buf, ~Contains(held, b) PROVE Exact(b)
    <3>1. ~IsTop(b)
      <4>1. ASSUME held # <<>> PROVE b # Top
        <5>1. 1 \in 1 .. Len(held) /\ Top = held[1]
          BY <1>1, <4>1, HeldIs
        <5> QED BY <2>3, <5>1 DEF Contains
      <4> QED BY <4>1 DEF IsTop
    <3> QED BY <1>1, <3>1 DEF CInv, Settled, Altered
  <2> QED BY <2>1, <2>2, <2>3 DEF CacheCoherent, OneBuffer, Exact
<1> QED BY <1>1, CInvAlways, PTL

-----------------------------------------------------------------------------
(***************************************************************************)
(* What a list of operations does to the file, read in one go: a second    *)
(* machine, whose state is what the sectors hold as the cache shows them,  *)
(* the sectors of the buffers held, the latest first, and got, addrs and   *)
(* size.  w is what the file's users have written.                         *)
(***************************************************************************)
Contents == [Sector -> [Index -> Nat]]

Worlds == Contents \X Seq(Sector) \X Nat \X [0 .. NDIRECT -> Nat] \X Nat

FreeIn(m) == {b \in Blocks : m[b] = 0}

Zeroed(c, b) == [c EXCEPT ![b] = Zeros]

Put(c, s, i, v) == [c EXCEPT ![s] = [c[s] EXCEPT ![i] = v]]

Taken(c, b) == Zeroed(Put(c, BM, b, 1), b)

Filled(v) == [Zeros EXCEPT ![Word] = v]

Inode(m, a, z) ==
    [i \in Index |-> IF i \in 0 .. NDIRECT THEN a[i] ELSE IF i = SizeWord THEN z ELSE m[i]]

Looks(x, c, t, u, g, a, z, r) ==
    \/ c[t][x] # 0 /\ r = <<c, u, c[t][x], a, z>>
    \/ /\ c[t][x] = 0 /\ t # BM /\ \E b \in FreeIn(c[BM]) :
             /\ b = Lowest(FreeIn(c[BM]))
             /\ b # t /\ r = <<Put(Taken(c, b), t, x, b), u, b, a, z>>

Frees(x, c, t, q, r) ==
    \/ c[t][x] = 0 /\ r = q
    \/ c[t][x] \in Blocks /\ c[BM][c[t][x]] = 1 /\ r = <<Put(c, BM, c[t][x], 0), q[2], q[3], q[4], q[5]>>

(* What is done with the latest buffer, t.                                 *)
OnTop(w, f, x, c, t, u, q, r) ==
    /\ f = "brelse" => r = <<c, u, q[3], q[4], q[5]>>
    /\ f \in {"bwrite", "copy"} => r = q
    /\ f = "copy" => c[t][Word] = w[x]
    /\ f = "pick" => /\ t = BM
                     /\ \E b \in FreeIn(c[t]) :
                           b = Lowest(FreeIn(c[t])) /\ r = <<Taken(c, b), u, b, q[4], q[5]>>
    /\ f = "clear" => /\ x \in Index /\ c[t][x] = 1
                      /\ r = <<Put(c, t, x, 0), q[2], q[3], q[4], q[5]>>
    /\ f = "fill" => r = <<[c EXCEPT ![t] = Filled(x)], q[2], q[3], q[4], q[5]>>
    /\ f = "inode" => r = <<[c EXCEPT ![t] = Inode(c[t], q[4], q[5])], q[2], q[3], q[4], q[5]>>
    /\ f = "setword" => x \in Index /\ r = <<Put(c, t, x, q[3]), q[2], q[3], q[4], q[5]>>
    /\ f = "look" => x \in Index /\ Looks(x, c, t, u, q[3], q[4], q[5], r)
    /\ f = "freeword" => x \in Index /\ Frees(x, c, t, q, r)
    /\ f = "load" => r = <<c, q[2], q[3], [i \in 0 .. NDIRECT |-> c[t][i]], c[t][SizeWord]>>

InMemory(f, x, q, r) ==
    /\ f = "bread" => x \in Sector /\ r = <<q[1], <<x>> \o q[2], q[3], q[4], q[5]>>
    /\ f = "breadgot" => q[3] \in Sector /\ r = <<q[1], <<q[3]>> \o q[2], q[3], q[4], q[5]>>
    /\ f \in {"setaddr", "useaddr", "unset"} => x \in 0 .. NDIRECT
    /\ f = "setaddr" => r = <<q[1], q[2], q[3], [q[4] EXCEPT ![x] = q[3]], q[5]>>
    /\ f = "useaddr" => r = <<q[1], q[2], q[4][x], q[4], q[5]>>
    /\ f = "unset" => r = <<q[1], q[2], q[3], [q[4] EXCEPT ![x] = 0], q[5]>>
    /\ f = "grow" => r = <<q[1], q[2], q[3], q[4], x>>

TopOps == Closing \cup Setting \cup Keeping \cup {"bwrite", "copy"}

Deed(w, f, x, q, r) ==
    /\ InMemory(f, x, q, r)
    /\ f \in TopOps => q[2] # <<>> /\ OnTop(w, f, x, q[1], Head(q[2]), Tail(q[2]), q, r)

Deeds(w, s, f, q, r) ==
    /\ f \in [0 .. Len(s) -> Worlds] /\ f[0] = q /\ f[Len(s)] = r
    /\ \A k \in 1 .. Len(s) : Deed(w, s[k].op, s[k].x, f[k - 1], f[k])

Does(w, s, q, r) == IsSeq(s) /\ \E f : Deeds(w, s, f, q, r)
-----------------------------------------------------------------------------
LEMMA DoesNone ==
  ASSUME NEW w, NEW q \in Worlds PROVE Does(w, <<>>, q, q)
<1>1. Len(<<>>) = 0 /\ IsSeq(<<>>)
  BY EmptySeq DEF IsSeq
<1>2. PICK f : f = [k \in 0 .. 0 |-> q]
  OBVIOUS
<1>3. Deeds(w, <<>>, f, q, q)
  BY <1>1, <1>2 DEF Deeds
<1> QED BY <1>1, <1>3 DEF Does

LEMMA DoesOne ==
  ASSUME NEW w, NEW x, NEW q \in Worlds, NEW r \in Worlds, Deed(w, x.op, x.x, q, r) PROVE Does(w, <<x>>, q, r)
<1>1. PICK s : s = <<x>>
  OBVIOUS
<1>2. s \in Seq({x}) /\ Len(s) = 1 /\ s[1] = x
  BY <1>1
<1>3. PICK f : f = [k \in 0 .. 1 |-> IF k = 0 THEN q ELSE r]
  OBVIOUS
<1>4. Deeds(w, s, f, q, r)
  BY <1>2, <1>3 DEF Deeds
<1> QED BY <1>1, <1>2, <1>4 DEF Does, IsSeq

LEMMA DoesCat ==
  ASSUME NEW w, NEW s, NEW t, NEW q, NEW m, NEW r, Does(w, s, q, m), Does(w, t, m, r)
  PROVE  Does(w, s \o t, q, r)
<1>1. PICK f : Deeds(w, s, f, q, m)
  BY DEF Does
<1>2. PICK g : Deeds(w, t, g, m, r)
  BY DEF Does
<1>3. IsSeq(s) /\ IsSeq(t)
  BY DEF Does
<1>4. PICK a, b : a = Len(s) /\ b = Len(t)
  OBVIOUS
<1>5. a \in Nat /\ b \in Nat
  BY <1>3, <1>4, SeqIs
<1>6. PICK u : u = s \o t
  OBVIOUS
<1>7. /\ IsSeq(u) /\ Len(u) = a + b
      /\ \A i \in 1 .. a : u[i] = s[i]
      /\ \A i \in 1 .. b : u[a + i] = t[i]
  BY <1>3, <1>4, <1>6, CatIs
<1>8. PICK h : h = [k \in 0 .. a + b |-> IF k <= a THEN f[k] ELSE g[k - a]]
  OBVIOUS
<1>9. /\ f \in [0 .. a -> Worlds] /\ g \in [0 .. b -> Worlds]
      /\ f[0] = q /\ f[a] = m /\ g[0] = m /\ g[b] = r
  BY <1>1, <1>2, <1>4 DEF Deeds
<1>10. ASSUME NEW k \in 0 .. a PROVE h[k] = f[k]
  <2>1. k \in 0 .. a + b /\ k <= a
    BY <1>5
  <2> QED BY <1>8, <2>1
<1>11. ASSUME NEW k \in 0 .. b PROVE h[a + k] = g[k]
  <2>1. PICK j : j = a + k
    OBVIOUS
  <2>2. j \in 0 .. a + b /\ j - a = k
    BY <1>5, <2>1
  <2>3. CASE j <= a
    <3>1. k = 0 /\ j = a
      BY <1>5, <2>1, <2>3
    <3> QED BY <1>8, <1>9, <2>1, <2>2, <2>3, <3>1
  <2>4. CASE ~(j <= a)
    BY <1>8, <2>1, <2>2, <2>4
  <2> QED BY <2>3, <2>4
<1>12. h \in [0 .. a + b -> Worlds]
  <2>1. ASSUME NEW k \in 0 .. a + b PROVE h[k] \in Worlds
    <3>1. CASE k <= a
      <4>1. k \in 0 .. a
        BY <1>5, <3>1
      <4> QED BY <1>9, <1>10, <4>1
    <3>2. CASE ~(k <= a)
      <4>1. PICK j : j = k - a
        OBVIOUS
      <4>2. j \in 0 .. b /\ a + j = k
        BY <1>5, <3>2, <4>1
      <4> QED BY <1>9, <1>11, <4>2
    <3> QED BY <3>1, <3>2
  <2> QED BY <1>8, <2>1
<1>13. h[0] = q /\ h[a + b] = r
  <2>1. 0 \in 0 .. a /\ b \in 0 .. b
    BY <1>5
  <2> QED BY <1>9, <1>10, <1>11, <2>1
<1>14. ASSUME NEW k \in 1 .. a + b PROVE Deed(w, u[k].op, u[k].x, h[k - 1], h[k])
  <2>1. CASE k <= a
    <3>1. k \in 1 .. a /\ k \in 0 .. a /\ k - 1 \in 0 .. a
      BY <1>5, <2>1
    <3>2. h[k] = f[k] /\ h[k - 1] = f[k - 1] /\ u[k] = s[k]
      BY <1>7, <1>10, <3>1
    <3> QED BY <1>1, <1>4, <3>1, <3>2 DEF Deeds
  <2>2. CASE ~(k <= a)
    <3>1. PICK j : j = k - a
      OBVIOUS
    <3>2. j \in 1 .. b /\ j \in 0 .. b /\ j - 1 \in 0 .. b /\ a + j = k /\ a + (j - 1) = k - 1
      BY <1>5, <2>2, <3>1
    <3>3. h[k] = g[j] /\ h[k - 1] = g[j - 1] /\ u[k] = t[j]
      BY <1>7, <1>11, <3>2
    <3> QED BY <1>2, <1>4, <3>2, <3>3 DEF Deeds
  <2> QED BY <2>1, <2>2
<1>15. Deeds(w, u, h, q, r)
  BY <1>7, <1>12, <1>13, <1>14 DEF Deeds
<1> QED BY <1>6, <1>7, <1>15 DEF Does

LEMMA DoesFirst ==
  ASSUME NEW w, NEW s, NEW q, NEW r, Does(w, s, q, r), s # <<>>
  PROVE  \E m \in Worlds : Deed(w, Head(s).op, Head(s).x, q, m) /\ Does(w, Tail(s), m, r)
<1>1. PICK f : Deeds(w, s, f, q, r)
  BY DEF Does
<1>2. PICK S : s \in Seq(S)
  BY DEF Does, IsSeq
<1>3. PICK t, n : t = Tail(s) /\ n = Len(t)
  OBVIOUS
<1>4. /\ t \in Seq(S) /\ n = Len(s) - 1 /\ \A i \in 1 .. n : t[i] = s[i + 1]
  BY <1>2, <1>3, HeadTailProperties
<1>5. Len(s) \in Nat /\ n \in Nat /\ Len(s) = n + 1
  BY <1>2, <1>3, <1>4, LenProperties
<1>6. PICK g : g = [k \in 0 .. n |-> f[k + 1]]
  OBVIOUS
<1>7. f \in [0 .. n + 1 -> Worlds] /\ f[0] = q /\ f[n + 1] = r
  BY <1>1, <1>5 DEF Deeds
<1>8. \A k \in 0 .. n : k + 1 \in 0 .. n + 1
  BY <1>5
<1>9. g \in [0 .. n -> Worlds]
  BY <1>6, <1>7, <1>8
<1>10. ASSUME NEW k \in 1 .. n PROVE Deed(w, t[k].op, t[k].x, g[k - 1], g[k])
  <2>1. k + 1 \in 1 .. Len(s) /\ k \in 0 .. n /\ k - 1 \in 0 .. n /\ (k + 1) - 1 = k /\ (k - 1) + 1 = k
    BY <1>5
  <2>2. Deed(w, s[k + 1].op, s[k + 1].x, f[k], f[k + 1])
    BY <1>1, <2>1 DEF Deeds
  <2>3. g[k - 1] = f[k] /\ g[k] = f[k + 1]
    BY <1>6, <2>1
  <2> QED BY <1>4, <2>2, <2>3
<1>11. g[0] = f[1] /\ g[n] = r /\ f[1] \in Worlds
  BY <1>5, <1>6, <1>7, <1>8
<1>12. Deeds(w, t, g, f[1], r)
  BY <1>3, <1>9, <1>10, <1>11 DEF Deeds
<1>13. Deed(w, s[1].op, s[1].x, f[0], f[1])
  BY <1>1, <1>5 DEF Deeds
<1>14. Head(s) = s[1]
  BY <1>2
<1> QED BY <1>3, <1>4, <1>7, <1>11, <1>12, <1>13, <1>14 DEF Does, IsSeq

-----------------------------------------------------------------------------
(* One operation.                                                          *)
LEMMA Layout ==
  /\ SB \in Sector /\ BM \in Sector /\ IB \in Sector /\ Blocks \subseteq Sector
  /\ Sector \subseteq Nat /\ 0 \notin Sector /\ 0 \notin Blocks /\ Blocks \subseteq Nat
  /\ Blocks \subseteq Index /\ 0 .. NDIRECT + 1 \subseteq Index /\ 0 .. NINDIRECT - 1 \subseteq Index
  /\ SB \notin Blocks /\ BM \notin Blocks /\ IB \notin Blocks
  /\ NDIRECT \in Nat /\ NINDIRECT \in Nat /\ Word \in Index /\ SizeWord \in Index /\ Word \in Nat
<1>1. /\ SB \in Sector /\ BM \in Sector /\ IB \in Sector /\ Blocks \subseteq Sector
      /\ SB \notin Blocks /\ BM \notin Blocks /\ IB \notin Blocks
  BY LayoutAssumption
<1>2. Sector \subseteq Nat /\ 0 \notin Sector
  BY BufCacheAssumption
<1>3. Blocks \subseteq Index /\ 0 .. NDIRECT + 1 \subseteq Index /\ 0 .. NINDIRECT - 1 \subseteq Index
  BY LayoutAssumption
<1>4. NDIRECT \in Nat /\ NINDIRECT \in Nat
  BY FileBlocksAssumption
<1>5. Word \in Index /\ SizeWord \in Index /\ Word \in Nat
  BY <1>3, <1>4 DEF Word, SizeWord
<1> QED BY <1>1, <1>2, <1>3, <1>4, <1>5

LEMMA ContentsAre ==
  ASSUME NEW c \in Contents
  PROVE  /\ \A t \in Sector, m \in [Index -> Nat] : [c EXCEPT ![t] = m] \in Contents
         /\ \A t \in Sector : c[t] \in [Index -> Nat]
         /\ \A t \in Sector, i \in Index, v \in Nat : Put(c, t, i, v) \in Contents
         /\ \A b \in Blocks : Zeroed(c, b) \in Contents
         /\ \A b \in Blocks : Taken(c, b) \in Contents
<1>1. ASSUME NEW d \in Contents, NEW t \in Sector, NEW m \in [Index -> Nat]
      PROVE  [d EXCEPT ![t] = m] \in Contents
  BY <1>1 DEF Contents
<1>2. ASSUME NEW d \in Contents, NEW t \in Sector PROVE d[t] \in [Index -> Nat]
  BY <1>2 DEF Contents
<1>3. ASSUME NEW d \in Contents, NEW t \in Sector, NEW i \in Index, NEW v \in Nat
      PROVE  Put(d, t, i, v) \in Contents
  <2>1. [d[t] EXCEPT ![i] = v] \in [Index -> Nat]
    BY <1>2
  <2> QED BY <1>1, <2>1 DEF Put
<1>4. ASSUME NEW d \in Contents, NEW b \in Blocks PROVE Zeroed(d, b) \in Contents
  <2>1. Zeros \in [Index -> Nat] /\ b \in Sector
    BY Layout DEF Zeros
  <2> QED BY <1>1, <2>1 DEF Zeroed
<1>5. ASSUME NEW b \in Blocks PROVE Taken(c, b) \in Contents
  <2>1. Put(c, BM, b, 1) \in Contents
    BY <1>3, Layout
  <2> QED BY <1>4, <2>1 DEF Taken
<1> QED BY <1>1, <1>2, <1>3, <1>4, <1>5

LEMMA SectorWords ==
  /\ \A v \in Nat : Filled(v) \in [Index -> Nat]
  /\ \A m \in [Index -> Nat], a \in [0 .. NDIRECT -> Nat], z \in Nat : Inode(m, a, z) \in [Index -> Nat]
BY Layout DEF Filled, Inode, Zeros

LEMMA StackIs ==
  ASSUME NEW t \in Sector, NEW u \in Seq(Sector)
  PROVE  <<t>> \o u \in Seq(Sector) /\ <<t>> \o u # <<>> /\ Head(<<t>> \o u) = t /\ Tail(<<t>> \o u) = u
<1>1. <<t>> \in Seq(Sector) /\ Len(<<t>>) = 1 /\ <<t>>[1] = t
  OBVIOUS
<1>2. PICK v : v = <<t>> \o u
  OBVIOUS
<1>3. /\ v \in Seq(Sector) /\ Len(v) = 1 + Len(u) /\ Len(u) \in Nat /\ v[1] = t
      /\ \A i \in 1 .. Len(u) : v[1 + i] = u[i]
  BY <1>1, <1>2, CatIs DEF IsSeq
<1>4. v # <<>> /\ Head(v) = t /\ Tail(v) \in Seq(Sector) /\ Len(Tail(v)) = Len(u)
  BY <1>3
<1>5. \A i \in 1 .. Len(u) : Tail(v)[i] = u[i]
  BY <1>3
<1>6. Tail(v) = u
  BY <1>4, <1>5, SeqEqual
<1> QED BY <1>2, <1>3, <1>4, <1>6

LEMMA DoIs ==
  ASSUME NEW w, NEW f, NEW v, NEW q \in Worlds, NEW r \in Worlds, Deed(w, f, v, q, r)
  PROVE  Does(w, Do(f, v), q, r)
<1>1. PICK e : e = [op |-> f, x |-> v]
  OBVIOUS
<1>2. e.op = f /\ e.x = v /\ Do(f, v) = <<e>>
  BY <1>1 DEF Do
<1> QED BY <1>2, DoesOne

LEMMA ReadDoes ==
  ASSUME NEW w, NEW c \in Contents, NEW u \in Seq(Sector), NEW g \in Nat,
         NEW a \in [0 .. NDIRECT -> Nat], NEW z \in Nat
  PROVE  /\ \A t \in Sector : Does(w, Bread(t), <<c, u, g, a, z>>, <<c, <<t>> \o u, g, a, z>>)
         /\ g \in Sector => Does(w, BreadGot, <<c, u, g, a, z>>, <<c, <<g>> \o u, g, a, z>>)
<1>1. PICK q : q = <<c, u, g, a, z>>
  OBVIOUS
<1>2. q \in Worlds /\ q[1] = c /\ q[2] = u /\ q[3] = g /\ q[4] = a /\ q[5] = z
  BY <1>1 DEF Worlds
<1>3. ASSUME NEW t \in Sector, NEW f, NEW x,
             (f = "bread" /\ x = t) \/ (f = "breadgot" /\ g = t)
      PROVE  <<c, <<t>> \o u, g, a, z>> \in Worlds /\ Deed(w, f, x, q, <<c, <<t>> \o u, g, a, z>>)
  <2>1. <<c, <<t>> \o u, g, a, z>> \in Worlds
    BY StackIs DEF Worlds
  <2>2. f \notin TopOps
    BY <1>3 DEF TopOps, Closing, Setting, Keeping
  <2>3. InMemory(f, x, q, <<c, <<t>> \o u, g, a, z>>)
    BY <1>2, <1>3 DEF InMemory
  <2> QED BY <2>1, <2>2, <2>3 DEF Deed
<1>4. ASSUME NEW t \in Sector PROVE Does(w, Bread(t), q, <<c, <<t>> \o u, g, a, z>>)
  <2>1. Does(w, Do("bread", t), q, <<c, <<t>> \o u, g, a, z>>)
    BY <1>2, <1>3, DoIs
  <2> QED BY <2>1 DEF Bread, Do
<1>5. ASSUME g \in Sector PROVE Does(w, BreadGot, q, <<c, <<g>> \o u, g, a, z>>)
  <2>1. PICK e : e = [op |-> "breadgot"]
    OBVIOUS
  <2>2. PICK x : x = e.x
    OBVIOUS
  <2>3. Deed(w, e.op, e.x, q, <<c, <<g>> \o u, g, a, z>>) /\ <<c, <<g>> \o u, g, a, z>> \in Worlds
    BY <1>3, <1>5, <2>1
  <2> QED BY <1>2, <2>1, <2>3, DoesOne DEF BreadGot
<1> QED BY <1>1, <1>4, <1>5

(* What is done with the latest buffer.                                    *)
LEMMA TopDoes ==
  ASSUME NEW w, NEW c \in Contents, NEW t \in Sector, NEW u \in Seq(Sector), NEW g \in Nat,
         NEW a \in [0 .. NDIRECT -> Nat], NEW z \in Nat, NEW f \in TopOps, NEW x, NEW r \in Worlds,
         OnTop(w, f, x, c, t, u, <<c, <<t>> \o u, g, a, z>>, r)
  PROVE  Does(w, Do(f, x), <<c, <<t>> \o u, g, a, z>>, r)
<1>1. PICK q : q = <<c, <<t>> \o u, g, a, z>>
  OBVIOUS
<1>2. q \in Worlds /\ q[1] = c /\ q[2] # <<>> /\ Head(q[2]) = t /\ Tail(q[2]) = u
  BY <1>1, StackIs DEF Worlds
<1>3. InMemory(f, x, q, r)
  BY DEF InMemory, TopOps, Closing, Setting, Keeping
<1>4. Deed(w, f, x, q, r)
  BY <1>1, <1>2, <1>3 DEF Deed
<1> QED BY <1>1, <1>2, <1>4, DoIs

LEMMA CloseDoes ==
  ASSUME NEW w, NEW c \in Contents, NEW t \in Sector, NEW u \in Seq(Sector), NEW g \in Nat,
         NEW a \in [0 .. NDIRECT -> Nat], NEW z \in Nat
  PROVE  /\ Does(w, Release, <<c, <<t>> \o u, g, a, z>>, <<c, u, g, a, z>>)
         /\ Does(w, Write, <<c, <<t>> \o u, g, a, z>>, <<c, <<t>> \o u, g, a, z>>)
         /\ Does(w, Write \o Release, <<c, <<t>> \o u, g, a, z>>, <<c, u, g, a, z>>)
<1>1. PICK q, r : q = <<c, <<t>> \o u, g, a, z>> /\ r = <<c, u, g, a, z>>
  OBVIOUS
<1>2. /\ q \in Worlds /\ r \in Worlds /\ q[2] # <<>> /\ Head(q[2]) = t /\ Tail(q[2]) = u
      /\ q[1] = c /\ r = <<c, u, q[3], q[4], q[5]>>
  BY <1>1, StackIs DEF Worlds
<1>3. Does(w, Release, q, r)
  <2>1. PICK e : e = [op |-> "brelse"]
    OBVIOUS
  <2>2. PICK x : x = e.x
    OBVIOUS
  <2>3. OnTop(w, "brelse", x, c, t, u, q, r) /\ InMemory("brelse", x, q, r)
    BY <1>2 DEF OnTop, InMemory
  <2>4. Deed(w, "brelse", x, q, r)
    BY <1>2, <2>3 DEF Deed
  <2> QED BY <1>2, <2>1, <2>2, <2>4, DoesOne DEF Release
<1>4. Does(w, Write, q, q)
  <2>1. PICK e : e = [op |-> "bwrite"]
    OBVIOUS
  <2>2. PICK x : x = e.x
    OBVIOUS
  <2>3. OnTop(w, "bwrite", x, c, t, u, q, q) /\ InMemory("bwrite", x, q, q)
    BY <1>2 DEF OnTop, InMemory
  <2>4. Deed(w, "bwrite", x, q, q)
    BY <1>2, <2>3 DEF Deed
  <2> QED BY <1>2, <2>1, <2>2, <2>4, DoesOne DEF Write
<1> QED BY <1>1, <1>3, <1>4, DoesCat

LEMMA ChangeDoes ==
  ASSUME NEW w, NEW c \in Contents, NEW t \in Sector, NEW u \in Seq(Sector), NEW g \in Nat,
         NEW a \in [0 .. NDIRECT -> Nat], NEW z \in Nat
  PROVE  /\ \A v \in Nat : Does(w, Do("fill", v), <<c, <<t>> \o u, g, a, z>>,
                                <<[c EXCEPT ![t] = Filled(v)], <<t>> \o u, g, a, z>>)
         /\ Does(w, Do("inode", 0), <<c, <<t>> \o u, g, a, z>>,
                 <<[c EXCEPT ![t] = Inode(c[t], a, z)], <<t>> \o u, g, a, z>>)
         /\ \A x \in Index : Does(w, Do("setword", x), <<c, <<t>> \o u, g, a, z>>,
                                  <<Put(c, t, x, g), <<t>> \o u, g, a, z>>)
         /\ \A x \in Index : c[t][x] = 1 =>
               Does(w, Do("clear", x), <<c, <<t>> \o u, g, a, z>>,
                    <<Put(c, t, x, 0), <<t>> \o u, g, a, z>>)
<1>1. PICK q : q = <<c, <<t>> \o u, g, a, z>>
  OBVIOUS
<1>2. q[1] = c /\ q[2] = <<t>> \o u /\ q[3] = g /\ q[4] = a /\ q[5] = z /\ q[2] \in Seq(Sector)
  BY <1>1, StackIs
<1>3. \A d \in Contents : <<d, q[2], q[3], q[4], q[5]>> \in Worlds
  BY <1>2 DEF Worlds
<1>4. {"fill", "inode", "setword", "clear"} \subseteq TopOps
  BY DEF TopOps, Setting
<1>5. ASSUME NEW v \in Nat PROVE Does(w, Do("fill", v), q, <<[c EXCEPT ![t] = Filled(v)], <<t>> \o u, g, a, z>>)
  <2>1. PICK d : d = [c EXCEPT ![t] = Filled(v)]
    OBVIOUS
  <2>2. d \in Contents
    BY <2>1, ContentsAre, SectorWords
  <2>3. PICK r \in Worlds : r = <<d, q[2], q[3], q[4], q[5]>>
    BY <1>3, <2>2
  <2>4. OnTop(w, "fill", v, c, t, u, q, r)
    BY <2>1, <2>3 DEF OnTop
  <2>5. Does(w, Do("fill", v), q, r)
    BY <1>1, <1>4, <2>4, TopDoes
  <2> QED BY <1>2, <2>1, <2>3, <2>5
<1>6. Does(w, Do("inode", 0), q, <<[c EXCEPT ![t] = Inode(c[t], a, z)], <<t>> \o u, g, a, z>>)
  <2>1. PICK d : d = [c EXCEPT ![t] = Inode(c[t], a, z)]
    OBVIOUS
  <2>2. d \in Contents
    BY <2>1, ContentsAre, SectorWords
  <2>3. PICK r \in Worlds : r = <<d, q[2], q[3], q[4], q[5]>>
    BY <1>3, <2>2
  <2>4. OnTop(w, "inode", 0, c, t, u, q, r)
    BY <1>2, <2>1, <2>3 DEF OnTop
  <2>5. Does(w, Do("inode", 0), q, r)
    BY <1>1, <1>4, <2>4, TopDoes
  <2> QED BY <1>2, <2>1, <2>3, <2>5
<1>7. ASSUME NEW x \in Index PROVE Does(w, Do("setword", x), q, <<Put(c, t, x, g), <<t>> \o u, g, a, z>>)
  <2>1. PICK d \in Contents : d = Put(c, t, x, g)
    BY ContentsAre
  <2>2. PICK r \in Worlds : r = <<d, q[2], q[3], q[4], q[5]>>
    BY <1>3
  <2>3. OnTop(w, "setword", x, c, t, u, q, r)
    BY <1>2, <2>1, <2>2 DEF OnTop
  <2>4. Does(w, Do("setword", x), q, r)
    BY <1>1, <1>4, <2>3, TopDoes
  <2> QED BY <1>2, <2>1, <2>2, <2>4
<1>8. ASSUME NEW x \in Index, c[t][x] = 1
      PROVE  Does(w, Do("clear", x), q, <<Put(c, t, x, 0), <<t>> \o u, g, a, z>>)
  <2>1. PICK d \in Contents : d = Put(c, t, x, 0)
    BY ContentsAre
  <2>2. PICK r \in Worlds : r = <<d, q[2], q[3], q[4], q[5]>>
    BY <1>3
  <2>3. OnTop(w, "clear", x, c, t, u, q, r)
    BY <1>8, <2>1, <2>2 DEF OnTop
  <2>4. Does(w, Do("clear", x), q, r)
    BY <1>1, <1>4, <2>3, TopDoes
  <2> QED BY <1>2, <2>1, <2>2, <2>4
<1> QED BY <1>1, <1>5, <1>6, <1>7, <1>8

LEMMA LookDoes ==
  ASSUME NEW w, NEW c \in Contents, NEW t \in Sector, NEW u \in Seq(Sector), NEW g \in Nat,
         NEW a \in [0 .. NDIRECT -> Nat], NEW z \in Nat
  PROVE  /\ \A x \in Index, r \in Worlds : Looks(x, c, t, u, g, a, z, r) =>
               Does(w, Do("look", x), <<c, <<t>> \o u, g, a, z>>, r)
         /\ \A x \in Index : c[t][x] = 0 =>
               Does(w, Do("freeword", x), <<c, <<t>> \o u, g, a, z>>, <<c, <<t>> \o u, g, a, z>>)
         /\ \A x \in Index : c[t][x] \in Blocks /\ c[BM][c[t][x]] = 1 =>
               Does(w, Do("freeword", x), <<c, <<t>> \o u, g, a, z>>,
                    <<Put(c, BM, c[t][x], 0), <<t>> \o u, g, a, z>>)
         /\ \A x : c[t][Word] = w[x] =>
               Does(w, Do("copy", x), <<c, <<t>> \o u, g, a, z>>, <<c, <<t>> \o u, g, a, z>>)
         /\ \A x : Does(w, Do("load", x), <<c, <<t>> \o u, g, a, z>>,
                        <<c, <<t>> \o u, g, [i \in 0 .. NDIRECT |-> c[t][i]], c[t][SizeWord]>>)
<1>1. PICK q : q = <<c, <<t>> \o u, g, a, z>>
  OBVIOUS
<1>2. /\ q[1] = c /\ q[2] = <<t>> \o u /\ q[3] = g /\ q[4] = a /\ q[5] = z /\ q[2] \in Seq(Sector)
      /\ q \in Worlds
  BY <1>1, StackIs DEF Worlds
<1>3. \A d \in Contents : <<d, q[2], q[3], q[4], q[5]>> \in Worlds
  BY <1>2 DEF Worlds
<1>4. {"look", "freeword", "copy", "load"} \subseteq TopOps
  BY DEF TopOps, Closing, Keeping
<1>5. ASSUME NEW x \in Index, NEW r \in Worlds, Looks(x, c, t, u, g, a, z, r)
      PROVE  Does(w, Do("look", x), q, r)
  <2>1. OnTop(w, "look", x, c, t, u, q, r)
    BY <1>2, <1>5 DEF OnTop
  <2> QED BY <1>1, <1>4, <2>1, TopDoes
<1>6. ASSUME NEW x \in Index, c[t][x] = 0 PROVE Does(w, Do("freeword", x), q, q)
  <2>1. Frees(x, c, t, q, q)
    BY <1>6 DEF Frees
  <2>2. OnTop(w, "freeword", x, c, t, u, q, q)
    BY <2>1 DEF OnTop
  <2> QED BY <1>1, <1>2, <1>4, <2>2, TopDoes
<1>7. ASSUME NEW x \in Index, c[t][x] \in Blocks, c[BM][c[t][x]] = 1
      PROVE  Does(w, Do("freeword", x), q, <<Put(c, BM, c[t][x], 0), <<t>> \o u, g, a, z>>)
  <2>1. PICK d \in Contents : d = Put(c, BM, c[t][x], 0)
    BY <1>7, ContentsAre, Layout
  <2>2. PICK r \in Worlds : r = <<d, q[2], q[3], q[4], q[5]>>
    BY <1>3
  <2>3. Frees(x, c, t, q, r)
    BY <1>7, <2>1, <2>2 DEF Frees
  <2>4. OnTop(w, "freeword", x, c, t, u, q, r)
    BY <2>3 DEF OnTop
  <2>5. Does(w, Do("freeword", x), q, r)
    BY <1>1, <1>4, <2>4, TopDoes
  <2> QED BY <1>2, <2>1, <2>2, <2>5
<1>8. ASSUME NEW x, c[t][Word] = w[x] PROVE Does(w, Do("copy", x), q, q)
  <2>1. OnTop(w, "copy", x, c, t, u, q, q)
    BY <1>8 DEF OnTop
  <2> QED BY <1>1, <1>2, <1>4, <2>1, TopDoes
<1>9. ASSUME NEW x
      PROVE  Does(w, Do("load", x), q, <<c, <<t>> \o u, g, [i \in 0 .. NDIRECT |-> c[t][i]], c[t][SizeWord]>>)
  <2>1. c[t] \in [Index -> Nat] /\ 0 .. NDIRECT \subseteq Index /\ SizeWord \in Index
    <3>1. c[t] \in [Index -> Nat]
      BY ContentsAre
    <3>2. 0 .. NDIRECT + 1 \subseteq Index /\ NDIRECT \in Nat /\ SizeWord \in Index
      BY Layout
    <3> QED BY <3>1, <3>2
  <2>2. PICK b, n : b = [i \in 0 .. NDIRECT |-> c[t][i]] /\ n = c[t][SizeWord]
    OBVIOUS
  <2>3. b \in [0 .. NDIRECT -> Nat] /\ n \in Nat
    BY <2>1, <2>2
  <2>4. PICK r \in Worlds : r = <<c, q[2], q[3], b, n>>
    BY <1>2, <2>3 DEF Worlds
  <2>5. OnTop(w, "load", x, c, t, u, q, r)
    BY <2>2, <2>4 DEF OnTop
  <2>6. Does(w, Do("load", x), q, r)
    BY <1>1, <1>4, <2>5, TopDoes
  <2> QED BY <1>2, <2>2, <2>4, <2>6
<1> QED BY <1>1, <1>5, <1>6, <1>7, <1>8, <1>9

(* What is done with the inode in memory.                                  *)
LEMMA MemoryDoes ==
  ASSUME NEW w, NEW c \in Contents, NEW u \in Seq(Sector), NEW g \in Nat,
         NEW a \in [0 .. NDIRECT -> Nat], NEW z \in Nat, NEW i \in 0 .. NDIRECT
  PROVE  /\ Does(w, Do("setaddr", i), <<c, u, g, a, z>>, <<c, u, g, [a EXCEPT ![i] = g], z>>)
         /\ Does(w, Do("useaddr", i), <<c, u, g, a, z>>, <<c, u, a[i], a, z>>)
         /\ Does(w, Do("unset", i), <<c, u, g, a, z>>, <<c, u, g, [a EXCEPT ![i] = 0], z>>)
         /\ \A n \in Nat : Does(w, Do("grow", n), <<c, u, g, a, z>>, <<c, u, g, a, n>>)
<1>1. PICK q : q = <<c, u, g, a, z>>
  OBVIOUS
<1>2. q \in Worlds /\ q[1] = c /\ q[2] = u /\ q[3] = g /\ q[4] = a /\ q[5] = z
  BY <1>1 DEF Worlds
<1>3. \A f \in {"setaddr", "useaddr", "unset", "grow"} : f \notin TopOps
  BY DEF TopOps, Closing, Setting, Keeping
<1>4. ASSUME NEW f \in {"setaddr", "useaddr", "unset", "grow"}, NEW x, NEW r \in Worlds, InMemory(f, x, q, r)
      PROVE  Does(w, Do(f, x), q, r)
  <2>1. Deed(w, f, x, q, r)
    BY <1>3, <1>4 DEF Deed
  <2> QED BY <1>2, <2>1, DoIs
<1>5. Does(w, Do("setaddr", i), q, <<c, u, g, [a EXCEPT ![i] = g], z>>)
  <2>1. PICK r \in Worlds : r = <<c, u, g, [a EXCEPT ![i] = g], z>>
    BY DEF Worlds
  <2>2. InMemory("setaddr", i, q, r)
    BY <1>2, <2>1 DEF InMemory
  <2> QED BY <1>4, <2>1, <2>2
<1>6. Does(w, Do("useaddr", i), q, <<c, u, a[i], a, z>>)
  <2>1. PICK r \in Worlds : r = <<c, u, a[i], a, z>>
    BY DEF Worlds
  <2>2. InMemory("useaddr", i, q, r)
    BY <1>2, <2>1 DEF InMemory
  <2> QED BY <1>4, <2>1, <2>2
<1>7. Does(w, Do("unset", i), q, <<c, u, g, [a EXCEPT ![i] = 0], z>>)
  <2>1. PICK r \in Worlds : r = <<c, u, g, [a EXCEPT ![i] = 0], z>>
    BY DEF Worlds
  <2>2. InMemory("unset", i, q, r)
    BY <1>2, <2>1 DEF InMemory
  <2> QED BY <1>4, <2>1, <2>2
<1>8. ASSUME NEW n \in Nat PROVE Does(w, Do("grow", n), q, <<c, u, g, a, n>>)
  <2>1. PICK r \in Worlds : r = <<c, u, g, a, n>>
    BY DEF Worlds
  <2>2. InMemory("grow", n, q, r)
    BY <1>2, <2>1 DEF InMemory
  <2> QED BY <1>4, <2>1, <2>2
<1> QED BY <1>1, <1>5, <1>6, <1>7, <1>8

LEMMA LowestIs ==
  ASSUME NEW S, S \subseteq Nat, S # {}
  PROVE  Lowest(S) \in S
<1>1. \E x \in S : \A y \in S : x <= y
  BY LeastNat
<1> QED BY <1>1 DEF Lowest

(* The functions of inode.c.                                               *)
LEMMA ProcDoes ==
  ASSUME NEW w, NEW c \in Contents, NEW u \in Seq(Sector), NEW g \in Nat,
         NEW a \in [0 .. NDIRECT -> Nat], NEW z \in Nat
  PROVE  /\ Does(w, readsb, <<c, u, g, a, z>>, <<c, u, g, a, z>>)
         /\ \A b \in Blocks : c[BM][b] = 1 =>
               Does(w, bfree(b), <<c, u, g, a, z>>, <<Put(c, BM, b, 0), u, g, a, z>>)
         /\ Does(w, iupdate, <<c, u, g, a, z>>, <<[c EXCEPT ![IB] = Inode(c[IB], a, z)], u, g, a, z>>)
         /\ Does(w, iget, <<c, u, g, a, z>>,
                 <<c, u, g, [i \in 0 .. NDIRECT |-> c[IB][i]], c[IB][SizeWord]>>)
         /\ \A b \in Blocks : Does(w, bzero(b), <<c, u, g, a, z>>, <<Zeroed(c, b), u, g, a, z>>)
<1>1. PICK q : q = <<c, u, g, a, z>>
  OBVIOUS
<1>2. SB \in Sector /\ BM \in Sector /\ IB \in Sector /\ Blocks \subseteq Sector /\ Blocks \subseteq Index
  BY Layout
<1>3. \A t \in Sector : Does(w, Bread(t), q, <<c, <<t>> \o u, g, a, z>>)
  BY <1>1, ReadDoes
<1>4. Does(w, readsb, q, q)
  <2>1. Does(w, Release, <<c, <<SB>> \o u, g, a, z>>, q)
    BY <1>1, <1>2, CloseDoes
  <2> QED BY <1>2, <1>3, <2>1, DoesCat DEF readsb
<1>5. ASSUME NEW b \in Blocks, c[BM][b] = 1
      PROVE  Does(w, bfree(b), q, <<Put(c, BM, b, 0), u, g, a, z>>)
  <2>1. PICK d \in Contents : d = Put(c, BM, b, 0)
    BY <1>2, ContentsAre
  <2>2. PICK p : p = <<c, <<BM>> \o u, g, a, z>>
    OBVIOUS
  <2>3. PICK r : r = <<d, <<BM>> \o u, g, a, z>>
    OBVIOUS
  <2>4. Does(w, readsb \o Bread(BM), q, p)
    BY <1>2, <1>3, <1>4, <2>2, DoesCat
  <2>5. Does(w, Do("clear", b), p, r)
    BY <1>2, <1>5, <2>1, <2>2, <2>3, ChangeDoes
  <2>6. Does(w, Write, r, r) /\ Does(w, Release, r, <<d, u, g, a, z>>)
    BY <1>2, <2>3, CloseDoes
  <2>7. Does(w, readsb \o Bread(BM) \o Do("clear", b), q, r)
    BY <2>4, <2>5, DoesCat
  <2>8. Does(w, readsb \o Bread(BM) \o Do("clear", b) \o Write, q, r)
    BY <2>6, <2>7, DoesCat
  <2> QED BY <2>1, <2>6, <2>8, DoesCat DEF bfree
<1>6. Does(w, iupdate, q, <<[c EXCEPT ![IB] = Inode(c[IB], a, z)], u, g, a, z>>)
  <2>1. PICK d : d = [c EXCEPT ![IB] = Inode(c[IB], a, z)]
    OBVIOUS
  <2>2. d \in Contents
    BY <1>2, <2>1, ContentsAre, SectorWords
  <2>3. PICK p, r : p = <<c, <<IB>> \o u, g, a, z>> /\ r = <<d, <<IB>> \o u, g, a, z>>
    OBVIOUS
  <2>4. Does(w, Bread(IB), q, p)
    BY <1>2, <1>3, <2>3
  <2>5. Does(w, Do("inode", 0), p, r)
    BY <1>2, <2>1, <2>3, ChangeDoes
  <2>6. Does(w, Write, r, r) /\ Does(w, Release, r, <<d, u, g, a, z>>)
    BY <1>2, <2>2, <2>3, CloseDoes
  <2>7. Does(w, Bread(IB) \o Do("inode", 0), q, r)
    BY <2>4, <2>5, DoesCat
  <2>8. Does(w, Bread(IB) \o Do("inode", 0) \o Write, q, r)
    BY <2>6, <2>7, DoesCat
  <2> QED BY <2>1, <2>6, <2>8, DoesCat DEF iupdate
<1>7. Does(w, iget, q, <<c, u, g, [i \in 0 .. NDIRECT |-> c[IB][i]], c[IB][SizeWord]>>)
  <2>1. PICK b, n : b = [i \in 0 .. NDIRECT |-> c[IB][i]] /\ n = c[IB][SizeWord]
    OBVIOUS
  <2>2. b \in [0 .. NDIRECT -> Nat] /\ n \in Nat
    <3>1. c[IB] \in [Index -> Nat]
      BY <1>2, ContentsAre
    <3>2. 0 .. NDIRECT + 1 \subseteq Index /\ NDIRECT \in Nat /\ SizeWord \in Index
      BY Layout
    <3> QED BY <2>1, <3>1, <3>2
  <2>3. PICK p, r : p = <<c, <<IB>> \o u, g, a, z>> /\ r = <<c, <<IB>> \o u, g, b, n>>
    OBVIOUS
  <2>4. Does(w, Bread(IB), q, p)
    BY <1>2, <1>3, <2>3
  <2>5. Does(w, Do("load", 0), p, r)
    BY <1>2, <2>1, <2>3, LookDoes
  <2>6. Does(w, Release, r, <<c, u, g, b, n>>)
    BY <1>2, <2>2, <2>3, CloseDoes
  <2>7. Does(w, Bread(IB) \o Do("load", 0), q, r)
    BY <2>4, <2>5, DoesCat
  <2> QED BY <2>1, <2>6, <2>7, DoesCat DEF iget
<1>8. ASSUME NEW b \in Blocks PROVE Does(w, bzero(b), q, <<Zeroed(c, b), u, g, a, z>>)
  <2>1. PICK d \in Contents : d = Zeroed(c, b)
    BY ContentsAre
  <2>2. d = [c EXCEPT ![b] = Filled(0)]
    <3>1. Filled(0) = Zeros
      BY DEF Filled, Zeros
    <3> QED BY <2>1, <3>1 DEF Zeroed
  <2>3. PICK p, r : p = <<c, <<b>> \o u, g, a, z>> /\ r = <<d, <<b>> \o u, g, a, z>>
    OBVIOUS
  <2>4. Does(w, Bread(b), q, p) /\ b \in Sector
    BY <1>2, <1>3, <2>3
  <2>5. Does(w, Do("fill", 0), p, r)
    BY <2>2, <2>3, <2>4, ChangeDoes
  <2>6. Does(w, Write, r, r) /\ Does(w, Release, r, <<d, u, g, a, z>>)
    BY <2>3, <2>4, CloseDoes
  <2>7. Does(w, Bread(b) \o Do("fill", 0), q, r)
    BY <2>4, <2>5, DoesCat
  <2>8. Does(w, Bread(b) \o Do("fill", 0) \o Write, q, r)
    BY <2>6, <2>7, DoesCat
  <2> QED BY <2>1, <2>6, <2>8, DoesCat DEF bzero
<1> QED BY <1>1, <1>4, <1>5, <1>6, <1>7, <1>8

(* The first free block is taken, and the rest of balloc after its choice. *)
LEMMA BallocDoes ==
  ASSUME NEW w, NEW c \in Contents, NEW u \in Seq(Sector), NEW g \in Nat,
         NEW a \in [0 .. NDIRECT -> Nat], NEW z \in Nat,
         NEW b \in FreeIn(c[BM]), b = Lowest(FreeIn(c[BM]))
  PROVE  /\ Does(w, balloc, <<c, u, g, a, z>>, <<Taken(c, b), u, b, a, z>>)
         /\ Does(w, Write \o Release \o bzero(b),
                 <<Put(c, BM, b, 1), <<BM>> \o u, b, a, z>>, <<Taken(c, b), u, b, a, z>>)
<1>1. b \in Blocks /\ b \in Nat /\ b \in Index /\ BM \in Sector
  BY Layout DEF FreeIn
<1>2. PICK q, p, r : /\ q = <<c, u, g, a, z>> /\ p = <<c, <<BM>> \o u, g, a, z>>
                     /\ r = <<Taken(c, b), u, b, a, z>>
  OBVIOUS
<1>3. r \in Worlds
  BY <1>1, <1>2, ContentsAre DEF Worlds
<1>4. Does(w, balloc, q, r)
  <2>1. Does(w, readsb, q, q) /\ Does(w, Bread(BM), q, p)
    BY <1>1, <1>2, ProcDoes, ReadDoes
  <2>2. Does(w, readsb \o Bread(BM), q, p)
    BY <2>1, DoesCat
  <2>3. OnTop(w, "pick", 0, c, BM, u, p, r) /\ "pick" \in TopOps
    BY <1>2 DEF OnTop, TopOps, Closing
  <2>4. Does(w, Do("pick", 0), p, r)
    BY <1>1, <1>2, <1>3, <2>3, TopDoes
  <2> QED BY <2>2, <2>4, DoesCat DEF balloc
<1>5. Does(w, Write \o Release \o bzero(b), <<Put(c, BM, b, 1), <<BM>> \o u, b, a, z>>, r)
  <2>1. PICK d \in Contents : d = Put(c, BM, b, 1)
    BY <1>1, ContentsAre
  <2>2. Does(w, Write \o Release, <<d, <<BM>> \o u, b, a, z>>, <<d, u, b, a, z>>)
    BY <1>1, CloseDoes
  <2>3. Does(w, bzero(b), <<d, u, b, a, z>>, r)
    BY <1>1, <1>2, <2>1, ProcDoes DEF Taken
  <2> QED BY <2>1, <2>2, <2>3, DoesCat
<1> QED BY <1>2, <1>4, <1>5

-----------------------------------------------------------------------------
(* The places where the file may have a block: its direct ones, that of    *)
(* the indirect block, and the words in it.                                *)
Places == 0 .. NDIRECT + NINDIRECT

Slot(bn) == IF bn < NDIRECT THEN bn ELSE bn + 1

At(c, a, k) ==
    IF k <= NDIRECT THEN a[k]
    ELSE IF a[NDIRECT] = 0 THEN 0 ELSE c[a[NDIRECT]][k - NDIRECT - 1]

(* Each place has a block of its own, or none, and the bitmap knows it.    *)
Sound(c, a) ==
    /\ \A k \in Places : At(c, a, k) \in Blocks \cup {0}
    /\ \A k, l \in Places : At(c, a, k) = At(c, a, l) /\ At(c, a, k) # 0 => k = l
    /\ \A b \in Blocks : c[BM][b] \in {0, 1} /\ (c[BM][b] = 1 <=> \E k \in Places : At(c, a, k) = b)

(* What the places held before they hold still.                            *)
Grown(c, a, d, e) ==
    /\ \A k \in Places : At(c, a, k) # 0 =>
          /\ At(d, e, k) = At(c, a, k)
          /\ k # NDIRECT => d[At(c, a, k)][Word] = c[At(c, a, k)][Word]
    /\ d[IB] = c[IB]

(* b is taken for place k, and nothing else changes.                       *)
Added(c, a, d, e, k, b) ==
    /\ \A l \in Places : At(d, e, l) = IF l = k THEN b ELSE At(c, a, l)
    /\ \A x \in Blocks : d[BM][x] = IF x = b THEN 1 ELSE c[BM][x]

LEMMA PlaceIs ==
  /\ Places \subseteq Nat /\ NDIRECT \in Places /\ 0 .. NDIRECT \subseteq Places
  /\ \A k \in Places : k <= NDIRECT => k \in 0 .. NDIRECT
  /\ \A k \in Places : ~(k <= NDIRECT) => k - NDIRECT - 1 \in 0 .. NINDIRECT - 1 /\ k - NDIRECT - 1 \in Index
  /\ \A bn \in 0 .. MAXFILE - 1 : /\ Slot(bn) \in Places /\ Slot(bn) # NDIRECT
                                  /\ bn < NDIRECT <=> Slot(bn) <= NDIRECT
                                  /\ ~(bn < NDIRECT) => Slot(bn) - NDIRECT - 1 = bn - NDIRECT
  /\ \A x, y \in 0 .. MAXFILE - 1 : Slot(x) = Slot(y) => x = y
<1>1. NDIRECT \in Nat /\ NINDIRECT \in Nat /\ 0 .. NINDIRECT - 1 \subseteq Index
  BY Layout
<1>2. \A k \in Places : ~(k <= NDIRECT) => k - NDIRECT - 1 \in 0 .. NINDIRECT - 1
  BY <1>1 DEF Places
<1>3. \A bn \in 0 .. MAXFILE - 1 : /\ Slot(bn) \in Places /\ Slot(bn) # NDIRECT
                                   /\ bn < NDIRECT <=> Slot(bn) <= NDIRECT
                                   /\ ~(bn < NDIRECT) => Slot(bn) - NDIRECT - 1 = bn - NDIRECT
  BY <1>1 DEF Places, Slot, MAXFILE
<1>4. \A x, y \in 0 .. MAXFILE - 1 : Slot(x) = Slot(y) => x = y
  BY <1>1 DEF Slot, MAXFILE
<1> QED BY <1>1, <1>2, <1>3, <1>4 DEF Places

(* While a place is empty the disk has a free block, so balloc finds one.  *)
LEMMA Room ==
  ASSUME NEW c, NEW a, Sound(c, a), NEW k \in Places, At(c, a, k) = 0
  PROVE  /\ FreeIn(c[BM]) # {} /\ Lowest(FreeIn(c[BM])) \in FreeIn(c[BM])
         /\ FreeIn(c[BM]) \subseteq Blocks
<1>1. FreeIn(c[BM]) # {}
  <2>1. SUFFICES ASSUME FreeIn(c[BM]) = {} PROVE FALSE
    OBVIOUS
  <2>2. ASSUME NEW b \in Blocks PROVE \E l \in Places \ {k} : At(c, a, l) = b
    <3>1. c[BM][b] = 1
      BY <2>1 DEF FreeIn, Sound
    <3>2. PICK l \in Places : At(c, a, l) = b
      BY <3>1 DEF Sound
    <3>3. b # 0
      BY Layout
    <3> QED BY <3>2, <3>3
  <2>3. PICK f : f = [b \in Blocks |-> CHOOSE l \in Places \ {k} : At(c, a, l) = b]
    OBVIOUS
  <2>4. \A b \in Blocks : f[b] \in Places \ {k} /\ At(c, a, f[b]) = b
    BY <2>2, <2>3
  <2>5. f \in [Blocks -> Places \ {k}]
    BY <2>3, <2>4
  <2>6. IsFiniteSet(Places \ {k}) /\ Cardinality(Places \ {k}) = NDIRECT + NINDIRECT
    <3>1. NDIRECT + NINDIRECT \in Nat
      BY Layout
    <3>2. PICK n \in Nat : n = NDIRECT + NINDIRECT
      BY <3>1
    <3>3. IsFiniteSet(0 .. n) /\ Cardinality(0 .. n) = n + 1
      BY FS_Interval
    <3>4. IsFiniteSet(Places) /\ Cardinality(Places) = n + 1
      BY <3>2, <3>3 DEF Places
    <3> QED BY <3>2, <3>4, FS_RemoveElement
  <2>7. IsFiniteSet(Blocks) /\ Cardinality(Blocks) > NDIRECT + NINDIRECT
    BY LayoutAssumption
  <2>8. Cardinality(Places \ {k}) < Cardinality(Blocks)
    <3>1. NDIRECT + NINDIRECT \in Nat /\ Cardinality(Blocks) \in Nat
      BY <2>7, Layout, FS_CardinalityType
    <3> QED BY <2>6, <2>7, <3>1
  <2>9. \E x, y \in Blocks : x # y /\ f[x] = f[y]
    BY <2>5, <2>6, <2>7, <2>8, FS_PigeonHole
  <2> QED BY <2>4, <2>9
<1>2. FreeIn(c[BM]) \subseteq Nat /\ FreeIn(c[BM]) \subseteq Blocks
  BY Layout DEF FreeIn
<1> QED BY <1>1, <1>2, LowestIs

LEMMA NewPlace ==
  ASSUME NEW c, NEW a, NEW d, NEW e, Sound(c, a), NEW k \in Places, At(c, a, k) = 0,
         NEW b \in FreeIn(c[BM]), Added(c, a, d, e, k, b)
  PROVE  Sound(d, e)
<1>0. /\ \A l \in Places : At(d, e, l) = IF l = k THEN b ELSE At(c, a, l)
      /\ \A x \in Blocks : d[BM][x] = IF x = b THEN 1 ELSE c[BM][x]
  BY DEF Added
<1>1. b \in Blocks /\ c[BM][b] = 0 /\ b # 0
  BY Layout DEF FreeIn
<1>2. \A l \in Places : At(c, a, l) # b
  BY <1>1 DEF Sound
<1>3. \A l \in Places : At(d, e, l) \in Blocks \cup {0}
  BY <1>0, <1>1 DEF Sound
<1>4. \A l, m \in Places : At(d, e, l) = At(d, e, m) /\ At(d, e, l) # 0 => l = m
  BY <1>0, <1>1, <1>2 DEF Sound
<1>5. ASSUME NEW x \in Blocks
      PROVE  d[BM][x] \in {0, 1} /\ (d[BM][x] = 1 <=> \E l \in Places : At(d, e, l) = x)
  <2>1. CASE x = b
    BY <1>0, <2>1
  <2>2. CASE x # b
    <3>1. d[BM][x] = c[BM][x]
      BY <1>0, <2>2
    <3>2. c[BM][x] \in {0, 1} /\ (c[BM][x] = 1 <=> \E l \in Places : At(c, a, l) = x)
      BY DEF Sound
    <3>3. x # 0
      BY Layout
    <3>4. (\E l \in Places : At(c, a, l) = x) <=> (\E l \in Places : At(d, e, l) = x)
      BY <1>0, <2>2, <3>3
    <3> QED BY <3>1, <3>2, <3>4
  <2> QED BY <2>1, <2>2
<1> QED BY <1>3, <1>4, <1>5 DEF Sound

LEMMA TakenIs ==
  ASSUME NEW c \in Contents, NEW b \in Blocks
  PROVE  /\ \A s \in Sector : s # b /\ s # BM => Taken(c, b)[s] = c[s]
         /\ Taken(c, b)[b] = Zeros
         /\ \A x \in Blocks : Taken(c, b)[BM][x] = IF x = b THEN 1 ELSE c[BM][x]
<1>1. b \in Sector /\ BM \in Sector /\ b # BM /\ Blocks \subseteq Index /\ c[BM] \in [Index -> Nat]
  BY Layout, ContentsAre
<1>2. PICK m : m = [c[BM] EXCEPT ![b] = 1]
  OBVIOUS
<1>3. \A x \in Blocks : m[x] = IF x = b THEN 1 ELSE c[BM][x]
  BY <1>1, <1>2
<1>4. DOMAIN c = Sector
  BY DEF Contents
<1>5. Taken(c, b) = [[c EXCEPT ![BM] = m] EXCEPT ![b] = Zeros]
  BY <1>2 DEF Taken, Zeroed, Put
<1>6. /\ \A s \in Sector : s # b /\ s # BM => Taken(c, b)[s] = c[s]
      /\ Taken(c, b)[b] = Zeros /\ Taken(c, b)[BM] = m
  BY <1>1, <1>4, <1>5
<1> QED BY <1>3, <1>6

(* A block for an empty place that the inode has.                          *)
LEMMA TakeDirect ==
  ASSUME NEW c \in Contents, NEW a \in [0 .. NDIRECT -> Nat], Sound(c, a),
         NEW k \in 0 .. NDIRECT, a[k] = 0, NEW b \in FreeIn(c[BM]),
         NEW d, d = Taken(c, b), NEW e, e = [a EXCEPT ![k] = b]
  PROVE  Sound(d, e) /\ Grown(c, a, d, e)
<1>1. /\ b \in Blocks /\ c[BM][b] = 0 /\ b # 0 /\ k \in Places /\ NDIRECT \in 0 .. NDIRECT
      /\ IB \in Sector /\ IB # BM /\ IB # b /\ Blocks \subseteq Sector /\ BM \notin Blocks
  <2>1. b \in Blocks /\ c[BM][b] = 0
    BY DEF FreeIn
  <2>2. k \in Places /\ NDIRECT \in 0 .. NDIRECT
    BY PlaceIs, Layout
  <2>3. IB # BM
    BY LayoutAssumption
  <2> QED BY <2>1, <2>2, <2>3, Layout
<1>2. At(c, a, k) = 0
  BY DEF At
<1>3. \A l \in Places : At(c, a, l) # b
  BY <1>1 DEF Sound
<1>4. /\ \A s \in Sector : s # b /\ s # BM => d[s] = c[s]
      /\ d[b] = Zeros /\ \A x \in Blocks : d[BM][x] = IF x = b THEN 1 ELSE c[BM][x]
  BY <1>1, TakenIs
<1>5. \A l \in 0 .. NDIRECT : e[l] = IF l = k THEN b ELSE a[l]
  OBVIOUS
<1>6. ASSUME NEW l \in Places PROVE At(d, e, l) = IF l = k THEN b ELSE At(c, a, l)
  <2>1. CASE l <= NDIRECT
    <3>1. l \in 0 .. NDIRECT
      BY <2>1, PlaceIs
    <3> QED BY <1>5, <2>1, <3>1 DEF At
  <2>2. CASE ~(l <= NDIRECT)
    <3>1. l # k /\ l - NDIRECT - 1 \in Index
      BY <2>2, PlaceIs
    <3>2. CASE k = NDIRECT
      <4>1. At(c, a, l) = 0
        BY <2>2, <3>2 DEF At
      <4>2. e[NDIRECT] = b /\ Zeros[l - NDIRECT - 1] = 0
        BY <1>5, <3>1, <3>2 DEF Zeros
      <4>3. At(d, e, l) = 0
        BY <1>1, <1>4, <2>2, <4>2 DEF At
      <4> QED BY <3>1, <4>1, <4>3
    <3>3. CASE k # NDIRECT
      <4>1. e[NDIRECT] = a[NDIRECT]
        BY <1>1, <1>5, <3>3
      <4>2. a[NDIRECT] = 0 \/ d[a[NDIRECT]] = c[a[NDIRECT]]
        <5>1. NDIRECT \in Places /\ At(c, a, NDIRECT) = a[NDIRECT]
          BY PlaceIs, Layout DEF At
        <5>2. a[NDIRECT] # b /\ (a[NDIRECT] = 0 \/ a[NDIRECT] \in Blocks)
          BY <1>3, <5>1 DEF Sound
        <5> QED BY <1>1, <1>4, <5>2
      <4> QED BY <2>2, <3>1, <4>1, <4>2 DEF At
    <3> QED BY <3>2, <3>3
  <2> QED BY <2>1, <2>2
<1>7. Sound(d, e)
  <2>1. Added(c, a, d, e, k, b)
    BY <1>4, <1>6 DEF Added
  <2> QED BY <1>1, <1>2, <2>1, NewPlace
<1>8. Grown(c, a, d, e)
  <2>1. ASSUME NEW l \in Places, At(c, a, l) # 0
        PROVE  At(d, e, l) = At(c, a, l) /\ d[At(c, a, l)] = c[At(c, a, l)]
    <3>1. At(c, a, l) \in Blocks /\ At(c, a, l) # b /\ l # k
      BY <1>2, <1>3, <2>1 DEF Sound
    <3> QED BY <1>1, <1>4, <1>6, <3>1
  <2>2. d[IB] = c[IB]
    BY <1>1, <1>4
  <2> QED BY <2>1, <2>2 DEF Grown
<1> QED BY <1>6, <1>7, <1>8

(* A block for an empty word of the indirect block.                        *)
LEMMA TakeIndirect ==
  ASSUME NEW c \in Contents, NEW a \in [0 .. NDIRECT -> Nat], Sound(c, a),
         NEW k \in Places, ~(k <= NDIRECT), NEW i, i = k - NDIRECT - 1,
         NEW t, t = a[NDIRECT], t # 0, At(c, a, k) = 0, NEW b \in FreeIn(c[BM]),
         NEW d, d = Put(Taken(c, b), t, i, b)
  PROVE  /\ Sound(d, a) /\ Grown(c, a, d, a) /\ At(d, a, k) = b
         /\ t \in Blocks /\ t # b /\ i \in Index /\ c[t][i] = 0
<1>1. /\ b \in Blocks /\ c[BM][b] = 0 /\ b # 0 /\ NDIRECT \in 0 .. NDIRECT /\ NDIRECT \in Places
      /\ IB \in Sector /\ IB # BM /\ IB # b /\ Blocks \subseteq Sector /\ BM \notin Blocks
      /\ IB \notin Blocks
  <2>1. b \in Blocks /\ c[BM][b] = 0
    BY DEF FreeIn
  <2>2. NDIRECT \in 0 .. NDIRECT /\ NDIRECT \in Places
    BY PlaceIs, Layout
  <2>3. IB # BM
    BY LayoutAssumption
  <2> QED BY <2>1, <2>2, <2>3, Layout
<1>2. \A l \in Places : At(c, a, l) # b
  BY <1>1 DEF Sound
<1>3. t = a[NDIRECT] /\ i = k - NDIRECT - 1
  OBVIOUS
<1>4. i \in Index /\ t # 0
  BY <1>3, PlaceIs
<1>5. At(c, a, NDIRECT) = t
  BY <1>3, Layout DEF At
<1>6. t \in Blocks /\ t # b /\ t \in Sector /\ t # BM /\ t # IB
  BY <1>1, <1>2, <1>4, <1>5 DEF Sound
<1>7. PICK f \in Contents : f = Taken(c, b)
  BY <1>1, ContentsAre
<1>8. /\ \A s \in Sector : s # b /\ s # BM => f[s] = c[s]
      /\ f[b] = Zeros /\ \A x \in Blocks : f[BM][x] = IF x = b THEN 1 ELSE c[BM][x]
  BY <1>1, <1>7, TakenIs
<1>9. PICK m : m = [f[t] EXCEPT ![i] = b]
  OBVIOUS
<1>10. f[t] = c[t] /\ c[t] \in [Index -> Nat]
  BY <1>6, <1>8, ContentsAre
<1>11. \A j \in Index : m[j] = IF j = i THEN b ELSE c[t][j]
  BY <1>4, <1>9, <1>10
<1>12. d = [f EXCEPT ![t] = m] /\ DOMAIN f = Sector
  BY <1>3, <1>7, <1>9 DEF Put, Contents
<1>13. d[t] = m /\ \A s \in Sector : s # t => d[s] = f[s]
  BY <1>6, <1>12
<1>14. ASSUME NEW l \in Places PROVE At(d, a, l) = IF l = k THEN b ELSE At(c, a, l)
  <2>1. CASE l <= NDIRECT
    <3>1. l # k
      BY <2>1
    <3> QED BY <2>1, <3>1 DEF At
  <2>2. CASE ~(l <= NDIRECT)
    <3>1. PICK j : j = l - NDIRECT - 1
      OBVIOUS
    <3>2. j \in Index /\ (j = i <=> l = k)
      BY <1>3, <2>2, <3>1, PlaceIs, Layout
    <3>3. At(d, a, l) = d[t][j] /\ At(c, a, l) = c[t][j]
      BY <1>3, <1>4, <2>2, <3>1 DEF At
    <3> QED BY <1>11, <1>13, <3>2, <3>3
  <2> QED BY <2>1, <2>2
<1>15. \A x \in Blocks : d[BM][x] = IF x = b THEN 1 ELSE c[BM][x]
  BY <1>6, <1>8, <1>13, Layout
<1>16. Sound(d, a)
  <2>1. Added(c, a, d, a, k, b)
    BY <1>14, <1>15 DEF Added
  <2> QED BY <2>1, NewPlace
<1>17. Grown(c, a, d, a)
  <2>1. ASSUME NEW l \in Places, At(c, a, l) # 0
        PROVE  At(d, a, l) = At(c, a, l) /\ (l # NDIRECT => d[At(c, a, l)] = c[At(c, a, l)])
    <3>1. At(c, a, l) \in Blocks /\ At(c, a, l) # b /\ l # k
      BY <1>2, <2>1 DEF Sound
    <3>2. At(d, a, l) = At(c, a, l)
      BY <1>14, <3>1
    <3>3. ASSUME l # NDIRECT PROVE d[At(c, a, l)] = c[At(c, a, l)]
      <4>1. At(c, a, l) # t
        BY <1>1, <1>5, <2>1, <3>3 DEF Sound
      <4>2. At(c, a, l) \in Sector /\ At(c, a, l) # BM
        BY <1>1, <3>1
      <4> QED BY <1>8, <1>13, <3>1, <4>1, <4>2
    <3> QED BY <3>2, <3>3
  <2>2. d[IB] = c[IB]
    BY <1>1, <1>6, <1>8, <1>13
  <2> QED BY <2>1, <2>2 DEF Grown
<1>18. c[t][i] = 0
  BY <1>3, <1>4 DEF At
<1> QED BY <1>3, <1>4, <1>6, <1>14, <1>16, <1>17, <1>18

LEMMA GrownTwice ==
  ASSUME NEW c, NEW a, NEW d, NEW e, NEW p, NEW q, Grown(c, a, d, e), Grown(d, e, p, q)
  PROVE  Grown(c, a, p, q)
BY DEF Grown

LEMMA GrownNot ==
  ASSUME NEW c, NEW a PROVE Grown(c, a, c, a)
BY DEF Grown

(* What Addr and bmap promise: the place has a block, the old one if there *)
(* was one, and the rest is as it was.                                     *)
Given(w, s, c, u, g, a, z, k, d, h, e) ==
    /\ Does(w, s, <<c, u, g, a, z>>, <<d, u, h, e, z>>)
    /\ Sound(d, e) /\ Grown(c, a, d, e) /\ At(d, e, k) = h
    /\ At(c, a, k) # 0 => d = c /\ e = a

LEMMA AddrDoes ==
  ASSUME NEW w, NEW c \in Contents, NEW u \in Seq(Sector), NEW g \in Nat,
         NEW a \in [0 .. NDIRECT -> Nat], NEW z \in Nat, addrs = a, Sound(c, a), NEW i \in 0 .. NDIRECT
  PROVE  \E d \in Contents, h \in Blocks, e \in [0 .. NDIRECT -> Nat] :
            Given(w, Addr(i), c, u, g, a, z, i, d, h, e)
<1>1. i \in Places /\ i <= NDIRECT /\ \A p, q : At(p, q, i) = q[i]
  BY PlaceIs, Layout DEF At
<1>2. CASE a[i] = 0
  <2>1. PICK b \in FreeIn(c[BM]) : b = Lowest(FreeIn(c[BM])) /\ b \in Blocks
    BY <1>1, <1>2, Room
  <2>2. PICK d \in Contents : d = Taken(c, b)
    BY <2>1, ContentsAre
  <2>3. PICK e : e = [a EXCEPT ![i] = b]
    OBVIOUS
  <2>4. b \in Nat /\ e \in [0 .. NDIRECT -> Nat] /\ e[i] = b
    BY <2>1, <2>3, Layout
  <2>5. Does(w, balloc, <<c, u, g, a, z>>, <<d, u, b, a, z>>)
    BY <2>1, <2>2, BallocDoes
  <2>6. Does(w, Do("setaddr", i), <<d, u, b, a, z>>, <<d, u, b, e, z>>)
    BY <2>3, <2>4, MemoryDoes
  <2>7. Does(w, balloc \o Do("setaddr", i), <<c, u, g, a, z>>, <<d, u, b, e, z>>)
    BY <2>5, <2>6, DoesCat
  <2>8. Addr(i) = balloc \o Do("setaddr", i)
    BY <1>2 DEF Addr
  <2>9. Sound(d, e) /\ Grown(c, a, d, e)
    BY <1>2, <2>2, <2>3, TakeDirect
  <2>10. At(d, e, i) = b /\ At(c, a, i) = 0
    BY <1>1, <1>2, <2>4
  <2>11. Given(w, Addr(i), c, u, g, a, z, i, d, b, e)
    BY <2>7, <2>8, <2>9, <2>10 DEF Given
  <2> QED BY <2>1, <2>4, <2>11
<1>3. CASE a[i] # 0
  <2>1. a[i] \in Blocks
    <3>1. At(c, a, i) = a[i]
      BY <1>1
    <3> QED BY <1>1, <1>3, <3>1 DEF Sound
  <2>2. Does(w, Do("useaddr", i), <<c, u, g, a, z>>, <<c, u, a[i], a, z>>)
    BY MemoryDoes
  <2>3. Addr(i) = Do("useaddr", i)
    BY <1>3 DEF Addr
  <2>4. Given(w, Addr(i), c, u, g, a, z, i, c, a[i], a)
    BY <1>1, <2>2, <2>3, GrownNot DEF Given
  <2> QED BY <2>1, <2>4
<1> QED BY <1>2, <1>3

(* bmap in the indirect block, t.                                          *)
LEMMA IndirectDoes ==
  ASSUME NEW w, NEW c \in Contents, NEW u \in Seq(Sector),
         NEW a \in [0 .. NDIRECT -> Nat], NEW z \in Nat, Sound(c, a),
         NEW k \in Places, ~(k <= NDIRECT), NEW t \in Blocks, a[NDIRECT] = t
  PROVE  \E d \in Contents, h \in Blocks :
            Given(w, BreadGot \o Do("look", k - NDIRECT - 1), c, u, t, a, z, k, d, h, a)
<1>1. t \in Sector /\ t \in Nat /\ t # 0 /\ BM \notin Blocks
  BY Layout
<1>2. PICK x \in Index : x = k - NDIRECT - 1
  BY PlaceIs
<1>3. PICK p, q : p = <<c, u, t, a, z>> /\ q = <<c, <<t>> \o u, t, a, z>>
  OBVIOUS
<1>4. Does(w, BreadGot, p, q)
  BY <1>1, <1>3, ReadDoes
<1>5. At(c, a, k) = c[t][x]
  BY <1>1, <1>2 DEF At
<1>6. CASE c[t][x] # 0
  <2>1. c[t][x] \in Blocks
    BY <1>5, <1>6 DEF Sound
  <2>2. PICK r \in Worlds : r = <<c, u, c[t][x], a, z>>
    BY <2>1, Layout DEF Worlds
  <2>3. Looks(x, c, t, u, t, a, z, r)
    BY <1>6, <2>2 DEF Looks
  <2>4. Does(w, Do("look", x), q, r)
    BY <1>1, <1>3, <2>3, LookDoes
  <2>5. Does(w, BreadGot \o Do("look", x), p, r)
    BY <1>4, <2>4, DoesCat
  <2>6. Given(w, BreadGot \o Do("look", x), c, u, t, a, z, k, c, c[t][x], a)
    BY <1>3, <1>5, <2>2, <2>5, GrownNot DEF Given
  <2> QED BY <1>2, <2>1, <2>6
<1>7. CASE c[t][x] = 0
  <2>1. PICK b \in FreeIn(c[BM]) : b = Lowest(FreeIn(c[BM])) /\ b \in Blocks
    BY <1>5, <1>7, Room
  <2>2. PICK d : d = Put(Taken(c, b), t, x, b)
    OBVIOUS
  <2>3. d \in Contents /\ b \in Nat
    <3>1. Taken(c, b) \in Contents /\ b \in Nat
      BY <2>1, ContentsAre, Layout
    <3> QED BY <1>1, <2>2, <3>1, ContentsAre
  <2>4. PICK r \in Worlds : r = <<d, u, b, a, z>>
    BY <2>3 DEF Worlds
  <2>5. Sound(d, a) /\ Grown(c, a, d, a) /\ t # b /\ At(d, a, k) = b
    <3>1. t # 0 /\ At(c, a, k) = 0
      BY <1>1, <1>5, <1>7
    <3> QED BY <1>2, <2>2, <3>1, TakeIndirect
  <2>6. Looks(x, c, t, u, t, a, z, r)
    BY <1>1, <1>7, <2>1, <2>2, <2>4, <2>5 DEF Looks
  <2>7. Does(w, Do("look", x), q, r)
    BY <1>1, <1>3, <2>6, LookDoes
  <2>8. Does(w, BreadGot \o Do("look", x), p, r)
    BY <1>4, <2>7, DoesCat
  <2>9. At(d, a, k) = b /\ At(c, a, k) = 0
    BY <1>5, <1>7, <2>5
  <2>10. Given(w, BreadGot \o Do("look", x), c, u, t, a, z, k, d, b, a)
    BY <1>3, <2>4, <2>5, <2>8, <2>9 DEF Given
  <2> QED BY <1>2, <2>1, <2>3, <2>10
<1> QED BY <1>6, <1>7

LEMMA CatThree ==
  ASSUME NEW r, NEW s, NEW t, IsSeq(r), IsSeq(s), IsSeq(t)
  PROVE  (r \o s) \o t = r \o (s \o t)
<1>1. PICK R, S, T : r \in Seq(R) /\ s \in Seq(S) /\ t \in Seq(T)
  BY DEF IsSeq
<1>2. PICK U : U = R \cup S \cup T
  OBVIOUS
<1>3. r \in Seq(U) /\ s \in Seq(U) /\ t \in Seq(U)
  BY <1>1, <1>2, SeqMonotonic
<1> QED BY <1>3, ConcatAssociative

LEMMA BmapDoes ==
  ASSUME NEW w, NEW c \in Contents, NEW u \in Seq(Sector), NEW g \in Nat,
         NEW a \in [0 .. NDIRECT -> Nat], NEW z \in Nat, addrs = a, Sound(c, a),
         NEW bn \in 0 .. MAXFILE - 1
  PROVE  \E d \in Contents, h \in Blocks, e \in [0 .. NDIRECT -> Nat] :
            Given(w, bmap(bn), c, u, g, a, z, Slot(bn), d, h, e)
<1>1. PICK k \in Places : k = Slot(bn) /\ (bn < NDIRECT <=> k <= NDIRECT)
  BY PlaceIs
<1>2. CASE bn < NDIRECT
  <2>1. bmap(bn) = Addr(bn) /\ k = bn /\ bn \in 0 .. NDIRECT
    BY <1>1, <1>2, Layout DEF bmap, Slot
  <2>2. PICK d \in Contents, h \in Blocks, e \in [0 .. NDIRECT -> Nat] :
            Given(w, Addr(bn), c, u, g, a, z, bn, d, h, e)
    BY <2>1, AddrDoes
  <2> QED BY <1>1, <2>1, <2>2
<1>3. CASE ~(bn < NDIRECT)
  <2>1. bn - NDIRECT = k - NDIRECT - 1 /\ ~(k <= NDIRECT)
    BY <1>1, <1>3, PlaceIs
  <2>2. PICK i : i = k - NDIRECT - 1
    OBVIOUS
  <2>3. bmap(bn) = Addr(NDIRECT) \o BreadGot \o Do("look", i)
    BY <1>3, <2>1, <2>2 DEF bmap
  <2>4. NDIRECT \in 0 .. NDIRECT
    BY Layout
  <2>5. PICK d \in Contents, t \in Blocks, e \in [0 .. NDIRECT -> Nat] :
            Given(w, Addr(NDIRECT), c, u, g, a, z, NDIRECT, d, t, e)
    BY <2>4, AddrDoes
  <2>6. /\ Does(w, Addr(NDIRECT), <<c, u, g, a, z>>, <<d, u, t, e, z>>)
        /\ Sound(d, e) /\ Grown(c, a, d, e) /\ e[NDIRECT] = t
        /\ a[NDIRECT] # 0 => d = c /\ e = a
    <3>1. \A p, q : At(p, q, NDIRECT) = q[NDIRECT]
      BY Layout DEF At
    <3> QED BY <2>5, <3>1 DEF Given
  <2>7. PICK f \in Contents, h \in Blocks :
            Given(w, BreadGot \o Do("look", i), d, u, t, e, z, k, f, h, e)
    BY <2>1, <2>2, <2>6, IndirectDoes
  <2>8. /\ Does(w, BreadGot \o Do("look", i), <<d, u, t, e, z>>, <<f, u, h, e, z>>)
        /\ Sound(f, e) /\ Grown(d, e, f, e) /\ At(f, e, k) = h
        /\ At(d, e, k) # 0 => f = d
    BY <2>7 DEF Given
  <2>9. Does(w, Addr(NDIRECT) \o (BreadGot \o Do("look", i)), <<c, u, g, a, z>>, <<f, u, h, e, z>>)
    BY <2>6, <2>8, DoesCat
  <2>10. Addr(NDIRECT) \o (BreadGot \o Do("look", i)) = bmap(bn)
    <3>1. IsSeq(Addr(NDIRECT)) /\ IsSeq(BreadGot) /\ IsSeq(Do("look", i))
      <4>1. IsSeq(Addr(NDIRECT))
        BY <2>6 DEF Does
      <4>2. BreadGot \in Seq({[op |-> "breadgot"]}) /\ Do("look", i) \in Seq({[op |-> "look", x |-> i]})
        BY DEF BreadGot, Do
      <4> QED BY <4>1, <4>2 DEF IsSeq
    <3> QED BY <2>3, <3>1, CatThree
  <2>11. Grown(c, a, f, e)
    BY <2>6, <2>8, GrownTwice
  <2>12. At(c, a, k) # 0 => f = c /\ e = a
    <3>1. At(c, a, k) # 0 => a[NDIRECT] # 0
      BY <2>1 DEF At
    <3> QED BY <2>6, <2>8, <3>1
  <2>13. Given(w, bmap(bn), c, u, g, a, z, k, f, h, e)
    BY <2>8, <2>9, <2>10, <2>11, <2>12 DEF Given
  <2> QED BY <1>1, <2>13
<1> QED BY <1>2, <1>3

-----------------------------------------------------------------------------
(* The file between calls.                                                 *)
OnDisk(c, a, z) == (\A i \in 0 .. NDIRECT : c[IB][i] = a[i]) /\ c[IB][SizeWord] = z

Kept(w, c, a, n) ==
    \A x \in 0 .. n - 1 : At(c, a, Slot(x)) # 0 /\ c[At(c, a, Slot(x))][Word] = w[x]

File(w, c, a, z) == z \in 0 .. MAXFILE /\ Sound(c, a) /\ OnDisk(c, a, z) /\ Kept(w, c, a, z)

Fine(w, q) ==
    \E c \in Contents, g \in Nat, a \in [0 .. NDIRECT -> Nat], z \in Nat :
        q = <<c, <<>>, g, a, z>> /\ File(w, c, a, z)

Only(c, d, t) == \A s \in Sector : s # t => d[s] = c[s]

SamePlaces(c, d, a) == \A k \in Places : At(d, a, k) = At(c, a, k)

KeptBut(w, c, a, n, y) ==
    \A x \in 0 .. n - 1 : x # y => At(c, a, Slot(x)) # 0 /\ c[At(c, a, Slot(x))][Word] = w[x]

LEMMA OnlyIs ==
  ASSUME NEW c \in Contents, NEW t \in Sector, NEW m
  PROVE  Only(c, [c EXCEPT ![t] = m], t) /\ [c EXCEPT ![t] = m][t] = m
BY DEF Only, Contents

(* A sector that is neither the bitmap nor the indirect block.             *)
LEMMA Aside ==
  ASSUME NEW c, NEW a, NEW t, t # BM, t # a[NDIRECT], NEW d, Only(c, d, t), Sound(c, a)
  PROVE  Sound(d, a) /\ SamePlaces(c, d, a)
<1>2. NDIRECT \in Places /\ At(c, a, NDIRECT) = a[NDIRECT] /\ Blocks \subseteq Sector /\ BM \in Sector
  BY PlaceIs, Layout DEF At
<1>3. a[NDIRECT] = 0 \/ a[NDIRECT] \in Sector
  BY <1>2 DEF Sound
<1>4. a[NDIRECT] = 0 \/ d[a[NDIRECT]] = c[a[NDIRECT]]
  BY <1>3 DEF Only
<1>5. \A k \in Places : At(d, a, k) = At(c, a, k)
  BY <1>4 DEF At
<1>6. d[BM] = c[BM]
  BY <1>2 DEF Only
<1>7. Sound(d, a)
  BY <1>5, <1>6 DEF Sound
<1> QED BY <1>5, <1>7 DEF SamePlaces

LEMMA ReadiDoes ==
  ASSUME NEW w, NEW c \in Contents, NEW g \in Nat, NEW a \in [0 .. NDIRECT -> Nat],
         NEW z \in Nat, addrs = a, File(w, c, a, z), NEW bn \in 0 .. MAXFILE - 1, bn < z
  PROVE  \E r : Does(w, readi(bn), <<c, <<>>, g, a, z>>, r) /\ Fine(w, r)
<1>1. <<>> \in Seq(Sector) /\ Sound(c, a) /\ bn \in 0 .. z - 1
  BY DEF File
<1>2. PICK d \in Contents, h \in Blocks, e \in [0 .. NDIRECT -> Nat] :
         Given(w, bmap(bn), c, <<>>, g, a, z, Slot(bn), d, h, e)
  BY <1>1, BmapDoes
<1>3. At(c, a, Slot(bn)) # 0 /\ c[At(c, a, Slot(bn))][Word] = w[bn]
  BY <1>1 DEF File, Kept
<1>4. /\ Does(w, bmap(bn), <<c, <<>>, g, a, z>>, <<c, <<>>, h, a, z>>)
      /\ c[h][Word] = w[bn]
  BY <1>2, <1>3 DEF Given
<1>5. h \in Sector /\ h \in Nat
  BY Layout
<1>6. PICK p, q, r : /\ p = <<c, <<>>, h, a, z>> /\ q = <<c, <<>>, g, a, z>>
                     /\ r = <<c, <<h>> \o <<>>, h, a, z>>
  OBVIOUS
<1>7. Does(w, BreadGot, p, r)
  BY <1>1, <1>5, <1>6, ReadDoes
<1>8. Does(w, Do("copy", bn), r, r)
  BY <1>1, <1>4, <1>5, <1>6, LookDoes
<1>9. Does(w, Release, r, p)
  BY <1>1, <1>5, <1>6, CloseDoes
<1>10. Does(w, bmap(bn) \o BreadGot, q, r)
  BY <1>4, <1>6, <1>7, DoesCat
<1>11. Does(w, bmap(bn) \o BreadGot \o Do("copy", bn), q, r)
  BY <1>8, <1>10, DoesCat
<1>12. Does(w, readi(bn), q, p)
  BY <1>9, <1>11, DoesCat DEF readi
<1>13. Fine(w, p)
  BY <1>5, <1>6 DEF Fine
<1> QED BY <1>6, <1>12, <1>13

(* The file once the block at bn has been filled.                          *)
LEMMA FillIs ==
  ASSUME NEW w, NEW c \in Contents, NEW a \in [0 .. NDIRECT -> Nat], NEW z \in Nat,
         NEW bn \in 0 .. MAXFILE - 1, NEW v \in Nat, NEW n \in Nat, Sound(c, a),
         KeptBut(w, c, a, z, bn), w[bn] = v, bn <= z, n \in {z, bn + 1}, n > bn, n <= MAXFILE,
         NEW h \in Blocks, At(c, a, Slot(bn)) = h, NEW d, Only(c, d, h), d[h] = Filled(v)
  PROVE  Sound(d, a) /\ Kept(w, d, a, n) /\ d[IB] = c[IB]
<1>1. h \in Sector /\ h # BM /\ h # 0 /\ IB \in Sector /\ h # IB /\ NDIRECT \in Places
  BY Layout, PlaceIs
<1>2. Slot(bn) \in Places /\ Slot(bn) # NDIRECT
  BY PlaceIs
<1>3. h # a[NDIRECT]
  <2>1. At(c, a, NDIRECT) = a[NDIRECT]
    BY Layout DEF At
  <2> QED BY <1>1, <1>2, <2>1 DEF Sound
<1>4. /\ \A k \in Places : At(d, a, k) = At(c, a, k)
      /\ Sound(d, a) /\ d[h] = Filled(v) /\ \A s \in Sector : s # h => d[s] = c[s]
  <2>1. Sound(d, a) /\ SamePlaces(c, d, a)
    BY <1>1, <1>3, Aside
  <2> QED BY <2>1 DEF Only, SamePlaces
<1>5. ASSUME NEW x \in 0 .. n - 1 PROVE At(d, a, Slot(x)) # 0 /\ d[At(d, a, Slot(x))][Word] = w[x]
  <2>1. CASE x = bn
    <3>1. At(d, a, Slot(x)) = h
      BY <1>2, <1>4, <2>1
    <3>2. Filled(v)[Word] = v
      BY Layout DEF Filled, Zeros
    <3> QED BY <1>1, <1>4, <2>1, <3>1, <3>2
  <2>2. CASE x # bn
    <3>0. NDIRECT \in Nat /\ NINDIRECT \in Nat
      BY Layout
    <3>1. x \in 0 .. z - 1 /\ x \in 0 .. MAXFILE - 1
      BY <2>2, <3>0 DEF MAXFILE
    <3>2. Slot(x) \in Places /\ Slot(x) # Slot(bn)
      BY <2>2, <3>1, PlaceIs
    <3>3. At(c, a, Slot(x)) # 0 /\ c[At(c, a, Slot(x))][Word] = w[x]
      BY <2>2, <3>1 DEF KeptBut
    <3>4. At(c, a, Slot(x)) # h /\ At(c, a, Slot(x)) \in Blocks
      BY <1>2, <3>2, <3>3 DEF Sound
    <3>5. At(c, a, Slot(x)) \in Sector
      BY <3>4, Layout
    <3> QED BY <1>4, <3>2, <3>3, <3>4, <3>5
  <2> QED BY <2>1, <2>2
<1> QED BY <1>1, <1>4, <1>5 DEF Kept

(* The file once its inode is on the disk.                                 *)
LEMMA UpdateIs ==
  ASSUME NEW w, NEW c \in Contents, NEW a \in [0 .. NDIRECT -> Nat], NEW n \in Nat, n <= MAXFILE,
         Sound(c, a), Kept(w, c, a, n), NEW d, Only(c, d, IB), d[IB] = Inode(c[IB], a, n)
  PROVE  File(w, d, a, n)
<1>1. IB \in Sector /\ IB # BM /\ IB \notin Blocks /\ IB # 0 /\ NDIRECT \in Places
  <2>1. IB # BM
    BY LayoutAssumption
  <2>2. IB \in Sector /\ IB \notin Blocks /\ 0 \notin Sector
    BY Layout
  <2> QED BY <2>1, <2>2, PlaceIs
<1>2. IB # a[NDIRECT]
  <2>1. At(c, a, NDIRECT) = a[NDIRECT]
    BY Layout DEF At
  <2> QED BY <1>1, <2>1 DEF Sound
<1>3. /\ \A k \in Places : At(d, a, k) = At(c, a, k)
      /\ Sound(d, a) /\ d[IB] = Inode(c[IB], a, n) /\ \A s \in Sector : s # IB => d[s] = c[s]
  <2>1. Sound(d, a) /\ SamePlaces(c, d, a)
    BY <1>1, <1>2, Aside
  <2> QED BY <2>1 DEF Only, SamePlaces
<1>4. OnDisk(d, a, n)
  <2>1. \A i \in 0 .. NDIRECT : i \in Index
    BY Layout
  <2>2. SizeWord \in Index /\ SizeWord \notin 0 .. NDIRECT
    BY Layout DEF SizeWord
  <2> QED BY <1>3, <2>1, <2>2 DEF OnDisk, Inode
<1>5. ASSUME NEW x \in 0 .. n - 1 PROVE At(d, a, Slot(x)) # 0 /\ d[At(d, a, Slot(x))][Word] = w[x]
  <2>1. x \in 0 .. MAXFILE - 1
    <3>1. NDIRECT \in Nat /\ NINDIRECT \in Nat
      BY Layout
    <3> QED BY <3>1 DEF MAXFILE
  <2>2. Slot(x) \in Places
    BY <2>1, PlaceIs
  <2>3. At(c, a, Slot(x)) # 0 /\ c[At(c, a, Slot(x))][Word] = w[x]
    BY DEF Kept
  <2>4. At(c, a, Slot(x)) \in Blocks
    BY <2>2, <2>3 DEF Sound
  <2>5. At(c, a, Slot(x)) \in Sector /\ At(c, a, Slot(x)) # IB
    BY <1>1, <2>4, Layout
  <2> QED BY <1>3, <2>2, <2>3, <2>5
<1>6. n \in 0 .. MAXFILE
  <2>1. MAXFILE \in Nat
    BY Layout DEF MAXFILE
  <2> QED BY <2>1
<1> QED BY <1>3, <1>4, <1>5, <1>6 DEF File, Kept

LEMMA WriteiDoes ==
  ASSUME NEW w, NEW y, NEW c \in Contents, NEW g \in Nat, NEW a \in [0 .. NDIRECT -> Nat],
         NEW z \in Nat, addrs = a, size = z, File(w, c, a, z),
         NEW bn \in 0 .. MAXFILE - 1, bn <= z, NEW v \in Nat,
         y[bn] = v, \A x \in 0 .. z - 1 : x # bn => y[x] = w[x]
  PROVE  \E r : Does(y, writei(bn, v), <<c, <<>>, g, a, z>>, r) /\ Fine(y, r)
<1>1. <<>> \in Seq(Sector) /\ Sound(c, a) /\ z <= MAXFILE /\ OnDisk(c, a, z)
  BY DEF File
<1>2. PICK d \in Contents, h \in Blocks, e \in [0 .. NDIRECT -> Nat] :
         Given(y, bmap(bn), c, <<>>, g, a, z, Slot(bn), d, h, e)
  BY <1>1, BmapDoes
<1>3. /\ Does(y, bmap(bn), <<c, <<>>, g, a, z>>, <<d, <<>>, h, e, z>>)
      /\ Sound(d, e) /\ Grown(c, a, d, e) /\ At(d, e, Slot(bn)) = h
      /\ At(c, a, Slot(bn)) # 0 => d = c /\ e = a
  BY <1>2 DEF Given
<1>4. h \in Sector /\ h \in Nat
  BY Layout
<1>5. PICK f : f = [d EXCEPT ![h] = Filled(v)]
  OBVIOUS
<1>6. PICK n \in Nat : n = IF bn + 1 > z THEN bn + 1 ELSE z
  OBVIOUS
<1>7. KeptBut(y, d, e, z, bn)
  <2>1. SUFFICES ASSUME NEW x \in 0 .. z - 1, x # bn
                 PROVE  At(d, e, Slot(x)) # 0 /\ d[At(d, e, Slot(x))][Word] = y[x]
    BY DEF KeptBut
  <2>2. At(c, a, Slot(x)) # 0 /\ c[At(c, a, Slot(x))][Word] = w[x] /\ y[x] = w[x]
    BY <2>1 DEF File, Kept
  <2>3. x \in 0 .. MAXFILE - 1
    <3>1. NDIRECT \in Nat /\ NINDIRECT \in Nat
      BY Layout
    <3> QED BY <1>1, <3>1 DEF MAXFILE
  <2>4. Slot(x) \in Places /\ Slot(x) # NDIRECT
    BY <2>3, PlaceIs
  <2> QED BY <1>3, <2>2, <2>4 DEF Grown
<1>8. Sound(f, e) /\ Kept(y, f, e, n) /\ n <= MAXFILE /\ f[IB] = d[IB] /\ f \in Contents
  <2>1. n <= MAXFILE /\ n \in {z, bn + 1} /\ n > bn
    <3>1. NDIRECT \in Nat /\ NINDIRECT \in Nat
      BY Layout
    <3> QED BY <1>1, <1>6, <3>1 DEF MAXFILE
  <2>2. Sound(d, e) /\ At(d, e, Slot(bn)) = h
    BY <1>3
  <2>3. Only(d, f, h) /\ f[h] = Filled(v)
    BY <1>4, <1>5, OnlyIs
  <2>4. f \in Contents
    BY <1>4, <1>5, ContentsAre, SectorWords
  <2>5. Sound(f, e) /\ Kept(y, f, e, n) /\ f[IB] = d[IB]
    BY <1>7, <2>1, <2>2, <2>3, FillIs
  <2> QED BY <2>1, <2>4, <2>5
<1>9. PICK q, p, r, s, o : /\ q = <<c, <<>>, g, a, z>> /\ p = <<d, <<>>, h, e, z>>
                           /\ r = <<d, <<h>> \o <<>>, h, e, z>> /\ s = <<f, <<h>> \o <<>>, h, e, z>>
                           /\ o = <<f, <<>>, h, e, z>>
  OBVIOUS
<1>10. Does(y, BreadGot, p, r)
  BY <1>1, <1>4, <1>9, ReadDoes
<1>11. Does(y, Do("fill", v), r, s)
  BY <1>1, <1>4, <1>5, <1>9, ChangeDoes
<1>12. Does(y, Write, s, s) /\ Does(y, Release, s, o)
  BY <1>1, <1>4, <1>8, <1>9, CloseDoes
<1>13. Does(y, bmap(bn) \o BreadGot, q, r)
  BY <1>3, <1>9, <1>10, DoesCat
<1>14. Does(y, bmap(bn) \o BreadGot \o Do("fill", v), q, s)
  BY <1>11, <1>13, DoesCat
<1>15. Does(y, bmap(bn) \o BreadGot \o Do("fill", v) \o Write, q, s)
  BY <1>12, <1>14, DoesCat
<1>16. Does(y, bmap(bn) \o BreadGot \o Do("fill", v) \o Write \o Release, q, o)
  BY <1>12, <1>15, DoesCat
<1>17. PICK t : t = IF bn + 1 > size THEN Do("grow", bn + 1) \o iupdate ELSE <<>>
  OBVIOUS
<1>18. \E j : Does(y, t, o, j) /\ Fine(y, j)
  <2>1. CASE bn + 1 > z
    <3>1. n = bn + 1 /\ t = Do("grow", n) \o iupdate
      BY <1>6, <1>17, <2>1
    <3>2. PICK i : i = [f EXCEPT ![IB] = Inode(f[IB], e, n)]
      OBVIOUS
    <3>3. File(y, i, e, n) /\ i \in Contents
      <4>1. Only(f, i, IB) /\ i[IB] = Inode(f[IB], e, n) /\ i \in Contents
        <5>1. Inode(f[IB], e, n) \in [Index -> Nat] /\ IB \in Sector
          BY <1>8, Layout, ContentsAre, SectorWords
        <5>2. PICK m : m = Inode(f[IB], e, n)
          OBVIOUS
        <5>3. m \in [Index -> Nat] /\ IB \in Sector /\ f \in Contents /\ i = [f EXCEPT ![IB] = m]
          BY <1>8, <3>2, <5>1, <5>2
        <5>4. i \in Contents
          BY <5>3, ContentsAre
        <5>5. Only(f, i, IB) /\ i[IB] = m
          BY <5>3, OnlyIs
        <5> QED BY <5>2, <5>4, <5>5
      <4>2. n <= MAXFILE /\ f \in Contents /\ Sound(f, e) /\ Kept(y, f, e, n)
        BY <1>8
      <4> QED BY <4>1, <4>2, UpdateIs
    <3>4. PICK k, j : k = <<f, <<>>, h, e, n>> /\ j = <<i, <<>>, h, e, n>>
      OBVIOUS
    <3>5. Does(y, Do("grow", n), o, k)
      <4>1. 0 \in 0 .. NDIRECT
        BY Layout
      <4> QED BY <1>1, <1>4, <1>8, <1>9, <3>4, <4>1, MemoryDoes
    <3>6. Does(y, iupdate, k, j)
      BY <1>1, <1>4, <1>8, <3>2, <3>4, ProcDoes
    <3>7. Fine(y, j)
      BY <1>4, <3>3, <3>4 DEF Fine
    <3> QED BY <3>1, <3>5, <3>6, <3>7, DoesCat
  <2>2. CASE ~(bn + 1 > z)
    <3>1. n = z /\ t = <<>> /\ bn \in 0 .. z - 1
      BY <1>6, <1>17, <2>2
    <3>2. d = c /\ e = a
      BY <1>3, <3>1 DEF File, Kept
    <3>3. OnDisk(f, e, z)
      BY <1>1, <1>8, <3>2 DEF OnDisk
    <3>4. File(y, f, e, z)
      BY <1>8, <3>1, <3>3 DEF File
    <3>5. Fine(y, o) /\ o \in Worlds
      BY <1>1, <1>4, <1>8, <1>9, <3>4 DEF Fine, Worlds
    <3> QED BY <3>1, <3>5, DoesNone
  <2> QED BY <2>1, <2>2
<1>19. PICK j : Does(y, t, o, j) /\ Fine(y, j)
  BY <1>18
<1>20. Does(y, bmap(bn) \o BreadGot \o Do("fill", v) \o Write \o Release \o t, q, j)
  BY <1>16, <1>19, DoesCat
<1>21. writei(bn, v) = bmap(bn) \o BreadGot \o Do("fill", v) \o Write \o Release \o t
  BY <1>17 DEF writei
<1> QED BY <1>9, <1>19, <1>20, <1>21

-----------------------------------------------------------------------------
(* The file cut to nothing: what the blocks at some places, K, leave when  *)
(* they are freed.                                                         *)
LEMMA FlattenDoes ==
  ASSUME NEW w, NEW n \in Nat, NEW F, F = [k \in 1 .. n |-> F[k]], NEW f, f \in [0 .. n -> Worlds],
         \A k \in 1 .. n : Does(w, F[k], f[k - 1], f[k])
  PROVE  Does(w, FlattenSeq(F), f[0], f[n])
<1>1. PICK S : S = {F[k] : k \in 1 .. n}
  OBVIOUS
<1>2. F \in [1 .. n -> S]
  BY <1>1
<1>3. F \in Seq(S) /\ Len(F) = n
  BY <1>2
<1>4. CASE n = 0
  <2>1. F = <<>>
    BY <1>3, <1>4, EmptySeq
  <2>2. FlattenSeq(F) = <<>>
    BY <1>3, <1>4, <2>1 DEF FlattenSeq
  <2>3. f[0] \in Worlds
    BY <1>4
  <2> QED BY <1>4, <2>2, <2>3, DoesNone
<1>5. CASE n # 0
  <2>1. PICK g : /\ FlattenSeq(F) = g[n] /\ g[1] = F[1]
                 /\ \A i \in 1 .. n : i # 1 => g[i] = g[i - 1] \o F[i]
    BY <1>3, <1>5, FlattenIs
  <2>2. PICK T : T = {i \in 1 .. n : Does(w, g[i], f[0], f[i])}
    OBVIOUS
  <2>3. 1 \in T
    <3>1. 1 \in 1 .. n /\ 1 - 1 = 0
      BY <1>5
    <3>2. Does(w, F[1], f[0], f[1])
      BY <3>1
    <3> QED BY <2>1, <2>2, <3>1, <3>2
  <2>4. ASSUME NEW i \in 1 .. n, i # 1, i - 1 \in T PROVE i \in T
    <3>1. Does(w, g[i - 1], f[0], f[i - 1]) /\ Does(w, F[i], f[i - 1], f[i])
      BY <2>2, <2>4
    <3>2. Does(w, g[i - 1] \o F[i], f[0], f[i])
      BY <3>1, DoesCat
    <3> QED BY <2>1, <2>2, <2>4, <3>2
  <2>5. \A i \in 1 .. n : i \in T
    BY <2>3, <2>4, SetInduct
  <2>6. n \in T
    BY <1>5, <2>5
  <2> QED BY <2>1, <2>2, <2>6
<1> QED BY <1>4, <1>5

Of(c, a, K) == {b \in Blocks : \E k \in K : At(c, a, k) = b}

Without(c, a, K) ==
    [c EXCEPT ![BM] = [i \in Index |-> IF i \in Of(c, a, K) THEN 0 ELSE c[BM][i]]]

Cleared(a, j) == [i \in 0 .. NDIRECT |-> IF i < j THEN 0 ELSE a[i]]

LEMMA WithoutIs ==
  ASSUME NEW c \in Contents, NEW a, NEW K
  PROVE  /\ Without(c, a, K) \in Contents
         /\ \A t \in Sector : t # BM => Without(c, a, K)[t] = c[t]
         /\ \A i \in Index : Without(c, a, K)[BM][i] = IF i \in Of(c, a, K) THEN 0 ELSE c[BM][i]
<1>1. PICK m : m = [i \in Index |-> IF i \in Of(c, a, K) THEN 0 ELSE c[BM][i]]
  OBVIOUS
<1>2. BM \in Sector /\ c[BM] \in [Index -> Nat]
  BY Layout, ContentsAre
<1>3. m \in [Index -> Nat]
  BY <1>1, <1>2
<1>4. Without(c, a, K) = [c EXCEPT ![BM] = m]
  BY <1>1 DEF Without
<1>5. Without(c, a, K) \in Contents
  BY <1>2, <1>3, <1>4 DEF Contents
<1>6. Only(c, Without(c, a, K), BM) /\ Without(c, a, K)[BM] = m
  BY <1>2, <1>4 DEF Only, Contents
<1> QED BY <1>1, <1>5, <1>6 DEF Only

LEMMA WithoutSame ==
  ASSUME NEW c \in Contents, NEW a, NEW K, NEW L, Of(c, a, K) = Of(c, a, L)
  PROVE  Without(c, a, K) = Without(c, a, L)
BY DEF Without

(* One place more.                                                         *)
LEMMA WithoutNext ==
  ASSUME NEW c \in Contents, NEW a, Sound(c, a), NEW K, K \subseteq Places, NEW k \in Places, k \notin K,
         NEW L, L = K \cup {k}, NEW b, b = At(c, a, k)
  PROVE  /\ b \in Blocks \cup {0}
         /\ b = 0 => Without(c, a, L) = Without(c, a, K)
         /\ b # 0 => /\ Without(c, a, K)[BM][b] = 1
                     /\ Put(Without(c, a, K), BM, b, 0) = Without(c, a, L)
<1>1. b \in Blocks \cup {0}
  BY DEF Sound
<1>2. ASSUME b = 0 PROVE Without(c, a, L) = Without(c, a, K)
  <2>1. Of(c, a, L) = Of(c, a, K)
    BY <1>2, Layout DEF Of
  <2> QED BY <2>1, WithoutSame
<1>3. ASSUME b # 0
      PROVE  /\ Without(c, a, K)[BM][b] = 1
             /\ Put(Without(c, a, K), BM, b, 0) = Without(c, a, L)
  <2>1. b \in Blocks /\ b \in Index /\ BM \in Sector
    BY <1>1, <1>3, Layout
  <2>2. b \notin Of(c, a, K)
    BY <1>3, <2>1 DEF Of, Sound
  <2>3. c[BM][b] = 1
    BY <2>1 DEF Sound
  <2>4. Of(c, a, L) = Of(c, a, K) \cup {b}
    BY <2>1 DEF Of
  <2>5. PICK d, e : d = Without(c, a, K) /\ e = Without(c, a, L)
    OBVIOUS
  <2>6. /\ d \in Contents /\ e \in Contents
        /\ \A t \in Sector : t # BM => d[t] = c[t] /\ e[t] = c[t]
        /\ \A i \in Index : d[BM][i] = IF i \in Of(c, a, K) THEN 0 ELSE c[BM][i]
        /\ \A i \in Index : e[BM][i] = IF i \in Of(c, a, L) THEN 0 ELSE c[BM][i]
    BY <2>5, WithoutIs
  <2>7. d[BM] \in [Index -> Nat] /\ e[BM] \in [Index -> Nat]
    BY <2>1, <2>6, ContentsAre
  <2>8. [d[BM] EXCEPT ![b] = 0] = e[BM]
    <3>1. PICK m : m = [d[BM] EXCEPT ![b] = 0]
      OBVIOUS
    <3>2. m \in [Index -> Nat] /\ m[b] = 0 /\ \A i \in Index : i # b => m[i] = d[BM][i]
      BY <2>1, <2>7, <3>1
    <3>3. \A i \in Index : m[i] = e[BM][i]
      BY <2>4, <2>6, <3>2
    <3> QED BY <2>7, <3>1, <3>2, <3>3
  <2>9. Put(d, BM, b, 0) = e
    <3>1. PICK f : f = [d EXCEPT ![BM] = e[BM]]
      OBVIOUS
    <3>2. f \in Contents /\ Only(d, f, BM) /\ f[BM] = e[BM]
      BY <2>1, <2>6, <2>7, <3>1 DEF Only, Contents
    <3>3. \A t \in Sector : f[t] = e[t]
      BY <2>6, <3>2 DEF Only
    <3>4. f = e
      BY <2>6, <3>2, <3>3 DEF Contents
    <3> QED BY <2>8, <3>1, <3>4 DEF Put
  <2> QED BY <2>1, <2>2, <2>3, <2>5, <2>6, <2>9
<1> QED BY <1>1, <1>2, <1>3

LEMMA WithoutNone ==
  ASSUME NEW c \in Contents, NEW a PROVE Without(c, a, {}) = c
<1>1. PICK d : d = Without(c, a, {})
  OBVIOUS
<1>2. /\ d \in Contents /\ \A t \in Sector : t # BM => d[t] = c[t]
      /\ \A i \in Index : d[BM][i] = c[BM][i]
  <2>1. Of(c, a, {}) = {}
    BY DEF Of
  <2> QED BY <1>1, <2>1, WithoutIs
<1>3. d[BM] = c[BM]
  <2>1. d[BM] \in [Index -> Nat] /\ c[BM] \in [Index -> Nat]
    BY <1>2, ContentsAre, Layout
  <2> QED BY <1>2, <2>1
<1>4. \A t \in Sector : d[t] = c[t]
  BY <1>2, <1>3
<1>5. d = c
  BY <1>2, <1>4 DEF Contents
<1> QED BY <1>1, <1>5

LEMMA ClearedIs ==
  ASSUME NEW a \in [0 .. NDIRECT -> Nat]
  PROVE  /\ Cleared(a, 0) = a
         /\ \A j \in Nat : Cleared(a, j) \in [0 .. NDIRECT -> Nat]
         /\ \A j \in 0 .. NDIRECT : /\ a[j] = 0 => Cleared(a, j + 1) = Cleared(a, j)
                                    /\ [Cleared(a, j) EXCEPT ![j] = 0] = Cleared(a, j + 1)
         /\ \A i \in 0 .. NDIRECT : Cleared(a, NDIRECT + 1)[i] = 0
<1>1. NDIRECT \in Nat
  BY Layout
<1>2. Cleared(a, 0) = a
  <2>1. \A i \in 0 .. NDIRECT : ~(i < 0)
    BY <1>1
  <2> QED BY <2>1 DEF Cleared
<1>3. \A j \in Nat : Cleared(a, j) \in [0 .. NDIRECT -> Nat]
  BY DEF Cleared
<1>4. ASSUME NEW j \in 0 .. NDIRECT
      PROVE  /\ a[j] = 0 => Cleared(a, j + 1) = Cleared(a, j)
             /\ [Cleared(a, j) EXCEPT ![j] = 0] = Cleared(a, j + 1)
  <2>1. \A i \in 0 .. NDIRECT : i < j + 1 <=> i < j \/ i = j
    BY <1>1
  <2> QED BY <2>1 DEF Cleared
<1>5. \A i \in 0 .. NDIRECT : Cleared(a, NDIRECT + 1)[i] = 0
  <2>1. \A i \in 0 .. NDIRECT : i < NDIRECT + 1
    BY <1>1
  <2> QED BY <2>1 DEF Cleared
<1> QED BY <1>2, <1>3, <1>4, <1>5

(* The direct blocks are freed.                                            *)
LEMMA DirectDoes ==
  ASSUME NEW w, NEW c \in Contents, NEW g \in Nat, NEW a \in [0 .. NDIRECT -> Nat], NEW z \in Nat,
         addrs = a, Sound(c, a), NEW D, D = [k \in 1 .. NDIRECT |-> FreeDirect(k - 1)]
  PROVE  Does(w, FlattenSeq(D), <<c, <<>>, g, a, z>>,
              <<Without(c, a, 0 .. NDIRECT - 1), <<>>, g, Cleared(a, NDIRECT), z>>)
<1>1. PICK f : f = [j \in 0 .. NDIRECT |-> <<Without(c, a, 0 .. j - 1), <<>>, g, Cleared(a, j), z>>]
  OBVIOUS
<1>2. NDIRECT \in Nat /\ <<>> \in Seq(Sector)
  BY Layout
<1>3. ASSUME NEW j \in 0 .. NDIRECT PROVE f[j] \in Worlds
  <2>1. Without(c, a, 0 .. j - 1) \in Contents
    BY WithoutIs
  <2>2. Cleared(a, j) \in [0 .. NDIRECT -> Nat]
    BY ClearedIs
  <2> QED BY <1>1, <1>2, <2>1, <2>2 DEF Worlds
<1>4. f \in [0 .. NDIRECT -> Worlds]
  BY <1>1, <1>3
<1>5. ASSUME NEW k \in 1 .. NDIRECT PROVE Does(w, D[k], f[k - 1], f[k])
  <2>1. PICK i : i = k - 1
    OBVIOUS
  <2>2. i \in 0 .. NDIRECT /\ i \in Nat /\ k = i + 1 /\ k \in 0 .. NDIRECT
    BY <1>2, <2>1
  <2>3. PICK K, L : K = 0 .. i - 1 /\ L = 0 .. k - 1
    OBVIOUS
  <2>4. L = K \cup {i} /\ i \notin K /\ K \subseteq Places /\ i \in Places /\ At(c, a, i) = a[i]
    <3>1. 0 .. NDIRECT \subseteq Places
      BY PlaceIs
    <3>2. K \subseteq 0 .. NDIRECT /\ L = K \cup {i} /\ i \notin K
      BY <1>2, <2>2, <2>3
    <3>3. i <= NDIRECT
      BY <1>2, <2>2
    <3> QED BY <2>2, <3>1, <3>2, <3>3 DEF At
  <2>5. PICK b, d, e : b = a[i] /\ d = Without(c, a, K) /\ e = Without(c, a, L)
    OBVIOUS
  <2>6. /\ b \in Blocks \cup {0}
        /\ b = 0 => e = d
        /\ b # 0 => d[BM][b] = 1 /\ Put(d, BM, b, 0) = e
    BY <2>4, <2>5, WithoutNext
  <2>7. d \in Contents /\ e \in Contents
    BY <2>5, WithoutIs
  <2>8. PICK p, q : p = Cleared(a, i) /\ q = Cleared(a, k)
    OBVIOUS
  <2>9. /\ p \in [0 .. NDIRECT -> Nat] /\ q \in [0 .. NDIRECT -> Nat]
        /\ b = 0 => q = p
        /\ [p EXCEPT ![i] = 0] = q
    <3>1. /\ a[i] = 0 => Cleared(a, i + 1) = Cleared(a, i)
          /\ [Cleared(a, i) EXCEPT ![i] = 0] = Cleared(a, i + 1)
      BY <2>2, ClearedIs
    <3>2. k \in Nat /\ Cleared(a, i) \in [0 .. NDIRECT -> Nat] /\ Cleared(a, k) \in [0 .. NDIRECT -> Nat]
      BY <2>2, ClearedIs
    <3> QED BY <2>2, <2>5, <2>8, <3>1, <3>2
  <2>10. f[k - 1] = <<d, <<>>, g, p, z>> /\ f[k] = <<e, <<>>, g, q, z>>
    BY <1>1, <2>1, <2>2, <2>3, <2>5, <2>8
  <2>11. D[k] = FreeDirect(i)
    BY <2>1
  <2>12. CASE b = 0
    <3>1. FreeDirect(i) = <<>>
      BY <2>5, <2>12 DEF FreeDirect
    <3>2. f[k] = f[k - 1] /\ f[k] \in Worlds
      BY <1>3, <2>2, <2>6, <2>9, <2>10, <2>12
    <3> QED BY <2>11, <3>1, <3>2, DoesNone
  <2>13. CASE b # 0
    <3>1. FreeDirect(i) = bfree(b) \o Do("unset", i) /\ b \in Blocks
      BY <2>5, <2>6, <2>13 DEF FreeDirect
    <3>2. Does(w, bfree(b), <<d, <<>>, g, p, z>>, <<e, <<>>, g, p, z>>)
      BY <1>2, <2>6, <2>7, <2>9, <2>13, <3>1, ProcDoes
    <3>3. Does(w, Do("unset", i), <<e, <<>>, g, p, z>>, <<e, <<>>, g, q, z>>)
      BY <1>2, <2>2, <2>7, <2>9, MemoryDoes
    <3> QED BY <2>10, <2>11, <3>1, <3>2, <3>3, DoesCat
  <2> QED BY <2>12, <2>13
<1>6. Does(w, FlattenSeq(D), f[0], f[NDIRECT])
  <2>1. D = [k \in 1 .. NDIRECT |-> D[k]]
    OBVIOUS
  <2> QED BY <1>2, <1>4, <1>5, <2>1, FlattenDoes
<1>7. f[0] = <<c, <<>>, g, a, z>>
  <2>1. 0 .. 0 - 1 = {} /\ 0 \in 0 .. NDIRECT
    BY <1>2
  <2>2. Without(c, a, {}) = c /\ Cleared(a, 0) = a
    BY WithoutNone, ClearedIs
  <2> QED BY <1>1, <2>1, <2>2
<1>8. f[NDIRECT] = <<Without(c, a, 0 .. NDIRECT - 1), <<>>, g, Cleared(a, NDIRECT), z>>
  BY <1>1, <1>2
<1> QED BY <1>6, <1>7, <1>8

Upto(j) == (0 .. NDIRECT + j) \ {NDIRECT}

LEMMA UptoIs ==
  /\ Upto(0) = 0 .. NDIRECT - 1 /\ Upto(NINDIRECT) = Places \ {NDIRECT}
  /\ \A k \in 1 .. NINDIRECT : /\ Upto(k) = Upto(k - 1) \cup {NDIRECT + k} /\ NDIRECT + k \notin Upto(k - 1)
                               /\ NDIRECT + k \in Places /\ ~(NDIRECT + k <= NDIRECT)
                               /\ (NDIRECT + k) - NDIRECT - 1 = k - 1
  /\ \A k \in 0 .. NINDIRECT : Upto(k) \subseteq Places
<1>1. NDIRECT \in Nat /\ NINDIRECT \in Nat
  BY Layout
<1>2. Upto(0) = 0 .. NDIRECT - 1
  BY <1>1 DEF Upto
<1>3. \A k \in 1 .. NINDIRECT : /\ Upto(k) = Upto(k - 1) \cup {NDIRECT + k} /\ NDIRECT + k \notin Upto(k - 1)
                                /\ NDIRECT + k \in Places /\ ~(NDIRECT + k <= NDIRECT)
                                /\ (NDIRECT + k) - NDIRECT - 1 = k - 1
  BY <1>1 DEF Upto, Places
<1> QED BY <1>1, <1>2, <1>3 DEF Upto, Places

(* The blocks the indirect block, t, speaks of are freed.                  *)
LEMMA WordsDo ==
  ASSUME NEW w, NEW c \in Contents, NEW g \in Nat, NEW a \in [0 .. NDIRECT -> Nat], Sound(c, a),
         NEW y \in [0 .. NDIRECT -> Nat], NEW z \in Nat,
         NEW t, t = a[NDIRECT], t # 0, NEW I, I = [i \in 1 .. NINDIRECT |-> Do("freeword", i - 1)]
  PROVE  Does(w, FlattenSeq(I), <<Without(c, a, Upto(0)), <<t>> \o <<>>, g, y, z>>,
              <<Without(c, a, Upto(NINDIRECT)), <<t>> \o <<>>, g, y, z>>)
<1>1. PICK f : f = [j \in 0 .. NINDIRECT |-> <<Without(c, a, Upto(j)), <<t>> \o <<>>, g, y, z>>]
  OBVIOUS
<1>2. NINDIRECT \in Nat /\ NDIRECT \in Nat /\ <<>> \in Seq(Sector)
  BY Layout
<1>3. t \in Sector /\ t # BM
  <2>1. NDIRECT \in Places /\ At(c, a, NDIRECT) = t
    BY <1>2, PlaceIs DEF At
  <2>2. t \in Blocks
    BY <2>1 DEF Sound
  <2> QED BY <2>2, Layout
<1>4. PICK u \in Seq(Sector) : u = <<t>> \o <<>>
  BY <1>2, <1>3, StackIs
<1>5. ASSUME NEW j \in 0 .. NINDIRECT PROVE f[j] \in Worlds
  <2>1. Without(c, a, Upto(j)) \in Contents
    BY WithoutIs
  <2> QED BY <1>1, <1>4, <2>1 DEF Worlds
<1>6. f \in [0 .. NINDIRECT -> Worlds]
  BY <1>1, <1>5
<1>7. ASSUME NEW k \in 1 .. NINDIRECT PROVE Does(w, I[k], f[k - 1], f[k])
  <2>1. PICK i : i = k - 1
    OBVIOUS
  <2>2. i \in 0 .. NINDIRECT /\ k \in 0 .. NINDIRECT /\ i \in 0 .. NINDIRECT - 1
    BY <1>2, <2>1
  <2>3. PICK K, L, l : K = Upto(i) /\ L = Upto(k) /\ l = NDIRECT + k
    OBVIOUS
  <2>4. /\ L = K \cup {l} /\ l \notin K /\ K \subseteq Places /\ l \in Places
        /\ ~(l <= NDIRECT) /\ l - NDIRECT - 1 = i
    BY <2>1, <2>2, <2>3, UptoIs
  <2>5. At(c, a, l) = c[t][i]
    BY <2>4 DEF At
  <2>6. PICK b, d, e : b = c[t][i] /\ d = Without(c, a, K) /\ e = Without(c, a, L)
    OBVIOUS
  <2>7. /\ b \in Blocks \cup {0}
        /\ b = 0 => e = d
        /\ b # 0 => d[BM][b] = 1 /\ Put(d, BM, b, 0) = e
    BY <2>4, <2>5, <2>6, WithoutNext
  <2>8. d \in Contents /\ e \in Contents /\ d[t][i] = b
    BY <1>3, <2>6, WithoutIs
  <2>9. f[k - 1] = <<d, <<t>> \o <<>>, g, y, z>> /\ f[k] = <<e, <<t>> \o <<>>, g, y, z>>
    BY <1>1, <2>1, <2>2, <2>3, <2>6
  <2>10. I[k] = Do("freeword", i)
    BY <2>1
  <2>11. i \in Index
    BY <2>2, Layout
  <2>12. CASE b = 0
    <3>1. e = d
      BY <2>7, <2>12
    <3>2. Does(w, Do("freeword", i), <<d, <<t>> \o <<>>, g, y, z>>, <<d, <<t>> \o <<>>, g, y, z>>)
      BY <1>2, <1>3, <2>8, <2>11, <2>12, LookDoes
    <3> QED BY <2>9, <2>10, <3>1, <3>2
  <2>13. CASE b # 0
    <3>1. b \in Blocks /\ d[BM][b] = 1 /\ Put(d, BM, b, 0) = e
      BY <2>7, <2>13
    <3>2. Does(w, Do("freeword", i), <<d, <<t>> \o <<>>, g, y, z>>, <<e, <<t>> \o <<>>, g, y, z>>)
      BY <1>2, <1>3, <2>8, <2>11, <3>1, LookDoes
    <3> QED BY <2>9, <2>10, <3>2
  <2> QED BY <2>12, <2>13
<1>8. Does(w, FlattenSeq(I), f[0], f[NINDIRECT])
  <2>1. I = [k \in 1 .. NINDIRECT |-> I[k]]
    OBVIOUS
  <2> QED BY <1>2, <1>6, <1>7, <2>1, FlattenDoes
<1>9. 0 \in 0 .. NINDIRECT /\ NINDIRECT \in 0 .. NINDIRECT
  BY <1>2
<1> QED BY <1>1, <1>8, <1>9

(* Nothing is in use once all the places are empty.                        *)
LEMMA EmptyIs ==
  ASSUME NEW c \in Contents, NEW a, Sound(c, a), NEW d, d = Without(c, a, Places),
         NEW e, \A i \in 0 .. NDIRECT : e[i] = 0
  PROVE  Sound(d, e)
<1>1. \A k \in Places : At(d, e, k) = 0
  <2>1. NDIRECT \in 0 .. NDIRECT
    BY Layout
  <2> QED BY <2>1, PlaceIs DEF At
<1>2. ASSUME NEW b \in Blocks PROVE d[BM][b] = 0
  <2>1. b \in Index
    BY Layout
  <2>2. d[BM][b] = IF b \in Of(c, a, Places) THEN 0 ELSE c[BM][b]
    BY <2>1, WithoutIs
  <2>3. b \notin Of(c, a, Places) => c[BM][b] = 0
    BY DEF Of, Sound
  <2> QED BY <2>2, <2>3
<1>3. 0 \notin Blocks
  BY Layout
<1> QED BY <1>1, <1>2, <1>3 DEF Sound

LEMMA ItruncDoes ==
  ASSUME NEW w, NEW c \in Contents, NEW g \in Nat, NEW a \in [0 .. NDIRECT -> Nat], NEW z \in Nat,
         addrs = a, Sound(c, a)
  PROVE  \E r : Does(w, itrunc, <<c, <<>>, g, a, z>>, r) /\ Fine(w, r)
<1>1. PICK D : D = [k \in 1 .. NDIRECT |-> FreeDirect(k - 1)]
  OBVIOUS
<1>2. PICK I : I = [i \in 1 .. NINDIRECT |-> Do("freeword", i - 1)]
  OBVIOUS
<1>3. PICK t : t = a[NDIRECT]
  OBVIOUS
<1>4. PICK v : v = Bread(t) \o FlattenSeq(I) \o Release \o bfree(t) \o Do("unset", NDIRECT)
  OBVIOUS
<1>5. PICK s : s = IF t = 0 THEN <<>> ELSE v
  OBVIOUS
<1>6. itrunc = FlattenSeq(D) \o s \o Do("grow", 0) \o iupdate
  BY <1>1, <1>2, <1>3, <1>4, <1>5, Zenon DEF itrunc
<1>7. PICK d, e, x, y : /\ d = Without(c, a, Upto(0)) /\ e = Without(c, a, Places)
                        /\ x = Cleared(a, NDIRECT) /\ y = Cleared(a, NDIRECT + 1)
  OBVIOUS
<1>8. d \in Contents /\ e \in Contents
  BY <1>7, WithoutIs
<1>9. NDIRECT \in Nat /\ NDIRECT + 1 \in Nat /\ NDIRECT \in 0 .. NDIRECT /\ <<>> \in Seq(Sector)
  BY Layout
<1>10. x \in [0 .. NDIRECT -> Nat] /\ y \in [0 .. NDIRECT -> Nat]
  BY <1>7, <1>9, ClearedIs
<1>11. /\ t = 0 => y = x
       /\ [x EXCEPT ![NDIRECT] = 0] = y
  <2>1. /\ a[NDIRECT] = 0 => Cleared(a, NDIRECT + 1) = Cleared(a, NDIRECT)
        /\ [Cleared(a, NDIRECT) EXCEPT ![NDIRECT] = 0] = Cleared(a, NDIRECT + 1)
    BY <1>9, ClearedIs
  <2> QED BY <1>3, <1>7, <2>1
<1>12. Does(w, FlattenSeq(D), <<c, <<>>, g, a, z>>, <<d, <<>>, g, x, z>>)
  <2>1. Upto(0) = 0 .. NDIRECT - 1
    BY UptoIs
  <2> QED BY <1>1, <1>7, <2>1, DirectDoes
<1>13. Does(w, s, <<d, <<>>, g, x, z>>, <<e, <<>>, g, y, z>>)
  <2>1. NDIRECT \in Places /\ At(c, a, NDIRECT) = t
    BY <1>3, <1>9, PlaceIs DEF At
  <2>2. CASE t = 0
    <3>1. Of(c, a, Upto(0)) = Of(c, a, Places)
      <4>1. ASSUME NEW k \in Places, At(c, a, k) # 0 PROVE k \in Upto(0)
        <5>1. k <= NDIRECT /\ k # NDIRECT
          BY <1>3, <2>1, <2>2, <4>1 DEF At
        <5>2. k \in 0 .. NDIRECT
          BY <5>1, PlaceIs
        <5> QED BY <1>9, <5>1, <5>2 DEF Upto
      <4>2. Upto(0) \subseteq Places
        <5>1. 0 \in 0 .. NINDIRECT
          BY Layout
        <5> QED BY <5>1, UptoIs
      <4> QED BY <4>1, <4>2, Layout DEF Of
    <3>2. d = e
      BY <1>7, <3>1, WithoutSame
    <3>3. s = <<>> /\ y = x
      BY <1>5, <1>11, <2>2
    <3>4. <<d, <<>>, g, x, z>> \in Worlds
      BY <1>8, <1>9, <1>10 DEF Worlds
    <3> QED BY <3>2, <3>3, <3>4, DoesNone
  <2>3. CASE t # 0
    <3>1. t \in Blocks /\ t \in Sector
      BY <2>1, <2>3, Layout DEF Sound
    <3>2. PICK f : f = Without(c, a, Upto(NINDIRECT))
      OBVIOUS
    <3>3. f \in Contents
      BY <3>2, WithoutIs
    <3>4. Does(w, FlattenSeq(I), <<d, <<t>> \o <<>>, g, x, z>>, <<f, <<t>> \o <<>>, g, x, z>>)
      BY <1>2, <1>3, <1>7, <1>10, <2>3, <3>2, WordsDo
    <3>5. f[BM][t] = 1 /\ Put(f, BM, t, 0) = e
      <4>1. PICK K : K = Upto(NINDIRECT)
        OBVIOUS
      <4>2. K = Places \ {NDIRECT} /\ K \subseteq Places /\ NDIRECT \notin K /\ Places = K \cup {NDIRECT}
        BY <2>1, <4>1, UptoIs
      <4> QED BY <1>7, <2>1, <2>3, <3>2, <4>1, <4>2, WithoutNext
    <3>6. Does(w, Bread(t), <<d, <<>>, g, x, z>>, <<d, <<t>> \o <<>>, g, x, z>>)
      BY <1>8, <1>9, <1>10, <3>1, ReadDoes
    <3>7. Does(w, Release, <<f, <<t>> \o <<>>, g, x, z>>, <<f, <<>>, g, x, z>>)
      BY <1>9, <1>10, <3>1, <3>3, CloseDoes
    <3>8. Does(w, bfree(t), <<f, <<>>, g, x, z>>, <<e, <<>>, g, x, z>>)
      BY <1>9, <1>10, <3>1, <3>3, <3>5, ProcDoes
    <3>9. Does(w, Do("unset", NDIRECT), <<e, <<>>, g, x, z>>, <<e, <<>>, g, y, z>>)
      BY <1>8, <1>9, <1>10, <1>11, MemoryDoes
    <3>10. Does(w, Bread(t) \o FlattenSeq(I), <<d, <<>>, g, x, z>>, <<f, <<t>> \o <<>>, g, x, z>>)
      BY <3>4, <3>6, DoesCat
    <3>11. Does(w, Bread(t) \o FlattenSeq(I) \o Release, <<d, <<>>, g, x, z>>, <<f, <<>>, g, x, z>>)
      BY <3>7, <3>10, DoesCat
    <3>12. Does(w, Bread(t) \o FlattenSeq(I) \o Release \o bfree(t), <<d, <<>>, g, x, z>>, <<e, <<>>, g, x, z>>)
      BY <3>8, <3>11, DoesCat
    <3>13. Does(w, v, <<d, <<>>, g, x, z>>, <<e, <<>>, g, y, z>>)
      BY <1>4, <3>9, <3>12, DoesCat
    <3> QED BY <1>5, <2>3, <3>13
  <2> QED BY <2>2, <2>3
<1>14. Does(w, Do("grow", 0), <<e, <<>>, g, y, z>>, <<e, <<>>, g, y, 0>>)
  BY <1>8, <1>9, <1>10, MemoryDoes
<1>15. PICK h : h = [e EXCEPT ![IB] = Inode(e[IB], y, 0)]
  OBVIOUS
<1>16. Does(w, iupdate, <<e, <<>>, g, y, 0>>, <<h, <<>>, g, y, 0>>)
  BY <1>8, <1>9, <1>10, <1>15, ProcDoes
<1>17. File(w, h, y, 0) /\ h \in Contents
  <2>1. PICK m : m = Inode(e[IB], y, 0)
    OBVIOUS
  <2>2. m \in [Index -> Nat] /\ IB \in Sector /\ h = [e EXCEPT ![IB] = m]
    BY <1>8, <1>10, <1>15, <2>1, Layout, ContentsAre, SectorWords
  <2>3. h \in Contents /\ Only(e, h, IB) /\ h[IB] = m
    BY <1>8, <2>2 DEF Only, Contents
  <2>4. Sound(e, y)
    <3>1. \A i \in 0 .. NDIRECT : y[i] = 0
      BY <1>7, ClearedIs
    <3> QED BY <1>7, <3>1, EmptyIs
  <2>5. Kept(w, e, y, 0)
    BY DEF Kept
  <2>6. 0 <= MAXFILE
    BY Layout DEF MAXFILE
  <2> QED BY <1>8, <1>10, <2>1, <2>3, <2>4, <2>5, <2>6, UpdateIs
<1>18. Does(w, FlattenSeq(D) \o s, <<c, <<>>, g, a, z>>, <<e, <<>>, g, y, z>>)
  BY <1>12, <1>13, DoesCat
<1>19. Does(w, FlattenSeq(D) \o s \o Do("grow", 0), <<c, <<>>, g, a, z>>, <<e, <<>>, g, y, 0>>)
  BY <1>14, <1>18, DoesCat
<1>20. Does(w, FlattenSeq(D) \o s \o Do("grow", 0) \o iupdate, <<c, <<>>, g, a, z>>, <<h, <<>>, g, y, 0>>)
  BY <1>16, <1>19, DoesCat
<1>21. PICK r : r = <<h, <<>>, g, y, 0>>
  OBVIOUS
<1>22. Fine(w, r)
  BY <1>10, <1>17, <1>21 DEF Fine
<1> QED BY <1>6, <1>20, <1>21, <1>22

LEMMA IgetDoes ==
  ASSUME NEW w, NEW q, Fine(w, q) PROVE Does(w, iget, q, q)
<1>1. PICK c \in Contents, g \in Nat, a \in [0 .. NDIRECT -> Nat], z \in Nat :
         q = <<c, <<>>, g, a, z>> /\ File(w, c, a, z)
  BY DEF Fine
<1>2. PICK b, y : b = [i \in 0 .. NDIRECT |-> c[IB][i]] /\ y = c[IB][SizeWord]
  OBVIOUS
<1>3. b = a /\ y = z
  BY <1>1, <1>2 DEF File, OnDisk
<1>4. <<>> \in Seq(Sector)
  OBVIOUS
<1>5. Does(w, iget, <<c, <<>>, g, a, z>>, <<c, <<>>, g, b, y>>)
  BY <1>2, <1>4, ProcDoes
<1> QED BY <1>1, <1>3, <1>5

-----------------------------------------------------------------------------
(* The invariant.  What there is left to do of the call takes the second   *)
(* machine from where it is to a file as it has to be between calls.  c is *)
(* what the sectors hold as the cache shows them, u the sectors of the     *)
(* buffers held; each of these but one being read has its sector's data.   *)
Shows(c) ==
    /\ \A b \in Buf : valid[b] /\ sector[b] \in Sector => c[sector[b]] = data[b]
    /\ \A s \in Sector : (\A b \in Buf : sector[b] = s => ~valid[b]) => c[s] = disk[s]

Holds(u) ==
    /\ u \in Seq(Sector) /\ Len(u) = Len(held)
    /\ \A i \in 1 .. Len(held) : u[i] = sector[held[i]]

Reading(b) == b = Top /\ io.at \in {"issued", "asleep"} /\ idequeue # <<>> /\ ~dirty[b]

HeldValid == \A i \in 1 .. Len(held) : valid[held[i]] \/ (i = 1 /\ Reading(held[i]))

World(c, u) == <<c, u, got, addrs, size>>

Onward(c, u, r) ==
    /\ c \in Contents /\ Shows(c) /\ Holds(u)
    /\ Does(written, todo, World(c, u), r) /\ Fine(written, r)

FInv ==
    /\ DOMAIN written = 0 .. MAXFILE - 1
    /\ ~lost => HeldValid /\ \E c, u, r : Onward(c, u, r)

LEMMA DoesWorlds ==
  ASSUME NEW w, NEW s, NEW q, NEW r, Does(w, s, q, r) PROVE q \in Worlds /\ r \in Worlds
<1>1. PICK f : Deeds(w, s, f, q, r)
  BY DEF Does
<1>2. Len(s) \in Nat
  BY SeqIs DEF Does
<1>3. 0 \in 0 .. Len(s) /\ Len(s) \in 0 .. Len(s)
  BY <1>2
<1> QED BY <1>1, <1>3 DEF Deeds

LEMMA NoneDoes ==
  ASSUME NEW w, NEW q, NEW r, Does(w, <<>>, q, r) PROVE q = r
<1>1. Len(<<>>) = 0
  BY EmptySeq
<1> QED BY <1>1 DEF Does, Deeds

LEMMA StackOf ==
  ASSUME NEW u \in Seq(Sector), u # <<>>
  PROVE  Head(u) \in Sector /\ Tail(u) \in Seq(Sector) /\ u = <<Head(u)>> \o Tail(u)
<1>1. Head(u) \in Sector /\ Tail(u) \in Seq(Sector)
  OBVIOUS
<1>2. PICK h, t : h = Head(u) /\ t = Tail(u)
  OBVIOUS
<1>3. PICK v : v = <<h>> \o t
  OBVIOUS
<1>4. v \in Seq(Sector) /\ v # <<>> /\ Head(v) = h /\ Tail(v) = t
  BY <1>1, <1>2, <1>3, StackIs
<1>5. v = u
  <2>1. /\ Len(u) \in Nat /\ Len(u) # 0 /\ Len(v) \in Nat /\ Len(v) # 0
        /\ Len(t) = Len(u) - 1 /\ Len(t) = Len(v) - 1
        /\ u[1] = h /\ v[1] = h
        /\ \A i \in 1 .. Len(t) : t[i] = u[i + 1] /\ t[i] = v[i + 1]
    <3>1. ASSUME NEW s \in Seq(Sector), s # <<>>, Head(s) = h, Tail(s) = t
          PROVE  /\ Len(s) \in Nat /\ Len(s) # 0 /\ Len(t) = Len(s) - 1 /\ s[1] = h
                 /\ \A i \in 1 .. Len(t) : t[i] = s[i + 1]
      BY <3>1, HeadTailProperties, EmptySeq, LenProperties
    <3> QED BY <1>2, <1>4, <3>1
  <2>2. Len(u) = Len(v)
    BY <2>1
  <2>3. ASSUME NEW i \in 1 .. Len(u) PROVE v[i] = u[i]
    <3>1. CASE i = 1
      BY <2>1, <3>1
    <3>2. CASE i # 1
      <4>1. i - 1 \in 1 .. Len(t) /\ (i - 1) + 1 = i
        BY <2>1, <3>2
      <4> QED BY <2>1, <4>1
    <3> QED BY <3>1, <3>2
  <2> QED BY <1>4, <2>2, <2>3, SeqEqual
<1> QED BY <1>1, <1>2, <1>3, <1>5

LEMMA HoldsTop ==
  ASSUME CInv, NEW u, Holds(u)
  PROVE  /\ u = <<>> <=> held = <<>>
         /\ held # <<>> => Head(u) = sector[Top] /\ Top \in Buf
<1>1. held \in Seq(Buf) /\ u \in Seq(Sector) /\ Len(u) = Len(held)
  BY DEF CInv, BuffersAre, Holds
<1>2. u = <<>> <=> held = <<>>
  BY <1>1
<1>3. ASSUME held # <<>> PROVE Head(u) = sector[Top] /\ Top \in Buf
  <2>1. 1 \in 1 .. Len(held) /\ Head(u) = u[1] /\ Top = held[1] /\ Top \in Buf
    BY <1>1, <1>3 DEF Top
  <2> QED BY <2>1 DEF Holds
<1> QED BY <1>2, <1>3

(* What is known when a step of the call is taken.                         *)
LEMMA Standing ==
  ASSUME CInv, FInv, ~lost, NEW f, Now(f)
  PROVE  \E c, u, m, r :
            /\ Onward(c, u, r) /\ World(c, u) \in Worlds /\ m \in Worlds
            /\ Deed(written, f, Arg, World(c, u), m) /\ Does(written, Rest, m, r)
            /\ \A i \in 1 .. Len(held) : valid[held[i]]
            /\ u # <<>> => /\ held # <<>> /\ Top \in Buf /\ valid[Top]
                           /\ Head(u) = sector[Top] /\ c[Head(u)] = data[Top]
<1>1. todo # <<>> /\ io.at = "none" /\ Head(todo).op = f /\ Rest = Tail(todo) /\ Arg = Head(todo).x
  BY DEF Now, Rest, Arg
<1>2. PICK c, u, r : Onward(c, u, r)
  BY DEF FInv
<1>3. Does(written, todo, World(c, u), r)
  BY <1>2 DEF Onward
<1>4. PICK m \in Worlds : Deed(written, f, Arg, World(c, u), m) /\ Does(written, Rest, m, r)
  BY <1>1, <1>3, DoesFirst
<1>5. World(c, u) \in Worlds
  BY <1>3, DoesWorlds
<1>6. \A i \in 1 .. Len(held) : valid[held[i]]
  BY <1>1 DEF FInv, HeldValid, Reading
<1>7. ASSUME u # <<>>
      PROVE  /\ held # <<>> /\ Top \in Buf /\ valid[Top]
             /\ Head(u) = sector[Top] /\ c[Head(u)] = data[Top]
  <2>1. Holds(u) /\ Shows(c) /\ u \in Seq(Sector)
    BY <1>2 DEF Onward, Holds
  <2>2. held # <<>> /\ Top \in Buf /\ Head(u) = sector[Top]
    BY <1>7, <2>1, HoldsTop
  <2>3. held \in Seq(Buf) /\ 1 \in 1 .. Len(held) /\ Top = held[1]
    BY <2>2, HeldIs DEF CInv, BuffersAre
  <2>4. valid[Top]
    BY <1>6, <2>3
  <2>5. Head(u) \in Sector
    BY <1>7, <2>1, StackOf
  <2> QED BY <2>1, <2>2, <2>4, <2>5 DEF Shows
<1> QED BY <1>2, <1>4, <1>5, <1>6, <1>7

LEMMA WorldIs ==
  ASSUME NEW c, NEW u, World(c, u) \in Worlds
  PROVE  /\ c \in Contents /\ u \in Seq(Sector) /\ got \in Nat
         /\ addrs \in [0 .. NDIRECT -> Nat] /\ size \in Nat
         /\ World(c, u)[1] = c /\ World(c, u)[2] = u /\ World(c, u)[3] = got
         /\ World(c, u)[4] = addrs /\ World(c, u)[5] = size
BY DEF World, Worlds

-----------------------------------------------------------------------------
(* Steps that leave the buffers alone.                                     *)
LEMMA QuietStep ==
  ASSUME FInv, ~lost, NEW c, NEW u, NEW r, c \in Contents, Shows(c), Holds(u), HeldValid,
         UNCHANGED <<sector, valid, dirty, data, disk, idequeue, io, held, written, lost>>,
         Does(written, todo', <<c, u, got', addrs', size'>>, r), Fine(written, r)
  PROVE  FInv'
<1>1. Shows(c)' /\ Holds(u)' /\ HeldValid'
  BY DEF Shows, Holds, HeldValid, Reading, Top
<1>2. Onward(c, u, r)'
  BY <1>1 DEF Onward, World
<1> QED BY <1>1, <1>2 DEF FInv

(* A step that changes what is in the latest buffer.                       *)
LEMMA TopStep ==
  ASSUME CInv, FInv, ~lost, NEW c, NEW u, NEW r, NEW t, NEW m, c \in Contents, Shows(c), Holds(u),
         \A i \in 1 .. Len(held) : valid[held[i]],
         held # <<>>, t = sector[Top], t \in Sector, m \in [Index -> Nat],
         data' = [data EXCEPT ![Top] = m],
         UNCHANGED <<sector, valid, dirty, disk, idequeue, io, held, written, lost>>,
         Does(written, todo', <<[c EXCEPT ![t] = m], u, got', addrs', size'>>, r), Fine(written, r)
  PROVE  FInv'
<1>1. PICK d : d = [c EXCEPT ![t] = m]
  OBVIOUS
<1>2. d \in Contents /\ Only(c, d, t) /\ d[t] = m
  BY <1>1 DEF Only, Contents
<1>3. Top \in Buf /\ valid[Top] /\ DOMAIN data = Buf
  <2>1. held \in Seq(Buf) /\ 1 \in 1 .. Len(held) /\ Top = held[1] /\ Top \in Buf
    BY HeldIs DEF CInv, BuffersAre
  <2> QED BY <2>1 DEF CInv, BuffersAre
<1>4. data'[Top] = m /\ \A b \in Buf : b # Top => data'[b] = data[b]
  BY <1>3
<1>5. Shows(d)'
  <2>1. ASSUME NEW b \in Buf, valid[b], sector[b] \in Sector PROVE d[sector[b]] = data'[b]
    <3>1. CASE b = Top
      BY <1>2, <1>4, <3>1
    <3>2. CASE b # Top
      <4>1. sector[b] # t
        <5>1. t # NoDev
          BY Sizes
        <5> QED BY <1>3, <3>2, <5>1 DEF CInv, OneBuffer
      <4> QED BY <1>2, <1>4, <2>1, <3>2, <4>1 DEF Only, Shows
    <3> QED BY <3>1, <3>2
  <2>2. ASSUME NEW s \in Sector, \A b \in Buf : sector[b] = s => ~valid[b] PROVE d[s] = disk[s]
    <3>1. s # t
      BY <1>3, <2>2
    <3> QED BY <1>2, <2>2, <3>1 DEF Only, Shows
  <2> QED BY <2>1, <2>2 DEF Shows
<1>6. Holds(u)' /\ HeldValid'
  BY DEF Holds, HeldValid
<1>7. Onward(d, u, r)'
  BY <1>1, <1>2, <1>5, <1>6 DEF Onward, World
<1> QED BY <1>6, <1>7 DEF FInv

LEMMA FReadStep ==
  ASSUME CInv, FInv, NEW f \in {"bread", "breadgot"}, Now(f), NEW s, Read(s),
         s = IF f = "bread" THEN Arg ELSE got
  PROVE  FInv'
<1>1. CASE lost \/ lost'
  <2>1. lost' /\ written' = written
    BY <1>1 DEF Read
  <2> QED BY <2>1 DEF FInv
<1>2. CASE ~lost /\ ~lost'
  <2>1. PICK c, u, m, r :
            /\ Onward(c, u, r) /\ World(c, u) \in Worlds /\ m \in Worlds
            /\ Deed(written, f, Arg, World(c, u), m) /\ Does(written, Rest, m, r)
            /\ \A i \in 1 .. Len(held) : valid[held[i]]
    BY <1>2, Standing
  <2>2. c \in Contents /\ u \in Seq(Sector) /\ Shows(c) /\ Holds(u) /\ Fine(written, r)
    BY <2>1, WorldIs DEF Onward
  <2>3. s \in Sector /\ m = <<c, <<s>> \o u, got, addrs, size>>
    <3>1. InMemory(f, Arg, World(c, u), m)
      BY <2>1 DEF Deed
    <3> QED BY <2>1, <3>1, WorldIs DEF InMemory
  <2>4. PICK b \in Buf : /\ BreadHit(b, s) \/ BreadMiss(b, s)
                         /\ held' = <<b>> \o held
                         /\ sector'[b] # sector[b] => ~Contains(held, b)
    BY <1>2 DEF Read
  <2>5. todo' = Rest /\ UNCHANGED <<addrs, size, got, written>>
    BY DEF Read
  <2>6. idequeue = <<>> /\ io.at = "none" /\ (\A e \in Buf : ~dirty[e]) /\ \A e \in Buf : Exact(e)
    <3>1. f # "bwrite"
      OBVIOUS
    <3> QED BY <3>1, NowIs, NowLeads
  <2>7. /\ held \in Seq(Buf) /\ held' \in Seq(Buf) /\ Len(held') = Len(held) + 1 /\ Len(held) \in Nat
        /\ held'[1] = b /\ \A i \in 1 .. Len(held) : held'[i + 1] = held[i]
    <3>1. held \in Seq(Buf)
      BY DEF CInv, BuffersAre
    <3> QED BY <2>4, <3>1
  <2>8. PICK v : v = <<s>> \o u
    OBVIOUS
  <2>9. /\ v \in Seq(Sector) /\ Len(v) = Len(u) + 1 /\ v[1] = s
        /\ \A i \in 1 .. Len(u) : v[i + 1] = u[i]
    BY <2>2, <2>3, <2>8
  <2>10. /\ sector'[b] = s /\ ~dirty'[b]
         /\ valid'[b] \/ (io'.at = "issued" /\ idequeue' # <<>>)
         /\ \A i \in 1 .. Len(held) : sector'[held[i]] = sector[held[i]] /\ valid'[held[i]] = valid[held[i]]
         /\ Shows(c)'
    <3>1. CASE BreadHit(b, s)
      <4>1. sector[b] = s /\ Iderw(b, valid[b], dirty[b]) /\ UNCHANGED <<sector, valid, dirty, data, disk>>
        BY <3>1 DEF BreadHit, Cached
      <4>2. valid[b] \/ (io'.at = "issued" /\ idequeue' = Append(idequeue, b))
        BY <4>1 DEF Iderw
      <4>3. Append(idequeue, b) # <<>>
        BY <2>6
      <4>4. Shows(c)'
        BY <2>2, <4>1 DEF Shows
      <4> QED BY <2>6, <4>1, <4>2, <4>3, <4>4
    <3>2. CASE BreadMiss(b, s)
      <4>1. /\ Cached(s) = {} /\ sector' = [sector EXCEPT ![b] = s]
            /\ valid' = [valid EXCEPT ![b] = FALSE] /\ dirty' = [dirty EXCEPT ![b] = FALSE]
            /\ Iderw(b, valid'[b], dirty'[b]) /\ UNCHANGED <<data, disk>>
        BY <3>2 DEF BreadMiss, FlagsCleared
      <4>2. /\ sector'[b] = s /\ ~valid'[b] /\ ~dirty'[b]
            /\ \A e \in Buf : e # b => sector'[e] = sector[e] /\ valid'[e] = valid[e]
        BY <4>1 DEF CInv, BuffersAre
      <4>3. \A e \in Buf : sector[e] # s
        BY <4>1 DEF Cached
      <4>4. \A i \in 1 .. Len(held) : held[i] \in Buf /\ held[i] # b
        BY <2>4, <2>7, <4>2, <4>3 DEF Contains
      <4>5. io'.at = "issued" /\ idequeue' # <<>>
        <5>1. io' = [at |-> "issued", b |-> b] /\ idequeue' = Append(idequeue, b)
          BY <4>1, <4>2 DEF Iderw
        <5>2. Append(idequeue, b) # <<>>
          BY <2>6
        <5> QED BY <5>1, <5>2
      <4>6. Shows(c)'
        <5>1. ASSUME NEW e \in Buf, valid'[e], sector'[e] \in Sector PROVE c[sector'[e]] = data'[e]
          BY <2>2, <4>1, <4>2, <5>1 DEF Shows
        <5>2. ASSUME NEW t \in Sector, \A e \in Buf : sector'[e] = t => ~valid'[e] PROVE c[t] = disk[t]
          <6>1. CASE \E e \in Buf : sector[e] = t /\ valid[e]
            <7>1. sector[b] = t /\ valid[b]
              BY <4>2, <5>2, <6>1
            <7> QED BY <2>2, <2>6, <7>1 DEF Shows, Exact
          <6>2. CASE ~\E e \in Buf : sector[e] = t /\ valid[e]
            BY <2>2, <6>2 DEF Shows
          <6> QED BY <6>1, <6>2
        <5> QED BY <4>1, <5>1, <5>2 DEF Shows
      <4> QED BY <4>2, <4>4, <4>5, <4>6
    <3> QED BY <2>4, <3>1, <3>2
  <2>11. Holds(v)'
    <3>1. Len(u) = Len(held) /\ \A i \in 1 .. Len(held) : u[i] = sector[held[i]]
      BY <2>2 DEF Holds
    <3>2. ASSUME NEW i \in 1 .. Len(held') PROVE v[i] = sector'[held'[i]]
      <4>1. CASE i = 1
        BY <2>7, <2>9, <2>10, <4>1
      <4>2. CASE i # 1
        <5>1. PICK j : j = i - 1
          OBVIOUS
        <5>2. j \in 1 .. Len(held) /\ j + 1 = i
          BY <2>7, <4>2, <5>1
        <5> QED BY <2>7, <2>9, <2>10, <3>1, <5>2
      <4> QED BY <4>1, <4>2
    <3> QED BY <2>7, <2>9, <3>1, <3>2 DEF Holds
  <2>12. HeldValid'
    <3>1. ASSUME NEW i \in 1 .. Len(held') PROVE valid'[held'[i]] \/ (i = 1 /\ Reading(held[i])')
      <4>1. CASE i = 1
        <5>1. held'[1] = Top'
          BY <2>4, HeldIs, <2>7 DEF Top
        <5> QED BY <2>7, <2>10, <4>1, <5>1 DEF Reading
      <4>2. CASE i # 1
        <5>1. PICK j : j = i - 1
          OBVIOUS
        <5>2. j \in 1 .. Len(held) /\ j + 1 = i
          BY <2>7, <4>2, <5>1
        <5> QED BY <2>1, <2>7, <2>10, <5>2
      <4> QED BY <4>1, <4>2
    <3> QED BY <3>1 DEF HeldValid
  <2>13. Onward(c, v, r)'
    BY <2>1, <2>2, <2>3, <2>5, <2>8, <2>10, <2>11 DEF Onward, World
  <2>14. DOMAIN written' = 0 .. MAXFILE - 1
    BY <2>5 DEF FInv
  <2> QED BY <2>12, <2>13, <2>14 DEF FInv
<1> QED BY <1>1, <1>2

LEMMA FWriteStep == ASSUME CInv, FInv, ~lost, StepWrite PROVE FInv'
<1>1. Now("bwrite") /\ Bwrite(Top) /\ todo' = Rest /\ UNCHANGED <<addrs, size, held, got, written, lost>>
  BY DEF StepWrite
<1>2. PICK c, u, m, r :
          /\ Onward(c, u, r) /\ World(c, u) \in Worlds /\ m \in Worlds
          /\ Deed(written, "bwrite", Arg, World(c, u), m) /\ Does(written, Rest, m, r)
          /\ \A i \in 1 .. Len(held) : valid[held[i]]
  BY <1>1, Standing
<1>3. c \in Contents /\ u \in Seq(Sector) /\ Shows(c) /\ Holds(u) /\ Fine(written, r)
  BY <1>2, WorldIs DEF Onward
<1>4. m = World(c, u)
  BY <1>2 DEF Deed, TopOps, OnTop
<1>5. UNCHANGED <<sector, valid, data, disk>>
  BY <1>1 DEF Bwrite
<1>6. Shows(c)' /\ Holds(u)' /\ HeldValid'
  BY <1>1, <1>2, <1>3, <1>5 DEF Shows, Holds, HeldValid
<1>7. Onward(c, u, r)'
  BY <1>1, <1>2, <1>3, <1>4, <1>6 DEF Onward, World
<1> QED BY <1>1, <1>6, <1>7 DEF FInv

LEMMA FReleaseStep == ASSUME CInv, FInv, ~lost, StepRelease PROVE FInv'
<1>1. /\ Now("brelse") /\ Brelse(Top) /\ held' = Tail(held) /\ todo' = Rest
      /\ UNCHANGED <<addrs, size, got, written, lost>>
  BY DEF StepRelease
<1>2. PICK c, u, m, r :
          /\ Onward(c, u, r) /\ World(c, u) \in Worlds /\ m \in Worlds
          /\ Deed(written, "brelse", Arg, World(c, u), m) /\ Does(written, Rest, m, r)
          /\ \A i \in 1 .. Len(held) : valid[held[i]]
          /\ u # <<>> => held # <<>>
  BY <1>1, Standing
<1>3. c \in Contents /\ u \in Seq(Sector) /\ Shows(c) /\ Holds(u) /\ Fine(written, r)
  BY <1>2, WorldIs DEF Onward
<1>4. u # <<>> /\ held # <<>> /\ m = <<c, Tail(u), got, addrs, size>>
  <2>1. World(c, u)[2] # <<>> /\ OnTop(written, "brelse", Arg, World(c, u)[1], Head(World(c, u)[2]), Tail(World(c, u)[2]), World(c, u), m)
    BY <1>2 DEF Deed, TopOps, Closing
  <2>2. m = <<World(c, u)[1], Tail(World(c, u)[2]), World(c, u)[3], World(c, u)[4], World(c, u)[5]>>
    BY <2>1 DEF OnTop
  <2> QED BY <1>2, <2>1, <2>2, WorldIs
<1>5. UNCHANGED <<sector, valid, dirty, data, disk, idequeue, io>>
  BY <1>1 DEF Brelse
<1>6. /\ held \in Seq(Buf) /\ Len(held) \in Nat /\ Len(held') = Len(held) - 1
      /\ \A i \in 1 .. Len(held') : held'[i] = held[i + 1] /\ i + 1 \in 1 .. Len(held)
  <2>1. held \in Seq(Buf)
    BY DEF CInv, BuffersAre
  <2> QED BY <1>1, <1>4, <2>1
<1>7. PICK v : v = Tail(u)
  OBVIOUS
<1>8. v \in Seq(Sector) /\ Len(v) = Len(u) - 1 /\ \A i \in 1 .. Len(v) : v[i] = u[i + 1]
  BY <1>3, <1>4, <1>7
<1>9. Holds(v)'
  BY <1>3, <1>5, <1>6, <1>8 DEF Holds
<1>10. Shows(c)' /\ HeldValid'
  BY <1>2, <1>3, <1>5, <1>6 DEF Shows, HeldValid
<1>11. Onward(c, v, r)'
  BY <1>1, <1>2, <1>3, <1>4, <1>7, <1>9, <1>10 DEF Onward, World
<1> QED BY <1>1, <1>10, <1>11 DEF FInv

(* What is known when a step works on the latest buffer, of sector t.      *)
AtTop(f, c, t, u, m, r) ==
    /\ c \in Contents /\ t \in Sector /\ u \in Seq(Sector) /\ Shows(c) /\ Holds(<<t>> \o u)
    /\ got \in Nat /\ addrs \in [0 .. NDIRECT -> Nat] /\ size \in Nat
    /\ m \in Worlds /\ Does(written, Rest, m, r) /\ Fine(written, r)
    /\ OnTop(written, f, Arg, c, t, u, <<c, <<t>> \o u, got, addrs, size>>, m)
    /\ \A i \in 1 .. Len(held) : valid[held[i]]
    /\ held # <<>> /\ Top \in Buf /\ t = sector[Top] /\ c[t] = data[Top]

LEMMA TopIs ==
  ASSUME CInv, FInv, ~lost, NEW f \in TopOps, Now(f)
  PROVE  \E c, t, u, m, r : AtTop(f, c, t, u, m, r)
<1>1. PICK c, v, m, r :
          /\ Onward(c, v, r) /\ World(c, v) \in Worlds /\ m \in Worlds
          /\ Deed(written, f, Arg, World(c, v), m) /\ Does(written, Rest, m, r)
          /\ \A i \in 1 .. Len(held) : valid[held[i]]
          /\ v # <<>> => /\ held # <<>> /\ Top \in Buf /\ valid[Top]
                         /\ Head(v) = sector[Top] /\ c[Head(v)] = data[Top]
  BY Standing
<1>2. /\ c \in Contents /\ v \in Seq(Sector) /\ got \in Nat
      /\ addrs \in [0 .. NDIRECT -> Nat] /\ size \in Nat
      /\ World(c, v)[1] = c /\ World(c, v)[2] = v
  BY <1>1, WorldIs
<1>3. PICK t, u : t = Head(v) /\ u = Tail(v)
  OBVIOUS
<1>4. v # <<>> /\ OnTop(written, f, Arg, c, t, u, World(c, v), m)
  BY <1>1, <1>2, <1>3 DEF Deed
<1>5. t \in Sector /\ u \in Seq(Sector) /\ v = <<t>> \o u
  BY <1>2, <1>3, <1>4, StackOf
<1>6. World(c, v) = <<c, <<t>> \o u, got, addrs, size>>
  BY <1>5 DEF World
<1>7. AtTop(f, c, t, u, m, r)
  BY <1>1, <1>2, <1>3, <1>4, <1>5, <1>6 DEF AtTop, Onward
<1> QED BY <1>7

(* A word of the latest buffer is changed.                                 *)
LEMMA FSettingSteps ==
  ASSUME CInv, FInv, ~lost, StepClear \/ StepFill \/ StepInode \/ StepSetWord
  PROVE  FInv'
<1>1. ASSUME NEW f \in Setting, NEW c, NEW t, NEW u, NEW m, NEW r, NEW e, AtTop(f, c, t, u, m, r),
             e \in [Index -> Nat], m = <<[c EXCEPT ![t] = e], <<t>> \o u, got, addrs, size>>,
             data' = [data EXCEPT ![Top] = e], todo' = Rest, UNCHANGED <<got, addrs, size>>,
             UNCHANGED <<sector, valid, dirty, disk, idequeue, io, held, written, lost>>
      PROVE  FInv'
  <2>1. PICK v : v = <<t>> \o u
    OBVIOUS
  <2>2. /\ c \in Contents /\ Shows(c) /\ Holds(v) /\ held # <<>> /\ t = sector[Top] /\ t \in Sector
        /\ \A i \in 1 .. Len(held) : valid[held[i]]
        /\ Fine(written, r) /\ Does(written, Rest, m, r)
    BY <1>1, <2>1 DEF AtTop
  <2>3. Does(written, todo', <<[c EXCEPT ![t] = e], v, got', addrs', size'>>, r)
    BY <1>1, <2>1, <2>2
  <2> QED BY <1>1, <2>2, <2>3, TopStep
<1>2. ASSUME NEW f \in Setting, NEW c, NEW t, NEW u, NEW m, NEW r, NEW i \in Index, NEW v \in Nat,
             AtTop(f, c, t, u, m, r),
             m = <<Put(c, t, i, v), <<t>> \o u, got, addrs, size>>,
             Change(i, v, Rest), UNCHANGED got
      PROVE  FInv'
  <2>1. PICK e : e = [c[t] EXCEPT ![i] = v]
    OBVIOUS
  <2>2. c[t] = data[Top] /\ c[t] \in [Index -> Nat]
    BY <1>2, ContentsAre DEF AtTop
  <2>3. e \in [Index -> Nat] /\ data' = [data EXCEPT ![Top] = e]
    BY <1>2, <2>1, <2>2 DEF Change
  <2>4. m = <<[c EXCEPT ![t] = e], <<t>> \o u, got, addrs, size>>
    BY <1>2, <2>1 DEF Put
  <2>5. /\ todo' = Rest /\ UNCHANGED <<got, addrs, size>>
        /\ UNCHANGED <<sector, valid, dirty, disk, idequeue, io, held, written, lost>>
    BY <1>2 DEF Change
  <2> QED BY <1>1, <1>2, <2>3, <2>4, <2>5
<1>3. CASE StepClear
  <2>1. Now("clear") /\ Change(Arg, 0, Rest) /\ UNCHANGED got /\ "clear" \in Setting /\ "clear" \in TopOps
    BY <1>3 DEF StepClear, Setting, TopOps
  <2>2. PICK c, t, u, m, r : AtTop("clear", c, t, u, m, r)
    BY <2>1, TopIs
  <2>3. Arg \in Index /\ m = <<Put(c, t, Arg, 0), <<t>> \o u, got, addrs, size>>
    BY <2>2 DEF AtTop, OnTop
  <2> QED BY <1>2, <2>1, <2>2, <2>3
<1>4. CASE StepSetWord
  <2>1. Now("setword") /\ Change(Arg, got, Rest) /\ UNCHANGED got /\ "setword" \in Setting /\ "setword" \in TopOps
    BY <1>4 DEF StepSetWord, Setting, TopOps
  <2>2. PICK c, t, u, m, r : AtTop("setword", c, t, u, m, r)
    BY <2>1, TopIs
  <2>3. Arg \in Index /\ m = <<Put(c, t, Arg, got), <<t>> \o u, got, addrs, size>> /\ got \in Nat
    BY <2>2 DEF AtTop, OnTop
  <2> QED BY <1>2, <2>1, <2>2, <2>3
<1>5. CASE StepFill
  <2>1. /\ Now("fill") /\ "fill" \in Setting /\ "fill" \in TopOps
        /\ data' = [data EXCEPT ![Top] = Filled(Arg)] /\ todo' = Rest
        /\ UNCHANGED <<sector, valid, dirty, disk, idequeue, io, held, written, lost>>
        /\ UNCHANGED <<got, addrs, size>>
    BY <1>5 DEF StepFill, Setting, TopOps, Filled
  <2>2. PICK c, t, u, m, r : AtTop("fill", c, t, u, m, r)
    BY <2>1, TopIs
  <2>3. PICK e : e = Filled(Arg)
    OBVIOUS
  <2>4. m = <<[c EXCEPT ![t] = e], <<t>> \o u, got, addrs, size>>
    BY <2>2, <2>3 DEF AtTop, OnTop
  <2>5. e \in [Index -> Nat]
    <3>1. [c EXCEPT ![t] = e] \in Contents /\ c \in Contents /\ t \in Sector
      BY <2>2, <2>4 DEF AtTop, Worlds
    <3>2. [c EXCEPT ![t] = e][t] \in [Index -> Nat]
      BY <3>1 DEF Contents
    <3> QED BY <3>1, <3>2 DEF Contents
  <2> QED BY <1>1, <2>1, <2>2, <2>3, <2>4, <2>5
<1>6. CASE StepInode
  <2>1. /\ Now("inode") /\ "inode" \in Setting /\ "inode" \in TopOps
        /\ todo' = Rest /\ UNCHANGED <<sector, valid, dirty, disk, idequeue, io, held, written, lost>>
        /\ UNCHANGED <<got, addrs, size>>
    BY <1>6 DEF StepInode, Setting, TopOps
  <2>2. PICK c, t, u, m, r : AtTop("inode", c, t, u, m, r)
    BY <2>1, TopIs
  <2>3. PICK e : e = Inode(c[t], addrs, size)
    OBVIOUS
  <2>4. m = <<[c EXCEPT ![t] = e], <<t>> \o u, got, addrs, size>>
    BY <2>2, <2>3 DEF AtTop, OnTop
  <2>5. /\ c[t] = data[Top] /\ c[t] \in [Index -> Nat] /\ addrs \in [0 .. NDIRECT -> Nat] /\ size \in Nat
        /\ DOMAIN addrs = 0 .. NDIRECT
    BY <2>2, ContentsAre DEF AtTop
  <2>6. e \in [Index -> Nat]
    BY <2>3, <2>5, SectorWords
  <2>7. data' = [data EXCEPT ![Top] = e]
    <3>1. Top \in DOMAIN data
      BY <2>2 DEF AtTop, CInv, BuffersAre
    <3>2. data' = [data EXCEPT ![Top] =
                     [i \in Index |-> IF i \in DOMAIN addrs THEN addrs[i]
                                      ELSE IF i = SizeWord THEN size ELSE data[Top][i]]]
      BY <1>6 DEF StepInode
    <3> QED BY <2>3, <2>5, <3>2 DEF Inode
  <2> QED BY <1>1, <2>1, <2>2, <2>4, <2>6, <2>7
<1> QED BY <1>3, <1>4, <1>5, <1>6

(* balloc takes the lowest block that is free.                             *)
LEMMA FPickStep == ASSUME CInv, FInv, ~lost, StepPick PROVE FInv'
<1>1. Now("pick") /\ "pick" \in TopOps
  BY DEF StepPick, TopOps, Closing
<1>2. PICK c, t, u, m, r : AtTop("pick", c, t, u, m, r)
  BY <1>1, TopIs
<1>3. PICK b : b = Lowest(Free)
  OBVIOUS
<1>4. /\ Change(b, 1, Write \o Release \o bzero(b) \o Rest) /\ got' = b
      /\ c[t] = data[Top]
  BY <1>2, <1>3 DEF StepPick, AtTop
<1>5. FreeIn(c[t]) = Free
  BY <1>4 DEF FreeIn, Free
<1>6. t = BM /\ b \in FreeIn(c[BM]) /\ b = Lowest(FreeIn(c[BM])) /\ m = <<Taken(c, b), u, b, addrs, size>>
  BY <1>2, <1>3, <1>5 DEF AtTop, OnTop
<1>7. b \in Blocks /\ b \in Index /\ BM \in Sector
  BY <1>6, Layout DEF FreeIn
<1>8. /\ c \in Contents /\ u \in Seq(Sector) /\ Shows(c) /\ Holds(<<t>> \o u)
      /\ got \in Nat /\ addrs \in [0 .. NDIRECT -> Nat] /\ size \in Nat
      /\ Does(written, Rest, m, r) /\ Fine(written, r)
      /\ \A i \in 1 .. Len(held) : valid[held[i]]
      /\ held # <<>> /\ t = sector[Top] /\ t \in Sector
  BY <1>2 DEF AtTop
<1>9. Does(written, Write \o Release \o bzero(b), <<Put(c, BM, b, 1), <<BM>> \o u, b, addrs, size>>,
           <<Taken(c, b), u, b, addrs, size>>)
  BY <1>6, <1>8, BallocDoes
<1>10. Does(written, Write \o Release \o bzero(b) \o Rest, <<Put(c, BM, b, 1), <<BM>> \o u, b, addrs, size>>, r)
  BY <1>6, <1>8, <1>9, DoesCat
<1>11. PICK e : e = [c[t] EXCEPT ![b] = 1]
  OBVIOUS
<1>12. c[t] \in [Index -> Nat] /\ e \in [Index -> Nat] /\ data' = [data EXCEPT ![Top] = e]
  <2>1. c[t] \in [Index -> Nat]
    BY <1>8, ContentsAre
  <2> QED BY <1>4, <1>11, <2>1 DEF Change
<1>13. /\ todo' = Write \o Release \o bzero(b) \o Rest /\ UNCHANGED <<addrs, size>>
       /\ UNCHANGED <<sector, valid, dirty, disk, idequeue, io, held, written, lost>>
  BY <1>4 DEF Change
<1>14. PICK v : v = <<t>> \o u
  OBVIOUS
<1>15. Put(c, BM, b, 1) = [c EXCEPT ![t] = e]
  BY <1>6, <1>11 DEF Put
<1>16. Does(written, todo', <<[c EXCEPT ![t] = e], v, got', addrs', size'>>, r)
  BY <1>4, <1>6, <1>10, <1>13, <1>14, <1>15
<1> QED BY <1>8, <1>12, <1>13, <1>14, <1>16, TopStep

(* bmap in the indirect block.                                             *)
LEMMA FLookStep == ASSUME CInv, FInv, ~lost, StepLook PROVE FInv'
<1>1. Now("look") /\ "look" \in TopOps
  BY DEF StepLook, TopOps, Closing
<1>2. PICK c, t, u, m, r : AtTop("look", c, t, u, m, r)
  BY <1>1, TopIs
<1>3. PICK x : x = Arg
  OBVIOUS
<1>4. /\ c \in Contents /\ t \in Sector /\ u \in Seq(Sector) /\ Shows(c) /\ Holds(<<t>> \o u)
      /\ got \in Nat /\ addrs \in [0 .. NDIRECT -> Nat] /\ size \in Nat
      /\ Does(written, Rest, m, r) /\ Fine(written, r)
      /\ HeldValid /\ c[t] = data[Top]
  BY <1>2 DEF AtTop, HeldValid
<1>5. x \in Index /\ Looks(x, c, t, u, got, addrs, size, m)
  BY <1>2, <1>3 DEF AtTop, OnTop
<1>6. /\ UNCHANGED <<addrs, size>>
      /\ UNCHANGED <<sector, valid, dirty, data, disk, idequeue, io, held, written, lost>>
  BY DEF StepLook, bufVars
<1>7. PICK v : v = <<t>> \o u
  OBVIOUS
<1>8. c[t][x] \in Nat
  BY <1>4, <1>5, ContentsAre
<1>9. Does(written, todo', <<c, v, got', addrs', size'>>, r)
  <2>1. CASE c[t][x] # 0
    <3>1. m = <<c, u, c[t][x], addrs, size>>
      BY <1>5, <2>1 DEF Looks
    <3>2. got' = c[t][x] /\ todo' = Release \o Rest
      BY <1>3, <1>4, <2>1 DEF StepLook
    <3>3. Does(written, Release, <<c, <<t>> \o u, c[t][x], addrs, size>>, <<c, u, c[t][x], addrs, size>>)
      BY <1>4, <1>8, CloseDoes
    <3>4. Does(written, Release \o Rest, <<c, <<t>> \o u, c[t][x], addrs, size>>, r)
      BY <1>4, <3>1, <3>3, DoesCat
    <3> QED BY <1>6, <1>7, <3>2, <3>4
  <2>2. CASE c[t][x] = 0
    <3>1. PICK b \in FreeIn(c[BM]) : /\ b = Lowest(FreeIn(c[BM])) /\ b # t
                                     /\ m = <<Put(Taken(c, b), t, x, b), u, b, addrs, size>>
      BY <1>5, <2>2 DEF Looks
    <3>2. got' = got /\ todo' = balloc \o Do("setword", x) \o Write \o Release \o Rest
      BY <1>3, <1>4, <2>2 DEF StepLook
    <3>3. PICK d, e : d = Taken(c, b) /\ e = Put(d, t, x, b)
      OBVIOUS
    <3>4. b \in Blocks /\ b \in Nat
      BY Layout DEF FreeIn
    <3>5. d \in Contents
      BY <1>4, <3>3, <3>4, ContentsAre
    <3>6. e \in Contents
      BY <1>4, <1>5, <3>3, <3>4, <3>5, ContentsAre
    <3>7. Does(written, balloc, <<c, v, got, addrs, size>>, <<d, v, b, addrs, size>>)
      <4>1. v \in Seq(Sector)
        BY <1>4, <1>7, StackIs
      <4> QED BY <1>4, <3>1, <3>3, <4>1, BallocDoes
    <3>8. Does(written, Do("setword", x), <<d, <<t>> \o u, b, addrs, size>>, <<e, <<t>> \o u, b, addrs, size>>)
      BY <1>4, <1>5, <3>3, <3>4, <3>5, ChangeDoes
    <3>9. /\ Does(written, Write, <<e, <<t>> \o u, b, addrs, size>>, <<e, <<t>> \o u, b, addrs, size>>)
          /\ Does(written, Release, <<e, <<t>> \o u, b, addrs, size>>, <<e, u, b, addrs, size>>)
      BY <1>4, <3>4, <3>6, CloseDoes
    <3>10. Does(written, balloc \o Do("setword", x), <<c, v, got, addrs, size>>, <<e, v, b, addrs, size>>)
      BY <1>7, <3>7, <3>8, DoesCat
    <3>11. Does(written, balloc \o Do("setword", x) \o Write, <<c, v, got, addrs, size>>, <<e, v, b, addrs, size>>)
      BY <1>7, <3>9, <3>10, DoesCat
    <3>12. Does(written, balloc \o Do("setword", x) \o Write \o Release, <<c, v, got, addrs, size>>, m)
      BY <1>7, <3>1, <3>3, <3>9, <3>11, DoesCat
    <3>13. Does(written, balloc \o Do("setword", x) \o Write \o Release \o Rest, <<c, v, got, addrs, size>>, r)
      BY <1>4, <3>12, DoesCat
    <3> QED BY <1>6, <3>2, <3>13
  <2> QED BY <2>1, <2>2
<1> QED BY <1>4, <1>6, <1>7, <1>9, QuietStep

(* itrunc in the indirect block.                                           *)
LEMMA FFreeWordStep == ASSUME CInv, FInv, ~lost, StepFreeWord PROVE FInv'
<1>1. Now("freeword") /\ "freeword" \in TopOps
  BY DEF StepFreeWord, TopOps, Keeping
<1>2. PICK c, t, u, m, r : AtTop("freeword", c, t, u, m, r)
  BY <1>1, TopIs
<1>3. PICK x, v : x = Arg /\ v = <<t>> \o u
  OBVIOUS
<1>4. /\ c \in Contents /\ t \in Sector /\ u \in Seq(Sector) /\ Shows(c) /\ Holds(v)
      /\ got \in Nat /\ addrs \in [0 .. NDIRECT -> Nat] /\ size \in Nat
      /\ m \in Worlds /\ Does(written, Rest, m, r) /\ Fine(written, r)
      /\ HeldValid /\ c[t] = data[Top]
  BY <1>2, <1>3 DEF AtTop, HeldValid
<1>5. x \in Index /\ Frees(x, c, t, <<c, v, got, addrs, size>>, m)
  BY <1>2, <1>3 DEF AtTop, OnTop
<1>6. /\ UNCHANGED <<got, addrs, size>>
      /\ UNCHANGED <<sector, valid, dirty, data, disk, idequeue, io, held, written, lost>>
  BY DEF StepFreeWord, bufVars
<1>7. PICK s : s = IF c[t][x] # 0 THEN bfree(c[t][x]) ELSE <<>>
  OBVIOUS
<1>8. todo' = s \o Rest
  BY <1>3, <1>4, <1>7 DEF StepFreeWord
<1>9. Does(written, s, <<c, v, got, addrs, size>>, m)
  <2>1. CASE c[t][x] = 0 /\ m = <<c, v, got, addrs, size>>
    BY <1>4, <1>7, <2>1, DoesNone
  <2>2. CASE c[t][x] \in Blocks /\ c[BM][c[t][x]] = 1 /\ m = <<Put(c, BM, c[t][x], 0), v, got, addrs, size>>
    <3>1. s = bfree(c[t][x])
      BY <1>7, <2>2, Layout
    <3>2. v \in Seq(Sector)
      BY <1>3, <1>4, StackIs
    <3> QED BY <1>4, <2>2, <3>1, <3>2, ProcDoes
  <2> QED BY <1>5, <2>1, <2>2 DEF Frees
<1>10. Does(written, todo', <<c, v, got', addrs', size'>>, r)
  BY <1>4, <1>6, <1>8, <1>9, DoesCat
<1> QED BY <1>4, <1>6, <1>10, QuietStep

(* What is done with the inode in memory.                                  *)
LEMMA FMemoryStep == ASSUME CInv, FInv, ~lost, StepMemory PROVE FInv'
<1>1. /\ todo' = Rest
      /\ UNCHANGED <<sector, valid, dirty, data, disk, idequeue, io, held, written, lost>>
  BY DEF StepMemory, bufVars
<1>2. CASE Now("setaddr") \/ Now("useaddr") \/ Now("unset") \/ Now("grow")
  <2>1. PICK f \in {"setaddr", "useaddr", "unset", "grow"} : Now(f)
    BY <1>2
  <2>2. PICK c, u, m, r :
            /\ Onward(c, u, r) /\ World(c, u) \in Worlds /\ m \in Worlds
            /\ Deed(written, f, Arg, World(c, u), m) /\ Does(written, Rest, m, r)
            /\ \A i \in 1 .. Len(held) : valid[held[i]]
    BY <2>1, Standing
  <2>3. /\ c \in Contents /\ u \in Seq(Sector) /\ Shows(c) /\ Holds(u) /\ Fine(written, r)
        /\ HeldValid
    BY <2>2, WorldIs DEF Onward, HeldValid
  <2>4. InMemory(f, Arg, World(c, u), m)
    BY <2>2 DEF Deed
  <2>5. m = <<c, u, got', addrs', size'>>
    <3>1. \A g : Now(g) => g = f
      BY <2>1 DEF Now
    <3>2. CASE f = "setaddr"
      <4>1. addrs' = [addrs EXCEPT ![Arg] = got] /\ UNCHANGED <<size, got>>
        BY <3>1, <3>2 DEF StepMemory
      <4> QED BY <2>2, <2>4, <3>2, <4>1, WorldIs DEF InMemory
    <3>3. CASE f = "useaddr"
      <4>1. got' = addrs[Arg] /\ UNCHANGED <<addrs, size>>
        BY <3>1, <3>3 DEF StepMemory
      <4> QED BY <2>2, <2>4, <3>3, <4>1, WorldIs DEF InMemory
    <3>4. CASE f = "unset"
      <4>1. addrs' = [addrs EXCEPT ![Arg] = 0] /\ UNCHANGED <<size, got>>
        BY <3>1, <3>4 DEF StepMemory
      <4> QED BY <2>2, <2>4, <3>4, <4>1, WorldIs DEF InMemory
    <3>5. CASE f = "grow"
      <4>1. size' = Arg /\ UNCHANGED <<addrs, got>>
        BY <3>1, <3>5 DEF StepMemory
      <4> QED BY <2>2, <2>4, <3>5, <4>1, WorldIs DEF InMemory
    <3> QED BY <3>2, <3>3, <3>4, <3>5
  <2>6. Does(written, todo', <<c, u, got', addrs', size'>>, r)
    BY <1>1, <2>2, <2>5
  <2> QED BY <1>1, <2>3, <2>6, QuietStep
<1>3. CASE Now("load") \/ Now("copy")
  <2>1. PICK f \in {"load", "copy"} : Now(f) /\ f \in TopOps
    BY <1>3 DEF TopOps, Keeping
  <2>2. PICK c, t, u, m, r : AtTop(f, c, t, u, m, r)
    BY <2>1, TopIs
  <2>3. PICK v : v = <<t>> \o u
    OBVIOUS
  <2>4. /\ c \in Contents /\ Shows(c) /\ Holds(v)
        /\ addrs \in [0 .. NDIRECT -> Nat]
        /\ Does(written, Rest, m, r) /\ Fine(written, r) /\ HeldValid /\ c[t] = data[Top]
        /\ OnTop(written, f, Arg, c, t, u, <<c, v, got, addrs, size>>, m)
    BY <2>2, <2>3 DEF AtTop, HeldValid
  <2>5. m = <<c, v, got', addrs', size'>>
    <3>1. \A g : Now(g) => g = f
      BY <2>1 DEF Now
    <3>2. CASE f = "load"
      <4>1. addrs' = [i \in DOMAIN addrs |-> data[Top][i]] /\ size' = data[Top][SizeWord] /\ UNCHANGED got
        BY <3>1, <3>2 DEF StepMemory
      <4>2. m = <<c, v, got, [i \in 0 .. NDIRECT |-> c[t][i]], c[t][SizeWord]>>
        BY <2>3, <2>4, <3>2 DEF OnTop
      <4> QED BY <2>4, <4>1, <4>2
    <3>3. CASE f = "copy"
      <4>1. UNCHANGED <<addrs, size, got>>
        BY <3>1, <3>3 DEF StepMemory
      <4> QED BY <2>4, <3>3, <4>1 DEF OnTop
    <3> QED BY <3>2, <3>3
  <2>6. Does(written, todo', <<c, v, got', addrs', size'>>, r)
    BY <1>1, <2>4, <2>5
  <2> QED BY <1>1, <2>4, <2>6, QuietStep
<1> QED BY <1>2, <1>3 DEF StepMemory

-----------------------------------------------------------------------------
(* The driver and the disk.                                                *)
LEMMA FDriverStep == ASSUME CInv, FInv, ~lost, Driver PROVE FInv'
<1>1. UNCHANGED <<sector, valid, dirty, data, disk, idequeue, todo, held, addrs, size, got, written, lost>>
  BY DEF Driver, IdeSleep, IdeReturn, fileVars
<1>2. HeldValid'
  <2>1. SUFFICES ASSUME NEW i \in 1 .. Len(held), ~valid[held[i]]
                 PROVE  i = 1 /\ Reading(held[i])'
    BY <1>1 DEF HeldValid
  <2>2. i = 1 /\ Reading(held[i])
    BY <2>1 DEF FInv, HeldValid
  <2>3. CASE IdeSleep
    <3>1. io' = [io EXCEPT !.at = "asleep"] /\ io \in [at : {"none", "issued", "asleep", "woken"}, b : Nat]
      BY <2>3 DEF IdeSleep, CInv, Transfer
    <3>2. io'.at = "asleep"
      BY <3>1
    <3> QED BY <1>1, <2>2, <3>2 DEF Reading, Top
  <2>4. CASE IdeReturn
    <3>1. idequeue # <<>> /\ io.at \in {"issued", "asleep"}
      BY <2>2 DEF Reading
    <3>2. io.at = "issued" /\ ~Serving(io.b)
      BY <2>4, <3>1 DEF IdeReturn
    <3>3. idequeue = <<io.b>>
      BY <3>1, <3>2 DEF CInv, Transfer
    <3> QED BY <3>2, <3>3 DEF Serving
  <2> QED BY <2>3, <2>4 DEF Driver
<1>3. PICK c, u, r : Onward(c, u, r)
  BY DEF FInv
<1>4. Shows(c)' /\ Holds(u)'
  BY <1>1, <1>3 DEF Onward, Shows, Holds
<1>5. Onward(c, u, r)'
  BY <1>1, <1>3, <1>4 DEF Onward, World
<1> QED BY <1>1, <1>2, <1>5 DEF FInv

LEMMA FDiskStep == ASSUME CInv, FInv, ~lost, Disk PROVE FInv'
<1>1. PICK b : /\ idequeue # <<>> /\ b = Head(idequeue)
               /\ IF dirty[b]
                  THEN /\ disk' = [disk EXCEPT ![sector[b]] = data[b]]
                       /\ UNCHANGED data
                  ELSE /\ data' = [data EXCEPT ![b] = disk[sector[b]]]
                       /\ UNCHANGED disk
               /\ valid' = [valid EXCEPT ![b] = TRUE]
  BY DEF Disk, IdeIntr
<1>2. UNCHANGED <<sector, todo, held, addrs, size, got, written, lost>>
  BY DEF Disk, IdeIntr, fileVars
<1>3. idequeue = <<b>> /\ held # <<>> /\ b = Top /\ io.at \in {"issued", "asleep"}
  BY <1>1 DEF CInv, Transfer
<1>4. /\ b \in Buf /\ held \in Seq(Buf) /\ 1 \in 1 .. Len(held) /\ held[1] = b
      /\ DOMAIN data = Buf /\ DOMAIN disk = Sector /\ DOMAIN valid = Buf /\ valid \in [Buf -> BOOLEAN]
  BY <1>3, HeldIs DEF CInv, BuffersAre
<1>5. valid'[b] /\ \A e \in Buf : e # b => valid'[e] = valid[e]
  BY <1>1, <1>4
<1>6. PICK c, u, r : Onward(c, u, r)
  BY DEF FInv
<1>7. PICK t \in Sector : t = sector[b]
  BY <1>4, <1>6 DEF Onward, Holds
<1>8. \A e \in Buf : e # b => sector[e] # t
  <2>1. t # NoDev
    BY Sizes
  <2> QED BY <1>4, <1>7, <2>1 DEF CInv, OneBuffer
<1>9. dirty[b] => valid[b]
  BY <1>4 DEF FInv, HeldValid, Reading
<1>10. ~dirty[b] => Exact(b)
  <2>1. Settled
    BY <1>3 DEF CInv, Altered
  <2> QED BY <1>4, <2>1 DEF Settled
<1>11. /\ c[t] = data'[b] /\ \A e \in Buf : e # b => data'[e] = data[e]
       /\ \A s \in Sector : s # t => disk'[s] = disk[s]
  <2>1. CASE dirty[b]
    <3>1. c[t] = data[b]
      BY <1>4, <1>6, <1>7, <1>9, <2>1 DEF Onward, Shows
    <3> QED BY <1>1, <1>4, <1>7, <2>1, <3>1
  <2>2. CASE ~dirty[b]
    <3>1. c[t] = disk[t]
      <4>1. CASE valid[b]
        <5>1. c[t] = data[b]
          BY <1>4, <1>6, <1>7, <4>1 DEF Onward, Shows
        <5> QED BY <1>7, <1>10, <2>2, <4>1, <5>1 DEF Exact
      <4>2. CASE ~valid[b]
        BY <1>6, <1>8, <4>2 DEF Onward, Shows
      <4> QED BY <4>1, <4>2
    <3> QED BY <1>1, <1>4, <1>7, <2>2, <3>1
  <2> QED BY <2>1, <2>2
<1>12. Shows(c)'
  <2>1. ASSUME NEW e \in Buf, valid'[e], sector[e] \in Sector PROVE c[sector[e]] = data'[e]
    <3>1. CASE e = b
      BY <1>7, <1>11, <3>1
    <3>2. CASE e # b
      BY <1>5, <1>6, <1>11, <2>1, <3>2 DEF Onward, Shows
    <3> QED BY <3>1, <3>2
  <2>2. ASSUME NEW s \in Sector, \A e \in Buf : sector[e] = s => ~valid'[e] PROVE c[s] = disk'[s]
    <3>1. s # t
      BY <1>4, <1>5, <1>7, <2>2
    <3>2. \A e \in Buf : sector[e] = s => ~valid[e]
      BY <1>5, <1>7, <2>2, <3>1
    <3> QED BY <1>6, <1>11, <3>1, <3>2 DEF Onward, Shows
  <2> QED BY <1>2, <2>1, <2>2 DEF Shows
<1>13. HeldValid'
  <2>1. SUFFICES ASSUME NEW i \in 1 .. Len(held) PROVE valid'[held[i]]
    BY <1>2 DEF HeldValid
  <2>2. held[i] \in Buf
    BY <1>4
  <2>3. CASE held[i] = b
    BY <1>5, <2>3
  <2>4. CASE held[i] # b
    <3>1. i # 1
      BY <1>4, <2>4
    <3>2. valid[held[i]]
      BY <3>1 DEF FInv, HeldValid
    <3> QED BY <1>5, <2>2, <2>4, <3>2
  <2> QED BY <2>3, <2>4
<1>14. Onward(c, u, r)'
  <2>1. Holds(u)'
    BY <1>2, <1>6 DEF Onward, Holds
  <2> QED BY <1>2, <1>6, <1>12, <2>1 DEF Onward, World
<1> QED BY <1>2, <1>13, <1>14 DEF FInv

-----------------------------------------------------------------------------
(* Between calls the file is as it has to be.                              *)
LEMMA AtRest ==
  ASSUME CInv, FInv, ~lost, todo = <<>>
  PROVE  \E c \in Contents :
            /\ Shows(c) /\ Holds(<<>>) /\ File(written, c, addrs, size)
            /\ got \in Nat /\ addrs \in [0 .. NDIRECT -> Nat] /\ size \in Nat
            /\ Fine(written, <<c, <<>>, got, addrs, size>>)
            /\ \A s \in Sector : c[s] = disk[s]
<1>1. PICK c, u, r : Onward(c, u, r)
  BY DEF FInv
<1>2. World(c, u) = r
  <2>1. Does(written, <<>>, World(c, u), r)
    BY <1>1 DEF Onward
  <2> QED BY <2>1, NoneDoes
<1>3. PICK d \in Contents, g \in Nat, a \in [0 .. NDIRECT -> Nat], z \in Nat :
          World(c, u) = <<d, <<>>, g, a, z>> /\ File(written, d, a, z)
  BY <1>1, <1>2 DEF Onward, Fine
<1>4. c = d /\ u = <<>> /\ got = g /\ addrs = a /\ size = z
  BY <1>3 DEF World
<1>5. Shows(c) /\ Holds(u)
  BY <1>1 DEF Onward
<1>6. \A b \in Buf : Exact(b)
  BY Between
<1>7. ASSUME NEW s \in Sector PROVE c[s] = disk[s]
  <2>1. CASE \E b \in Buf : sector[b] = s /\ valid[b]
    BY <1>5, <1>6, <2>1 DEF Shows, Exact
  <2>2. CASE ~\E b \in Buf : sector[b] = s /\ valid[b]
    BY <1>5, <2>2 DEF Shows
  <2> QED BY <2>1, <2>2
<1>8. Fine(written, <<c, <<>>, got, addrs, size>>)
  BY <1>3, <1>4 DEF Fine
<1> QED BY <1>3, <1>4, <1>5, <1>7, <1>8

LEMMA FBeginStep ==
  ASSUME CInv, FInv, Call PROVE FInv'
<1>1. PICK s : Begin(s)
  BY DEF Call, CallWrite, CallRead, CallTruncate, Reopen
<1>2. todo = <<>> /\ ~lost /\ UNCHANGED <<addrs, size, held, got, lost>>
  BY <1>1 DEF Begin
<1>3. PICK c \in Contents :
            /\ Shows(c) /\ Holds(<<>>) /\ File(written, c, addrs, size)
            /\ got \in Nat /\ addrs \in [0 .. NDIRECT -> Nat] /\ size \in Nat
            /\ Fine(written, <<c, <<>>, got, addrs, size>>)
            /\ \A t \in Sector : c[t] = disk[t]
  BY <1>2, AtRest
<1>4. held = <<>> /\ Len(held) = 0
  BY <1>2, Between
<1>5. ASSUME NEW r, Shows(c)', Does(written', todo', <<c, <<>>, got, addrs, size>>, r),
             Fine(written', r), DOMAIN written' = 0 .. MAXFILE - 1
      PROVE  FInv'
  <2>1. HeldValid' /\ Holds(<<>>)'
    BY <1>2, <1>4 DEF HeldValid, Holds
  <2>2. Onward(c, <<>>, r)'
    BY <1>2, <1>3, <1>5, <2>1 DEF Onward, World
  <2> QED BY <1>5, <2>1, <2>2 DEF FInv
<1>6. DOMAIN written = 0 .. MAXFILE - 1
  BY DEF FInv
<1>7. UNCHANGED bufVars => Shows(c)'
  BY <1>3 DEF Shows, bufVars
<1>8. CASE CallWrite
  <2>1. PICK bn \in 0 .. MAXFILE - 1, v \in Value :
            /\ bn <= size /\ Begin(writei(bn, v)) /\ written' = [written EXCEPT ![bn] = v]
            /\ UNCHANGED bufVars
    BY <1>8 DEF CallWrite
  <2>2. v \in Nat
    BY FileBlocksAssumption
  <2>3. DOMAIN written' = 0 .. MAXFILE - 1 /\ written'[bn] = v /\ \A x \in 0 .. size - 1 : x # bn => written'[x] = written[x]
    <3>1. size \in 0 .. MAXFILE
      BY <1>3 DEF File
    <3>2. \A x \in 0 .. size - 1 : x \in 0 .. MAXFILE - 1
      <4>1. MAXFILE \in Nat
        BY Layout DEF MAXFILE
      <4> QED BY <3>1, <4>1
    <3> QED BY <1>6, <2>1, <3>2
  <2>4. PICK w, y, a, z : w = written /\ y = written' /\ a = addrs /\ z = size
    OBVIOUS
  <2>5. \E r : Does(y, writei(bn, v), <<c, <<>>, got, a, z>>, r) /\ Fine(y, r)
    <3>1. bn <= z /\ y[bn] = v /\ (\A x \in 0 .. z - 1 : x # bn => y[x] = w[x]) /\ File(w, c, a, z)
      BY <1>3, <2>1, <2>3, <2>4
    <3>2. a \in [0 .. NDIRECT -> Nat] /\ z \in Nat /\ addrs = a /\ size = z /\ got \in Nat
      BY <1>3, <2>4
    <3> QED BY <2>2, <3>1, <3>2, WriteiDoes
  <2>6. todo' = writei(bn, v)
    BY <2>1 DEF Begin
  <2> QED BY <1>5, <1>7, <2>1, <2>3, <2>4, <2>5, <2>6
<1>9. CASE CallRead
  <2>1. PICK bn \in 0 .. MAXFILE - 1 :
            bn < size /\ Begin(readi(bn)) /\ UNCHANGED bufVars /\ written' = written
    BY <1>9 DEF CallRead
  <2>2. PICK a, z : a = addrs /\ z = size
    OBVIOUS
  <2>3. \E r : Does(written, readi(bn), <<c, <<>>, got, a, z>>, r) /\ Fine(written, r)
    BY <1>3, <2>1, <2>2, ReadiDoes
  <2>4. todo' = readi(bn)
    BY <2>1 DEF Begin
  <2> QED BY <1>5, <1>6, <1>7, <2>1, <2>2, <2>3, <2>4
<1>10. CASE CallTruncate
  <2>1. Begin(itrunc) /\ UNCHANGED bufVars /\ written' = [i \in 0 .. MAXFILE - 1 |-> 0]
    BY <1>10 DEF CallTruncate
  <2>2. PICK a, z, y : a = addrs /\ z = size /\ y = written'
    OBVIOUS
  <2>3. Sound(c, a)
    BY <1>3, <2>2 DEF File
  <2>4. \E r : Does(y, itrunc, <<c, <<>>, got, a, z>>, r) /\ Fine(y, r)
    BY <1>3, <2>2, <2>3, ItruncDoes
  <2>5. todo' = itrunc /\ DOMAIN written' = 0 .. MAXFILE - 1
    BY <2>1 DEF Begin
  <2> QED BY <1>5, <1>7, <2>1, <2>2, <2>4, <2>5
<1>11. CASE Reopen
  <2>1. Begin(iget) /\ (BufRestart \/ UNCHANGED bufVars) /\ written' = written
    BY <1>11 DEF Reopen
  <2>2. PICK q : q = <<c, <<>>, got, addrs, size>>
    OBVIOUS
  <2>3. Does(written, iget, q, q) /\ Fine(written, q)
    BY <1>3, <2>2, IgetDoes
  <2>4. todo' = iget
    BY <2>1 DEF Begin
  <2>5. BufRestart => Shows(c)'
    BY <1>3 DEF BufRestart, Shows
  <2> QED BY <1>5, <1>6, <1>7, <2>1, <2>2, <2>3, <2>4, <2>5
<1> QED BY <1>8, <1>9, <1>10, <1>11 DEF Call

LEMMA FInvInit == Init => FInv
<1> SUFFICES ASSUME Init PROVE FInv
  OBVIOUS
<1>1. /\ addrs = [i \in 0 .. NDIRECT |-> 0] /\ size = 0 /\ todo = <<>> /\ held = <<>> /\ got = 0
      /\ written = [i \in 0 .. MAXFILE - 1 |-> 0] /\ BufInit
  BY DEF Init
<1>2. PICK c : c = Disk0
  OBVIOUS
<1>3. c \in Contents
  BY <1>2, BufCacheAssumption DEF Contents
<1>4. /\ c[BM] = [i \in Index |-> 0] /\ c[IB] = [i \in Index |-> 0]
  BY <1>2, LayoutAssumption
<1>5. addrs \in [0 .. NDIRECT -> Nat] /\ \A i \in 0 .. NDIRECT : addrs[i] = 0
  BY <1>1
<1>6. Sound(c, addrs)
  <2>1. \A k \in Places : At(c, addrs, k) = 0
    <3>1. NDIRECT \in 0 .. NDIRECT
      BY Layout
    <3> QED BY <1>5, <3>1, PlaceIs DEF At
  <2>2. \A b \in Blocks : b \in Index /\ b # 0
    BY Layout
  <2> QED BY <1>4, <2>1, <2>2 DEF Sound
<1>7. OnDisk(c, addrs, 0)
  <2>1. \A i \in 0 .. NDIRECT : i \in Index
    BY Layout
  <2>2. SizeWord \in Index
    BY Layout
  <2> QED BY <1>4, <1>5, <2>1, <2>2 DEF OnDisk
<1>8. File(written, c, addrs, 0)
  <2>1. 0 \in 0 .. MAXFILE
    BY Layout DEF MAXFILE
  <2> QED BY <1>6, <1>7, <2>1 DEF File, Kept
<1>9. PICK q : q = <<c, <<>>, got, addrs, size>>
  OBVIOUS
<1>10. Fine(written, q)
  BY <1>1, <1>3, <1>5, <1>8, <1>9 DEF Fine
<1>11. q \in Worlds
  <2>1. got \in Nat /\ size \in Nat /\ <<>> \in Seq(Sector)
    BY <1>1
  <2> QED BY <1>3, <1>5, <1>9, <2>1 DEF Worlds
<1>12. Does(written, todo, q, q)
  BY <1>1, <1>11, DoesNone
<1>13. Shows(c) /\ Holds(<<>>) /\ HeldValid
  BY <1>1, <1>2 DEF Shows, Holds, HeldValid, BufInit
<1>14. Onward(c, <<>>, q)
  BY <1>3, <1>9, <1>10, <1>12, <1>13 DEF Onward, World
<1> QED BY <1>1, <1>13, <1>14 DEF FInv

LEMMA FInvNext == CInv /\ FInv /\ [Next]_vars => FInv'
<1> SUFFICES ASSUME CInv, FInv, [Next]_vars PROVE FInv'
  OBVIOUS
<1>1. CASE Call
  BY <1>1, FBeginStep
<1>2. CASE StepRead
  <2>1. PICK f, s : f \in {"bread", "breadgot"} /\ Now(f) /\ Read(s) /\ s = IF f = "bread" THEN Arg ELSE got
    BY <1>2 DEF StepRead
  <2> QED BY <2>1, FReadStep
<1>3. CASE lost /\ (Step \/ Driver \/ Disk)
  <2>1. written' = written
    BY <1>3 DEF Step, StepRead, Read, StepWrite, StepRelease, StepPick, StepClear, StepFill, StepInode,
                StepLook, StepSetWord, StepFreeWord, StepMemory, Change, Driver, Disk, fileVars
  <2>2. lost'
    BY <1>3 DEF Step, StepRead, Read, StepWrite, StepRelease, StepPick, StepClear, StepFill, StepInode,
                StepLook, StepSetWord, StepFreeWord, StepMemory, Change, Driver, Disk, fileVars
  <2> QED BY <2>1, <2>2 DEF FInv
<1>4. CASE ~lost /\ StepWrite
  BY <1>4, FWriteStep
<1>5. CASE ~lost /\ StepRelease
  BY <1>5, FReleaseStep
<1>6. CASE ~lost /\ StepPick
  BY <1>6, FPickStep
<1>7. CASE ~lost /\ (StepClear \/ StepFill \/ StepInode \/ StepSetWord)
  BY <1>7, FSettingSteps
<1>8. CASE ~lost /\ StepLook
  BY <1>8, FLookStep
<1>9. CASE ~lost /\ StepFreeWord
  BY <1>9, FFreeWordStep
<1>10. CASE ~lost /\ StepMemory
  BY <1>10, FMemoryStep
<1>11. CASE ~lost /\ Driver
  BY <1>11, FDriverStep
<1>12. CASE ~lost /\ Disk
  BY <1>12, FDiskStep
<1>13. CASE UNCHANGED vars
  <2>1. UNCHANGED <<sector, valid, dirty, data, disk, idequeue, io, held, todo, got, addrs, size, written, lost>>
    BY <1>13 DEF vars, bufVars, fileVars
  <2>2. CASE lost
    BY <2>1, <2>2 DEF FInv
  <2>3. CASE ~lost
    <3>1. PICK c, u, r : Onward(c, u, r)
      BY <2>3 DEF FInv
    <3>2. c \in Contents /\ Shows(c) /\ Holds(u) /\ Does(written, todo, World(c, u), r) /\ Fine(written, r)
      BY <3>1 DEF Onward
    <3>3. HeldValid
      BY <2>3 DEF FInv
    <3>4. Does(written, todo', <<c, u, got', addrs', size'>>, r)
      BY <2>1, <3>2 DEF World
    <3> QED BY <2>1, <2>3, <3>2, <3>3, <3>4, QuietStep
  <2> QED BY <2>2, <2>3
<1> QED BY <1>1, <1>2, <1>3, <1>4, <1>5, <1>6, <1>7, <1>8, <1>9, <1>10, <1>11, <1>12, <1>13 DEF Next, Step

LEMMA FInvAlways == Spec => [](CInv /\ FInv)
<1>1. CInv /\ FInv /\ [Next]_vars => (CInv /\ FInv)'
  BY CInvNext, FInvNext
<1> QED BY CInvInit, FInvInit, <1>1, PTL DEF Spec

(* The pointers on the disk and the places of the file are the same.       *)
LEMMA PointersAre ==
  ASSUME NEW c \in Contents, NEW a \in [0 .. NDIRECT -> Nat], NEW z, Sound(c, a), OnDisk(c, a, z),
         \A s \in Sector : c[s] = disk[s]
  PROVE  /\ \A k \in Places : At(c, a, k) # 0 => \E p \in Pointers : To(p) = At(c, a, k)
         /\ \A p \in Pointers : \E k \in Places : To(p) = At(c, a, k)
         /\ \A p, q \in Pointers : To(p) = To(q) /\ To(p) # 0 => p = q
<1> DEFINE Place(k, p) ==
      \/ k \in 0 .. NDIRECT /\ p = <<IB, k>>
      \/ /\ k \in Places /\ ~(k <= NDIRECT) /\ a[NDIRECT] # 0
         /\ p = <<a[NDIRECT], k - NDIRECT - 1>>
<1>1. disk[IB] = c[IB] /\ NDIRECT \in 0 .. NDIRECT /\ NDIRECT \in Nat /\ NINDIRECT \in Nat
  BY Layout
<1>2. \A i \in 0 .. NDIRECT : disk[IB][i] = a[i]
  BY <1>1 DEF OnDisk
<1>3. a[NDIRECT] # 0 => disk[a[NDIRECT]] = c[a[NDIRECT]]
  <2>1. At(c, a, NDIRECT) = a[NDIRECT] /\ NDIRECT \in Places
    BY <1>1, PlaceIs DEF At
  <2>2. a[NDIRECT] # 0 => a[NDIRECT] \in Blocks
    BY <2>1 DEF Sound
  <2> QED BY <2>2, Layout
<1>4. ASSUME NEW k, NEW p, Place(k, p) PROVE k \in Places /\ p \in Pointers /\ To(p) = At(c, a, k)
  <2>1. CASE k \in 0 .. NDIRECT /\ p = <<IB, k>>
    <3>1. k <= NDIRECT /\ k \in Places
      BY <1>1, <2>1, PlaceIs
    <3>2. p \in Pointers
      BY <2>1 DEF Pointers
    <3> QED BY <1>2, <2>1, <3>1, <3>2 DEF To, At
  <2>2. CASE k \in Places /\ ~(k <= NDIRECT) /\ a[NDIRECT] # 0 /\ p = <<a[NDIRECT], k - NDIRECT - 1>>
    <3>1. k - NDIRECT - 1 \in 0 .. NINDIRECT - 1
      BY <2>2, PlaceIs
    <3>2. p \in Pointers
      BY <1>1, <1>2, <2>2, <3>1 DEF Pointers
    <3> QED BY <1>3, <2>2, <3>2 DEF To, At
  <2> QED BY <1>4, <2>1, <2>2
<1>5. ASSUME NEW p \in Pointers PROVE \E k : Place(k, p)
  <2>1. CASE \E i \in 0 .. NDIRECT : p = <<IB, i>>
    BY <2>1
  <2>2. CASE a[NDIRECT] # 0 /\ \E i \in 0 .. NINDIRECT - 1 : p = <<a[NDIRECT], i>>
    <3>1. PICK i \in 0 .. NINDIRECT - 1 : p = <<a[NDIRECT], i>>
      BY <2>2
    <3>2. PICK k : k = NDIRECT + 1 + i
      OBVIOUS
    <3>3. k \in Places /\ ~(k <= NDIRECT) /\ k - NDIRECT - 1 = i
      BY <1>1, <3>2 DEF Places
    <3> QED BY <2>2, <3>1, <3>3
  <2>3. \/ \E i \in 0 .. NDIRECT : p = <<IB, i>>
        \/ a[NDIRECT] # 0 /\ \E i \in 0 .. NINDIRECT - 1 : p = <<a[NDIRECT], i>>
    <3>1. disk[IB][NDIRECT] = a[NDIRECT]
      BY <1>1, <1>2
    <3> QED BY <3>1 DEF Pointers
  <2> QED BY <2>1, <2>2, <2>3
<1>6. ASSUME NEW k \in Places, At(c, a, k) # 0 PROVE \E p : Place(k, p)
  <2>1. CASE k <= NDIRECT
    <3>1. k \in 0 .. NDIRECT
      BY <2>1, PlaceIs
    <3> QED BY <3>1
  <2>2. CASE ~(k <= NDIRECT)
    <3>1. a[NDIRECT] # 0
      BY <1>6, <2>2 DEF At
    <3> QED BY <2>2, <3>1
  <2> QED BY <2>1, <2>2
<1>7. ASSUME NEW k, NEW p, NEW q, Place(k, p), Place(k, q) PROVE p = q
  <2>1. k \in 0 .. NDIRECT => k <= NDIRECT
    BY <1>1
  <2> QED BY <1>7, <2>1
<1> HIDE DEF Place
<1>8. ASSUME NEW k \in Places, At(c, a, k) # 0 PROVE \E p \in Pointers : To(p) = At(c, a, k)
  BY <1>4, <1>6, <1>8
<1>9. ASSUME NEW p \in Pointers PROVE \E k \in Places : To(p) = At(c, a, k)
  BY <1>4, <1>5
<1>10. ASSUME NEW p \in Pointers, NEW q \in Pointers, To(p) = To(q), To(p) # 0 PROVE p = q
  <2>1. PICK k, l : Place(k, p) /\ Place(l, q)
    BY <1>5
  <2>2. /\ k \in Places /\ l \in Places /\ To(p) = At(c, a, k) /\ To(q) = At(c, a, l)
    BY <1>4, <2>1
  <2>3. k = l
    BY <1>10, <2>2 DEF Sound
  <2> QED BY <1>7, <2>1, <2>3
<1> QED BY <1>8, <1>9, <1>10

(* Between calls each block in use is in the file at one place and each    *)
(* place of the file has a block in use, whatever was written, read, cut   *)
(* and reopened before and however the interrupts fell; within a call      *)
(* balloc finds a block and bfree frees one in use, so neither panics      *)
(* (balloc, bfree, bmap, itrunc, iupdate of inode.c on cache.c), for every *)
(* size of file and of disk; until a buffer in use is given away.          *)
THEOREM BlocksSoundAlways == Spec => []BlocksSound
<1>1. ASSUME CInv, FInv PROVE BlocksSound
  <2>1. SUFFICES ASSUME ~lost
        PROVE  /\ todo = <<>> =>
                     /\ {To(p) : p \in Pointers} \ {0} = Used
                     /\ \A p, q \in Pointers : To(p) = To(q) /\ To(p) # 0 => p = q
               /\ Now("pick") => Free # {}
               /\ Now("clear") => data[Top][Arg] = 1
    BY DEF BlocksSound
  <2>2. ASSUME todo = <<>>
        PROVE  /\ {To(p) : p \in Pointers} \ {0} = Used
               /\ \A p, q \in Pointers : To(p) = To(q) /\ To(p) # 0 => p = q
    <3>1. PICK c \in Contents :
             /\ File(written, c, addrs, size) /\ addrs \in [0 .. NDIRECT -> Nat]
             /\ \A s \in Sector : c[s] = disk[s]
      BY <1>1, <2>1, <2>2, AtRest
    <3>2. PICK a, z : a = addrs /\ z = size
      OBVIOUS
    <3>3. Sound(c, a) /\ OnDisk(c, a, z) /\ a \in [0 .. NDIRECT -> Nat]
      BY <3>1, <3>2 DEF File
    <3>4. /\ \A k \in Places : At(c, a, k) # 0 => \E p \in Pointers : To(p) = At(c, a, k)
          /\ \A p \in Pointers : \E k \in Places : To(p) = At(c, a, k)
          /\ \A p, q \in Pointers : To(p) = To(q) /\ To(p) # 0 => p = q
      BY <3>1, <3>3, PointersAre
    <3>5. \A b \in Blocks : disk[BM][b] = 1 <=> \E k \in Places : At(c, a, k) = b
      <4>1. disk[BM] = c[BM]
        BY <3>1, Layout
      <4> QED BY <3>3, <4>1 DEF Sound
    <3>6. ASSUME NEW b \in Used PROVE b \in {To(p) : p \in Pointers} \ {0}
      <4>1. b \in Blocks /\ b # 0
        BY Layout DEF Used
      <4>2. PICK k \in Places : At(c, a, k) = b
        BY <3>5, <4>1 DEF Used
      <4> QED BY <3>4, <4>1, <4>2
    <3>7. ASSUME NEW p \in Pointers, To(p) # 0 PROVE To(p) \in Used
      <4>1. PICK k \in Places : To(p) = At(c, a, k)
        BY <3>4
      <4>2. To(p) \in Blocks
        BY <3>3, <3>7, <4>1 DEF Sound
      <4> QED BY <3>5, <4>1, <4>2 DEF Used
    <3> QED BY <3>4, <3>6, <3>7
  <2>3. ASSUME Now("pick") PROVE Free # {}
    <3>1. PICK c, t, u, m, r : AtTop("pick", c, t, u, m, r)
      BY <1>1, <2>1, <2>3, TopIs DEF TopOps, Closing
    <3>2. c[t] = data[Top] /\ \E b \in FreeIn(c[t]) : TRUE
      BY <3>1 DEF AtTop, OnTop
    <3> QED BY <3>2 DEF FreeIn, Free
  <2>4. ASSUME Now("clear") PROVE data[Top][Arg] = 1
    <3>1. PICK c, t, u, m, r : AtTop("clear", c, t, u, m, r)
      BY <1>1, <2>1, <2>4, TopIs DEF TopOps, Setting
    <3> QED BY <3>1 DEF AtTop, OnTop
  <2> QED BY <2>2, <2>3, <2>4
<1> QED BY <1>1, FInvAlways, PTL

(* What a read copies out of a block is what was last written there, after *)
(* any sequence of writes, cuts, reopenings and restarts of the machine    *)
(* (readi and writei through bmap and the cache), until a buffer in use is *)
(* given away.                                                             *)
THEOREM ReadsBackAlways == Spec => []ReadsBack
<1>1. ASSUME CInv, FInv PROVE ReadsBack
  <2>1. SUFFICES ASSUME ~lost, Now("copy") PROVE data[Top][Word] = written[Arg]
    BY DEF ReadsBack
  <2>2. PICK c, t, u, m, r : AtTop("copy", c, t, u, m, r)
    BY <1>1, <2>1, TopIs DEF TopOps
  <2> QED BY <2>2 DEF AtTop, OnTop
<1> QED BY <1>1, FInvAlways, PTL
===========================================================================
