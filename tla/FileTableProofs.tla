-------------------------- MODULE FileTableProofs --------------------------
(***************************************************************************)
(* Proofs about descriptors, files, pipes' ends and inode references, for  *)
(* every number of processes, files, descriptors, inodes and pages.  The   *)
(* functions of the code each leave the counts wrong by a known amount,    *)
(* which the next one mends: Good(st, e, h) says that file f is counted    *)
(* e[f] times too often, inode i h[i] times.                               *)
(***************************************************************************)
EXTENDS FileTable, FiniteSetTheorems, WellFoundedInduction, TLAPS

File == [type : {"none", "pipe", "inode"}, ref : Nat, writable : BOOLEAN,
         pipe : Page \cup {0}, ip : Inum \cup {0}]

States == [files : [Files -> File], ofile : [Procs -> [Fds -> 0 .. RESERVED]],
           cwd : [Procs -> Inum \cup {0}], iref : [Inum -> Int],
           pipes : [Page -> [readopen : BOOLEAN, writeopen : BOOLEAN]],
           lost : [Inum -> Int], stuck : BOOLEAN]

FilesAre(fs) ==
    \A f \in Files : /\ fs[f].type = "none" <=> fs[f].ref = 0
                     /\ fs[f].type = "pipe" => fs[f].pipe \in Page
                     /\ fs[f].type = "inode" => fs[f].ip \in Inum

RefsIn(of, f) == {x \in Procs \X Fds : of[x[1]][x[2]] = f}

Counted(fs, of, e) == \A f \in Files : fs[f].ref = Cardinality(RefsIn(of, f)) + e[f]

IsEnd(fs, f, g, w) == fs[f].type = "pipe" /\ fs[f].pipe = g /\ fs[f].writable = w

IsOpen(ps, g, w) == IF w THEN ps[g].writeopen ELSE ps[g].readopen

EndsAre(fs, ps) ==
    \A g \in Page, w \in BOOLEAN :
        /\ IsOpen(ps, g, w) <=> \E f \in Files : IsEnd(fs, f, g, w)
        /\ \A f1, f2 \in Files : IsEnd(fs, f1, g, w) /\ IsEnd(fs, f2, g, w) => f1 = f2

FilesOf(fs, i) == {f \in Files : fs[f].type = "inode" /\ fs[f].ip = i}

HomesAt(cw, i) == {p \in Procs : cw[p] = i}

Held(fs, cw, ir, ls, h) ==
    \A i \in Inum :
        ir[i] = Cardinality(FilesOf(fs, i)) + Cardinality(HomesAt(cw, i)) + ls[i] + h[i]

Sums(st, e, h) ==
    /\ st \in States
    /\ FilesAre(st.files) /\ Counted(st.files, st.ofile, e)
    /\ Held(st.files, st.cwd, st.iref, st.lost, h)

Good(st, e, h) == Sums(st, e, h) /\ EndsAre(st.files, st.pipes)

WithFd(st, p, d, b) == [st EXCEPT !.ofile[p][d] = b]

WithCwd(st, p, j) == [st EXCEPT !.cwd[p] = j]

WithFile(st, f, r) == [st EXCEPT !.files[f] = r]

(* The inode a file stands for, or 0.                                     *)
HeldBy(r) == IF r.type = "inode" THEN r.ip ELSE 0

Even(S) == [x \in S |-> 0]

Plus(e, x, n) == [e EXCEPT ![x] = @ + n]

-----------------------------------------------------------------------------
LEMMA Sizes ==
  /\ NFILE \in Nat /\ NOFILE \in Nat /\ NINODE \in Nat /\ NULL = 0 /\ NULL \notin Files
  /\ RESERVED \notin Files /\ Files \subseteq 0 .. RESERVED /\ Files \subseteq Nat
  /\ 0 \in 0 .. RESERVED /\ RESERVED \in 0 .. RESERVED
  /\ \A b \in 0 .. RESERVED : b \notin Files => b = NULL \/ b = RESERVED
  /\ 0 \notin Inum /\ 0 \notin Page /\ ROOTINO \in Inum /\ Dirs \subseteq Inum
BY FileTableAssumption DEF NULL, RESERVED, Files

LEMMA PlusIs ==
  ASSUME NEW S, NEW e \in [S -> Int], NEW x, NEW n \in Int
  PROVE  /\ Plus(e, x, n) \in [S -> Int]
         /\ \A y \in S : Plus(e, x, n)[y] = e[y] + (IF y = x THEN n ELSE 0)
         /\ x \notin S => Plus(e, x, n) = e
<1>1. /\ Plus(e, x, n) \in [S -> Int]
      /\ \A y \in S : Plus(e, x, n)[y] = e[y] + (IF y = x THEN n ELSE 0)
  <2>1. ASSUME NEW y \in S
        PROVE  Plus(e, x, n)[y] = e[y] + (IF y = x THEN n ELSE 0) /\ Plus(e, x, n)[y] \in Int
    <3>1. e[y] \in Int
      OBVIOUS
    <3>2. CASE y = x
      BY <3>1, <3>2 DEF Plus
    <3>3. CASE y # x
      BY <3>1, <3>3 DEF Plus
    <3> QED BY <3>2, <3>3
  <2> QED BY <2>1 DEF Plus
<1>2. ASSUME x \notin S PROVE Plus(e, x, n) = e
  <2>1. \A y \in S : Plus(e, x, n)[y] = e[y]
    BY <1>1, <1>2
  <2> QED BY <1>1, <2>1 DEF Plus
<1> QED BY <1>1, <1>2

LEMMA PlusBack ==
  ASSUME NEW S, NEW e \in [S -> Int], NEW x
  PROVE  Plus(Plus(e, x, 1), x, -1) = e /\ Plus(Plus(e, x, -1), x, 1) = e
<1>1. Plus(e, x, 1) \in [S -> Int] /\ Plus(e, x, -1) \in [S -> Int]
  BY PlusIs
<1>2. ASSUME NEW y \in S PROVE /\ Plus(Plus(e, x, 1), x, -1)[y] = e[y]
                               /\ Plus(Plus(e, x, -1), x, 1)[y] = e[y]
  BY DEF Plus
<1> QED BY <1>1, <1>2 DEF Plus

LEMMA EvenIs == ASSUME NEW S PROVE Even(S) \in [S -> Int]
BY DEF Even

LEMMA Finite ==
  /\ IsFiniteSet(Files) /\ IsFiniteSet(Procs) /\ IsFiniteSet(Procs \X Fds)
<1>1. IsFiniteSet(Files) /\ IsFiniteSet(Fds)
  BY Sizes, FS_Interval DEF Files, Fds
<1>2. IsFiniteSet(Procs)
  BY FileTableAssumption
<1> QED BY <1>1, <1>2, FS_Product

(* A set that gains or loses x.                                            *)
LEMMA CardMove ==
  ASSUME NEW S, NEW T, IsFiniteSet(S), NEW x, S \ {x} = T \ {x}
  PROVE  /\ Cardinality(S) \in Nat /\ Cardinality(T) \in Nat
         /\ Cardinality(T) = Cardinality(S) + (IF x \in T THEN 1 ELSE 0) - (IF x \in S THEN 1 ELSE 0)
<1>1. IsFiniteSet(S \ {x}) /\ Cardinality(S) \in Nat
  BY FS_Subset, FS_CardinalityType
<1>2. PICK R : R = S \ {x} /\ R = T \ {x} /\ IsFiniteSet(R) /\ x \notin R
  BY <1>1
<1>3. Cardinality(R) \in Nat /\ Cardinality(R \cup {x}) = Cardinality(R) + 1
  BY <1>2, FS_AddElement, FS_CardinalityType
<1>4. /\ S = IF x \in S THEN R \cup {x} ELSE R
      /\ T = IF x \in T THEN R \cup {x} ELSE R
  BY <1>2
<1>5. /\ Cardinality(S) = IF x \in S THEN Cardinality(R) + 1 ELSE Cardinality(R)
      /\ Cardinality(T) = IF x \in T THEN Cardinality(R) + 1 ELSE Cardinality(R)
  BY <1>3, <1>4
<1> QED BY <1>1, <1>3, <1>5

LEMMA RefsFinite ==
  ASSUME NEW of, NEW f
  PROVE  IsFiniteSet(RefsIn(of, f)) /\ Cardinality(RefsIn(of, f)) \in Nat
BY Finite, FS_Subset, FS_CardinalityType DEF RefsIn

LEMMA HoldersFinite ==
  ASSUME NEW fs, NEW cw, NEW i
  PROVE  /\ IsFiniteSet(FilesOf(fs, i)) /\ Cardinality(FilesOf(fs, i)) \in Nat
         /\ IsFiniteSet(HomesAt(cw, i)) /\ Cardinality(HomesAt(cw, i)) \in Nat
<1>1. IsFiniteSet(FilesOf(fs, i)) /\ IsFiniteSet(HomesAt(cw, i))
  BY Finite, FS_Subset DEF FilesOf, HomesAt
<1> QED BY <1>1, FS_CardinalityType

-----------------------------------------------------------------------------
(* What one assignment does to the counts.                                 *)
LEMMA Fields ==
  ASSUME NEW st \in States
  PROVE  /\ st.files \in [Files -> File] /\ st.ofile \in [Procs -> [Fds -> 0 .. RESERVED]]
         /\ st.cwd \in [Procs -> Inum \cup {0}] /\ st.iref \in [Inum -> Int]
         /\ st.pipes \in [Page -> [readopen : BOOLEAN, writeopen : BOOLEAN]]
         /\ st.lost \in [Inum -> Int] /\ st.stuck \in BOOLEAN
BY DEF States

(* ofile[p][d] becomes b.                                                  *)
OnlyFd(s, t, p, d, b) ==
    /\ t.ofile[p][d] = b
    /\ \A q \in Procs, n \in Fds : <<q, n>> # <<p, d>> => t.ofile[q][n] = s.ofile[q][n]
    /\ t.files = s.files /\ t.cwd = s.cwd /\ t.iref = s.iref /\ t.pipes = s.pipes
    /\ t.lost = s.lost /\ t.stuck = s.stuck

LEMMA SetFd ==
  ASSUME NEW st, NEW e \in [Files -> Int], NEW h, Good(st, e, h),
         NEW p \in Procs, NEW d \in Fds, NEW b \in 0 .. RESERVED,
         NEW t, t = WithFd(st, p, d, b), NEW a, a = st.ofile[p][d]
  PROVE  /\ Good(t, Plus(Plus(e, a, 1), b, -1), h)
         /\ OnlyFd(st, t, p, d, b)
<1>1. st \in States
  BY DEF Good, Sums
<1>2. PICK of, of2 : of = st.ofile /\ of2 = [of EXCEPT ![p][d] = b]
  OBVIOUS
<1>3. of \in [Procs -> [Fds -> 0 .. RESERVED]] /\ of2 \in [Procs -> [Fds -> 0 .. RESERVED]]
  BY <1>1, <1>2, Fields
<1>4. /\ t \in States /\ t.ofile = of2
      /\ t.files = st.files /\ t.cwd = st.cwd /\ t.iref = st.iref /\ t.pipes = st.pipes
      /\ t.lost = st.lost /\ t.stuck = st.stuck
  BY <1>1, <1>2, <1>3 DEF States, WithFd
<1>5. of2[p][d] = b /\ \A q \in Procs, n \in Fds : <<q, n>> # <<p, d>> => of2[q][n] = of[q][n]
  BY <1>2, <1>3
<1>6. ASSUME NEW f \in Files
      PROVE  Cardinality(RefsIn(of2, f)) =
                 Cardinality(RefsIn(of, f)) + (IF b = f THEN 1 ELSE 0) - (IF a = f THEN 1 ELSE 0)
  <2>1. RefsIn(of2, f) \ {<<p, d>>} = RefsIn(of, f) \ {<<p, d>>}
    BY <1>5 DEF RefsIn
  <2>2. /\ <<p, d>> \in RefsIn(of2, f) <=> b = f
        /\ <<p, d>> \in RefsIn(of, f) <=> a = f
    BY <1>2, <1>5 DEF RefsIn
  <2> QED BY <2>1, <2>2, RefsFinite, CardMove
<1>7. Counted(t.files, t.ofile, Plus(Plus(e, a, 1), b, -1))
  <2>1. PICK e1 : e1 = Plus(e, a, 1)
    OBVIOUS
  <2>2. e1 \in [Files -> Int] /\ \A f \in Files : e1[f] = e[f] + (IF f = a THEN 1 ELSE 0)
    BY <2>1, PlusIs
  <2>3. \A f \in Files : Plus(e1, b, -1)[f] = e1[f] + (IF f = b THEN -1 ELSE 0)
    BY <2>2, PlusIs
  <2>4. ASSUME NEW f \in Files
        PROVE  t.files[f].ref = Cardinality(RefsIn(of2, f)) + Plus(e1, b, -1)[f]
    <3>1. st.files[f].ref = Cardinality(RefsIn(of, f)) + e[f]
      BY <1>2 DEF Good, Sums, Counted
    <3>2. e[f] \in Int /\ Cardinality(RefsIn(of, f)) \in Nat
      BY RefsFinite
    <3> QED BY <1>4, <1>6, <2>2, <2>3, <3>1, <3>2
  <2> QED BY <1>4, <2>1, <2>4 DEF Counted
<1> QED BY <1>2, <1>4, <1>5, <1>7 DEF Good, Sums, OnlyFd

(* cwd[p] becomes j.                                                       *)
OnlyCwd(s, t, p, j) ==
    /\ t.cwd[p] = j /\ \A q \in Procs \ {p} : t.cwd[q] = s.cwd[q]
    /\ t.files = s.files /\ t.ofile = s.ofile /\ t.iref = s.iref /\ t.pipes = s.pipes
    /\ t.lost = s.lost /\ t.stuck = s.stuck

LEMMA SetCwd ==
  ASSUME NEW st, NEW e, NEW h \in [Inum -> Int], Good(st, e, h),
         NEW p \in Procs, NEW j \in Inum \cup {0},
         NEW t, t = WithCwd(st, p, j), NEW a, a = st.cwd[p]
  PROVE  /\ Good(t, e, Plus(Plus(h, a, 1), j, -1))
         /\ OnlyCwd(st, t, p, j)
<1>1. st \in States
  BY DEF Good, Sums
<1>2. PICK cw, cw2 : cw = st.cwd /\ cw2 = [cw EXCEPT ![p] = j]
  OBVIOUS
<1>3. cw \in [Procs -> Inum \cup {0}] /\ cw2 \in [Procs -> Inum \cup {0}]
  BY <1>1, <1>2, Fields
<1>4. /\ t \in States /\ t.cwd = cw2
      /\ t.files = st.files /\ t.ofile = st.ofile /\ t.iref = st.iref /\ t.pipes = st.pipes
      /\ t.lost = st.lost /\ t.stuck = st.stuck
  BY <1>1, <1>2, <1>3 DEF States, WithCwd
<1>5. cw2[p] = j /\ \A q \in Procs : q # p => cw2[q] = cw[q]
  BY <1>2, <1>3
<1>6. ASSUME NEW i \in Inum
      PROVE  Cardinality(HomesAt(cw2, i)) =
                 Cardinality(HomesAt(cw, i)) + (IF j = i THEN 1 ELSE 0) - (IF a = i THEN 1 ELSE 0)
  <2>1. HomesAt(cw2, i) \ {p} = HomesAt(cw, i) \ {p}
    BY <1>5 DEF HomesAt
  <2>2. (p \in HomesAt(cw2, i) <=> j = i) /\ (p \in HomesAt(cw, i) <=> a = i)
    BY <1>2, <1>5 DEF HomesAt
  <2> QED BY <2>1, <2>2, HoldersFinite, CardMove
<1>7. Held(t.files, t.cwd, t.iref, t.lost, Plus(Plus(h, a, 1), j, -1))
  <2>1. PICK h1 : h1 = Plus(h, a, 1)
    OBVIOUS
  <2>2. h1 \in [Inum -> Int] /\ \A i \in Inum : h1[i] = h[i] + (IF i = a THEN 1 ELSE 0)
    BY <2>1, PlusIs
  <2>3. \A i \in Inum : Plus(h1, j, -1)[i] = h1[i] + (IF i = j THEN -1 ELSE 0)
    BY <2>2, PlusIs
  <2>4. ASSUME NEW i \in Inum
        PROVE  t.iref[i] = Cardinality(FilesOf(t.files, i)) + Cardinality(HomesAt(cw2, i))
                             + t.lost[i] + Plus(h1, j, -1)[i]
    <3>1. st.iref[i] = Cardinality(FilesOf(st.files, i)) + Cardinality(HomesAt(cw, i))
                             + st.lost[i] + h[i]
      BY <1>2 DEF Good, Sums, Held
    <3>2. /\ h[i] \in Int /\ Cardinality(FilesOf(st.files, i)) \in Nat
          /\ Cardinality(HomesAt(cw, i)) \in Nat /\ st.lost[i] \in Int
      BY <1>1, HoldersFinite, Fields
    <3> QED BY <1>4, <1>6, <2>2, <2>3, <3>1, <3>2
  <2> QED BY <1>4, <2>1, <2>4 DEF Held
<1> QED BY <1>2, <1>4, <1>5, <1>7 DEF Good, Sums, OnlyCwd

(* A reference to inode i is taken or given back.                          *)
LEMMA SetIref ==
  ASSUME NEW st, NEW e, NEW h \in [Inum -> Int], Good(st, e, h), NEW i \in Inum,
         NEW n \in {1, -1}, NEW t, t = [st EXCEPT !.iref[i] = @ + n]
  PROVE  /\ Good(t, e, Plus(h, i, n))
         /\ t.files = st.files /\ t.ofile = st.ofile /\ t.cwd = st.cwd /\ t.pipes = st.pipes
         /\ t.lost = st.lost /\ t.stuck = st.stuck
<1>1. st \in States /\ n \in Int
  BY DEF Good, Sums
<1>2. PICK ir : ir = [st.iref EXCEPT ![i] = @ + n]
  OBVIOUS
<1>3. ir \in [Inum -> Int] /\ \A j \in Inum : ir[j] = st.iref[j] + (IF j = i THEN n ELSE 0)
  BY <1>1, <1>2, Fields
<1>4. /\ t \in States /\ t.iref = ir
      /\ t.files = st.files /\ t.ofile = st.ofile /\ t.cwd = st.cwd /\ t.pipes = st.pipes
      /\ t.lost = st.lost /\ t.stuck = st.stuck
  BY <1>1, <1>2, <1>3 DEF States
<1>5. \A j \in Inum : Plus(h, i, n)[j] = h[j] + (IF j = i THEN n ELSE 0)
  BY <1>1, PlusIs
<1>6. ASSUME NEW j \in Inum
      PROVE  t.iref[j] = Cardinality(FilesOf(t.files, j)) + Cardinality(HomesAt(t.cwd, j))
                           + t.lost[j] + Plus(h, i, n)[j]
  <2>1. st.iref[j] = Cardinality(FilesOf(st.files, j)) + Cardinality(HomesAt(st.cwd, j))
                           + st.lost[j] + h[j]
    BY DEF Good, Sums, Held
  <2>2. /\ h[j] \in Int /\ Cardinality(FilesOf(st.files, j)) \in Nat
        /\ Cardinality(HomesAt(st.cwd, j)) \in Nat /\ st.lost[j] \in Int
    BY <1>1, HoldersFinite, Fields
  <2> QED BY <1>1, <1>3, <1>4, <1>5, <2>1, <2>2
<1> QED BY <1>4, <1>6 DEF Good, Sums, Held

LEMMA LoseIs ==
  ASSUME NEW st, NEW e, NEW h \in [Inum -> Int], Good(st, e, h), NEW i \in Inum, ~st.stuck,
         NEW t, t = Lose(st, i)
  PROVE  /\ Good(t, e, Plus(h, i, -1))
         /\ t.files = st.files /\ t.ofile = st.ofile /\ t.cwd = st.cwd /\ t.pipes = st.pipes
         /\ t.iref = st.iref /\ t.stuck = st.stuck
<1>1. st \in States
  BY DEF Good, Sums
<1>2. PICK ls : ls = [st.lost EXCEPT ![i] = @ + 1]
  OBVIOUS
<1>3. ls \in [Inum -> Int] /\ \A j \in Inum : ls[j] = st.lost[j] + (IF j = i THEN 1 ELSE 0)
  BY <1>1, <1>2, Fields
<1>4. /\ t \in States /\ t.lost = ls
      /\ t.files = st.files /\ t.ofile = st.ofile /\ t.cwd = st.cwd /\ t.pipes = st.pipes
      /\ t.iref = st.iref /\ t.stuck = st.stuck
  BY <1>1, <1>2, <1>3 DEF States, Lose
<1>5. \A j \in Inum : Plus(h, i, -1)[j] = h[j] + (IF j = i THEN -1 ELSE 0)
  BY PlusIs
<1>6. ASSUME NEW j \in Inum
      PROVE  t.iref[j] = Cardinality(FilesOf(t.files, j)) + Cardinality(HomesAt(t.cwd, j))
                           + t.lost[j] + Plus(h, i, -1)[j]
  <2>1. st.iref[j] = Cardinality(FilesOf(st.files, j)) + Cardinality(HomesAt(st.cwd, j))
                           + st.lost[j] + h[j]
    BY DEF Good, Sums, Held
  <2>2. /\ h[j] \in Int /\ Cardinality(FilesOf(st.files, j)) \in Nat
        /\ Cardinality(HomesAt(st.cwd, j)) \in Nat /\ st.lost[j] \in Int
    BY <1>1, HoldersFinite, Fields
  <2> QED BY <1>3, <1>4, <1>5, <2>1, <2>2
<1> QED BY <1>4, <1>6 DEF Good, Sums, Held

(* File f becomes r.                                                       *)
OnlyFile(s, t, f, r) ==
    /\ t.files[f] = r /\ \A y \in Files \ {f} : t.files[y] = s.files[y]
    /\ t.ofile = s.ofile /\ t.cwd = s.cwd /\ t.iref = s.iref /\ t.pipes = s.pipes
    /\ t.lost = s.lost /\ t.stuck = s.stuck

LEMMA SetFile ==
  ASSUME NEW st, NEW e \in [Files -> Int], NEW h \in [Inum -> Int], Sums(st, e, h),
         NEW f \in Files, NEW r \in File, r.type = "none" <=> r.ref = 0,
         r.type = "pipe" => r.pipe \in Page, r.type = "inode" => r.ip \in Inum,
         NEW t, t = WithFile(st, f, r), NEW x, x = st.files[f],
         NEW n, n = r.ref - x.ref
  PROVE  /\ Sums(t, Plus(e, f, n), Plus(Plus(h, HeldBy(x), 1), HeldBy(r), -1))
         /\ OnlyFile(st, t, f, r)
<1>1. st \in States
  BY DEF Sums
<1>2. PICK fs, fs2 : fs = st.files /\ fs2 = [fs EXCEPT ![f] = r]
  OBVIOUS
<1>0. PICK a, b : a = HeldBy(x) /\ b = HeldBy(r)
  OBVIOUS
<1>3. fs \in [Files -> File] /\ fs2 \in [Files -> File]
  BY <1>1, <1>2, Fields
<1>4. /\ t \in States /\ t.files = fs2
      /\ t.ofile = st.ofile /\ t.cwd = st.cwd /\ t.iref = st.iref /\ t.pipes = st.pipes
      /\ t.lost = st.lost /\ t.stuck = st.stuck
  BY <1>1, <1>2, <1>3 DEF States, WithFile
<1>5. fs2[f] = r /\ \A y \in Files : y # f => fs2[y] = fs[y]
  BY <1>2, <1>3
<1>6. FilesAre(fs2)
  BY <1>2, <1>5 DEF Sums, FilesAre
<1>7. x.ref \in Nat /\ r.ref \in Nat /\ n \in Int
  BY <1>2, <1>3 DEF File
<1>8. Counted(fs2, t.ofile, Plus(e, f, n))
  <2>1. \A y \in Files : Plus(e, f, n)[y] = e[y] + (IF y = f THEN n ELSE 0)
    BY <1>7, PlusIs
  <2>2. ASSUME NEW y \in Files
        PROVE  fs2[y].ref = Cardinality(RefsIn(st.ofile, y)) + Plus(e, f, n)[y]
    <3>1. fs[y].ref = Cardinality(RefsIn(st.ofile, y)) + e[y]
      BY <1>2 DEF Sums, Counted
    <3>2. e[y] \in Int /\ Cardinality(RefsIn(st.ofile, y)) \in Nat
      BY RefsFinite
    <3>3. CASE y = f
      <4>1. fs2[y].ref = r.ref /\ fs[y].ref = x.ref
        BY <1>2, <1>5, <3>3
      <4> QED BY <1>7, <2>1, <3>1, <3>2, <3>3, <4>1
    <3>4. CASE y # f
      BY <1>5, <2>1, <3>1, <3>2, <3>4
    <3> QED BY <3>3, <3>4
  <2> QED BY <1>4, <2>2 DEF Counted
<1>9. ASSUME NEW i \in Inum
      PROVE  Cardinality(FilesOf(fs2, i)) =
                 Cardinality(FilesOf(fs, i)) + (IF b = i THEN 1 ELSE 0) - (IF a = i THEN 1 ELSE 0)
  <2>1. FilesOf(fs2, i) \ {f} = FilesOf(fs, i) \ {f}
    BY <1>5 DEF FilesOf
  <2>2. i # 0
    BY Sizes
  <2>3. f \in FilesOf(fs2, i) <=> b = i
    BY <1>0, <1>5, <2>2 DEF FilesOf, HeldBy
  <2>4. f \in FilesOf(fs, i) <=> a = i
    BY <1>0, <1>2, <2>2 DEF FilesOf, HeldBy
  <2> QED BY <2>1, <2>3, <2>4, HoldersFinite, CardMove
<1>10. Held(fs2, t.cwd, t.iref, t.lost, Plus(Plus(h, a, 1), b, -1))
  <2>1. PICK h1 : h1 = Plus(h, a, 1)
    OBVIOUS
  <2>2. h1 \in [Inum -> Int] /\ \A i \in Inum : h1[i] = h[i] + (IF i = a THEN 1 ELSE 0)
    BY <2>1, PlusIs
  <2>3. \A i \in Inum : Plus(h1, b, -1)[i] = h1[i] + (IF i = b THEN -1 ELSE 0)
    BY <2>2, PlusIs
  <2>4. ASSUME NEW i \in Inum
        PROVE  t.iref[i] = Cardinality(FilesOf(fs2, i)) + Cardinality(HomesAt(t.cwd, i))
                             + t.lost[i] + Plus(h1, b, -1)[i]
    <3>1. st.iref[i] = Cardinality(FilesOf(fs, i)) + Cardinality(HomesAt(st.cwd, i))
                             + st.lost[i] + h[i]
      BY <1>2 DEF Sums, Held
    <3>2. /\ h[i] \in Int /\ Cardinality(FilesOf(fs, i)) \in Nat
          /\ Cardinality(HomesAt(st.cwd, i)) \in Nat /\ st.lost[i] \in Int
      BY <1>1, HoldersFinite, Fields
    <3> QED BY <1>4, <1>9, <2>2, <2>3, <3>1, <3>2
  <2> QED BY <2>1, <2>4 DEF Held
<1> QED BY <1>0, <1>2, <1>4, <1>5, <1>6, <1>8, <1>10 DEF Sums, OnlyFile

-----------------------------------------------------------------------------
(* What the functions of the code do to the counts.                        *)
Keeps(s, t) ==
    t.files = s.files /\ t.ofile = s.ofile /\ t.cwd = s.cwd /\ t.pipes = s.pipes

LEMMA HaltIs ==
  ASSUME NEW st, NEW e, NEW h, Good(st, e, h), NEW t, t = Halt(st)
  PROVE  Good(t, e, h) /\ Keeps(st, t) /\ t.iref = st.iref /\ t.stuck
<1>1. st \in States
  BY DEF Good, Sums
<1>2. /\ t \in States /\ t.files = st.files /\ t.ofile = st.ofile /\ t.cwd = st.cwd
      /\ t.iref = st.iref /\ t.pipes = st.pipes /\ t.lost = st.lost /\ t.stuck
  BY <1>1 DEF States, Halt
<1> QED BY <1>2 DEF Good, Sums, Keeps

LEMMA IdupIs ==
  ASSUME NEW st, NEW e, NEW h \in [Inum -> Int], Good(st, e, h), NEW i \in Inum,
         NEW t, t = idup(st, i)
  PROVE  /\ Keeps(st, t) /\ t.stuck = st.stuck
         /\ st.stuck => Good(t, e, h)
         /\ ~st.stuck => Good(t, e, Plus(h, i, 1))
<1>1. CASE st.stuck
  BY <1>1 DEF idup, Keeps
<1>2. CASE ~st.stuck
  <2>1. t = [st EXCEPT !.iref[i] = @ + 1]
    BY <1>2 DEF idup
  <2> QED BY <1>2, <2>1, SetIref DEF Keeps
<1> QED BY <1>1, <1>2

LEMMA IgetIs ==
  ASSUME NEW st, NEW e, NEW h \in [Inum -> Int], Good(st, e, h), NEW i \in Inum,
         NEW t, t = iget(st, i)
  PROVE  /\ Keeps(st, t)
         /\ st.stuck => t.stuck
         /\ t.stuck => Good(t, e, h)
         /\ ~t.stuck => Good(t, e, Plus(h, i, 1))
<1>1. CASE st.iref[i] = 0 /\ Full(st)
  BY <1>1, HaltIs DEF iget
<1>2. CASE ~(st.iref[i] = 0 /\ Full(st))
  <2>1. t = idup(st, i)
    BY <1>2 DEF iget
  <2> QED BY <2>1, IdupIs
<1> QED BY <1>1, <1>2

LEMMA IputIs ==
  ASSUME NEW st, NEW e, NEW h \in [Inum -> Int], Good(st, e, h), NEW i \in Inum,
         NEW t, t = iput(st, i)
  PROVE  /\ Keeps(st, t) /\ t.stuck = st.stuck
         /\ st.stuck => Good(t, e, h)
         /\ ~st.stuck => Good(t, e, Plus(h, i, -1))
<1>1. CASE st.stuck
  BY <1>1 DEF iput, Keeps
<1>2. CASE ~st.stuck
  <2>1. st \in States
    BY DEF Good, Sums
  <2>2. st.iref \in [Inum -> Int]
    BY <2>1, Fields
  <2>3. [st.iref EXCEPT ![i] = @ - 1] = [st.iref EXCEPT ![i] = @ + (-1)]
    BY <2>2
  <2>4. t = [st EXCEPT !.iref = [st.iref EXCEPT ![i] = @ - 1]]
    BY <1>2 DEF iput
  <2>5. t = [st EXCEPT !.iref[i] = @ + (-1)]
    BY <2>3, <2>4
  <2> QED BY <1>2, <2>5, SetIref DEF Keeps
<1> QED BY <1>1, <1>2

LEMMA EndsSame ==
  ASSUME NEW fs, NEW fs2, NEW ps, EndsAre(fs, ps),
         \A f \in Files, g \in Page, w \in BOOLEAN : IsEnd(fs2, f, g, w) <=> IsEnd(fs, f, g, w)
  PROVE  EndsAre(fs2, ps)
BY DEF EndsAre

LEMMA FiledupIs ==
  ASSUME NEW st, NEW e \in [Files -> Int], NEW h \in [Inum -> Int], Good(st, e, h), ~st.stuck,
         NEW f, f \in Files => st.files[f].ref # 0, NEW t, t = filedup(st, f)
  PROVE  /\ t.ofile = st.ofile /\ t.cwd = st.cwd
         /\ t.stuck => Good(t, e, h)
         /\ ~t.stuck => f \in Files /\ Good(t, Plus(e, f, 1), h)
<1>1. CASE f \notin Files
  <2>1. t = Halt(st)
    BY <1>1 DEF filedup
  <2> QED BY <2>1, HaltIs DEF Keeps
<1>2. CASE f \in Files
  <2>1. st \in States /\ Sums(st, e, h) /\ EndsAre(st.files, st.pipes) /\ FilesAre(st.files)
    BY DEF Good, Sums
  <2>2. PICK x : x = st.files[f]
    OBVIOUS
  <2>3. PICK r : r = [x EXCEPT !.ref = @ + 1]
    OBVIOUS
  <2>4. x \in File
    BY <1>2, <2>1, <2>2, Fields
  <2>5. /\ r \in File /\ r.ref = x.ref + 1 /\ r.type = x.type /\ r.pipe = x.pipe /\ r.ip = x.ip
        /\ r.writable = x.writable
    BY <2>3, <2>4 DEF File
  <2>6. /\ r.type = "none" <=> r.ref = 0
        /\ r.type = "pipe" => r.pipe \in Page
        /\ r.type = "inode" => r.ip \in Inum
        /\ x.ref \in Nat /\ r.ref - x.ref = 1
    BY <1>2, <2>1, <2>2, <2>4, <2>5 DEF FilesAre, File
  <2>7. t = WithFile(st, f, r)
    BY <1>2, <2>2, <2>3 DEF filedup, WithFile
  <2>8. PICK a : a = HeldBy(x)
    OBVIOUS
  <2>9. /\ Sums(t, Plus(e, f, 1), Plus(Plus(h, a, 1), a, -1))
        /\ t.files[f] = r /\ \A y \in Files \ {f} : t.files[y] = st.files[y]
        /\ t.ofile = st.ofile /\ t.cwd = st.cwd /\ t.pipes = st.pipes /\ t.stuck = st.stuck
    <3>1. a = HeldBy(r) /\ 1 = r.ref - x.ref
      BY <2>5, <2>6, <2>8 DEF HeldBy
    <3>2. Sums(st, e, h) /\ f \in Files /\ r \in File
      BY <1>2, <2>1, <2>5
    <3>3. PICK n : n = r.ref - x.ref
      OBVIOUS
    <3>4. Sums(t, Plus(e, f, n), Plus(Plus(h, HeldBy(x), 1), HeldBy(r), -1)) /\ OnlyFile(st, t, f, r)
      BY <3>2, <3>3, <2>2, <2>6, <2>7, SetFile
    <3> QED BY <3>1, <3>3, <3>4, <2>8 DEF OnlyFile
  <2>10. Plus(Plus(h, a, 1), a, -1) = h
    BY PlusBack
  <2>11. \A y \in Files, g \in Page, w \in BOOLEAN : IsEnd(t.files, y, g, w) <=> IsEnd(st.files, y, g, w)
    BY <2>2, <2>5, <2>9 DEF IsEnd
  <2>12. EndsAre(t.files, t.pipes)
    BY <2>1, <2>9, <2>11, EndsSame
  <2> QED BY <1>2, <2>9, <2>10, <2>12 DEF Good
<1> QED BY <1>1, <1>2

(* Ends are opened and closed; the counts are not touched.                 *)
LEMMA SetPipe ==
  ASSUME NEW st, NEW e, NEW h, Sums(st, e, h), NEW ps,
         ps \in [Page -> [readopen : BOOLEAN, writeopen : BOOLEAN]],
         NEW t, t = [st EXCEPT !.pipes = ps]
  PROVE  /\ Sums(t, e, h) /\ t.pipes = ps
         /\ t.files = st.files /\ t.ofile = st.ofile /\ t.cwd = st.cwd /\ t.stuck = st.stuck
<1>1. st \in States
  BY DEF Sums
<1>2. /\ t \in States /\ t.pipes = ps /\ t.files = st.files /\ t.ofile = st.ofile
      /\ t.cwd = st.cwd /\ t.iref = st.iref /\ t.lost = st.lost /\ t.stuck = st.stuck
  BY <1>1 DEF States
<1> QED BY <1>2 DEF Sums

LEMMA PipecloseIs ==
  ASSUME NEW st, NEW e, NEW h, Good(st, e, h), NEW g \in Page, NEW w \in BOOLEAN,
         NEW t, t = pipeclose(st, g, w)
  PROVE  /\ Sums(t, e, h)
         /\ t.files = st.files /\ t.ofile = st.ofile /\ t.cwd = st.cwd /\ t.stuck = st.stuck
         /\ \A x \in Page, v \in BOOLEAN :
                IsOpen(t.pipes, x, v) <=> IsOpen(st.pipes, x, v) /\ ~(x = g /\ v = w)
<1>1. st \in States /\ Sums(st, e, h)
  BY DEF Good, Sums
<1>2. PICK ps : ps = IF w THEN [st.pipes EXCEPT ![g].writeopen = FALSE]
                          ELSE [st.pipes EXCEPT ![g].readopen = FALSE]
  OBVIOUS
<1>3. st.pipes \in [Page -> [readopen : BOOLEAN, writeopen : BOOLEAN]]
  BY <1>1, Fields
<1>4. /\ ps \in [Page -> [readopen : BOOLEAN, writeopen : BOOLEAN]]
      /\ \A x \in Page : x # g => ps[x] = st.pipes[x]
      /\ ps[g] = IF w THEN [st.pipes[g] EXCEPT !.writeopen = FALSE]
                      ELSE [st.pipes[g] EXCEPT !.readopen = FALSE]
  <2>1. CASE w
    BY <1>2, <1>3, <2>1
  <2>2. CASE ~w
    BY <1>2, <1>3, <2>2
  <2> QED BY <2>1, <2>2
<1>5. t = [st EXCEPT !.pipes = ps]
  BY <1>2 DEF pipeclose
<1>6. /\ Sums(t, e, h) /\ t.pipes = ps
      /\ t.files = st.files /\ t.ofile = st.ofile /\ t.cwd = st.cwd /\ t.stuck = st.stuck
  BY <1>1, <1>4, <1>5, SetPipe
<1>7. ASSUME NEW x \in Page, NEW v \in BOOLEAN
      PROVE  IsOpen(ps, x, v) <=> IsOpen(st.pipes, x, v) /\ ~(x = g /\ v = w)
  <2>1. st.pipes[g] \in [readopen : BOOLEAN, writeopen : BOOLEAN]
    BY <1>3
  <2>2. CASE x # g
    BY <1>4, <2>2 DEF IsOpen
  <2>3. CASE x = g /\ w
    BY <1>4, <2>1, <2>3 DEF IsOpen
  <2>4. CASE x = g /\ ~w
    BY <1>4, <2>1, <2>4 DEF IsOpen
  <2> QED BY <2>2, <2>3, <2>4
<1> QED BY <1>6, <1>7

(* A file in use: of one descriptor less.                                  *)
LEMMA FilecloseIs ==
  ASSUME NEW st, NEW e \in [Files -> Int], NEW h \in [Inum -> Int], Good(st, e, h), ~st.stuck,
         NEW f \in Files, st.files[f].ref # 0, NEW t, t = fileclose(st, f)
  PROVE  /\ Good(t, Plus(e, f, -1), h) /\ ~t.stuck
         /\ t.ofile = st.ofile /\ t.cwd = st.cwd
         /\ \A y \in Files \ {f} : t.files[y] = st.files[y]
<1>1. st \in States /\ Sums(st, e, h) /\ EndsAre(st.files, st.pipes) /\ FilesAre(st.files)
  BY DEF Good, Sums
<1>2. PICK x : x = st.files[f]
  OBVIOUS
<1>3. x \in File /\ x.ref \in Nat /\ x.ref # 0 /\ x.type \in {"pipe", "inode"}
      /\ (x.type = "pipe" => x.pipe \in Page) /\ (x.type = "inode" => x.ip \in Inum)
      /\ x.writable \in BOOLEAN
  <2>1. x \in File
    BY <1>1, <1>2, Fields
  <2> QED BY <1>1, <1>2, <2>1 DEF FilesAre, File
<1>4. CASE x.ref > 1
  <2>1. PICK r : r = [x EXCEPT !.ref = @ - 1]
    OBVIOUS
  <2>2. /\ r \in File /\ r.ref = x.ref - 1 /\ r.type = x.type /\ r.pipe = x.pipe /\ r.ip = x.ip
        /\ r.writable = x.writable
    BY <1>3, <1>4, <2>1 DEF File
  <2>3. /\ r.type = "none" <=> r.ref = 0
        /\ r.type = "pipe" => r.pipe \in Page
        /\ r.type = "inode" => r.ip \in Inum
        /\ r.ref - x.ref = -1
    BY <1>3, <1>4, <2>2
  <2>4. t = WithFile(st, f, r)
    BY <1>2, <1>4, <2>1 DEF fileclose, WithFile
  <2>5. PICK a : a = HeldBy(x)
    OBVIOUS
  <2>6. a = HeldBy(r)
    BY <2>2, <2>5 DEF HeldBy
  <2>7. PICK n : n = r.ref - x.ref
    OBVIOUS
  <2>8. Sums(t, Plus(e, f, n), Plus(Plus(h, HeldBy(x), 1), HeldBy(r), -1)) /\ OnlyFile(st, t, f, r)
    BY <1>1, <1>2, <2>2, <2>3, <2>4, <2>7, SetFile
  <2>9. Sums(t, Plus(e, f, -1), Plus(Plus(h, a, 1), a, -1))
    BY <2>3, <2>5, <2>6, <2>7, <2>8
  <2>10. Plus(Plus(h, a, 1), a, -1) = h
    BY PlusBack
  <2>11. \A y \in Files, g \in Page, w \in BOOLEAN : IsEnd(t.files, y, g, w) <=> IsEnd(st.files, y, g, w)
    BY <1>2, <2>2, <2>8 DEF IsEnd, OnlyFile
  <2>12. EndsAre(t.files, t.pipes)
    BY <1>1, <2>8, <2>11, EndsSame DEF OnlyFile
  <2> QED BY <2>8, <2>9, <2>10, <2>12 DEF Good, OnlyFile
<1>5. CASE ~(x.ref > 1)
  <2>1. PICK u : u = Released(st, f)
    OBVIOUS
  <2>2. PICK i : i = HeldBy(x)
    OBVIOUS
  <2>3. /\ Sums(u, e, Plus(h, i, -1)) /\ ~u.stuck
        /\ u.files = st.files /\ u.ofile = st.ofile /\ u.cwd = st.cwd
        /\ \A g \in Page, v \in BOOLEAN :
               IsOpen(u.pipes, g, v) <=> IsOpen(st.pipes, g, v) /\ ~IsEnd(st.files, f, g, v)
    <3>1. CASE x.type = "pipe"
      <4>1. u = pipeclose(st, x.pipe, x.writable)
        BY <1>2, <2>1, <3>1 DEF Released
      <4>2. i = 0
        BY <2>2, <3>1 DEF HeldBy
      <4>3. Plus(h, i, -1) = h
        BY <4>2, PlusIs, Sizes
      <4>4. \A g \in Page, v \in BOOLEAN : IsEnd(st.files, f, g, v) <=> g = x.pipe /\ v = x.writable
        BY <1>2, <3>1 DEF IsEnd
      <4>5. x.pipe \in Page /\ x.writable \in BOOLEAN
        BY <1>3, <3>1
      <4>6. /\ Sums(u, e, h)
            /\ u.files = st.files /\ u.ofile = st.ofile /\ u.cwd = st.cwd /\ u.stuck = st.stuck
            /\ \A g \in Page, v \in BOOLEAN :
                   IsOpen(u.pipes, g, v) <=> IsOpen(st.pipes, g, v) /\ ~(g = x.pipe /\ v = x.writable)
        BY <4>1, <4>5, PipecloseIs
      <4> QED BY <4>3, <4>4, <4>6
    <3>2. CASE x.type = "inode"
      <4>1. u = iput(st, x.ip)
        BY <1>2, <2>1, <3>2 DEF Released
      <4>2. i = x.ip /\ x.ip \in Inum
        BY <1>3, <2>2, <3>2 DEF HeldBy
      <4>3. Good(u, e, Plus(h, i, -1)) /\ Keeps(st, u) /\ u.stuck = st.stuck
        BY <4>1, <4>2, IputIs
      <4>4. \A g \in Page, v \in BOOLEAN : ~IsEnd(st.files, f, g, v)
        BY <1>2, <3>2 DEF IsEnd
      <4> QED BY <4>3, <4>4 DEF Good, Keeps
    <3> QED BY <1>3, <3>1, <3>2
  <2>4. PICK r : r = [x EXCEPT !.ref = 0, !.type = "none"]
    OBVIOUS
  <2>5. r \in File /\ r.ref = 0 /\ r.type = "none"
    BY <1>3, <2>4 DEF File
  <2>6. t = WithFile(u, f, r)
    <3>1. st.files \in [Files -> File]
      BY <1>1, Fields
    <3>2. [st.files EXCEPT ![f].ref = 0, ![f].type = "none"] = [st.files EXCEPT ![f] = r]
      BY <1>2, <1>3, <2>4, <3>1
    <3>3. t = [u EXCEPT !.files[f].ref = 0, !.files[f].type = "none"]
      BY <1>2, <1>5, <2>1 DEF fileclose
    <3>4. t = [u EXCEPT !.files = [u.files EXCEPT ![f].ref = 0, ![f].type = "none"]]
      BY <2>3, <3>3 DEF Sums, States
    <3> QED BY <2>3, <3>2, <3>4 DEF WithFile
  <2>7. PICK k : k = Plus(h, i, -1)
    OBVIOUS
  <2>8. k \in [Inum -> Int] /\ Plus(k, i, 1) = h
    BY <2>7, PlusIs, PlusBack
  <2>9. PICK n : n = r.ref - x.ref
    OBVIOUS
  <2>10. /\ r.type = "none" <=> r.ref = 0
         /\ r.type # "pipe" /\ r.type # "inode" /\ n = -1 /\ HeldBy(r) = 0
    BY <1>3, <1>5, <2>5, <2>9 DEF HeldBy
  <2>11. Sums(t, Plus(e, f, n), Plus(Plus(k, HeldBy(x), 1), HeldBy(r), -1)) /\ OnlyFile(u, t, f, r)
    <3>1. Sums(u, e, k) /\ x = u.files[f]
      BY <1>2, <2>3, <2>7
    <3> QED BY <2>5, <2>6, <2>8, <2>9, <2>10, <3>1, SetFile
  <2>12. Sums(t, Plus(e, f, -1), h)
    <3>1. Plus(h, 0, -1) = h
      BY PlusIs, Sizes
    <3> QED BY <2>2, <2>8, <2>10, <2>11, <3>1
  <2>13. EndsAre(t.files, t.pipes)
    <3>1. \A y \in Files, g \in Page, v \in BOOLEAN :
              IsEnd(t.files, y, g, v) <=> IsEnd(st.files, y, g, v) /\ y # f
      BY <2>3, <2>5, <2>11 DEF IsEnd, OnlyFile
    <3>2. \A g \in Page, v \in BOOLEAN :
              IsOpen(t.pipes, g, v) <=> IsOpen(st.pipes, g, v) /\ ~IsEnd(st.files, f, g, v)
      BY <2>3, <2>11 DEF OnlyFile
    <3> QED BY <1>1, <3>1, <3>2 DEF EndsAre
  <2> QED BY <2>3, <2>11, <2>12, <2>13 DEF Good, OnlyFile
<1> QED BY <1>4, <1>5

-----------------------------------------------------------------------------
(* What a call does: all of them leave every count as it should be, and    *)
(* the other processes alone.                                              *)
Only(s, t, p) ==
    \A q \in Procs \ {p} : t.cwd[q] = s.cwd[q] /\ \A d \in Fds : t.ofile[q][d] = s.ofile[q][d]

LEMMA LeastNat ==
  ASSUME NEW T, T \subseteq Nat, T # {}
  PROVE  \E x \in T : \A y \in T : x <= y
<1>1. PICK L : L = {ss \in Nat \X Nat : ss[1] < ss[2]}
  OBVIOUS
<1>2. IsWellFoundedOn(L, Nat)
  BY <1>1, NatLessThanWellFounded DEF OpToRel
<1>3. PICK x \in T : \A y \in T : ~ (<<y, x>> \in L)
  BY <1>2, WFMin
<1>4. ASSUME NEW y \in T PROVE x <= y
  <2>1. x \in Nat /\ y \in Nat /\ <<y, x>> \notin L
    BY <1>3
  <2> QED BY <1>1, <2>1
<1> QED BY <1>4

LEMMA LowestIs ==
  ASSUME NEW S, S \subseteq Nat, S # {} PROVE Lowest(S) \in S
BY LeastNat, Zenon DEF Lowest

LEMMA FdallocIs ==
  ASSUME NEW st, NEW p, FreeFds(st, p) # {}
  PROVE  fdalloc(st, p) \in Fds /\ st.ofile[p][fdalloc(st, p)] = NULL
<1>1. FreeFds(st, p) \subseteq Nat
  BY Sizes DEF FreeFds, Fds
<1>2. fdalloc(st, p) \in FreeFds(st, p)
  BY <1>1, LowestIs DEF fdalloc
<1> QED BY <1>2 DEF FreeFds

(* A file that some descriptor names is in use.                            *)
LEMMA InUse ==
  ASSUME NEW st, NEW h, Good(st, Even(Files), h), NEW p \in Procs, NEW d \in Fds,
         NEW f, f = st.ofile[p][d]
  PROVE  f \in Files => st.files[f].ref # 0
<1>1. SUFFICES ASSUME f \in Files PROVE st.files[f].ref # 0
  OBVIOUS
<1>2. st.files[f].ref = Cardinality(RefsIn(st.ofile, f)) + 0
  BY <1>1 DEF Good, Sums, Counted, Even
<1>3. <<p, d>> \in RefsIn(st.ofile, f)
  BY DEF RefsIn
<1>4. Cardinality(RefsIn(st.ofile, f)) # 0 /\ Cardinality(RefsIn(st.ofile, f)) \in Nat
  BY <1>3, RefsFinite, FS_EmptySet
<1> QED BY <1>2, <1>4

LEMMA PlusSwap ==
  ASSUME NEW S, NEW e \in [S -> Int], NEW x, NEW y, NEW m \in Int, NEW n \in Int
  PROVE  Plus(Plus(e, x, m), y, n) = Plus(Plus(e, y, n), x, m)
<1>1. PICK a, b : a = Plus(e, x, m) /\ b = Plus(e, y, n)
  OBVIOUS
<1>2. /\ a \in [S -> Int] /\ \A z \in S : a[z] = e[z] + (IF z = x THEN m ELSE 0)
      /\ b \in [S -> Int] /\ \A z \in S : b[z] = e[z] + (IF z = y THEN n ELSE 0)
  BY <1>1, PlusIs
<1>3. /\ Plus(a, y, n) \in [S -> Int] /\ \A z \in S : Plus(a, y, n)[z] = a[z] + (IF z = y THEN n ELSE 0)
      /\ Plus(b, x, m) \in [S -> Int] /\ \A z \in S : Plus(b, x, m)[z] = b[z] + (IF z = x THEN m ELSE 0)
  BY <1>2, PlusIs
<1>4. ASSUME NEW z \in S PROVE Plus(a, y, n)[z] = Plus(b, x, m)[z]
  <2>1. e[z] \in Int /\ (IF z = x THEN m ELSE 0) \in Int /\ (IF z = y THEN n ELSE 0) \in Int
    OBVIOUS
  <2> QED BY <1>2, <1>3, <2>1
<1> QED BY <1>1, <1>3, <1>4

(* The fields a call may not change of other slots.                        *)
LEMMA KeepsOnly == ASSUME NEW s, NEW t, NEW p, Keeps(s, t) PROVE Only(s, t, p)
BY DEF Keeps, Only

LEMMA HomeIs ==
  ASSUME NEW st, NEW e, NEW h \in [Inum -> Int], Good(st, e, h), ~st.stuck, NEW p \in Procs,
         NEW t, t = Home(st, p)
  PROVE  /\ Good(t, e, h) /\ Only(st, t, p) /\ t.ofile = st.ofile
         /\ ~t.stuck => t.cwd[p] \in Inum
<1>1. st \in States
  BY DEF Good, Sums
<1>2. CASE st.cwd[p] # 0
  <2>1. t = st /\ t.cwd[p] \in Inum
    BY <1>1, <1>2, Fields DEF Home
  <2> QED BY <2>1 DEF Only
<1>3. CASE st.cwd[p] = 0
  <2>1. PICK u : u = iget(st, ROOTINO)
    OBVIOUS
  <2>2. PICK j : j = IF u.stuck THEN 0 ELSE ROOTINO
    OBVIOUS
  <2>3. t = WithCwd(u, p, j)
    BY <1>3, <2>1, <2>2 DEF Home, WithCwd
  <2>4. PICK k \in [Inum -> Int] : k = IF u.stuck THEN h ELSE Plus(h, ROOTINO, 1)
    BY PlusIs
  <2>5. Good(u, e, k) /\ Keeps(st, u) /\ j \in Inum \cup {0}
    BY <2>1, <2>2, <2>4, IgetIs, Sizes
  <2>6. Good(t, e, Plus(Plus(k, 0, 1), j, -1)) /\ OnlyCwd(u, t, p, j)
    <3>1. u.cwd[p] = 0
      BY <1>3, <2>5 DEF Keeps
    <3> QED BY <2>3, <2>5, <3>1, SetCwd
  <2>7. Plus(Plus(k, 0, 1), j, -1) = h
    <3>1. Plus(k, 0, 1) = k
      BY PlusIs, Sizes
    <3>2. CASE u.stuck
      BY <2>2, <2>4, <3>1, <3>2, PlusIs, Sizes
    <3>3. CASE ~u.stuck
      BY <2>2, <2>4, <3>1, <3>3, PlusBack
    <3> QED BY <3>2, <3>3
  <2> QED BY <2>2, <2>5, <2>6, <2>7, Sizes DEF Only, Keeps, OnlyCwd
<1> QED BY <1>2, <1>3

(* A descriptor is set: p's alone.                                         *)
LEMMA FdOnly ==
  ASSUME NEW s, NEW p \in Procs, NEW d \in Fds, NEW b, NEW t, s \in States, t = WithFd(s, p, d, b)
  PROVE  Only(s, t, p)
<1>1. s.ofile \in [Procs -> [Fds -> 0 .. RESERVED]]
  BY Fields
<1>2. t.ofile = [s.ofile EXCEPT ![p][d] = b] /\ t.cwd = s.cwd
  BY DEF WithFd, States
<1> QED BY <1>1, <1>2 DEF Only

LEMMA OpenInodeIs ==
  ASSUME NEW st, NEW e \in [Files -> Int], NEW h \in [Inum -> Int], Good(st, e, h), ~st.stuck,
         NEW p \in Procs, NEW i \in Inum, NEW t, t = OpenInode(st, p, i)
  PROVE  Good(t, e, Plus(h, i, -1)) /\ Only(st, t, p)
<1>1. CASE FreeFiles(st) = {} \/ FreeFds(st, p) = {}
  <2>1. t = iput(st, i)
    BY <1>1 DEF OpenInode
  <2> QED BY <2>1, IputIs, KeepsOnly
<1>2. CASE FreeFiles(st) # {} /\ FreeFds(st, p) # {}
  <2>1. PICK f, d : f = Lowest(FreeFiles(st)) /\ d = fdalloc(st, p)
    OBVIOUS
  <2>2. f \in Files /\ st.files[f].ref = 0
    <3>1. FreeFiles(st) \subseteq Nat
      BY Sizes DEF FreeFiles
    <3>2. f \in FreeFiles(st)
      BY <1>2, <2>1, <3>1, LowestIs
    <3> QED BY <3>2 DEF FreeFiles
  <2>3. d \in Fds /\ st.ofile[p][d] = NULL
    BY <1>2, <2>1, FdallocIs
  <2>4. st \in States /\ Sums(st, e, h) /\ EndsAre(st.files, st.pipes) /\ FilesAre(st.files)
    BY DEF Good, Sums
  <2>5. PICK x : x = st.files[f]
    OBVIOUS
  <2>6. x \in File /\ x.ref = 0 /\ x.type = "none"
    BY <2>2, <2>4, <2>5, Fields DEF FilesAre
  <2>7. PICK r : r = [x EXCEPT !.type = "inode", !.ref = 1, !.ip = i]
    OBVIOUS
  <2>8. r \in File /\ r.type = "inode" /\ r.ref = 1 /\ r.ip = i
    BY <2>6, <2>7 DEF File
  <2>9. PICK u : u = WithFile(st, f, r)
    OBVIOUS
  <2>10. t = WithFd(u, p, d, f)
    <3>1. t = [st EXCEPT !.files[f] = [@ EXCEPT !.type = "inode", !.ref = 1, !.ip = i], !.ofile[p][d] = f]
      BY <1>2, <2>1 DEF OpenInode
    <3> QED BY <3>1, <2>5, <2>7, <2>9 DEF WithFile, WithFd
  <2>11. HeldBy(x) = 0 /\ HeldBy(r) = i /\ r.type # "pipe" /\ r.type # "none" /\ r.ref # 0 /\ 1 = r.ref - x.ref
    BY <2>6, <2>8 DEF HeldBy
  <2>12. Sums(u, Plus(e, f, 1), Plus(Plus(h, HeldBy(x), 1), HeldBy(r), -1)) /\ OnlyFile(st, u, f, r)
    <3>1. r.type = "none" <=> r.ref = 0
      BY <2>11
    <3>2. r.type = "inode" => r.ip \in Inum
      BY <2>8
    <3> QED BY <2>2, <2>4, <2>5, <2>8, <2>9, <2>11, <3>1, <3>2, SetFile
  <2>13. Plus(h, 0, 1) = h
    BY PlusIs, Sizes
  <2>14. \A y \in Files, g \in Page, w \in BOOLEAN : IsEnd(u.files, y, g, w) <=> IsEnd(st.files, y, g, w)
    BY <2>5, <2>6, <2>8, <2>12 DEF IsEnd, OnlyFile
  <2>15. Good(u, Plus(e, f, 1), Plus(h, i, -1))
    <3>1. EndsAre(u.files, u.pipes)
      BY <2>4, <2>12, <2>14, EndsSame DEF OnlyFile
    <3> QED BY <2>11, <2>12, <2>13, <3>1 DEF Good
  <2>16. PICK e1 : e1 = Plus(e, f, 1)
    OBVIOUS
  <2>17. e1 \in [Files -> Int] /\ Plus(e1, f, -1) = e /\ Plus(e1, NULL, 1) = e1
    <3>1. e1 \in [Files -> Int] /\ Plus(e1, f, -1) = e
      BY <2>16, PlusIs, PlusBack
    <3>2. NULL \notin Files /\ 1 \in Int
      BY Sizes
    <3>3. Plus(e1, NULL, 1) = e1
      BY <3>1, <3>2, PlusIs
    <3> QED BY <3>1, <3>3
  <2>18. Good(t, Plus(Plus(e1, NULL, 1), f, -1), Plus(h, i, -1))
    <3>1. u.ofile[p][d] = NULL /\ f \in 0 .. RESERVED
      BY <2>2, <2>3, <2>12, Sizes DEF OnlyFile
    <3> QED BY <2>3, <2>10, <2>15, <2>16, <2>17, <3>1, SetFd
  <2>19. Only(st, t, p)
    <3>1. Only(u, t, p)
      BY <2>3, <2>10, <2>15, FdOnly DEF Good, Sums
    <3> QED BY <2>12, <3>1 DEF Only, OnlyFile
  <2> QED BY <2>17, <2>18, <2>19
<1> QED BY <1>1, <1>2

(* A reference to inode i that nobody holds yet, unless the task is stuck. *)
Got(st, e, h, i) ==
    IF st.stuck THEN Good(st, e, h) ELSE Good(st, e, Plus(h, i, 1))

LEMMA IgetGot ==
  ASSUME NEW st, NEW e, NEW h \in [Inum -> Int], Good(st, e, h), NEW i \in Inum
  PROVE  Got(iget(st, i), e, h, i) /\ Keeps(st, iget(st, i))
BY IgetIs DEF Got

LEMMA LoseGot ==
  ASSUME NEW st, NEW e, NEW h \in [Inum -> Int], NEW i \in Inum, Got(st, e, h, i)
  PROVE  Good(Lose(st, i), e, h) /\ Keeps(st, Lose(st, i))
<1>1. CASE st.stuck
  BY <1>1 DEF Got, Lose, Keeps
<1>2. CASE ~st.stuck
  <2>1. PICK k, t : k = Plus(h, i, 1) /\ t = Lose(st, i)
    OBVIOUS
  <2>2. k \in [Inum -> Int] /\ Plus(k, i, -1) = h /\ Good(st, e, k)
    BY <1>2, <2>1, PlusIs, PlusBack DEF Got
  <2>3. Good(t, e, Plus(k, i, -1)) /\ Keeps(st, t)
    BY <1>2, <2>1, <2>2, LoseIs DEF Keeps
  <2> QED BY <2>1, <2>2, <2>3
<1> QED BY <1>1, <1>2

LEMMA IputGot ==
  ASSUME NEW st, NEW e, NEW h \in [Inum -> Int], NEW i \in Inum, Got(st, e, h, i)
  PROVE  Good(iput(st, i), e, h) /\ Keeps(st, iput(st, i))
<1>1. CASE st.stuck
  BY <1>1 DEF Got, iput, Keeps
<1>2. CASE ~st.stuck
  <2>1. PICK k, t : k = Plus(h, i, 1) /\ t = iput(st, i)
    OBVIOUS
  <2>2. k \in [Inum -> Int] /\ Plus(k, i, -1) = h /\ Good(st, e, k)
    BY <1>2, <2>1, PlusIs, PlusBack DEF Got
  <2>3. Good(t, e, Plus(k, i, -1)) /\ Keeps(st, t)
    BY <1>2, <2>1, <2>2, IputIs
  <2> QED BY <2>1, <2>2, <2>3
<1> QED BY <1>1, <1>2

LEMMA OpenGot ==
  ASSUME NEW st, NEW e \in [Files -> Int], NEW h \in [Inum -> Int], NEW i \in Inum,
         Got(st, e, h, i), NEW p \in Procs
  PROVE  Good(OpenInode(st, p, i), e, h) /\ Only(st, OpenInode(st, p, i), p)
<1>1. CASE st.stuck
  BY <1>1 DEF Got, OpenInode, Only
<1>2. CASE ~st.stuck
  <2>1. PICK k, t : k = Plus(h, i, 1) /\ t = OpenInode(st, p, i)
    OBVIOUS
  <2>2. k \in [Inum -> Int] /\ Plus(k, i, -1) = h /\ Good(st, e, k)
    BY <1>2, <2>1, PlusIs, PlusBack DEF Got
  <2>3. Good(t, e, Plus(k, i, -1)) /\ Only(st, t, p)
    BY <1>2, <2>1, <2>2, OpenInodeIs
  <2> QED BY <2>1, <2>2, <2>3
<1> QED BY <1>1, <1>2

LEMMA OnlyTrans ==
  ASSUME NEW s, NEW t, NEW u, NEW p, Only(s, t, p), Only(t, u, p) PROVE Only(s, u, p)
BY DEF Only

LEMMA ChdirIs ==
  ASSUME NEW st, NEW e, NEW h \in [Inum -> Int], NEW i \in Inum, Got(st, e, h, i),
         NEW p \in Procs, ~st.stuck => st.cwd[p] \in Inum, NEW t, t = ChdirTo(st, p, i)
  PROVE  Good(t, e, h) /\ Only(st, t, p)
<1>1. CASE st.stuck
  BY <1>1 DEF Got, ChdirTo, Only
<1>2. CASE ~st.stuck /\ i \notin Dirs
  <2>1. t = iput(st, i)
    BY <1>2 DEF ChdirTo
  <2> QED BY <2>1, IputGot, KeepsOnly
<1>3. CASE ~st.stuck /\ i \in Dirs
  <2>1. PICK c, u : c = st.cwd[p] /\ u = iput(st, c)
    OBVIOUS
  <2>2. PICK k, k2 : k = Plus(h, i, 1) /\ k2 = Plus(k, c, -1)
    OBVIOUS
  <2>3. k \in [Inum -> Int] /\ k2 \in [Inum -> Int] /\ Plus(k2, c, 1) = k /\ Plus(k, i, -1) = h
    BY <2>2, PlusIs, PlusBack
  <2>4. Good(u, e, k2) /\ Keeps(st, u)
    BY <1>3, <2>1, <2>2, <2>3, IputIs DEF Got
  <2>5. t = WithCwd(u, p, i)
    BY <1>3, <2>1 DEF ChdirTo, WithCwd
  <2>6. Good(t, e, Plus(Plus(k2, c, 1), i, -1)) /\ OnlyCwd(u, t, p, i)
    <3>1. u.cwd[p] = c
      BY <2>1, <2>4 DEF Keeps
    <3> QED BY <2>3, <2>4, <2>5, <3>1, SetCwd
  <2> QED BY <2>3, <2>4, <2>6 DEF Only, OnlyCwd, Keeps
<1> QED BY <1>1, <1>2, <1>3

(* close, and a turn of fsexit.                                            *)
LEMMA CloseAtIs ==
  ASSUME NEW st, NEW e, e = Even(Files), NEW h \in [Inum -> Int], Good(st, e, h), ~st.stuck,
         NEW p \in Procs, NEW d \in Fds, NEW t, t = CloseAt(st, p, d)
  PROVE  /\ Good(t, e, h) /\ Only(st, t, p) /\ t.cwd = st.cwd
         /\ ~t.stuck => /\ t.ofile[p][d] = NULL
                        /\ \A n \in Fds : n # d => t.ofile[p][n] = st.ofile[p][n]
<1>0. e \in [Files -> Int]
  BY EvenIs
<1>1. PICK f, u : f = st.ofile[p][d] /\ u = fileclose(st, f)
  OBVIOUS
<1>2. CASE f \notin Files
  <2>1. u = Halt(st)
    BY <1>1, <1>2 DEF fileclose
  <2>2. Good(u, e, h) /\ Keeps(st, u) /\ u.stuck
    BY <2>1, HaltIs
  <2>3. t = u
    BY <1>1, <2>2 DEF CloseAt, Emptied
  <2> QED BY <2>2, <2>3, KeepsOnly DEF Keeps
<1>3. CASE f \in Files
  <2>1. PICK e1 : e1 = Plus(e, f, -1)
    OBVIOUS
  <2>2. e1 \in [Files -> Int] /\ Plus(e1, f, 1) = e
    BY <1>0, <2>1, PlusIs, PlusBack
  <2>3. Good(u, e1, h) /\ ~u.stuck /\ u.ofile = st.ofile /\ u.cwd = st.cwd
    <3>1. st.files[f].ref # 0
      BY <1>1, <1>3, InUse
    <3> QED BY <1>0, <1>1, <1>3, <2>1, <3>1, FilecloseIs
  <2>4. t = WithFd(u, p, d, NULL)
    BY <1>1, <2>3 DEF CloseAt, Emptied, WithFd
  <2>5. Good(t, Plus(Plus(e1, f, 1), NULL, -1), h) /\ OnlyFd(u, t, p, d, NULL)
    <3>1. u.ofile[p][d] = f /\ NULL \in 0 .. RESERVED
      BY <1>1, <2>3, Sizes
    <3> QED BY <2>2, <2>3, <2>4, <3>1, SetFd
  <2>6. Plus(e, NULL, -1) = e
    <3>1. NULL \notin Files /\ -1 \in Int
      BY Sizes
    <3> QED BY <1>0, <3>1, PlusIs
  <2> QED BY <2>2, <2>3, <2>5, <2>6 DEF Only, OnlyFd
<1> QED BY <1>2, <1>3

LEMMA DupIs ==
  ASSUME NEW st, NEW e, e = Even(Files), NEW h \in [Inum -> Int], Good(st, e, h), ~st.stuck,
         NEW p \in Procs, NEW d \in Fds, FreeFds(st, p) # {}, NEW t, t = DupOf(st, p, d)
  PROVE  Good(t, e, h) /\ Only(st, t, p)
<1>0. e \in [Files -> Int]
  BY EvenIs
<1>1. PICK n : n = fdalloc(st, p)
  OBVIOUS
<1>2. n \in Fds /\ st.ofile[p][n] = NULL
  BY <1>1, FdallocIs
<1>3. PICK m : m = WithFd(st, p, n, RESERVED)
  OBVIOUS
<1>4. PICK f, u : f = m.ofile[p][d] /\ u = filedup(m, f)
  OBVIOUS
<1>5. Plus(Plus(e, NULL, 1), RESERVED, -1) = e /\ Plus(e, RESERVED, 1) = e
  <2>1. NULL \notin Files /\ RESERVED \notin Files /\ 1 \in Int /\ -1 \in Int
    BY Sizes
  <2>2. Plus(e, NULL, 1) = e /\ Plus(e, RESERVED, -1) = e /\ Plus(e, RESERVED, 1) = e
    BY <1>0, <2>1, PlusIs
  <2> QED BY <2>2
<1>6. Good(m, e, h) /\ OnlyFd(st, m, p, n, RESERVED)
  <2>1. NULL = st.ofile[p][n] /\ RESERVED \in 0 .. RESERVED
    BY <1>2, Sizes
  <2>2. Good(m, Plus(Plus(e, NULL, 1), RESERVED, -1), h) /\ OnlyFd(st, m, p, n, RESERVED)
    BY <1>0, <1>2, <1>3, <2>1, SetFd
  <2> QED BY <1>5, <2>2
<1>7. f \in Files => m.files[f].ref # 0
  BY <1>4, <1>6, InUse
<1>8. /\ u.ofile = m.ofile /\ u.cwd = m.cwd
      /\ u.stuck => Good(u, e, h)
      /\ ~u.stuck => f \in Files /\ Good(u, Plus(e, f, 1), h)
  <2>1. ~m.stuck
    BY <1>6 DEF OnlyFd
  <2>2. u = filedup(m, f) /\ Good(m, e, h)
    BY <1>4, <1>6
  <2>3. u.ofile = m.ofile /\ u.cwd = m.cwd
    BY <1>0, <1>7, <2>1, <2>2, FiledupIs
  <2>4. u.stuck => Good(u, e, h)
    BY <1>0, <1>7, <2>1, <2>2, FiledupIs
  <2>5. ~u.stuck => f \in Files /\ Good(u, Plus(e, f, 1), h)
    BY <1>0, <1>7, <2>1, <2>2, FiledupIs
  <2> QED BY <2>3, <2>4, <2>5
<1>9. t = IF u.stuck THEN u ELSE WithFd(u, p, n, u.ofile[p][d])
  BY <1>1, <1>3, <1>4 DEF DupOf, WithFd
<1>10. CASE u.stuck
  BY <1>6, <1>8, <1>9, <1>10 DEF Only, OnlyFd
<1>11. CASE ~u.stuck
  <2>1. PICK e1 : e1 = Plus(e, f, 1)
    OBVIOUS
  <2>2. e1 \in [Files -> Int] /\ Plus(e1, RESERVED, 1) = e1 /\ Plus(e1, f, -1) = e
    <3>1. RESERVED \notin Files /\ 1 \in Int
      BY Sizes
    <3>2. e1 \in [Files -> Int]
      BY <1>0, <2>1, PlusIs
    <3>3. Plus(e1, RESERVED, 1) = e1
      BY <3>1, <3>2, PlusIs
    <3> QED BY <1>0, <2>1, <3>2, <3>3, PlusBack
  <2>3. t = WithFd(u, p, n, f) /\ u.ofile[p][n] = RESERVED /\ f \in 0 .. RESERVED
    BY <1>4, <1>6, <1>8, <1>9, <1>11, Sizes DEF OnlyFd
  <2>4. Good(t, Plus(Plus(e1, RESERVED, 1), f, -1), h) /\ OnlyFd(u, t, p, n, f)
    BY <1>2, <1>8, <1>11, <2>1, <2>2, <2>3, SetFd
  <2> QED BY <1>6, <1>8, <2>2, <2>4 DEF Only, OnlyFd
<1> QED BY <1>10, <1>11

-----------------------------------------------------------------------------
(* pipealloc, with both files free and the page given out: two files that  *)
(* no descriptor names yet.                                                *)
LEMMA PipeallocIs ==
  ASSUME NEW st, NEW e \in [Files -> Int], NEW h \in [Inum -> Int], Good(st, e, h), ~st.stuck,
         NEW rf \in Files, st.files[rf].ref = 0, NEW wf \in Files, st.files[wf].ref = 0, wf # rf,
         NEW g \in Page, st.pipes[g] = Closed, NEW t, t = pipealloc(st, rf, wf, g)
  PROVE  /\ Good(t, Plus(Plus(e, rf, 1), wf, 1), h) /\ ~t.stuck
         /\ t.ofile = st.ofile /\ t.cwd = st.cwd
         /\ t.files[rf].ref # 0 /\ t.files[wf].ref # 0
<1>1. st \in States /\ Sums(st, e, h) /\ EndsAre(st.files, st.pipes) /\ FilesAre(st.files)
  BY DEF Good, Sums
<1>2. PICK ps : ps = [st.pipes EXCEPT ![g] = [readopen |-> TRUE, writeopen |-> TRUE]]
  OBVIOUS
<1>3. PICK u : u = [st EXCEPT !.pipes = ps]
  OBVIOUS
<1>4. /\ ps \in [Page -> [readopen : BOOLEAN, writeopen : BOOLEAN]]
      /\ ps[g] = [readopen |-> TRUE, writeopen |-> TRUE]
      /\ \A x \in Page : x # g => ps[x] = st.pipes[x]
  BY <1>1, <1>2, Fields
<1>5. /\ Sums(u, e, h) /\ u.pipes = ps
      /\ u.files = st.files /\ u.ofile = st.ofile /\ u.cwd = st.cwd /\ u.stuck = st.stuck
  BY <1>1, <1>3, <1>4, SetPipe
<1>6. PICK x, y : x = st.files[rf] /\ y = st.files[wf]
  OBVIOUS
<1>7. /\ x \in File /\ x.ref = 0 /\ x.type = "none"
      /\ y \in File /\ y.ref = 0 /\ y.type = "none"
  BY <1>1, <1>6, Fields DEF FilesAre
<1>8. PICK r, s : /\ r = [x EXCEPT !.type = "pipe", !.ref = 1, !.writable = FALSE, !.pipe = g]
                  /\ s = [y EXCEPT !.type = "pipe", !.ref = 1, !.writable = TRUE, !.pipe = g]
  OBVIOUS
<1>9. /\ r \in File /\ r.type = "pipe" /\ r.ref = 1 /\ r.pipe = g /\ r.writable = FALSE
      /\ s \in File /\ s.type = "pipe" /\ s.ref = 1 /\ s.pipe = g /\ s.writable = TRUE
  BY <1>7, <1>8 DEF File
<1>10. HeldBy(x) = 0 /\ HeldBy(y) = 0 /\ HeldBy(r) = 0 /\ HeldBy(s) = 0
  BY <1>7, <1>9 DEF HeldBy
<1>11. PICK v : v = WithFile(u, rf, r)
  OBVIOUS
<1>12. t = WithFile(v, wf, s)
  <2>1. st.files \in [Files -> File]
    BY <1>1, Fields
  <2>2. t = [st EXCEPT !.files = [[st.files EXCEPT ![rf] = [st.files[rf] EXCEPT !.type = "pipe", !.ref = 1, !.writable = FALSE, !.pipe = g]]
                             EXCEPT ![wf] = [[st.files EXCEPT ![rf] = [st.files[rf] EXCEPT !.type = "pipe", !.ref = 1, !.writable = FALSE, !.pipe = g]][wf]
                                              EXCEPT !.type = "pipe", !.ref = 1, !.writable = TRUE, !.pipe = g]],
                       !.pipes = ps]
    BY <1>1, <1>2 DEF pipealloc, States
  <2>3. [st.files EXCEPT ![rf] = r][wf] = y
    BY <1>6, <2>1
  <2>4. t = [st EXCEPT !.files = [[st.files EXCEPT ![rf] = r] EXCEPT ![wf] = s], !.pipes = ps]
    BY <1>6, <1>8, <2>2, <2>3
  <2>5. v = [u EXCEPT !.files = [u.files EXCEPT ![rf] = r]] /\ u \in States
    BY <1>5, <1>11 DEF WithFile, Sums
  <2>6. v = [st EXCEPT !.files = [st.files EXCEPT ![rf] = r], !.pipes = ps]
    BY <1>1, <1>3, <1>5, <2>5 DEF States
  <2> QED BY <1>1, <2>4, <2>6 DEF WithFile, States
<1>13. PICK e1 : e1 = Plus(e, rf, 1)
  OBVIOUS
<1>14. e1 \in [Files -> Int]
  BY <1>13, PlusIs
<1>15. Plus(Plus(h, 0, 1), 0, -1) = h
  BY PlusBack
<1>16. Sums(v, e1, h) /\ OnlyFile(u, v, rf, r)
  <2>1. /\ r.type = "none" <=> r.ref = 0
        /\ r.type = "pipe" => r.pipe \in Page
        /\ r.type = "inode" => r.ip \in Inum
        /\ 1 = r.ref - x.ref
    BY <1>7, <1>9
  <2>2. Sums(u, e, h) /\ x = u.files[rf] /\ r \in File
    BY <1>5, <1>6, <1>9
  <2>3. Sums(v, Plus(e, rf, 1), Plus(Plus(h, HeldBy(x), 1), HeldBy(r), -1)) /\ OnlyFile(u, v, rf, r)
    BY <1>11, <2>1, <2>2, SetFile
  <2> QED BY <1>10, <1>13, <1>15, <2>3
<1>17. Sums(t, Plus(e1, wf, 1), h) /\ OnlyFile(v, t, wf, s)
  <2>1. /\ s.type = "none" <=> s.ref = 0
        /\ s.type = "pipe" => s.pipe \in Page
        /\ s.type = "inode" => s.ip \in Inum
        /\ 1 = s.ref - y.ref
    BY <1>7, <1>9
  <2>2. Sums(v, e1, h) /\ y = v.files[wf] /\ s \in File
    BY <1>5, <1>6, <1>9, <1>16 DEF OnlyFile
  <2>3. Sums(t, Plus(e1, wf, 1), Plus(Plus(h, HeldBy(y), 1), HeldBy(s), -1)) /\ OnlyFile(v, t, wf, s)
    BY <1>12, <1>14, <2>1, <2>2, SetFile
  <2> QED BY <1>10, <1>15, <2>3
<1>18. EndsAre(t.files, t.pipes)
  <2>1. \A f \in Files, k \in Page, w \in BOOLEAN :
            IsEnd(t.files, f, k, w) <=>
                \/ f = rf /\ k = g /\ w = FALSE
                \/ f = wf /\ k = g /\ w = TRUE
                \/ f # rf /\ f # wf /\ IsEnd(st.files, f, k, w)
    <3>1. /\ t.files[rf] = r /\ t.files[wf] = s
          /\ \A f \in Files : f # rf /\ f # wf => t.files[f] = st.files[f]
      BY <1>5, <1>16, <1>17 DEF OnlyFile
    <3>2. ASSUME NEW f \in Files, NEW k \in Page, NEW w \in BOOLEAN
          PROVE  IsEnd(t.files, f, k, w) <=>
                     \/ f = rf /\ k = g /\ w = FALSE
                     \/ f = wf /\ k = g /\ w = TRUE
                     \/ f # rf /\ f # wf /\ IsEnd(st.files, f, k, w)
      <4>1. CASE f = rf
        BY <1>9, <3>1, <4>1 DEF IsEnd
      <4>2. CASE f = wf
        BY <1>9, <3>1, <4>2 DEF IsEnd
      <4>3. CASE f # rf /\ f # wf
        BY <3>1, <4>3 DEF IsEnd
      <4> QED BY <4>1, <4>2, <4>3
    <3> QED BY <3>2
  <2>2. \A k \in Page, w \in BOOLEAN :
            /\ ~IsEnd(st.files, rf, k, w) /\ ~IsEnd(st.files, wf, k, w)
            /\ IsOpen(t.pipes, k, w) <=> k = g \/ IsOpen(st.pipes, k, w)
    <3>1. t.pipes = ps
      BY <1>5, <1>16, <1>17 DEF OnlyFile
    <3>2. \A k \in Page, w \in BOOLEAN : IsOpen(ps, k, w) <=> k = g \/ IsOpen(st.pipes, k, w)
      BY <1>4 DEF IsOpen
    <3>3. \A k \in Page, w \in BOOLEAN : ~IsEnd(st.files, rf, k, w) /\ ~IsEnd(st.files, wf, k, w)
      BY <1>6, <1>7 DEF IsEnd
    <3> QED BY <3>1, <3>2, <3>3
  <2>3. \A f \in Files, w \in BOOLEAN : ~IsEnd(st.files, f, g, w)
    <3>1. \A w \in BOOLEAN : ~IsOpen(st.pipes, g, w)
      BY DEF IsOpen, Closed
    <3> QED BY <1>1, <3>1 DEF EndsAre
  <2>4. ASSUME NEW k \in Page, NEW w \in BOOLEAN
        PROVE  /\ IsOpen(t.pipes, k, w) <=> \E f \in Files : IsEnd(t.files, f, k, w)
               /\ \A f1, f2 \in Files : IsEnd(t.files, f1, k, w) /\ IsEnd(t.files, f2, k, w) => f1 = f2
    <3>1. CASE k = g
      BY <2>1, <2>2, <2>3, <3>1
    <3>2. CASE k # g
      <4>1. \A f \in Files : IsEnd(t.files, f, k, w) <=> IsEnd(st.files, f, k, w)
        BY <2>1, <2>2, <3>2
      <4>2. IsOpen(t.pipes, k, w) <=> IsOpen(st.pipes, k, w)
        BY <2>2, <3>2
      <4> QED BY <1>1, <4>1, <4>2 DEF EndsAre
    <3> QED BY <3>1, <3>2
  <2> QED BY <2>4 DEF EndsAre
<1> QED BY <1>5, <1>9, <1>13, <1>16, <1>17, <1>18 DEF Good, OnlyFile

LEMMA PipeFailsIs ==
  ASSUME NEW st, NEW e \in [Files -> Int], NEW h \in [Inum -> Int],
         NEW rf \in Files, NEW wf \in Files, wf # rf,
         Good(st, Plus(Plus(e, rf, 1), wf, 1), h), ~st.stuck,
         st.files[rf].ref # 0, st.files[wf].ref # 0,
         NEW p \in Procs, NEW t, t = PipeFails(st, p, rf, wf)
  PROVE  Good(t, e, h) /\ Only(st, t, p)
<1>1. PICK e1, e2 : e1 = Plus(e, rf, 1) /\ e2 = Plus(e1, wf, 1)
  OBVIOUS
<1>2. /\ e1 \in [Files -> Int] /\ e2 \in [Files -> Int]
      /\ Plus(Plus(e2, rf, -1), wf, -1) = e
  <2>1. e1 \in [Files -> Int] /\ e2 \in [Files -> Int]
    BY <1>1, PlusIs
  <2>2. Plus(Plus(e2, rf, -1), wf, -1) = Plus(Plus(e2, wf, -1), rf, -1)
    BY <2>1, PlusSwap
  <2>3. Plus(e2, wf, -1) = e1 /\ Plus(e1, rf, -1) = e
    BY <1>1, <2>1, PlusBack
  <2> QED BY <2>1, <2>2, <2>3
<1>3. PICK m : m = IF FreeFds(st, p) = {} THEN st ELSE WithFd(st, p, fdalloc(st, p), RESERVED)
  OBVIOUS
<1>4. Good(m, e2, h) /\ ~m.stuck /\ Only(st, m, p) /\ m.files = st.files
  <2>1. CASE FreeFds(st, p) = {}
    BY <1>1, <1>3, <2>1 DEF Only
  <2>2. CASE FreeFds(st, p) # {}
    <3>1. PICK n : n = fdalloc(st, p)
      OBVIOUS
    <3>2. n \in Fds /\ NULL = st.ofile[p][n] /\ RESERVED \in 0 .. RESERVED
      BY <2>2, <3>1, FdallocIs, Sizes
    <3>3. m = WithFd(st, p, n, RESERVED) /\ Good(st, e2, h)
      BY <1>1, <1>3, <2>2, <3>1
    <3>4. Good(m, Plus(Plus(e2, NULL, 1), RESERVED, -1), h) /\ OnlyFd(st, m, p, n, RESERVED)
      BY <1>2, <3>2, <3>3, SetFd
    <3>5. Plus(e2, NULL, 1) = e2 /\ Plus(e2, RESERVED, -1) = e2
      <4>1. NULL \notin Files /\ RESERVED \notin Files /\ 1 \in Int /\ -1 \in Int
        BY Sizes
      <4> QED BY <1>2, <4>1, PlusIs
    <3> QED BY <3>4, <3>5 DEF OnlyFd, Only
  <2> QED BY <2>1, <2>2
<1>5. PICK u : u = fileclose(m, rf)
  OBVIOUS
<1>6. PICK e3 : e3 = Plus(e2, rf, -1)
  OBVIOUS
<1>7. /\ Good(u, e3, h) /\ ~u.stuck /\ u.ofile = m.ofile /\ u.cwd = m.cwd
      /\ u.files[wf] = m.files[wf]
  <2>1. m.files[rf].ref # 0
    BY <1>4
  <2> QED BY <1>2, <1>4, <1>5, <1>6, <2>1, FilecloseIs
<1>8. t = fileclose(u, wf)
  BY <1>3, <1>5 DEF PipeFails, WithFd
<1>9. Good(t, Plus(e3, wf, -1), h) /\ t.ofile = u.ofile /\ t.cwd = u.cwd
  <2>1. u.files[wf].ref # 0
    BY <1>4, <1>7
  <2>2. e3 \in [Files -> Int]
    BY <1>2, <1>6, PlusIs
  <2> QED BY <1>7, <1>8, <2>1, <2>2, FilecloseIs
<1> QED BY <1>2, <1>4, <1>6, <1>7, <1>9 DEF Only

LEMMA PipeToIs ==
  ASSUME NEW st, NEW e \in [Files -> Int], NEW h \in [Inum -> Int],
         NEW rf \in Files, NEW wf \in Files, wf # rf,
         Good(st, Plus(Plus(e, rf, 1), wf, 1), h), ~st.stuck,
         st.files[rf].ref # 0, st.files[wf].ref # 0,
         NEW p \in Procs, NEW t, t = PipeTo(st, p, rf, wf)
  PROVE  Good(t, e, h) /\ Only(st, t, p)
<1>1. CASE Cardinality(FreeFds(st, p)) < 2
  <2>1. t = PipeFails(st, p, rf, wf)
    BY <1>1 DEF PipeTo
  <2> QED BY <2>1, PipeFailsIs
<1>2. CASE ~(Cardinality(FreeFds(st, p)) < 2)
  <2>1. PICK a, b : a = fdalloc(st, p) /\ b = Lowest(FreeFds(st, p) \ {a})
    OBVIOUS
  <2>2. FreeFds(st, p) # {} /\ FreeFds(st, p) # {a}
    <3>1. Cardinality({}) = 0 /\ Cardinality({a}) = 1
      BY FS_EmptySet, FS_Singleton
    <3> QED BY <1>2, <3>1
  <2>3. a \in Fds /\ NULL = st.ofile[p][a] /\ b \in Fds /\ NULL = st.ofile[p][b] /\ a # b
    <3>1. a \in Fds /\ NULL = st.ofile[p][a]
      BY <2>1, <2>2, FdallocIs
    <3>2. FreeFds(st, p) \ {a} # {} /\ FreeFds(st, p) \ {a} \subseteq Nat
      BY <2>2, Sizes DEF FreeFds, Fds
    <3>3. b \in FreeFds(st, p) \ {a}
      BY <2>1, <3>2, LowestIs
    <3> QED BY <3>1, <3>3 DEF FreeFds
  <2>4. PICK u : u = WithFd(st, p, a, rf)
    OBVIOUS
  <2>5. t = WithFd(u, p, b, wf)
    BY <1>2, <2>1, <2>4 DEF PipeTo, WithFd
  <2>6. PICK e1, e2 : e1 = Plus(e, rf, 1) /\ e2 = Plus(e1, wf, 1)
    OBVIOUS
  <2>7. PICK e3 : e3 = Plus(e2, rf, -1)
    OBVIOUS
  <2>8. /\ e2 \in [Files -> Int] /\ e3 \in [Files -> Int] /\ Plus(e3, wf, -1) = e
        /\ Plus(e2, NULL, 1) = e2 /\ Plus(e3, NULL, 1) = e3
    <3>1. e1 \in [Files -> Int] /\ e2 \in [Files -> Int]
      BY <2>6, PlusIs
    <3>2. Plus(Plus(e2, rf, -1), wf, -1) = Plus(Plus(e2, wf, -1), rf, -1)
      BY <3>1, PlusSwap
    <3>3. Plus(e2, wf, -1) = e1 /\ Plus(e1, rf, -1) = e
      BY <2>6, <3>1, PlusBack
    <3>4. NULL \notin Files /\ 1 \in Int
      BY Sizes
    <3>5. e3 \in [Files -> Int]
      BY <2>7, <3>1, PlusIs
    <3>6. Plus(e2, NULL, 1) = e2 /\ Plus(e3, NULL, 1) = e3
      BY <3>1, <3>4, <3>5, PlusIs
    <3> QED BY <2>7, <3>1, <3>2, <3>3, <3>5, <3>6
  <2>9. rf \in 0 .. RESERVED /\ wf \in 0 .. RESERVED
    BY Sizes
  <2>10. Good(u, Plus(Plus(e2, NULL, 1), rf, -1), h) /\ OnlyFd(st, u, p, a, rf)
    <3>1. Good(st, e2, h)
      BY <2>6
    <3> QED BY <2>3, <2>4, <2>8, <2>9, <3>1, SetFd
  <2>11. Good(u, e3, h) /\ u.ofile[p][b] = NULL
    BY <2>3, <2>7, <2>8, <2>10 DEF OnlyFd
  <2>12. Good(t, Plus(Plus(e3, NULL, 1), wf, -1), h) /\ OnlyFd(u, t, p, b, wf)
    BY <2>3, <2>5, <2>8, <2>9, <2>11, SetFd
  <2> QED BY <2>8, <2>10, <2>12 DEF Only, OnlyFd
<1> QED BY <1>1, <1>2

-----------------------------------------------------------------------------
(* The loops over ofile.  A set that has 0, and n with n - 1, has all the  *)
(* numbers up to N, as there would be a least one that it leaves out.      *)
LEMMA SetInduct ==
  ASSUME NEW N \in Nat, NEW T, 0 \in T, \A n \in 1 .. N : n - 1 \in T => n \in T
  PROVE  \A n \in 0 .. N : n \in T
<1>1. SUFFICES ASSUME NEW k \in 0 .. N, k \notin T PROVE FALSE
  OBVIOUS
<1>2. PICK S : S = {n \in 0 .. N : n \notin T}
  OBVIOUS
<1>3. S \subseteq Nat /\ S # {}
  BY <1>1, <1>2
<1>4. PICK x \in S : \A y \in S : x <= y
  BY <1>3, LeastNat
<1>5. x \in 1 .. N /\ x \notin T
  BY <1>2, <1>4
<1>6. x - 1 \notin S /\ x - 1 \in 0 .. N
  <2>1. x \in Nat /\ ~(x <= x - 1)
    BY <1>5
  <2> QED BY <1>4, <1>5, <2>1
<1> QED BY <1>2, <1>5, <1>6

LEMMA ForkTurnsAre ==
  ASSUME NEW st, NEW p, NEW q, NEW g, g = ForkTurns(st, p, q)
  PROVE  g[0] = st /\ \A n \in 1 .. NOFILE : g[n] = ForkAt(g[n - 1], p, q, n - 1)
<1> DEFINE Is(f, m) == f = [n \in 0 .. m |-> IF n = 0 THEN st ELSE ForkAt(f[n - 1], p, q, n - 1)]
           T == {m \in 0 .. NOFILE : \E f : Is(f, m)}
<1>0. NOFILE \in Nat
  BY Sizes
<1>1. 0 \in T
  <2>1. PICK f : f = [n \in 0 .. 0 |-> st]
    OBVIOUS
  <2>2. Is(f, 0)
    BY <2>1
  <2> QED BY <1>0, <2>2
<1>2. ASSUME NEW m \in 1 .. NOFILE, m - 1 \in T PROVE m \in T
  <2>1. PICK f : Is(f, m - 1)
    BY <1>2
  <2>2. PICK f2 : f2 = [n \in 0 .. m |-> IF n = m THEN ForkAt(f[m - 1], p, q, m - 1) ELSE f[n]]
    OBVIOUS
  <2>3. \A n \in 0 .. m : n # m => n \in 0 .. m - 1
    BY <1>0
  <2>4. \A n \in 0 .. m - 1 : n \in 0 .. m /\ n # m /\ (n # 0 => n - 1 \in 0 .. m - 1)
    BY <1>0
  <2>5. m \in 0 .. m /\ m # 0 /\ m - 1 \in 0 .. m - 1
    BY <1>0
  <2>6. \A n \in 0 .. m - 1 : f2[n] = f[n]
    BY <2>2, <2>4
  <2>7. f2[m] = ForkAt(f2[m - 1], p, q, m - 1)
    BY <2>2, <2>5, <2>6
  <2>8. \A n \in 0 .. m - 1 : f2[n] = IF n = 0 THEN st ELSE ForkAt(f2[n - 1], p, q, n - 1)
    <3>1. \A n \in 0 .. m - 1 : f[n] = IF n = 0 THEN st ELSE ForkAt(f[n - 1], p, q, n - 1)
      BY <2>1, Zenon
    <3> HIDE DEF Is, T
    <3> QED BY <2>4, <2>6, <3>1
  <2>9. \A n \in 0 .. m : f2[n] = IF n = 0 THEN st ELSE ForkAt(f2[n - 1], p, q, n - 1)
    BY <2>3, <2>5, <2>7, <2>8
  <2>10. f2 = [n \in 0 .. m |-> IF n = 0 THEN st ELSE ForkAt(f2[n - 1], p, q, n - 1)]
    <3>1. f2 = [n \in 0 .. m |-> f2[n]]
      BY <2>2, Zenon
    <3> QED BY <2>9, <3>1, Zenon
  <2>11. m \in 0 .. NOFILE
    BY <1>0
  <2> QED BY <2>10, <2>11
<1>3. NOFILE \in T
  <2> HIDE DEF T
  <2>1. \A m \in 0 .. NOFILE : m \in T
    BY <1>0, <1>1, <1>2, SetInduct
  <2> QED BY <1>0, <2>1
<1>4. PICK f : Is(f, NOFILE)
  BY <1>3
<1>5. g = [n \in 0 .. NOFILE |-> IF n = 0 THEN st ELSE ForkAt(g[n - 1], p, q, n - 1)]
  BY <1>4, Zenon DEF ForkTurns
<1>6. \A n \in 0 .. NOFILE : g[n] = IF n = 0 THEN st ELSE ForkAt(g[n - 1], p, q, n - 1)
  BY <1>5, Zenon
<1>7. 0 \in 0 .. NOFILE /\ \A n \in 1 .. NOFILE : n \in 0 .. NOFILE /\ n # 0
  BY <1>0
<1> HIDE DEF Is, T
<1> QED BY <1>6, <1>7

LEMMA ExitTurnsAre ==
  ASSUME NEW st, NEW p, NEW g, g = ExitTurns(st, p)
  PROVE  g[0] = st /\ \A n \in 1 .. NOFILE : g[n] = ExitAt(g[n - 1], p, n - 1)
<1> DEFINE Is(f, m) == f = [n \in 0 .. m |-> IF n = 0 THEN st ELSE ExitAt(f[n - 1], p, n - 1)]
           T == {m \in 0 .. NOFILE : \E f : Is(f, m)}
<1>0. NOFILE \in Nat
  BY Sizes
<1>1. 0 \in T
  <2>1. PICK f : f = [n \in 0 .. 0 |-> st]
    OBVIOUS
  <2>2. Is(f, 0)
    BY <2>1
  <2> QED BY <1>0, <2>2
<1>2. ASSUME NEW m \in 1 .. NOFILE, m - 1 \in T PROVE m \in T
  <2>1. PICK f : Is(f, m - 1)
    BY <1>2
  <2>2. PICK f2 : f2 = [n \in 0 .. m |-> IF n = m THEN ExitAt(f[m - 1], p, m - 1) ELSE f[n]]
    OBVIOUS
  <2>3. \A n \in 0 .. m : n # m => n \in 0 .. m - 1
    BY <1>0
  <2>4. \A n \in 0 .. m - 1 : n \in 0 .. m /\ n # m /\ (n # 0 => n - 1 \in 0 .. m - 1)
    BY <1>0
  <2>5. m \in 0 .. m /\ m # 0 /\ m - 1 \in 0 .. m - 1
    BY <1>0
  <2>6. \A n \in 0 .. m - 1 : f2[n] = f[n]
    BY <2>2, <2>4
  <2>7. f2[m] = ExitAt(f2[m - 1], p, m - 1)
    BY <2>2, <2>5, <2>6
  <2>8. \A n \in 0 .. m - 1 : f2[n] = IF n = 0 THEN st ELSE ExitAt(f2[n - 1], p, n - 1)
    <3>1. \A n \in 0 .. m - 1 : f[n] = IF n = 0 THEN st ELSE ExitAt(f[n - 1], p, n - 1)
      BY <2>1, Zenon
    <3> HIDE DEF Is, T
    <3> QED BY <2>4, <2>6, <3>1
  <2>9. \A n \in 0 .. m : f2[n] = IF n = 0 THEN st ELSE ExitAt(f2[n - 1], p, n - 1)
    BY <2>3, <2>5, <2>7, <2>8
  <2>10. f2 = [n \in 0 .. m |-> IF n = 0 THEN st ELSE ExitAt(f2[n - 1], p, n - 1)]
    <3>1. f2 = [n \in 0 .. m |-> f2[n]]
      BY <2>2, Zenon
    <3> QED BY <2>9, <3>1, Zenon
  <2>11. m \in 0 .. NOFILE
    BY <1>0
  <2> QED BY <2>10, <2>11
<1>3. NOFILE \in T
  <2> HIDE DEF T
  <2>1. \A m \in 0 .. NOFILE : m \in T
    BY <1>0, <1>1, <1>2, SetInduct
  <2> QED BY <1>0, <2>1
<1>4. PICK f : Is(f, NOFILE)
  BY <1>3
<1>5. g = [n \in 0 .. NOFILE |-> IF n = 0 THEN st ELSE ExitAt(g[n - 1], p, n - 1)]
  BY <1>4, Zenon DEF ExitTurns
<1>6. \A n \in 0 .. NOFILE : g[n] = IF n = 0 THEN st ELSE ExitAt(g[n - 1], p, n - 1)
  BY <1>5, Zenon
<1>7. 0 \in 0 .. NOFILE /\ \A n \in 1 .. NOFILE : n \in 0 .. NOFILE /\ n # 0
  BY <1>0
<1> HIDE DEF Is, T
<1> QED BY <1>6, <1>7

LEMMA ForkAtIs ==
  ASSUME NEW st, NEW e, e = Even(Files), NEW h \in [Inum -> Int], Good(st, e, h), ~st.stuck,
         NEW p \in Procs, NEW q \in Procs, NEW d \in Fds, st.ofile[q][d] = NULL,
         NEW t, t = ForkAt(st, p, q, d)
  PROVE  /\ Good(t, e, h) /\ t.cwd = st.cwd
         /\ \A r \in Procs, n \in Fds : <<r, n>> # <<q, d>> => t.ofile[r][n] = st.ofile[r][n]
<1>0. e \in [Files -> Int] /\ NULL \notin Files /\ 1 \in Int /\ -1 \in Int
  BY EvenIs, Sizes
<1>1. PICK f, u : f = st.ofile[p][d] /\ u = filedup(st, f)
  OBVIOUS
<1>2. CASE f = NULL
  <2>1. t = WithFd(st, q, d, NULL)
    BY <1>1, <1>2 DEF ForkAt, WithFd
  <2>2. NULL \in 0 .. RESERVED
    BY Sizes
  <2>3. Good(t, Plus(Plus(e, NULL, 1), NULL, -1), h) /\ OnlyFd(st, t, q, d, NULL)
    BY <1>0, <2>1, <2>2, SetFd
  <2>4. Plus(Plus(e, NULL, 1), NULL, -1) = e
    BY <1>0, PlusBack
  <2> QED BY <2>3, <2>4 DEF OnlyFd
<1>3. CASE f # NULL
  <2>1. f \in Files => st.files[f].ref # 0
    BY <1>1, InUse
  <2>2. u.ofile = st.ofile /\ u.cwd = st.cwd
    BY <1>0, <1>1, <2>1, FiledupIs
  <2>3. u.stuck => Good(u, e, h)
    BY <1>0, <1>1, <2>1, FiledupIs
  <2>4. ~u.stuck => f \in Files /\ Good(u, Plus(e, f, 1), h)
    BY <1>0, <1>1, <2>1, FiledupIs
  <2>5. t = IF u.stuck THEN u ELSE WithFd(u, q, d, f)
    BY <1>1, <1>3 DEF ForkAt, WithFd
  <2>6. CASE u.stuck
    BY <2>2, <2>3, <2>5, <2>6
  <2>7. CASE ~u.stuck
    <3>1. PICK e1 : e1 = Plus(e, f, 1)
      OBVIOUS
    <3>2. e1 \in [Files -> Int] /\ Plus(e1, f, -1) = e
      BY <1>0, <3>1, PlusIs, PlusBack
    <3>3. Plus(e1, NULL, 1) = e1
      BY <1>0, <3>2, PlusIs
    <3>4. f \in 0 .. RESERVED /\ u.ofile[q][d] = NULL /\ t = WithFd(u, q, d, f) /\ Good(u, e1, h)
      BY <2>2, <2>4, <2>5, <2>7, <3>1, Sizes
    <3>5. Good(t, Plus(Plus(e1, NULL, 1), f, -1), h) /\ OnlyFd(u, t, q, d, f)
      BY <3>2, <3>4, SetFd
    <3> QED BY <2>2, <3>2, <3>3, <3>5 DEF OnlyFd
  <2> QED BY <2>6, <2>7
<1> QED BY <1>2, <1>3

(* After n turns of fsfork's loop the descriptors from n on are still free.*)
ForkLeaves(s, t, q, n) ==
    /\ Good(t, Even(Files), Even(Inum)) /\ Only(s, t, q) /\ t.cwd = s.cwd
    /\ ~t.stuck => \A d \in Fds : d >= n => t.ofile[q][d] = NULL

LEMMA ForkFilesIs ==
  ASSUME NEW st, Good(st, Even(Files), Even(Inum)), NEW p \in Procs, NEW q \in Procs,
         \A d \in Fds : st.ofile[q][d] = NULL, NEW t, t = ForkFiles(st, p, q)
  PROVE  Good(t, Even(Files), Even(Inum)) /\ Only(st, t, q) /\ t.cwd = st.cwd
<1>1. PICK g : g = ForkTurns(st, p, q)
  OBVIOUS
<1>2. g[0] = st /\ \A n \in 1 .. NOFILE : g[n] = ForkAt(g[n - 1], p, q, n - 1)
  BY <1>1, ForkTurnsAre
<1>3. NOFILE \in Nat /\ Even(Inum) \in [Inum -> Int]
  BY Sizes, EvenIs
<1>4. PICK T : T = {n \in 0 .. NOFILE : ForkLeaves(st, g[n], q, n)}
  OBVIOUS
<1>5. 0 \in T
  <2>1. ForkLeaves(st, g[0], q, 0)
    BY <1>2 DEF ForkLeaves, Only
  <2> QED BY <1>3, <1>4, <2>1
<1>6. ASSUME NEW n \in 1 .. NOFILE, n - 1 \in T PROVE n \in T
  <2>1. PICK s, d : s = g[n - 1] /\ d = n - 1
    OBVIOUS
  <2>2. ForkLeaves(st, s, q, d)
    BY <1>4, <1>6, <2>1
  <2>3. d \in Fds /\ g[n] = ForkAt(s, p, q, d) /\ n \in 0 .. NOFILE
    BY <1>2, <1>3, <2>1 DEF Fds
  <2>4. CASE s.stuck
    <3>1. g[n] = s
      BY <2>3, <2>4 DEF ForkAt
    <3>2. ForkLeaves(st, g[n], q, n)
      BY <2>2, <2>4, <3>1 DEF ForkLeaves
    <3> QED BY <1>4, <2>3, <3>2
  <2>5. CASE ~s.stuck
    <3>0. d >= d
      BY <1>3, <2>1
    <3>1. Good(s, Even(Files), Even(Inum)) /\ s.ofile[q][d] = NULL
      BY <2>2, <2>3, <2>5, <3>0 DEF ForkLeaves
    <3>2. PICK u : u = g[n]
      OBVIOUS
    <3>3. /\ Good(u, Even(Files), Even(Inum)) /\ u.cwd = s.cwd
          /\ \A r \in Procs, m \in Fds : <<r, m>> # <<q, d>> => u.ofile[r][m] = s.ofile[r][m]
      BY <1>3, <2>3, <2>5, <3>1, <3>2, ForkAtIs
    <3>4. \A m \in Fds : m >= n => m # d /\ m >= d
      BY <1>3, <2>1 DEF Fds
    <3>5. ForkLeaves(st, u, q, n)
      BY <2>2, <2>5, <3>3, <3>4 DEF ForkLeaves, Only
    <3> QED BY <1>4, <2>3, <3>2, <3>5
  <2> QED BY <2>4, <2>5
<1>7. NOFILE \in T
  <2>1. \A n \in 0 .. NOFILE : n \in T
    BY <1>3, <1>5, <1>6, SetInduct
  <2> QED BY <1>3, <2>1
<1>8. t = g[NOFILE]
  BY <1>1 DEF ForkFiles
<1> QED BY <1>4, <1>7, <1>8 DEF ForkLeaves

LEMMA ForkCwdIs ==
  ASSUME NEW st, NEW e, NEW h \in [Inum -> Int], Good(st, e, h), NEW p \in Procs, NEW q \in Procs,
         st.cwd[q] = 0, NEW t, t = ForkCwd(st, p, q)
  PROVE  Good(t, e, h) /\ Only(st, t, q)
<1>1. CASE st.stuck \/ st.cwd[p] = 0
  BY <1>1 DEF ForkCwd, Only
<1>2. CASE ~(st.stuck \/ st.cwd[p] = 0)
  <2>1. PICK c, u : c = st.cwd[p] /\ u = idup(st, c)
    OBVIOUS
  <2>2. c \in Inum
    BY <1>2, <2>1, Fields DEF Good, Sums
  <2>3. PICK k : k = Plus(h, c, 1)
    OBVIOUS
  <2>4. k \in [Inum -> Int] /\ Plus(k, c, -1) = h
    BY <2>3, PlusIs, PlusBack
  <2>5. Plus(k, 0, 1) = k
    BY <2>4, PlusIs, Sizes
  <2>6. Good(u, e, k) /\ Keeps(st, u)
    BY <1>2, <2>1, <2>2, <2>3, IdupIs
  <2>7. t = WithCwd(u, q, c) /\ u.cwd[q] = 0
    BY <1>2, <2>1, <2>6 DEF ForkCwd, WithCwd, Keeps
  <2>8. Good(t, e, Plus(Plus(k, 0, 1), c, -1)) /\ OnlyCwd(u, t, q, c)
    BY <2>2, <2>4, <2>6, <2>7, SetCwd
  <2> QED BY <2>4, <2>5, <2>6, <2>8 DEF Only, OnlyCwd, Keeps
<1> QED BY <1>1, <1>2

(* After n turns of fsexit's loop the descriptors up to n are free.        *)
ExitLeaves(s, t, p, n) ==
    /\ Good(t, Even(Files), Even(Inum)) /\ Only(s, t, p) /\ t.cwd = s.cwd
    /\ ~t.stuck => \A d \in Fds : d < n => t.ofile[p][d] = NULL

LEMMA ExitFilesIs ==
  ASSUME NEW st, Good(st, Even(Files), Even(Inum)), ~st.stuck, NEW p \in Procs,
         NEW t, t = ExitFiles(st, p)
  PROVE  /\ Good(t, Even(Files), Even(Inum)) /\ Only(st, t, p) /\ t.cwd = st.cwd
         /\ ~t.stuck => \A d \in Fds : t.ofile[p][d] = NULL
<1>1. PICK g : g = ExitTurns(st, p)
  OBVIOUS
<1>2. g[0] = st /\ \A n \in 1 .. NOFILE : g[n] = ExitAt(g[n - 1], p, n - 1)
  BY <1>1, ExitTurnsAre
<1>3. NOFILE \in Nat /\ Even(Inum) \in [Inum -> Int]
  BY Sizes, EvenIs
<1>4. PICK T : T = {n \in 0 .. NOFILE : ExitLeaves(st, g[n], p, n)}
  OBVIOUS
<1>5. 0 \in T
  <2>1. \A d \in Fds : ~(d < 0)
    BY <1>3 DEF Fds
  <2>2. ExitLeaves(st, g[0], p, 0)
    BY <1>2, <2>1 DEF ExitLeaves, Only
  <2> QED BY <1>3, <1>4, <2>2
<1>6. ASSUME NEW n \in 1 .. NOFILE, n - 1 \in T PROVE n \in T
  <2>1. PICK s, d : s = g[n - 1] /\ d = n - 1
    OBVIOUS
  <2>2. ExitLeaves(st, s, p, d)
    BY <1>4, <1>6, <2>1
  <2>3. d \in Fds /\ g[n] = ExitAt(s, p, d) /\ n \in 0 .. NOFILE
    BY <1>2, <1>3, <2>1 DEF Fds
  <2>4. \A m \in Fds : m < n => m = d \/ m < d
    BY <1>3, <2>1 DEF Fds
  <2>5. CASE s.ofile[p][d] = NULL
    <3>1. g[n] = s
      BY <2>3, <2>5 DEF ExitAt
    <3>2. ExitLeaves(st, g[n], p, n)
      BY <2>2, <2>4, <2>5, <3>1 DEF ExitLeaves
    <3> QED BY <1>4, <2>3, <3>2
  <2>6. CASE s.stuck /\ s.ofile[p][d] # NULL
    <3>1. g[n] = s
      BY <2>3, <2>6 DEF ExitAt, CloseAt, fileclose, Emptied
    <3>2. ExitLeaves(st, g[n], p, n)
      BY <2>2, <2>6, <3>1 DEF ExitLeaves
    <3> QED BY <1>4, <2>3, <3>2
  <2>7. CASE ~s.stuck /\ s.ofile[p][d] # NULL
    <3>1. Good(s, Even(Files), Even(Inum))
      BY <2>2 DEF ExitLeaves
    <3>2. PICK u : u = g[n]
      OBVIOUS
    <3>3. u = CloseAt(s, p, d)
      BY <2>3, <2>7, <3>2 DEF ExitAt
    <3>4. /\ Good(u, Even(Files), Even(Inum)) /\ Only(s, u, p) /\ u.cwd = s.cwd
          /\ ~u.stuck => /\ u.ofile[p][d] = NULL
                         /\ \A m \in Fds : m # d => u.ofile[p][m] = s.ofile[p][m]
      BY <1>3, <2>3, <2>7, <3>1, <3>3, CloseAtIs
    <3>5. ExitLeaves(st, u, p, n)
      BY <2>2, <2>4, <2>7, <3>4 DEF ExitLeaves, Only
    <3> QED BY <1>4, <2>3, <3>2, <3>5
  <2> QED BY <2>5, <2>6, <2>7
<1>7. NOFILE \in T
  <2>1. \A n \in 0 .. NOFILE : n \in T
    BY <1>3, <1>5, <1>6, SetInduct
  <2> QED BY <1>3, <2>1
<1>8. t = g[NOFILE] /\ \A d \in Fds : d < NOFILE
  BY <1>1, <1>3 DEF ExitFiles, Fds
<1> QED BY <1>4, <1>7, <1>8 DEF ExitLeaves

LEMMA ExitCwdIs ==
  ASSUME NEW st, NEW e, NEW h \in [Inum -> Int], Good(st, e, h), NEW p \in Procs,
         NEW t, t = ExitCwd(st, p)
  PROVE  /\ Good(t, e, h) /\ Only(st, t, p) /\ t.ofile = st.ofile /\ t.stuck = st.stuck
         /\ ~t.stuck => t.cwd[p] = 0
<1>1. CASE st.stuck \/ st.cwd[p] = 0
  BY <1>1 DEF ExitCwd, Only
<1>2. CASE ~(st.stuck \/ st.cwd[p] = 0)
  <2>1. PICK c, u : c = st.cwd[p] /\ u = iput(st, c)
    OBVIOUS
  <2>2. c \in Inum
    BY <1>2, <2>1, Fields DEF Good, Sums
  <2>3. PICK k : k = Plus(h, c, -1)
    OBVIOUS
  <2>4. k \in [Inum -> Int] /\ Plus(k, c, 1) = h /\ Plus(h, 0, -1) = h
    <3>1. k \in [Inum -> Int] /\ Plus(k, c, 1) = h
      BY <2>3, PlusIs, PlusBack
    <3>2. Plus(h, 0, -1) = h
      BY PlusIs, Sizes
    <3> QED BY <3>1, <3>2
  <2>5. Good(u, e, k) /\ Keeps(st, u) /\ u.stuck = st.stuck
    BY <1>2, <2>1, <2>2, <2>3, IputIs
  <2>6. t = WithCwd(u, p, 0) /\ u.cwd[p] = c
    BY <1>2, <2>1, <2>5 DEF ExitCwd, WithCwd, Keeps
  <2>7. Good(t, e, Plus(Plus(k, c, 1), 0, -1)) /\ OnlyCwd(u, t, p, 0)
    BY <2>4, <2>5, <2>6, SetCwd
  <2> QED BY <2>4, <2>5, <2>7 DEF Only, OnlyCwd, Keeps
<1> QED BY <1>1, <1>2

-----------------------------------------------------------------------------
(* The invariant: between two calls no count is wrong, and, as long as the *)
(* task runs, a slot that is free has neither files nor a directory, which *)
(* is what lets fsfork write over its fields.                              *)
FInv ==
    /\ Good(Now, Even(Files), Even(Inum))
    /\ live \subseteq Procs
    /\ ~stuck => \A q \in Procs \ live : cwd[q] = 0 /\ \A d \in Fds : ofile[q][d] = NULL

LEMMA FInvInit == Init => FInv
<1> SUFFICES ASSUME Init PROVE FInv
  OBVIOUS
<1>1. PICK s, e, h : s = Now /\ e = Even(Files) /\ h = Even(Inum)
  OBVIOUS
<1>2. s \in States
  <2>1. files \in [Files -> File]
    BY DEF Init, File
  <2>2. ofile \in [Procs -> [Fds -> 0 .. RESERVED]]
    BY Sizes DEF Init
  <2>3. cwd \in [Procs -> Inum \cup {0}] /\ iref \in [Inum -> Int] /\ lost \in [Inum -> Int]
    BY DEF Init
  <2>4. pipes \in [Page -> [readopen : BOOLEAN, writeopen : BOOLEAN]] /\ stuck \in BOOLEAN
    BY DEF Init, Closed
  <2> QED BY <1>1, <2>1, <2>2, <2>3, <2>4 DEF States, Now
<1>3. FilesAre(s.files)
  BY <1>1 DEF Init, Now, FilesAre
<1>4. Counted(s.files, s.ofile, e)
  <2>1. ASSUME NEW f \in Files
        PROVE  s.files[f].ref = Cardinality(RefsIn(s.ofile, f)) + e[f]
    <3>1. \A x \in Procs \X Fds : s.ofile[x[1]][x[2]] = NULL
      BY <1>1 DEF Init, Now
    <3>2. RefsIn(s.ofile, f) = {}
      BY <3>1, Sizes DEF RefsIn
    <3>3. s.files[f].ref = 0 /\ e[f] = 0
      BY <1>1 DEF Init, Now, Even
    <3> QED BY <3>2, <3>3, FS_EmptySet
  <2> QED BY <2>1 DEF Counted
<1>5. EndsAre(s.files, s.pipes)
  BY <1>1 DEF Init, Now, EndsAre, IsEnd, IsOpen, Closed
<1>6. Held(s.files, s.cwd, s.iref, s.lost, h)
  <2>1. ASSUME NEW i \in Inum
        PROVE  s.iref[i] = Cardinality(FilesOf(s.files, i)) + Cardinality(HomesAt(s.cwd, i)) + s.lost[i] + h[i]
    <3>1. FilesOf(s.files, i) = {} /\ HomesAt(s.cwd, i) = {}
      BY <1>1, Sizes DEF Init, Now, FilesOf, HomesAt
    <3>2. s.iref[i] = 0 /\ s.lost[i] = 0 /\ h[i] = 0
      BY <1>1 DEF Init, Now, Even
    <3> QED BY <3>1, <3>2, FS_EmptySet
  <2> QED BY <2>1 DEF Held
<1>7. live \subseteq Procs /\ \A q \in Procs : cwd[q] = 0 /\ \A d \in Fds : ofile[q][d] = NULL
  BY DEF Init
<1> QED BY <1>1, <1>2, <1>3, <1>4, <1>5, <1>6, <1>7 DEF FInv, Good, Sums

LEMMA NowIs ==
  ASSUME NEW t, NEW e, NEW h, Good(t, e, h), Ends(t)
  PROVE  Good(Now, e, h)'
<1>1. t \in States
  BY DEF Good, Sums
<1>2. t = [files |-> t.files, ofile |-> t.ofile, cwd |-> t.cwd, iref |-> t.iref, pipes |-> t.pipes,
           lost |-> t.lost, stuck |-> t.stuck]
  BY <1>1 DEF States
<1>3. Now' = t
  BY <1>2 DEF Now, Ends
<1> QED BY <1>3

(* A call of p, alive.                                                     *)
LEMMA DoneKeeps ==
  ASSUME FInv, NEW p, Calls(p), NEW t, Good(t, Even(Files), Even(Inum)),
         NEW s, s = Now, Only(s, t, p), Done(t)
  PROVE  FInv'
<1>1. Good(Now, Even(Files), Even(Inum))'
  BY NowIs DEF Done
<1>2. live' = live /\ cwd' = t.cwd /\ ofile' = t.ofile
  BY DEF Done, Ends
<1>3. s.cwd = cwd /\ s.ofile = ofile
  BY DEF Now
<1>4. p \in live /\ ~stuck
  BY DEF Calls
<1> QED BY <1>1, <1>2, <1>3, <1>4 DEF FInv, Only

LEMMA FInvNext == FInv /\ [Next]_vars => FInv'
<1> SUFFICES ASSUME FInv, [Next]_vars PROVE FInv'
  OBVIOUS
<1>0. PICK s, e, h : s = Now /\ e = Even(Files) /\ h = Even(Inum)
  OBVIOUS
<1>1. e \in [Files -> Int] /\ h \in [Inum -> Int] /\ Good(s, e, h) /\ live \subseteq Procs
  BY <1>0, EvenIs DEF FInv
<1>2. s.stuck = stuck /\ s.cwd = cwd /\ s.ofile = ofile /\ s.files = files /\ s.pipes = pipes
  BY <1>0 DEF Now
<1>3. ASSUME NEW p \in Procs, Calls(p), NEW t, Good(t, e, h), Only(s, t, p), Done(t)
      PROVE  FInv'
  BY <1>0, <1>3, DoneKeeps
<1>4. ASSUME NEW p \in Procs, Calls(p)
      PROVE  /\ Good(Home(s, p), e, h) /\ Only(s, Home(s, p), p)
             /\ ~Home(s, p).stuck => Home(s, p).cwd[p] \in Inum
  <2>1. ~s.stuck
    BY <1>2, <1>4 DEF Calls
  <2> QED BY <1>1, <2>1, HomeIs
<1>5. ASSUME NEW p \in Procs, Open(p) PROVE FInv'
  <2>1. Calls(p)
    BY <1>5 DEF Open
  <2>2. PICK i \in Inum, mode \in {"read", "write", "create"}, st \in {Home(s, p)} :
            Done(IF i \in Dirs /\ mode = "create" THEN st
                 ELSE IF i \in Dirs /\ mode = "write" THEN iput(iget(st, i), i)
                 ELSE IF mode = "create" THEN OpenInode(iget(Lose(iget(st, i), i), i), p, i)
                 ELSE OpenInode(iget(st, i), p, i))
    BY <1>0, <1>5 DEF Open
  <2>3. Good(st, e, h) /\ Only(s, st, p)
    BY <1>4, <2>1, <2>2
  <2>4. PICK u : u = iget(st, i)
    OBVIOUS
  <2>5. Got(u, e, h, i) /\ Only(s, u, p)
    <3>1. Got(u, e, h, i) /\ Keeps(st, u)
      BY <1>1, <2>3, <2>4, IgetGot
    <3> QED BY <2>3, <3>1 DEF Keeps, Only
  <2>6. CASE i \in Dirs /\ mode = "create"
    BY <1>3, <2>1, <2>2, <2>3, <2>6
  <2>7. CASE i \in Dirs /\ mode = "write"
    <3>1. PICK t : t = iput(u, i)
      OBVIOUS
    <3>2. Good(t, e, h) /\ Keeps(u, t)
      BY <1>1, <2>5, <3>1, IputGot
    <3>3. Only(s, t, p)
      BY <2>5, <3>2 DEF Keeps, Only
    <3>4. Done(t)
      BY <2>2, <2>4, <2>7, <3>1
    <3> QED BY <1>3, <2>1, <3>2, <3>3, <3>4
  <2>8. CASE i \notin Dirs /\ mode = "create"
    <3>1. PICK v, w, t : v = Lose(u, i) /\ w = iget(v, i) /\ t = OpenInode(w, p, i)
      OBVIOUS
    <3>2. Good(v, e, h) /\ Keeps(u, v)
      BY <1>1, <2>5, <3>1, LoseGot
    <3>3. Got(w, e, h, i) /\ Keeps(v, w)
      BY <1>1, <3>1, <3>2, IgetGot
    <3>4. Good(t, e, h) /\ Only(w, t, p)
      BY <1>1, <3>1, <3>3, OpenGot
    <3>5. Only(s, t, p)
      BY <2>5, <3>2, <3>3, <3>4 DEF Keeps, Only
    <3>6. Done(t)
      BY <2>2, <2>4, <2>8, <3>1
    <3> QED BY <1>3, <2>1, <3>4, <3>5, <3>6
  <2>9. CASE mode = "read" \/ (i \notin Dirs /\ mode = "write")
    <3>1. PICK t : t = OpenInode(u, p, i)
      OBVIOUS
    <3>2. Good(t, e, h) /\ Only(u, t, p)
      BY <1>1, <2>5, <3>1, OpenGot
    <3>3. Only(s, t, p)
      BY <2>5, <3>2, OnlyTrans
    <3>4. Done(t)
      BY <2>2, <2>4, <2>9, <3>1
    <3> QED BY <1>3, <2>1, <3>2, <3>3, <3>4
  <2> QED BY <2>6, <2>7, <2>8, <2>9
<1>6. ASSUME NEW p \in Procs, WalkThrough(p) PROVE FInv'
  <2>1. Calls(p)
    BY <1>6 DEF WalkThrough
  <2>2. PICK i \in Inum, st \in {Home(s, p)} : Done(Lose(iget(st, i), i))
    BY <1>0, <1>6 DEF WalkThrough
  <2>3. Good(st, e, h) /\ Only(s, st, p)
    BY <1>4, <2>1, <2>2
  <2>4. PICK u, t : u = iget(st, i) /\ t = Lose(u, i)
    OBVIOUS
  <2>5. Got(u, e, h, i) /\ Keeps(st, u)
    BY <1>1, <2>3, <2>4, IgetGot
  <2>6. Good(t, e, h) /\ Keeps(u, t)
    BY <1>1, <2>4, <2>5, LoseGot
  <2>7. Only(s, t, p) /\ Done(t)
    BY <2>2, <2>3, <2>4, <2>5, <2>6 DEF Keeps, Only
  <2> QED BY <1>3, <2>1, <2>6, <2>7
<1>7. ASSUME NEW p \in Procs, Close(p) PROVE FInv'
  <2>1. Calls(p) /\ ~s.stuck
    BY <1>2, <1>7 DEF Close, Calls
  <2>2. PICK d \in Fds : Done(CloseAt(s, p, d))
    BY <1>0, <1>7 DEF Close
  <2>3. PICK t : t = CloseAt(s, p, d)
    OBVIOUS
  <2>4. Good(t, e, h) /\ Only(s, t, p)
    BY <1>0, <1>1, <2>1, <2>3, CloseAtIs
  <2> QED BY <1>3, <2>1, <2>2, <2>3, <2>4
<1>8. ASSUME NEW p \in Procs, Dup(p) PROVE FInv'
  <2>1. Calls(p) /\ ~s.stuck
    BY <1>2, <1>8 DEF Dup, Calls
  <2>2. PICK d \in Fds : FreeFds(s, p) # {} /\ Done(DupOf(s, p, d))
    BY <1>0, <1>8 DEF Dup
  <2>3. PICK t : t = DupOf(s, p, d)
    OBVIOUS
  <2>4. Good(t, e, h) /\ Only(s, t, p)
    BY <1>0, <1>1, <2>1, <2>2, <2>3, DupIs
  <2> QED BY <1>3, <2>1, <2>2, <2>3, <2>4
<1>9. ASSUME NEW p \in Procs, Chdir(p) PROVE FInv'
  <2>1. Calls(p)
    BY <1>9 DEF Chdir
  <2>2. PICK i \in Inum, st \in {Home(s, p)} : Done(ChdirTo(iget(st, i), p, i))
    BY <1>0, <1>9 DEF Chdir
  <2>3. Good(st, e, h) /\ Only(s, st, p) /\ (~st.stuck => st.cwd[p] \in Inum)
    BY <1>4, <2>1, <2>2
  <2>4. PICK u, t : u = iget(st, i) /\ t = ChdirTo(u, p, i)
    OBVIOUS
  <2>5. Got(u, e, h, i) /\ Keeps(st, u) /\ (st.stuck => u.stuck)
    BY <1>1, <2>3, <2>4, IgetGot, IgetIs
  <2>6. ~u.stuck => u.cwd[p] \in Inum
    BY <2>3, <2>5 DEF Keeps
  <2>7. Good(t, e, h) /\ Only(u, t, p)
    BY <1>1, <2>4, <2>5, <2>6, ChdirIs
  <2>8. Only(s, t, p) /\ Done(t)
    BY <2>2, <2>3, <2>4, <2>5, <2>7 DEF Keeps, Only
  <2> QED BY <1>3, <2>1, <2>7, <2>8
<1>10. ASSUME NEW p \in Procs, Seek(p) PROVE FInv'
  <2>1. Calls(p)
    BY <1>10 DEF Seek
  <2>2. PICK t : Done(t) /\ (t = s \/ t = Halt(s))
    BY <1>0, <1>10 DEF Seek
  <2>3. Good(t, e, h) /\ Keeps(s, t)
    BY <1>1, <2>2, HaltIs DEF Keeps
  <2>4. Only(s, t, p)
    BY <2>3, KeepsOnly
  <2> QED BY <1>3, <2>1, <2>2, <2>3, <2>4
<1>11. ASSUME NEW p \in Procs, Pipe(p) PROVE FInv'
  <2>1. Calls(p) /\ ~s.stuck
    BY <1>2, <1>11 DEF Pipe, Calls
  <2>2. PICK g \in {x \in Page : pipes[x] = Closed}, rf \in FreeFiles(s), wf \in FreeFiles(s) :
            wf # rf /\ Done(PipeTo(pipealloc(s, rf, wf, g), p, rf, wf))
    BY <1>0, <1>11 DEF Pipe
  <2>3. /\ g \in Page /\ s.pipes[g] = Closed
        /\ rf \in Files /\ s.files[rf].ref = 0 /\ wf \in Files /\ s.files[wf].ref = 0
    BY <1>2, <2>2 DEF FreeFiles
  <2>4. PICK u, t : u = pipealloc(s, rf, wf, g) /\ t = PipeTo(u, p, rf, wf)
    OBVIOUS
  <2>5. /\ Good(u, Plus(Plus(e, rf, 1), wf, 1), h) /\ ~u.stuck
        /\ u.ofile = s.ofile /\ u.cwd = s.cwd
        /\ u.files[rf].ref # 0 /\ u.files[wf].ref # 0
    BY <1>1, <2>1, <2>2, <2>3, <2>4, PipeallocIs
  <2>6. Good(t, e, h) /\ Only(u, t, p)
    BY <1>1, <2>2, <2>3, <2>4, <2>5, PipeToIs
  <2>7. Only(s, t, p) /\ Done(t)
    BY <2>2, <2>4, <2>5, <2>6 DEF Only
  <2> QED BY <1>3, <2>1, <2>6, <2>7
<1>12. ASSUME NEW p \in Procs, Fork(p) PROVE FInv'
  <2>1. p \in live /\ ~stuck
    BY <1>12 DEF Fork, Calls
  <2>2. PICK q \in Procs \ live :
            \E st \in {ForkCwd(ForkFiles(s, p, q), p, q)} :
                Ends(st) /\ live' = IF st.stuck THEN live ELSE live \cup {q}
    BY <1>0, <1>12 DEF Fork
  <2>3. PICK u, t : u = ForkFiles(s, p, q) /\ t = ForkCwd(u, p, q)
    OBVIOUS
  <2>4. Ends(t) /\ live' = IF t.stuck THEN live ELSE live \cup {q}
    BY <2>2, <2>3
  <2>5. s.cwd[q] = 0 /\ \A d \in Fds : s.ofile[q][d] = NULL
    BY <1>2, <2>1, <2>2 DEF FInv
  <2>6. Good(u, e, h) /\ Only(s, u, q) /\ u.cwd = s.cwd
    BY <1>0, <1>1, <2>3, <2>5, ForkFilesIs
  <2>7. Good(t, e, h) /\ Only(u, t, q)
    BY <1>1, <2>2, <2>3, <2>5, <2>6, ForkCwdIs
  <2>8. Good(Now, Even(Files), Even(Inum))'
    BY <1>0, <2>4, <2>7, NowIs
  <2>9. Only(s, t, q)
    BY <2>6, <2>7, OnlyTrans
  <2>10. cwd' = t.cwd /\ ofile' = t.ofile /\ stuck' = t.stuck
    BY <2>4 DEF Ends
  <2>11. live' \subseteq Procs
    BY <1>1, <2>2, <2>4
  <2>12. ~stuck' => \A r \in Procs \ live' : cwd'[r] = 0 /\ \A d \in Fds : ofile'[r][d] = NULL
    BY <1>2, <2>1, <2>4, <2>9, <2>10 DEF FInv, Only
  <2> QED BY <2>8, <2>11, <2>12 DEF FInv
<1>13. ASSUME NEW p \in Procs, Exit(p) PROVE FInv'
  <2>1. p \in live /\ ~stuck
    BY <1>13 DEF Exit, Calls
  <2>2. PICK u, t : u = ExitFiles(s, p) /\ t = ExitCwd(u, p)
    OBVIOUS
  <2>3. Ends(t) /\ live' = IF t.stuck THEN live ELSE live \ {p}
    BY <1>0, <1>13, <2>2 DEF Exit
  <2>4. /\ Good(u, e, h) /\ Only(s, u, p)
        /\ ~u.stuck => \A d \in Fds : u.ofile[p][d] = NULL
    BY <1>0, <1>1, <1>2, <2>1, <2>2, ExitFilesIs
  <2>5. /\ Good(t, e, h) /\ Only(u, t, p) /\ t.ofile = u.ofile /\ t.stuck = u.stuck
        /\ ~t.stuck => t.cwd[p] = 0
    BY <1>1, <2>2, <2>4, ExitCwdIs
  <2>6. Good(Now, Even(Files), Even(Inum))'
    BY <1>0, <2>3, <2>5, NowIs
  <2>7. Only(s, t, p)
    BY <2>4, <2>5, OnlyTrans
  <2>8. cwd' = t.cwd /\ ofile' = t.ofile /\ stuck' = t.stuck
    BY <2>3 DEF Ends
  <2>9. live' \subseteq Procs
    BY <1>1, <2>3
  <2>10. ~stuck' => \A r \in Procs \ live' : cwd'[r] = 0 /\ \A d \in Fds : ofile'[r][d] = NULL
    BY <1>2, <2>1, <2>3, <2>4, <2>5, <2>7, <2>8 DEF FInv, Only
  <2> QED BY <2>6, <2>9, <2>10 DEF FInv
<1>14. ASSUME UNCHANGED vars PROVE FInv'
  BY <1>14 DEF FInv, vars, Now
<1>15. ASSUME NEW p \in Procs, DupOutside(p) PROVE FInv'
  BY <1>15 DEF DupOutside, FInv, Now
<1> QED BY <1>15, <1>5, <1>6, <1>7, <1>8, <1>9, <1>10, <1>11, <1>12, <1>13, <1>14 DEF Next

LEMMA FInvAlways == Spec => []FInv
BY FInvInit, FInvNext, PTL DEF Spec

-----------------------------------------------------------------------------
(* A file's ref is the number of descriptors that name it, and it has a    *)
(* type as long as there is one, after every sequence of open, close, dup, *)
(* pipe, fork and exit, those that fail half way included: so filealloc    *)
(* takes a file again when and only when its last descriptor is gone.  It  *)
(* holds until a process duplicates what lies outside of its ofile.        *)
THEOREM FilesCountedAlways == Spec => []FilesCounted
<1>1. FInv => FilesCounted
  <2> SUFFICES ASSUME FInv, NEW f \in Files
               PROVE  /\ files[f].ref = Cardinality(Refs(f))
                      /\ files[f].type = "none" <=> files[f].ref = 0
    BY DEF FilesCounted
  <2>1. Counted(files, ofile, Even(Files)) /\ FilesAre(files)
    BY DEF FInv, Good, Sums, Now
  <2>2. files[f].ref = Cardinality(Refs(f)) + 0
    BY <2>1 DEF Counted, Even, RefsIn, Refs
  <2>3. Cardinality(Refs(f)) \in Nat
    BY RefsFinite DEF RefsIn, Refs
  <2> QED BY <2>1, <2>2, <2>3 DEF FilesAre
<1> QED BY <1>1, FInvAlways, PTL

(* One file in use stands for an end of a pipe that is open, none for one  *)
(* that is closed: pipeclose gives the page back when, and only when, the  *)
(* last user of the second end is gone.                                    *)
THEOREM PipesOwnedAlways == Spec => []PipesOwned
<1>1. FInv => PipesOwned
  <2> SUFFICES ASSUME FInv, NEW g \in Page, NEW w \in BOOLEAN
               PROVE  Cardinality({f \in Files : files[f].type = "pipe" /\ files[f].pipe = g
                                                     /\ files[f].writable = w})
                          = IF (IF w THEN pipes[g].writeopen ELSE pipes[g].readopen) THEN 1 ELSE 0
    BY DEF PipesOwned
  <2>1. PICK S : S = {f \in Files : files[f].type = "pipe" /\ files[f].pipe = g /\ files[f].writable = w}
    OBVIOUS
  <2>2. EndsAre(files, pipes)
    BY DEF FInv, Good, Now
  <2>3. \A f \in Files : f \in S <=> IsEnd(files, f, g, w)
    BY <2>1 DEF IsEnd
  <2>4. CASE IsOpen(pipes, g, w)
    <3>1. PICK f \in Files : S = {f}
      BY <2>1, <2>2, <2>3, <2>4 DEF EndsAre
    <3>2. Cardinality(S) = 1
      BY <3>1, FS_Singleton
    <3> QED BY <2>1, <2>4, <3>2 DEF IsOpen
  <2>5. CASE ~IsOpen(pipes, g, w)
    <3>1. S = {}
      BY <2>1, <2>2, <2>3, <2>5 DEF EndsAre
    <3>2. Cardinality(S) = 0
      BY <3>1, FS_EmptySet
    <3> QED BY <2>1, <2>5, <3>2 DEF IsOpen
  <2> QED BY <2>4, <2>5
<1> QED BY <1>1, FInvAlways, PTL

(* An inode's ref is the number of its open files, of the processes whose  *)
(* directory it is, and of what icreate and namex have dropped: nothing    *)
(* else keeps an inode in memory, and none is freed under its users.       *)
THEOREM InodesHeldAlways == Spec => []InodesHeld
<1>1. FInv => InodesHeld
  <2> SUFFICES ASSUME FInv, NEW i \in Inum
               PROVE  iref[i] = Cardinality({f \in Files : files[f].type = "inode" /\ files[f].ip = i})
                                  + Cardinality({p \in Procs : cwd[p] = i}) + lost[i]
    BY DEF InodesHeld
  <2>1. Held(files, cwd, iref, lost, Even(Inum)) /\ lost \in [Inum -> Int]
    BY Fields DEF FInv, Good, Sums, Now
  <2>2. iref[i] = Cardinality(FilesOf(files, i)) + Cardinality(HomesAt(cwd, i)) + lost[i] + 0
    BY <2>1 DEF Held, Even
  <2>3. /\ Cardinality(FilesOf(files, i)) \in Nat /\ Cardinality(HomesAt(cwd, i)) \in Nat
        /\ lost[i] \in Int
    BY <2>1, HoldersFinite
  <2>4. iref[i] = Cardinality(FilesOf(files, i)) + Cardinality(HomesAt(cwd, i)) + lost[i]
    BY <2>2, <2>3
  <2> QED BY <2>4 DEF FilesOf, HomesAt
<1> QED BY <1>1, FInvAlways, PTL
=============================================================================
