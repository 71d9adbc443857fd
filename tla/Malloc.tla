------------------------------- MODULE Malloc -------------------------------
(***************************************************************************)
(* The library's heap (lib/malloc.c): a circular list of free blocks in    *)
(* the order of their addresses, from base.  Addresses count units, of     *)
(* sizeof(Header); base is at 0, below what sbrk gives.  The functions     *)
(* take the heap, h, and give it back.                                     *)
(***************************************************************************)
EXTENDS Integers, SequencesExt, FiniteSetsExt

CONSTANTS
    MORE,                     \* the least morecore asks for: 4096 in the code
    PAGEUNITS,                \* units a page holds
    LIMIT                     \* bound: units sbrk can give

ASSUME MallocAssumption ==
    /\ {MORE, PAGEUNITS, LIMIT} \subseteq Nat \ {0}
    /\ MORE % PAGEUNITS = 0

BASE  == 0
NONE  == -1                   \* NULL
Start == 1                    \* where the heap begins

NoHeap ==
    [ptr |-> [a \in 0 .. LIMIT |-> BASE], size |-> [a \in 0 .. LIMIT |-> 0],
     freep |-> NONE, brk |-> Start]

(* The blocks from freep on, the k-th after it being Node(h, k).           *)
Chain(h) ==
    LET at[k \in 0 .. LIMIT + 1] == IF k = 0 THEN h.freep ELSE h.ptr[at[k - 1]]
    IN  at

Node(h, k) == Chain(h)[k]

-----------------------------------------------------------------------------
(* Block bp comes after p: between it and the next, or at an end.          *)
Fits(h, p, bp) ==
    \/ bp > p /\ bp < h.ptr[p]
    \/ p >= h.ptr[p] /\ (bp > p \/ bp < h.ptr[p])

JoinNext(h, p, bp) ==
    LET q == h.ptr[p]
    IN  IF bp + h.size[bp] = q
        THEN [h EXCEPT !.size[bp] = @ + h.size[q], !.ptr[bp] = h.ptr[q]]
        ELSE [h EXCEPT !.ptr[bp] = q]

JoinPrevNot(h, p, bp) == [h EXCEPT !.ptr[p] = bp]

JoinPrev(h, p, bp) ==
    IF p + h.size[p] = bp
    THEN [h EXCEPT !.size[p] = @ + h.size[bp], !.ptr[p] = h.ptr[bp]]
    ELSE [h EXCEPT !.ptr[p] = bp]

FreeAfter(h, p, bp) == [JoinPrev(JoinNext(h, p, bp), p, bp) EXCEPT !.freep = p]

(* The search starts at freep.                                             *)
Place(h, bp) ==
    Node(h, CHOOSE k \in 0 .. LIMIT :
                /\ Fits(h, Node(h, k), bp)
                /\ \A j \in 0 .. k - 1 : ~Fits(h, Node(h, j), bp))

free(h, bp) == FreeAfter(h, Place(h, bp), bp)

-----------------------------------------------------------------------------
Units(n) == IF n < MORE THEN MORE ELSE n

(* sbrk gives whole pages.                                                 *)
Pages(n) == ((n + PAGEUNITS - 1) \div PAGEUNITS) * PAGEUNITS

MayGrow(h, n) == h.brk + Pages(Units(n)) <= LIMIT

morecore(h, n) ==
    free([h EXCEPT !.size[h.brk] = Units(n), !.brk = @ + Pages(Units(n))], h.brk)

Begun(h) == IF h.freep = NONE THEN [h EXCEPT !.freep = BASE] ELSE h

(* The search goes once round, from the block after freep to freep.        *)
Round(h) ==
    CHOOSE k \in 1 .. LIMIT + 1 :
        /\ Node(h, k) = h.freep
        /\ \A j \in 1 .. k - 1 : Node(h, j) # h.freep
Enough(h, n) == {k \in 1 .. Round(h) : h.size[Node(h, k)] >= n}

(* The block is taken whole, or its tail is.                               *)
Taken(h, prev, p, n) ==
    IF h.size[p] = n
    THEN [heap |-> [h EXCEPT !.ptr[prev] = h.ptr[p], !.freep = prev], at |-> p]
    ELSE [heap |-> [h EXCEPT !.size[p] = @ - n, !.size[p + h.size[p] - n] = n, !.freep = prev],
          at |-> p + h.size[p] - n]

TakeFirst(h, n) ==
    LET k == Min(Enough(h, n))
    IN  Taken(h, Node(h, k - 1), Node(h, k), n)

(* The outcomes of malloc: sbrk may fail, for want of memory.              *)
MallocFrom(h, n) ==
    IF Enough(h, n) # {} THEN {TakeFirst(h, n)}
    ELSE {[heap |-> h, at |-> NONE]}
             \cup IF MayGrow(h, n) THEN {TakeFirst(morecore(h, n), n)} ELSE {}

malloc(h, n) == MallocFrom(Begun(h), n)

-----------------------------------------------------------------------------
Extent(h, a) == a .. a + h.size[a] - 1

FreeBlocks(h) == IF h.freep = NONE THEN {} ELSE {Node(h, k) : k \in 1 .. Round(h)} \ {BASE}

(* The list is in order and no two of its blocks touch; they and those in  *)
(* use lie in what sbrk has given, and none on another.                    *)
Tiled(h, used) ==
    LET all == FreeBlocks(h) \cup used
    IN  /\ \A a \in FreeBlocks(h) : h.ptr[a] > a + h.size[a] \/ h.ptr[a] = BASE
        /\ FreeBlocks(h) \cap used = {}
        /\ \A a \in all : h.size[a] > 0 /\ Extent(h, a) \subseteq Start .. h.brk - 1
        /\ \A a, b \in all : a # b => Extent(h, a) \cap Extent(h, b) = {}
=============================================================================
