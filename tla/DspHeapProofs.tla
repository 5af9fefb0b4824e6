---------------------------- MODULE DspHeapProofs ----------------------------
(***************************************************************************)
(* Lemmas about DspHeap, for every size of the heap and of the header.     *)
(*                                                                         *)
(* A heap is described by three values the code does not have: the blocks  *)
(* A that are allocated, those among them, C, the pool's counters count    *)
(* (RestoreWatermark clears the counters, not the blocks), and a floor w   *)
(* below which nothing is handed out any more.                             *)
(***************************************************************************)
EXTENDS DspHeap, TLAPS

\* The facts about finite sets and induction that the lemmas below rest on.  They
\* are the hypothesis of every lemma that counts or iterates; ServiceTheorems
\* proves them from the library, which so stays out of the other obligations.
CountLaws ==
  /\ \A S : IsFiniteSet(S) => Cardinality(S) \in Nat
  /\ IsFiniteSet({}) /\ \A S : IsFiniteSet(S) => (Cardinality(S) = 0 <=> S = {})
  /\ \A x : Cardinality({x}) = 1
  /\ \A S, x : IsFiniteSet(S) =>
       /\ IsFiniteSet(S \cup {x})
       /\ Cardinality(S \cup {x}) = Cardinality(S) + (IF x \in S THEN 0 ELSE 1)
  /\ \A S, x : IsFiniteSet(S) =>
       /\ IsFiniteSet(S \ {x})
       /\ Cardinality(S \ {x}) = Cardinality(S) - (IF x \in S THEN 1 ELSE 0)
  /\ \A S : \A T \in SUBSET S :
       IsFiniteSet(S) => IsFiniteSet(T) /\ Cardinality(T) <= Cardinality(S)
  /\ \A a, b \in Int : IsFiniteSet(a .. b)
  /\ \A T : 0 \in T /\ (\A n \in Nat : n \in T => n + 1 \in T) => \A n \in Nat : n \in T
-----------------------------------------------------------------------------
\* The number of elements of a finite set is a natural number.
LEMMA CountType ==
  ASSUME CountLaws, NEW S, IsFiniteSet(S)
  PROVE  Cardinality(S) \in Nat
  BY Zenon DEF CountLaws

\* Only the empty set has no elements.
LEMMA CountEmpty ==
  ASSUME CountLaws
  PROVE  /\ IsFiniteSet({}) /\ Cardinality({}) = 0
         /\ \A S : IsFiniteSet(S) => (Cardinality(S) = 0 <=> S = {})
  BY Zenon DEF CountLaws

\* A singleton has one element.
LEMMA CountOne ==
  ASSUME CountLaws
  PROVE  \A x : Cardinality({x}) = 1
  BY Zenon DEF CountLaws

\* One more element.
LEMMA CountAdd ==
  ASSUME CountLaws, NEW S, NEW x, IsFiniteSet(S)
  PROVE  /\ IsFiniteSet(S \cup {x})
         /\ Cardinality(S \cup {x}) = IF x \in S THEN Cardinality(S) ELSE Cardinality(S) + 1
<1>1. /\ IsFiniteSet(S \cup {x})
      /\ Cardinality(S \cup {x}) = Cardinality(S) + (IF x \in S THEN 0 ELSE 1)
  BY Zenon DEF CountLaws
<1>2. Cardinality(S) \in Nat
  BY CountType
<1> QED BY <1>1, <1>2

\* One element less.
LEMMA CountRemove ==
  ASSUME CountLaws, NEW S, NEW x, IsFiniteSet(S)
  PROVE  /\ IsFiniteSet(S \ {x})
         /\ Cardinality(S \ {x}) = IF x \in S THEN Cardinality(S) - 1 ELSE Cardinality(S)
<1>1. /\ IsFiniteSet(S \ {x})
      /\ Cardinality(S \ {x}) = Cardinality(S) - (IF x \in S THEN 1 ELSE 0)
  BY Zenon DEF CountLaws
<1>2. Cardinality(S) \in Nat
  BY CountType
<1> QED BY <1>1, <1>2

\* A subset has no more elements.
LEMMA CountSubset ==
  ASSUME CountLaws, NEW S, IsFiniteSet(S), NEW T \in SUBSET S
  PROVE  IsFiniteSet(T) /\ Cardinality(T) <= Cardinality(S)
  BY Zenon DEF CountLaws

\* Intervals are finite.
LEMMA CountInterval ==
  ASSUME CountLaws, NEW a \in Int, NEW b \in Int
  PROVE  IsFiniteSet(a .. b)
  BY Zenon DEF CountLaws

\* A set that contains 0 and with a number the next one contains every number.
LEMMA Induction ==
  ASSUME CountLaws, NEW T, 0 \in T, \A n \in Nat : n \in T => n + 1 \in T
  PROVE  \A n \in Nat : n \in T
  BY Zenon DEF CountLaws

\* A step stays in S, and f is what n steps of g from a give one after the other.
Stays(g, S) == \A s \in S, k \in Nat : g[<<s, k>>] \in S
Steps(f, g, a, n, S) ==
  f \in [0 .. n -> S] /\ f[0] = a /\ \A k \in 1 .. n : f[k] = g[<<f[k - 1], k>>]

\* A step that stays in S can be iterated from any a in S.
LEMMA Iterates ==
  ASSUME CountLaws, NEW S, NEW a \in S, NEW g, Stays(g, S)
  PROVE  \A n \in Nat : \E f : Steps(f, g, a, n, S)
<1> DEFINE T == {n \in Nat : \E f : Steps(f, g, a, n, S)}
<1>1. 0 \in T
  <2> DEFINE h == [i \in 0 .. 0 |-> a]
  <2>1. h \in [0 .. 0 -> S] /\ h[0] = a
    OBVIOUS
  <2>2. \A k \in 1 .. 0 : h[k] = g[<<h[k - 1], k>>]
    OBVIOUS
  <2> HIDE DEF h
  <2>3. Steps(h, g, a, 0, S)
    BY <2>1, <2>2 DEF Steps
  <2> QED BY <2>3
<1>2. ASSUME NEW n \in Nat, n \in T
      PROVE  n + 1 \in T
  <2>1. PICK f : Steps(f, g, a, n, S)
    BY <1>2
  <2>2. f \in [0 .. n -> S] /\ f[0] = a /\ \A k \in 1 .. n : f[k] = g[<<f[k - 1], k>>]
    BY <2>1 DEF Steps
  <2> DEFINE h == [i \in 0 .. n + 1 |-> IF i <= n THEN f[i] ELSE g[<<f[n], n + 1>>]]
  <2>3. h \in [0 .. n + 1 -> S]
    <3>1. f[n] \in S
      BY <2>2
    <3>2. g[<<f[n], n + 1>>] \in S
      BY <3>1 DEF Stays
    <3> QED BY <2>2, <3>2
  <2>4. h[0] = a
    BY <2>2
  <2>5. ASSUME NEW k \in 1 .. n + 1
        PROVE  h[k] = g[<<h[k - 1], k>>]
    <3>1. CASE k <= n
      BY <3>1, <2>2
    <3>2. CASE k = n + 1
      <4>1. k - 1 = n /\ h[n] = f[n] /\ h[k] = g[<<f[n], n + 1>>]
        BY <3>2
      <4> HIDE DEF h
      <4> QED BY <3>2, <4>1
    <3> QED BY <3>1, <3>2
  <2> HIDE DEF h
  <2>6. Steps(h, g, a, n + 1, S)
    BY <2>3, <2>4, <2>5 DEF Steps
  <2> QED BY <2>6
<1> HIDE DEF T
<1>3. \A n \in Nat : n \in T
  BY <1>1, <1>2, Induction
<1> QED BY <1>3 DEF T
-----------------------------------------------------------------------------
\* The pointers a block may have.
Ptrs == HeaderSize .. PoolUnits - 1

\* The set of the blocks of a list, and that it lists no block twice.
Blocks(s) == {s[i] : i \in 1 .. Len(s)}
Distinct(s) == \A i, j \in 1 .. Len(s) : i # j => s[i] # s[j]

\* The next allocation comes from w or above.
Floor(h, w) ==
  /\ w <= h.pool.bump
  /\ \A i \in 1 .. Len(h.pool.freeList) : h.pool.freeList[i] + HeaderSize >= w

\* Every block of A has a header that says so, and lies below the bump pointer
\* and off the free list.
LiveOK(h, A) ==
  \A p \in A : /\ h.pool.hdr[p - HeaderSize] = [magic |-> TRUE, size |-> 1]
               /\ p < h.pool.bump
               /\ p - HeaderSize \notin Blocks(h.pool.freeList)

\* The free list has no block twice, and blocks of one unit below bump only.
FreeOK(h) ==
  /\ Distinct(h.pool.freeList)
  /\ \A a \in Blocks(h.pool.freeList) : /\ h.pool.hdr[a].size = 1
                                        /\ a + HeaderSize < h.pool.bump

HeapOK(h, A, C, w) ==
  /\ h \in HeapType /\ w \in Nat
  /\ A \subseteq Ptrs /\ C \subseteq A
  /\ h.pool.numAllocs = h.pool.numFrees + Cardinality(C)
  /\ LiveOK(h, A) /\ FreeOK(h) /\ Floor(h, w)

\* Every block of the list is in S and holds data of tag.
Holds(h, s, S, tag) ==
  Distinct(s) /\ Blocks(s) \subseteq S /\ \A p \in Blocks(s) : h.owner[p] = tag

Apart(s, t) == Blocks(s) \cap Blocks(t) = {}
-----------------------------------------------------------------------------
\* align_up to units changes nothing.
LEMMA AlignOne == \A v \in Nat : AlignUp(v, 1) = v
  BY DEF AlignUp

\* Every pointer is a unit of the heap.
LEMMA PtrsUnits == Ptrs \subseteq HeapUnits
  BY HeaderSizeAssumption, PoolUnitsAssumption DEF Ptrs, HeapUnits

\* The parts of a heap's type that the proofs use.
LEMMA HeapParts ==
  ASSUME NEW h \in HeapType
  PROVE  /\ h.pool.base = 0 /\ h.pool.size = PoolUnits
         /\ h.pool.bump \in 0 .. PoolUnits
         /\ h.pool.freeList \in Seq(HeapUnits)
         /\ Len(h.pool.freeList) \in Nat
         /\ h.pool.hdr \in [HeapUnits -> HeaderWord]
         /\ h.pool.allocated \in Nat
         /\ h.pool.numAllocs \in Nat /\ h.pool.numFrees \in Nat
         /\ h.owner \in [HeapUnits -> Tags]
         /\ h.wm \in {Null} \cup Nat /\ h.oom \in BOOLEAN
  BY DEF HeapType

\* The pool's part of HeapType.
PoolRec ==
  [base : {0}, size : {PoolUnits}, bump : 0 .. PoolUnits,
   freeList : Seq(HeapUnits), hdr : [HeapUnits -> HeaderWord],
   allocated : Nat, numAllocs : Nat, numFrees : Nat]

\* A heap with another pool.
LEMMA HeapUpdates ==
  ASSUME NEW h \in HeapType, NEW q
  PROVE  /\ h.pool \in PoolRec
         /\ [h EXCEPT !.pool = q].pool = q
         /\ [h EXCEPT !.pool = q].owner = h.owner
         /\ [h EXCEPT !.pool = q].wm = h.wm
         /\ [h EXCEPT !.pool = q].oom = h.oom
         /\ q \in PoolRec => [h EXCEPT !.pool = q] \in HeapType
  BY Zenon DEF HeapType, PoolRec

\* A heap with another out-of-memory flag, and with another watermark.
LEMMA FlagUpdates ==
  ASSUME NEW h \in HeapType
  PROVE  /\ \A b \in BOOLEAN : LET k == [h EXCEPT !.oom = b] IN
              /\ k.pool = h.pool /\ k.owner = h.owner /\ k.wm = h.wm /\ k.oom = b
              /\ k \in HeapType
         /\ \A v \in Nat : LET k == [h EXCEPT !.wm = v] IN
              /\ k.pool = h.pool /\ k.owner = h.owner /\ k.wm = v /\ k.oom = h.oom
              /\ k \in HeapType
  BY Zenon DEF HeapType, PoolRec

\* An allocation that gave q and x: one unit of the heap has a new owner.
LEMMA DspAllocGives ==
  ASSUME NEW h \in HeapType, NEW tag \in Tags, NEW q \in PoolRec, NEW x \in HeapUnits,
         PoolAlloc(h.pool, 1, 1) = [pool |-> q, ptr |-> x]
  PROVE  LET r == DspAlloc(h, tag) IN
         /\ r.ptr = x /\ r.heap \in HeapType /\ r.heap.pool = q
         /\ r.heap.owner = [h.owner EXCEPT ![x] = tag]
         /\ r.heap.wm = h.wm /\ r.heap.oom = h.oom
<1> DEFINE o == [h.owner EXCEPT ![x] = tag]
           k == [h EXCEPT !.pool = q, !.owner = o]
           s == PoolAlloc(h.pool, 1, 1)
           r == DspAlloc(h, tag)
<1>1. [h EXCEPT !.pool = q, !.owner[x] = tag] = k
  BY Zenon DEF HeapType
<1>2. o \in [HeapUnits -> Tags]
  BY DEF HeapType
<1> HIDE DEF o
<1>3. k.pool = q /\ k.owner = o /\ k.wm = h.wm /\ k.oom = h.oom /\ k \in HeapType
  BY <1>2, Zenon DEF HeapType, PoolRec
<1>4. s.pool = q /\ s.ptr = x /\ x # Null
  BY DEF HeapUnits, Null
<1>5. r = [ptr |-> s.ptr, heap |-> IF s.ptr = Null THEN [h EXCEPT !.oom = TRUE]
             ELSE [h EXCEPT !.pool = s.pool, !.owner[s.ptr] = tag]]
  BY DEF DspAlloc
<1> HIDE DEF s, k, r
<1>6. r.ptr = x /\ r.heap = k
  BY <1>1, <1>4, <1>5
<1> QED BY <1>3, <1>6, Zenon DEF o, r

\* A one-unit request takes the head of the free list, if there is one,
\* otherwise the unit after a new header at the bump pointer, if they fit.
LEMMA PoolAllocOne ==
  ASSUME NEW h \in HeapType, FreeOK(h)
  PROVE  LET p == h.pool IN
         PoolAlloc(p, 1, 1) =
           IF p.freeList # <<>>
           THEN [pool |-> Reuse(p, 1), ptr |-> p.freeList[1] + HeaderSize]
           ELSE IF p.bump + HeaderSize + 1 > PoolUnits
           THEN [pool |-> p, ptr |-> Null]
           ELSE [pool |-> Bump(p, 1, 1), ptr |-> p.bump + HeaderSize]
<1> DEFINE p == h.pool
<1> USE HeaderSizeAssumption, PoolUnitsAssumption
<1>1. /\ p.base = 0 /\ p.size = PoolUnits /\ p.bump \in Nat
      /\ p.freeList \in Seq(HeapUnits) /\ Len(p.freeList) \in Nat
  BY HeapParts
<1>2. \A i \in 1 .. Len(p.freeList) : p.freeList[i] \in Nat
  BY <1>1 DEF HeapUnits
<1>3. ASSUME NEW i \in 1 .. Len(p.freeList)
      PROVE  Fits(p, p.freeList[i], 1, 1)
  <2>1. p.hdr[p.freeList[i]].size = 1
    BY DEF FreeOK, Blocks
  <2>2. p.freeList[i] + HeaderSize \in Nat
    BY <1>2
  <2> HIDE DEF p
  <2> QED BY <2>1, <2>2, AlignOne DEF Fits, BlockSize
<1>4. FitIndices(p, 1, 1) = 1 .. Len(p.freeList)
  BY <1>3 DEF FitIndices
<1>5. ~ (1 = 0 \/ 1 > p.size)
  BY <1>1
<1> HIDE DEF p
<1>6. CASE p.freeList # <<>>
  <2>1. Len(p.freeList) >= 1
    BY <1>1, <1>6
  <2>2. FirstFit(p, 1, 1) = 1
    <3> DEFINE n == Len(p.freeList)
               f == CHOOSE i \in 1 .. n : \A j \in 1 .. n : i <= j
    <3>1. 1 \in 1 .. n /\ \A j \in 1 .. n : 1 <= j
      BY <1>1, <2>1
    <3>2. FirstFit(p, 1, 1) = f
      BY <1>4, Zenon DEF FirstFit
    <3> HIDE DEF n
    <3>3. f \in 1 .. n /\ \A j \in 1 .. n : f <= j
      BY <3>1
    <3>4. n \in Nat
      BY <1>1 DEF n
    <3> HIDE DEF f
    <3> QED BY <3>1, <3>2, <3>3, <3>4
  <2>3. ReusePtr(p, 1, 1) = p.freeList[1] + HeaderSize
    BY <1>1, <1>2, <2>1, AlignOne DEF ReusePtr
  <2>4. FitIndices(p, 1, 1) # {}
    <3>1. 1 \in 1 .. Len(p.freeList)
      BY <1>1, <2>1
    <3> QED BY <1>4, <3>1, Zenon
  <2> QED BY <1>5, <1>6, <2>2, <2>3, <2>4 DEF PoolAlloc, p
<1>7. CASE p.freeList = <<>>
  <2>1. FitIndices(p, 1, 1) = {}
    BY <1>4, <1>7
  <2>2. /\ BumpPtr(p, 1) = p.bump + HeaderSize
        /\ BumpEnd(p, 1, 1) = p.bump + HeaderSize + 1
    BY <1>1, AlignOne DEF BumpPtr, BumpEnd
  <2> QED BY <1>1, <1>5, <1>7, <2>1, <2>2 DEF PoolAlloc, p
<1> QED BY <1>6, <1>7

\* The head of a list without repetitions, and what is left of it.
LEMMA RemoveFirst ==
  ASSUME NEW S, NEW s \in Seq(S), s # <<>>, Distinct(s)
  PROVE  LET r == RemoveNth(s, 1) IN
         /\ r \in Seq(S) /\ Len(r) = Len(s) - 1 /\ Distinct(r)
         /\ Blocks(r) = Blocks(s) \ {s[1]} /\ s[1] \in Blocks(s)
<1> DEFINE r == RemoveNth(s, 1)
<1>1. Len(s) \in Nat /\ Len(s) >= 1
  OBVIOUS
<1>2. r \in [1 .. Len(s) - 1 -> S] /\ \A j \in 1 .. Len(s) - 1 : r[j] = s[j + 1]
  BY <1>1 DEF RemoveNth
<1>3. r \in Seq(S) /\ Len(r) = Len(s) - 1
  BY <1>1, <1>2
<1> HIDE DEF r
<1>4. Distinct(r)
  BY <1>1, <1>2, <1>3 DEF Distinct
<1>5. s[1] \in Blocks(s)
  BY <1>1 DEF Blocks
<1>6. ASSUME NEW x \in Blocks(r)
      PROVE  x \in Blocks(s) \ {s[1]}
  <2>1. PICK j \in 1 .. Len(r) : x = r[j]
    BY DEF Blocks
  <2>2. j + 1 \in 1 .. Len(s) /\ j + 1 # 1 /\ x = s[j + 1] /\ 1 \in 1 .. Len(s)
    BY <1>1, <1>2, <1>3, <2>1
  <2> QED BY <2>2 DEF Blocks, Distinct
<1>7. ASSUME NEW x \in Blocks(s), x # s[1]
      PROVE  x \in Blocks(r)
  <2>1. PICK j \in 1 .. Len(s) : x = s[j]
    BY DEF Blocks
  <2>2. j - 1 \in 1 .. Len(r) /\ r[j - 1] = x
    BY <1>1, <1>2, <1>3, <1>7, <2>1
  <2> QED BY <2>2 DEF Blocks
<1> QED BY <1>3, <1>4, <1>5, <1>6, <1>7 DEF r

\* A list with one more element in front.
LEMMA PushBlocks ==
  ASSUME NEW S, NEW s \in Seq(S), NEW a \in S
  PROVE  LET r == <<a>> \o s IN
         /\ r \in Seq(S) /\ Blocks(r) = Blocks(s) \cup {a}
         /\ Distinct(s) /\ a \notin Blocks(s) => Distinct(r)
<1> DEFINE r == <<a>> \o s
<1>1. r \in Seq(S) /\ Len(r) = Len(s) + 1 /\ Len(s) \in Nat
  OBVIOUS
<1>2. r[1] = a /\ \A i \in 1 .. Len(s) : r[i + 1] = s[i]
  OBVIOUS
<1>3. \A i \in 1 .. Len(r) : i # 1 => i - 1 \in 1 .. Len(s) /\ r[i] = s[i - 1]
  BY <1>1, <1>2
<1> HIDE DEF r
<1>4. Blocks(r) = Blocks(s) \cup {a}
  <2>1. ASSUME NEW b \in Blocks(r)
        PROVE  b \in Blocks(s) \cup {a}
    BY <1>1, <1>2, <1>3 DEF Blocks
  <2>2. a \in Blocks(r)
    BY <1>1, <1>2 DEF Blocks
  <2>3. ASSUME NEW b \in Blocks(s)
        PROVE  b \in Blocks(r)
    <3>1. PICK i \in 1 .. Len(s) : b = s[i]
      BY DEF Blocks
    <3>2. i + 1 \in 1 .. Len(r) /\ r[i + 1] = b
      BY <1>1, <1>2, <3>1
    <3> QED BY <3>2 DEF Blocks
  <2> QED BY <2>1, <2>2, <2>3
<1>5. ASSUME Distinct(s), a \notin Blocks(s)
      PROVE  Distinct(r)
  <2> SUFFICES ASSUME NEW i \in 1 .. Len(r), NEW j \in 1 .. Len(r), i # j
               PROVE  r[i] # r[j]
    BY DEF Distinct
  <2>1. CASE i # 1 /\ j # 1
    <3>1. /\ i - 1 \in 1 .. Len(s) /\ r[i] = s[i - 1]
          /\ j - 1 \in 1 .. Len(s) /\ r[j] = s[j - 1]
      BY <1>3, <2>1
    <3>2. i - 1 # j - 1
      BY <1>1
    <3> QED BY <1>5, <3>1, <3>2 DEF Distinct
  <2>2. CASE i = 1
    BY <1>2, <1>3, <1>5, <2>2 DEF Blocks
  <2>3. CASE j = 1
    BY <1>2, <1>3, <1>5, <2>3 DEF Blocks
  <2> QED BY <2>1, <2>2, <2>3
<1> QED BY <1>1, <1>4, <1>5 DEF r

\* What one unit taken from a heap leaves.
AllocFacts(h, A, C, w, tag, r) ==
  /\ r.ptr \in Ptrs \ A /\ r.ptr >= w
  /\ HeapOK(r.heap, A \cup {r.ptr}, C \cup {r.ptr}, w)
  /\ r.heap.owner = [h.owner EXCEPT ![r.ptr] = tag]
  /\ r.heap.wm = h.wm /\ r.heap.oom = h.oom
  /\ r.heap.pool.bump <= h.pool.bump + HeaderSize + 1
  /\ h.pool.freeList = <<>> => r.heap.pool.freeList = <<>>

\* The blocks of a heap are finitely many.
LEMMA PtrsFinite ==
  ASSUME CountLaws, NEW C, C \subseteq Ptrs
  PROVE  IsFiniteSet(C) /\ Cardinality(C) \in Nat
<1>1. IsFiniteSet(Ptrs)
  BY HeaderSizeAssumption, PoolUnitsAssumption, CountInterval DEF Ptrs
<1> QED BY <1>1, CountSubset, CountType

\* The pool after the head of the free list was taken.
LEMMA ReuseEffect ==
  ASSUME NEW p \in PoolRec, p.freeList # <<>>, Distinct(p.freeList),
         p.hdr[p.freeList[1]].size = 1
  PROVE  LET q == Reuse(p, 1) IN
         /\ q \in PoolRec /\ q.bump = p.bump
         /\ q.freeList = RemoveNth(p.freeList, 1)
         /\ q.hdr = [p.hdr EXCEPT ![p.freeList[1]] = [magic |-> TRUE, size |-> 1]]
         /\ q.numAllocs = p.numAllocs + 1 /\ q.numFrees = p.numFrees
<1> DEFINE a == p.freeList[1]
           f == RemoveNth(p.freeList, 1)
           m == [p.hdr EXCEPT ![a] = [magic |-> TRUE, size |-> 1]]
           c == p.allocated + (1 + HeaderSize)
           n == p.numAllocs + 1
           q == [p EXCEPT !.freeList = f, !.hdr = m, !.allocated = c, !.numAllocs = n]
<1>1. /\ p.freeList \in Seq(HeapUnits) /\ p.hdr \in [HeapUnits -> HeaderWord]
      /\ p.allocated \in Nat /\ p.numAllocs \in Nat
  BY DEF PoolRec
<1>2. Reuse(p, 1) = q
  BY Zenon DEF Reuse, SetMagic, BlockSize
<1>3. f \in Seq(HeapUnits)
  BY <1>1, RemoveFirst
<1>4. m \in [HeapUnits -> HeaderWord]
  BY <1>1 DEF HeaderWord
<1>5. c \in Nat /\ n \in Nat
  BY <1>1, HeaderSizeAssumption
<1> HIDE DEF f, m, c, n
<1>6. /\ q \in PoolRec /\ q.bump = p.bump /\ q.freeList = f /\ q.hdr = m
      /\ q.numAllocs = n /\ q.numFrees = p.numFrees
  BY <1>3, <1>4, <1>5, Zenon DEF PoolRec
<1> HIDE DEF q
<1> QED BY <1>2, <1>6, Zenon DEF f, m, n

\* The pool after one unit and its header were taken at the bump pointer.
LEMMA BumpEffect ==
  ASSUME NEW p \in PoolRec, p.bump + HeaderSize + 1 <= PoolUnits
  PROVE  LET q == Bump(p, 1, 1) IN
         /\ q \in PoolRec /\ q.bump = p.bump + HeaderSize + 1
         /\ q.freeList = p.freeList
         /\ q.hdr = PutHeader(p.hdr, p.bump, 1)
         /\ q.numAllocs = p.numAllocs + 1 /\ q.numFrees = p.numFrees
<1> DEFINE e == p.bump + HeaderSize + 1
           m == PutHeader(p.hdr, p.bump, 1)
           c == p.allocated + (e - p.bump)
           n == p.numAllocs + 1
           q == [p EXCEPT !.hdr = m, !.bump = e, !.allocated = c, !.numAllocs = n]
<1>1. /\ p.bump \in 0 .. PoolUnits /\ p.hdr \in [HeapUnits -> HeaderWord]
      /\ p.allocated \in Nat /\ p.numAllocs \in Nat
  BY DEF PoolRec
<1>2. /\ BumpPtr(p, 1) - HeaderSize = p.bump /\ AlignUp(1, 1) = 1
      /\ BumpEnd(p, 1, 1) = e
  BY <1>1, AlignOne, HeaderSizeAssumption DEF BumpPtr, BumpEnd
<1>3. Bump(p, 1, 1) = q
  <2> HIDE DEF e
  <2> QED BY <1>2, Zenon DEF Bump
<1>4. m \in [HeapUnits -> HeaderWord]
  BY <1>1 DEF PutHeader, HeaderWord, Junk
<1>5. c \in Nat /\ n \in Nat /\ e \in 0 .. PoolUnits
  BY <1>1, HeaderSizeAssumption, PoolUnitsAssumption
<1> HIDE DEF e, m, c, n
<1>6. /\ q \in PoolRec /\ q.bump = e /\ q.freeList = p.freeList /\ q.hdr = m
      /\ q.numAllocs = n /\ q.numFrees = p.numFrees
  BY <1>4, <1>5, Zenon DEF PoolRec
<1> HIDE DEF q
<1> QED BY <1>3, <1>6, Zenon DEF e, m, n

\* The pool after the block with header a was pushed on the free list.
LEMMA PushFreeEffect ==
  ASSUME NEW p \in PoolRec, NEW a \in HeapUnits
  PROVE  LET q == PushFree(p, a) IN
         /\ q \in PoolRec /\ q.bump = p.bump
         /\ q.freeList = <<a>> \o p.freeList
         /\ q.hdr = [p.hdr EXCEPT ![a] = [magic |-> FALSE, size |-> p.hdr[a].size]]
         /\ q.numAllocs = p.numAllocs /\ q.numFrees = p.numFrees + 1
<1> DEFINE f == <<a>> \o p.freeList
           m == [p.hdr EXCEPT ![a] = [magic |-> FALSE, size |-> p.hdr[a].size]]
           c == IF p.allocated >= BlockSize(p, a) THEN p.allocated - BlockSize(p, a)
                ELSE p.allocated
           n == p.numFrees + 1
           q == [p EXCEPT !.hdr = m, !.freeList = f, !.allocated = c, !.numFrees = n]
<1>1. /\ p.freeList \in Seq(HeapUnits) /\ p.hdr \in [HeapUnits -> HeaderWord]
      /\ p.allocated \in Nat /\ p.numFrees \in Nat
  BY DEF PoolRec
<1>2. PushFree(p, a) = q
  BY Zenon DEF PushFree, SetMagic
<1>3. f \in Seq(HeapUnits)
  BY <1>1
<1>4. m \in [HeapUnits -> HeaderWord]
  BY <1>1 DEF HeaderWord
<1>5. c \in Nat /\ n \in Nat
  BY <1>1, HeaderSizeAssumption DEF BlockSize, HeaderWord
<1> HIDE DEF f, m, c, n
<1>6. /\ q \in PoolRec /\ q.bump = p.bump /\ q.freeList = f /\ q.hdr = m
      /\ q.numAllocs = p.numAllocs /\ q.numFrees = n
  BY <1>3, <1>4, <1>5, Zenon DEF PoolRec
<1> HIDE DEF q
<1> QED BY <1>2, <1>6, Zenon DEF f, m, n

\* The pool after it was reclaimed as a whole.
LEMMA ResetEffect ==
  ASSUME NEW p \in PoolRec, NEW b \in 0 .. PoolUnits
  PROVE  LET q == [p EXCEPT !.freeList = <<>>, !.bump = b, !.allocated = 0] IN
         /\ q \in PoolRec /\ q.bump = b /\ q.freeList = <<>> /\ q.hdr = p.hdr
         /\ q.numAllocs = p.numAllocs /\ q.numFrees = p.numFrees
<1> DEFINE f == <<>>
<1>1. f \in Seq(HeapUnits) /\ 0 \in Nat
  OBVIOUS
<1> HIDE DEF f
<1>2. LET q == [p EXCEPT !.freeList = f, !.bump = b, !.allocated = 0] IN
      /\ q \in PoolRec /\ q.bump = b /\ q.freeList = f /\ q.hdr = p.hdr
      /\ q.numAllocs = p.numAllocs /\ q.numFrees = p.numFrees
  BY <1>1, Zenon DEF PoolRec
<1> QED BY <1>2, Zenon DEF f

\* The parts of HeapOK that the proofs use.
LEMMA HeapOKParts ==
  ASSUME CountLaws, NEW h, NEW A, NEW C, NEW w, HeapOK(h, A, C, w)
  PROVE  /\ h \in HeapType /\ h.pool \in PoolRec /\ w \in Nat
         /\ A \subseteq Ptrs /\ C \subseteq A
         /\ h.pool.bump \in 0 .. PoolUnits /\ h.pool.freeList \in Seq(HeapUnits)
         /\ Len(h.pool.freeList) \in Nat
         /\ h.pool.hdr \in [HeapUnits -> HeaderWord]
         /\ h.pool.numAllocs \in Nat /\ h.pool.numFrees \in Nat
         /\ h.owner \in [HeapUnits -> Tags]
         /\ IsFiniteSet(C) /\ Cardinality(C) \in Nat
         /\ h.pool.numAllocs = h.pool.numFrees + Cardinality(C)
         /\ Distinct(h.pool.freeList) /\ Blocks(h.pool.freeList) \subseteq HeapUnits
         /\ \A a \in Blocks(h.pool.freeList) : /\ h.pool.hdr[a].size = 1
                                               /\ a + HeaderSize < h.pool.bump
                                               /\ a + HeaderSize >= w
         /\ w <= h.pool.bump
<1>1. h \in HeapType /\ A \subseteq Ptrs /\ C \subseteq A
  BY DEF HeapOK
<1>2. IsFiniteSet(C) /\ Cardinality(C) \in Nat
  BY <1>1, PtrsFinite
<1>3. /\ h.pool.bump \in 0 .. PoolUnits /\ h.pool.freeList \in Seq(HeapUnits)
      /\ Len(h.pool.freeList) \in Nat
      /\ h.pool.hdr \in [HeapUnits -> HeaderWord]
      /\ h.pool.numAllocs \in Nat /\ h.pool.numFrees \in Nat
      /\ h.owner \in [HeapUnits -> Tags]
  BY <1>1, HeapParts
<1>4. h.pool \in PoolRec
  BY <1>1, HeapUpdates, Zenon
<1>5. Blocks(h.pool.freeList) \subseteq HeapUnits
  BY <1>3 DEF Blocks
<1>6. \A a \in Blocks(h.pool.freeList) : a + HeaderSize >= w
  BY DEF HeapOK, Floor, Blocks
<1>7. /\ w \in Nat /\ h.pool.numAllocs = h.pool.numFrees + Cardinality(C)
      /\ Distinct(h.pool.freeList) /\ w <= h.pool.bump
      /\ \A a \in Blocks(h.pool.freeList) : /\ h.pool.hdr[a].size = 1
                                            /\ a + HeaderSize < h.pool.bump
  BY DEF HeapOK, FreeOK, Floor
<1> QED BY <1>1, <1>2, <1>3, <1>4, <1>5, <1>6, <1>7, Zenon

\* HeapOK from the properties of the pool's free list as a set.
LEMMA HeapOKFrom ==
  ASSUME NEW h \in HeapType, NEW A, NEW C, NEW w \in Nat,
         A \subseteq Ptrs, C \subseteq A,
         h.pool.numAllocs = h.pool.numFrees + Cardinality(C),
         LiveOK(h, A), Distinct(h.pool.freeList), w <= h.pool.bump,
         \A a \in Blocks(h.pool.freeList) : /\ h.pool.hdr[a].size = 1
                                            /\ a + HeaderSize < h.pool.bump
                                            /\ a + HeaderSize >= w
  PROVE  HeapOK(h, A, C, w)
<1>1. FreeOK(h)
  BY DEF FreeOK
<1>2. Floor(h, w)
  BY DEF Floor, Blocks
<1> QED BY <1>1, <1>2 DEF HeapOK

\* An allocation that takes the head of the free list.
LEMMA AllocReuses ==
  ASSUME CountLaws, NEW h, NEW A, NEW C, NEW w, HeapOK(h, A, C, w),
         NEW tag \in Tags, h.pool.freeList # <<>>
  PROVE  AllocFacts(h, A, C, w, tag, DspAlloc(h, tag))
<1> DEFINE p == h.pool
           a == p.freeList[1]
           x == a + HeaderSize
           q == Reuse(p, 1)
           r == DspAlloc(h, tag)
<1> USE HeaderSizeAssumption, PoolUnitsAssumption
<1>1. /\ h \in HeapType /\ p \in PoolRec /\ w \in Nat
      /\ A \subseteq Ptrs /\ C \subseteq A
      /\ p.bump \in 0 .. PoolUnits /\ p.freeList \in Seq(HeapUnits)
      /\ p.hdr \in [HeapUnits -> HeaderWord]
      /\ p.numAllocs \in Nat /\ p.numFrees \in Nat
      /\ h.owner \in [HeapUnits -> Tags]
      /\ IsFiniteSet(C) /\ Cardinality(C) \in Nat
      /\ p.numAllocs = p.numFrees + Cardinality(C)
      /\ Distinct(p.freeList) /\ Blocks(p.freeList) \subseteq HeapUnits
      /\ \A b \in Blocks(p.freeList) : /\ p.hdr[b].size = 1 /\ b + HeaderSize < p.bump
                                       /\ b + HeaderSize >= w
      /\ w <= p.bump
  BY HeapOKParts
<1>2. /\ \A y \in A : /\ p.hdr[y - HeaderSize] = [magic |-> TRUE, size |-> 1]
                     /\ y < p.bump /\ y - HeaderSize \notin Blocks(p.freeList)
      /\ FreeOK(h) /\ p.freeList # <<>> /\ p = h.pool
  BY DEF HeapOK, LiveOK
<1> HIDE DEF p
<1>3. /\ a \in Blocks(p.freeList) /\ Distinct(RemoveNth(p.freeList, 1))
      /\ Blocks(RemoveNth(p.freeList, 1)) = Blocks(p.freeList) \ {a}
  BY <1>2, <1>1, RemoveFirst
<1>4. a \in HeapUnits /\ p.hdr[a].size = 1 /\ x < p.bump /\ x >= w
  BY <1>1, <1>3
<1> HIDE DEF a
<1>5. x \in Ptrs /\ x \in HeapUnits /\ x - HeaderSize = a
  <2>1. a \in Nat /\ p.bump \in Nat /\ p.bump <= PoolUnits /\ PoolUnits \in Nat
    BY <1>1, <1>4 DEF HeapUnits
  <2> QED BY <1>4, <2>1 DEF Ptrs, HeapUnits
<1>6. x \notin A
  BY <1>2, <1>3, <1>5
<1>7. /\ q \in PoolRec /\ q.bump = p.bump /\ q.freeList = RemoveNth(p.freeList, 1)
      /\ q.hdr = [p.hdr EXCEPT ![a] = [magic |-> TRUE, size |-> 1]]
      /\ q.numAllocs = p.numAllocs + 1 /\ q.numFrees = p.numFrees
  BY <1>2, <1>1, <1>4, ReuseEffect, Zenon DEF a
<1>8. /\ r.ptr = x /\ r.heap.pool = q /\ r.heap.owner = [h.owner EXCEPT ![x] = tag]
      /\ r.heap.wm = h.wm /\ r.heap.oom = h.oom /\ r.heap \in HeapType
  <2>2. PoolAlloc(p, 1, 1) = [pool |-> q, ptr |-> x]
    BY <1>2, <1>1, PoolAllocOne, Zenon DEF a
  <2> HIDE DEF x, q
  <2> QED BY <1>2, <1>1, <1>5, <1>7, <2>2, DspAllocGives
<1> HIDE DEF q, r
<1>9. /\ q.hdr[a] = [magic |-> TRUE, size |-> 1]
      /\ \A b \in HeapUnits : b # a => q.hdr[b] = p.hdr[b]
  BY <1>1, <1>4, <1>7
<1>10. LiveOK(r.heap, A \cup {x})
  <2> SUFFICES ASSUME NEW y \in A \cup {x}
               PROVE  /\ q.hdr[y - HeaderSize] = [magic |-> TRUE, size |-> 1]
                      /\ y < q.bump
                      /\ y - HeaderSize \notin Blocks(q.freeList)
    BY <1>8 DEF LiveOK
  <2>1. CASE y = x
    BY <2>1, <1>3, <1>4, <1>5, <1>7, <1>9
  <2>2. CASE y \in A /\ y # x
    <3>1. y - HeaderSize \in HeapUnits /\ y - HeaderSize # a
      <4>1. y \in Ptrs
        BY <2>2, <1>1
      <4> HIDE DEF x
      <4>2. x \in Ptrs
        BY <1>5
      <4> QED BY <2>2, <1>5, <4>1, <4>2 DEF Ptrs, HeapUnits
    <3>2. /\ p.hdr[y - HeaderSize] = [magic |-> TRUE, size |-> 1] /\ y < p.bump
          /\ y - HeaderSize \notin Blocks(p.freeList)
      BY <1>2, <2>2
    <3> QED BY <1>3, <1>7, <1>9, <3>1, <3>2
  <2> QED BY <2>1, <2>2
<1>11. \A b \in Blocks(q.freeList) : /\ q.hdr[b].size = 1 /\ b + HeaderSize < q.bump
                                     /\ b + HeaderSize >= w
  <2> TAKE b \in Blocks(q.freeList)
  <2>1. b \in Blocks(p.freeList) /\ b # a
    BY <1>3, <1>7
  <2> QED BY <1>1, <1>7, <1>9, <2>1
<1>12. q.numAllocs = q.numFrees + Cardinality(C \cup {x})
  <2>1. Cardinality(C \cup {x}) = Cardinality(C) + 1
    <3>1. x \notin C
      BY <1>1, <1>6
    <3> QED BY <1>1, <3>1, CountAdd, Zenon
  <2>2. q.numAllocs = p.numAllocs + 1 /\ q.numFrees = p.numFrees
    BY <1>7
  <2>3. /\ p.numAllocs = p.numFrees + Cardinality(C)
        /\ p.numFrees \in Nat /\ Cardinality(C) \in Nat
    BY <1>1
  <2> HIDE DEF x
  <2> QED BY <2>1, <2>2, <2>3
<1> HIDE DEF x
<1>13. HeapOK(r.heap, A \cup {x}, C \cup {x}, w)
  <2>1. A \cup {x} \subseteq Ptrs /\ C \cup {x} \subseteq A \cup {x}
    BY <1>1, <1>5
  <2>2. Distinct(q.freeList)
    BY <1>3, <1>7
  <2> QED BY <1>1, <1>7, <1>8, <1>10, <1>11, <1>12, <2>1, <2>2, HeapOKFrom, Zenon
<1>14. r.heap.pool.bump <= h.pool.bump + HeaderSize + 1
  BY <1>2, <1>1, <1>7, <1>8
<1>15. x >= w
  BY <1>4 DEF x
<1> QED BY <1>2, <1>5, <1>6, <1>8, <1>13, <1>14, <1>15 DEF AllocFacts, r

\* An allocation at the bump pointer.
LEMMA AllocBumps ==
  ASSUME CountLaws, NEW h, NEW A, NEW C, NEW w, HeapOK(h, A, C, w),
         NEW tag \in Tags, h.pool.freeList = <<>>,
         h.pool.bump + HeaderSize + 1 <= PoolUnits
  PROVE  AllocFacts(h, A, C, w, tag, DspAlloc(h, tag))
<1> DEFINE p == h.pool
           x == p.bump + HeaderSize
           q == Bump(p, 1, 1)
           r == DspAlloc(h, tag)
<1> USE HeaderSizeAssumption, PoolUnitsAssumption
<1>1. /\ h \in HeapType /\ p \in PoolRec /\ w \in Nat
      /\ A \subseteq Ptrs /\ C \subseteq A
      /\ p.bump \in 0 .. PoolUnits
      /\ p.hdr \in [HeapUnits -> HeaderWord]
      /\ p.numAllocs \in Nat /\ p.numFrees \in Nat
      /\ IsFiniteSet(C) /\ Cardinality(C) \in Nat
      /\ p.numAllocs = p.numFrees + Cardinality(C)
      /\ w <= p.bump
  BY HeapOKParts
<1>2. /\ \A y \in A : /\ p.hdr[y - HeaderSize] = [magic |-> TRUE, size |-> 1]
                     /\ y < p.bump
      /\ FreeOK(h) /\ p.freeList = <<>> /\ p = h.pool
      /\ p.bump + HeaderSize + 1 <= PoolUnits
  BY DEF HeapOK, LiveOK
<1> HIDE DEF p
<1>3. /\ p.bump \in HeapUnits /\ x \in Ptrs /\ x \in HeapUnits
      /\ x - HeaderSize = p.bump /\ x >= w /\ x \notin A
      /\ p.bump \in Nat
  <2> DEFINE b == p.bump
  <2>1. b \in Nat /\ w \in Nat /\ w <= b
    BY <1>1
  <2>2. b + HeaderSize + 1 <= PoolUnits /\ \A y \in A : y < b
    BY <1>2
  <2> HIDE DEF b
  <2>3. b + HeaderSize \notin A
    BY <2>1, <2>2
  <2>4. /\ b \in HeapUnits /\ b + HeaderSize \in Ptrs /\ b + HeaderSize \in HeapUnits
        /\ b + HeaderSize - HeaderSize = b /\ b + HeaderSize >= w
    BY <2>1, <2>2 DEF Ptrs, HeapUnits
  <2> QED BY <2>1, <2>3, <2>4 DEF b
<1>4. /\ q \in PoolRec /\ q.bump = p.bump + HeaderSize + 1 /\ q.freeList = <<>>
      /\ q.hdr = PutHeader(p.hdr, p.bump, 1)
      /\ q.numAllocs = p.numAllocs + 1 /\ q.numFrees = p.numFrees
  BY <1>1, <1>2, BumpEffect, Zenon
<1>5. /\ r.ptr = x /\ r.heap.pool = q /\ r.heap.owner = [h.owner EXCEPT ![x] = tag]
      /\ r.heap.wm = h.wm /\ r.heap.oom = h.oom /\ r.heap \in HeapType
  <2>1. PoolAlloc(p, 1, 1) = [pool |-> q, ptr |-> x]
    <3> HIDE DEF q
    <3>1. ~ (p.bump + HeaderSize + 1 > PoolUnits)
      BY <1>2, <1>3
    <3> QED BY <1>1, <1>2, <3>1, PoolAllocOne, Zenon DEF q
  <2> HIDE DEF x, q
  <2>2. h \in HeapType /\ q \in PoolRec /\ x \in HeapUnits /\ p = h.pool
    BY <1>1, <1>2, <1>3, <1>4
  <2> QED BY <2>1, <2>2, DspAllocGives
<1> HIDE DEF q, r
<1>6. /\ q.hdr[p.bump] = [magic |-> TRUE, size |-> 1]
      /\ \A b \in HeapUnits : b < p.bump => q.hdr[b] = p.hdr[b]
  <2> DEFINE b == p.bump
             d == p.hdr
  <2>1. b \in Nat /\ b \in HeapUnits /\ DOMAIN d = HeapUnits
    BY <1>1, <1>3
  <2>2. q.hdr = [a \in HeapUnits |-> IF a = b THEN [magic |-> TRUE, size |-> 1]
                                      ELSE IF a \in b .. b + HeaderSize - 1 THEN Junk
                                      ELSE d[a]]
    BY <1>4, <2>1 DEF PutHeader
  <2> HIDE DEF b, d
  <2>3. q.hdr[b] = [magic |-> TRUE, size |-> 1]
    BY <2>1, <2>2
  <2>4. ASSUME NEW a \in HeapUnits, a < b
        PROVE  q.hdr[a] = d[a]
    <3>1. a # b /\ a \notin b .. b + HeaderSize - 1
      BY <2>1, <2>4 DEF HeapUnits
    <3> QED BY <2>2, <3>1
  <2> QED BY <2>3, <2>4 DEF b, d
<1>7. LiveOK(r.heap, A \cup {x})
  <2> SUFFICES ASSUME NEW y \in A \cup {x}
               PROVE  /\ q.hdr[y - HeaderSize] = [magic |-> TRUE, size |-> 1]
                      /\ y < q.bump
                      /\ y - HeaderSize \notin Blocks(q.freeList)
    BY <1>5 DEF LiveOK
  <2>1. Blocks(q.freeList) = {}
    BY <1>4 DEF Blocks
  <2>2. CASE y = x
    BY <2>1, <2>2, <1>3, <1>4, <1>6
  <2>3. CASE y \in A
    <3>1. y \in Ptrs /\ y < p.bump
      BY <2>3, <1>1, <1>2
    <3>2. y - HeaderSize \in HeapUnits /\ y - HeaderSize < p.bump /\ y < q.bump
      <4> DEFINE b == p.bump
      <4>1. b \in Nat /\ q.bump = b + HeaderSize + 1 /\ y < b /\ y \in Ptrs
        BY <1>3, <1>4, <3>1
      <4> HIDE DEF b
      <4>2. /\ y - HeaderSize \in HeapUnits /\ y - HeaderSize < b
            /\ y < b + HeaderSize + 1
        BY <4>1 DEF Ptrs, HeapUnits
      <4> QED BY <4>1, <4>2 DEF b
    <3> QED BY <1>2, <1>6, <2>1, <2>3, <3>2
  <2> QED BY <2>2, <2>3
<1>8. q.numAllocs = q.numFrees + Cardinality(C \cup {x})
  <2>1. Cardinality(C \cup {x}) = Cardinality(C) + 1
    <3>1. x \notin C
      BY <1>1, <1>3
    <3> QED BY <1>1, <3>1, CountAdd, Zenon
  <2>2. q.numAllocs = p.numAllocs + 1 /\ q.numFrees = p.numFrees
    BY <1>4
  <2>3. /\ p.numAllocs = p.numFrees + Cardinality(C)
        /\ p.numFrees \in Nat /\ Cardinality(C) \in Nat
    BY <1>1
  <2> HIDE DEF x
  <2> QED BY <2>1, <2>2, <2>3
<1>9. w <= q.bump
  BY <1>1, <1>3, <1>4
<1>10. x >= w
  BY <1>3
<1> HIDE DEF x
<1>11. HeapOK(r.heap, A \cup {x}, C \cup {x}, w)
  <2>1. A \cup {x} \subseteq Ptrs /\ C \cup {x} \subseteq A \cup {x}
    BY <1>1, <1>3
  <2>2. Distinct(q.freeList) /\ Blocks(q.freeList) = {}
    BY <1>4 DEF Distinct, Blocks
  <2> QED BY <1>1, <1>5, <1>7, <1>8, <1>9, <2>1, <2>2, HeapOKFrom
<1>12. r.heap.pool.bump <= h.pool.bump + HeaderSize + 1
  BY <1>2, <1>3, <1>4, <1>5
<1> QED BY <1>2, <1>3, <1>4, <1>5, <1>10, <1>11, <1>12 DEF AllocFacts, r

\* No unit was left: only the out-of-memory flag changes.
AllocFailed(h, r) ==
  /\ r.ptr = Null /\ r.heap = [h EXCEPT !.oom = TRUE]
  /\ h.pool.freeList = <<>> /\ h.pool.bump + HeaderSize + 1 > PoolUnits

\* One allocation from a good heap: it fails only when no block is free and the
\* bump pointer is at the end, otherwise it gives a block no one has.
LEMMA AllocOne ==
  ASSUME CountLaws, NEW h, NEW A, NEW C, NEW w, HeapOK(h, A, C, w), NEW tag \in Tags
  PROVE  \/ AllocFailed(h, DspAlloc(h, tag))
         \/ AllocFacts(h, A, C, w, tag, DspAlloc(h, tag))
<1>1. CASE h.pool.freeList # <<>>
  BY <1>1, AllocReuses
<1>2. CASE h.pool.freeList = <<>> /\ h.pool.bump + HeaderSize + 1 <= PoolUnits
  BY <1>2, AllocBumps
<1>3. CASE h.pool.freeList = <<>> /\ ~ (h.pool.bump + HeaderSize + 1 <= PoolUnits)
  <2>1. h \in HeapType /\ FreeOK(h) /\ h.pool.bump \in Nat
    <3>1. FreeOK(h)
      BY DEF HeapOK
    <3>2. h \in HeapType /\ h.pool.bump \in 0 .. PoolUnits
      BY HeapOKParts
    <3> QED BY <3>1, <3>2
  <2>2. h.pool.bump + HeaderSize + 1 > PoolUnits
    BY <1>3, <2>1, HeaderSizeAssumption, PoolUnitsAssumption
  <2>3. PoolAlloc(h.pool, 1, 1) = [pool |-> h.pool, ptr |-> Null]
    BY <1>3, <2>1, <2>2, PoolAllocOne, Zenon
  <2>4. DspAlloc(h, tag) = [ptr |-> Null, heap |-> [h EXCEPT !.oom = TRUE]]
    <3> DEFINE s == PoolAlloc(h.pool, 1, 1)
    <3>1. s.ptr = Null
      BY <2>3
    <3>2. DspAlloc(h, tag) =
            [ptr |-> s.ptr, heap |-> IF s.ptr = Null THEN [h EXCEPT !.oom = TRUE]
               ELSE [h EXCEPT !.pool = s.pool, !.owner[s.ptr] = tag]]
      BY DEF DspAlloc
    <3> HIDE DEF s
    <3> QED BY <3>1, <3>2
  <2> QED BY <1>3, <2>2, <2>4 DEF AllocFailed
<1> QED BY <1>1, <1>2, <1>3

\* What a free does to a heap: nothing when the word before the block is not the
\* magic number, otherwise the block is pushed and the pool may be reclaimed.
LEMMA DspFreeIs ==
  ASSUME NEW h \in HeapType, NEW x \in Ptrs
  PROVE  LET a == x - HeaderSize
             p == h.pool
         IN  /\ a \in HeapUnits /\ x \in HeapUnits
             /\ DspFree(h, x) = [h EXCEPT !.pool = IF ~ p.hdr[a].magic THEN p
                                                   ELSE AutoReset(PushFree(p, a))]
<1> USE HeaderSizeAssumption, PoolUnitsAssumption
<1>1. x - HeaderSize \in HeapUnits /\ x \in HeapUnits /\ x # Null
  BY DEF Ptrs, HeapUnits, Null
<1>2. h.pool.base = 0 /\ h.pool.size = PoolUnits
  BY HeapParts
<1>3. PoolContains(h.pool, x)
  BY <1>1, <1>2 DEF PoolContains, HeapUnits
<1>4. DspFree(h, x) = [h EXCEPT !.pool = PoolFree(h.pool, x)]
  BY <1>3, Zenon DEF DspFree
<1>5. PoolFree(h.pool, x) = IF ~ h.pool.hdr[x - HeaderSize].magic THEN h.pool
                            ELSE AutoReset(PushFree(h.pool, x - HeaderSize))
  BY <1>1, Zenon DEF PoolFree
<1> QED BY <1>1, <1>4, <1>5, Zenon

\* The two outcomes of AutoReset.
LEMMA AutoResetEffect ==
  ASSUME NEW p \in PoolRec
  PROVE  LET q == AutoReset(p) IN
         /\ q \in PoolRec /\ q.hdr = p.hdr
         /\ q.numAllocs = p.numAllocs /\ q.numFrees = p.numFrees
         /\ IF p.numFrees = p.numAllocs THEN q.bump = 0 /\ q.freeList = <<>> ELSE q = p
<1>1. p.base = 0 /\ 0 \in 0 .. PoolUnits
  BY PoolUnitsAssumption DEF PoolRec
<1>2. CASE p.numFrees = p.numAllocs
  <2> DEFINE q == [p EXCEPT !.freeList = <<>>, !.bump = 0, !.allocated = 0]
  <2>1. AutoReset(p) = q
    BY <1>1, <1>2, ZenonT(30) DEF AutoReset
  <2>2. /\ q \in PoolRec /\ q.bump = 0 /\ q.freeList = <<>> /\ q.hdr = p.hdr
        /\ q.numAllocs = p.numAllocs /\ q.numFrees = p.numFrees
    BY <1>1, ResetEffect, ZenonT(60)
  <2> HIDE DEF q
  <2> QED BY <1>2, <2>1, <2>2, Zenon
<1>3. CASE p.numFrees # p.numAllocs
  BY <1>3, Zenon DEF AutoReset
<1> QED BY <1>2, <1>3, Zenon

\* What any free keeps: types, owners, the watermark, other blocks' headers.
FreeFrame(h, k, S) ==
  /\ k \in HeapType /\ k.owner = h.owner /\ k.wm = h.wm /\ k.oom = h.oom
  /\ \A b \in HeapUnits : b + HeaderSize \notin S => k.pool.hdr[b] = h.pool.hdr[b]

\* One free changes the header of its block only.
LEMMA DspFreeFrame ==
  ASSUME NEW h \in HeapType, NEW x \in Ptrs
  PROVE  FreeFrame(h, DspFree(h, x), {x})
<1> DEFINE p == h.pool
           a == x - HeaderSize
           f == PushFree(p, a)
           q == IF ~ p.hdr[a].magic THEN p ELSE AutoReset(f)
<1>1. p \in PoolRec /\ p.hdr \in [HeapUnits -> HeaderWord]
  BY HeapUpdates, HeapParts, Zenon
<1>2. a \in HeapUnits /\ DspFree(h, x) = [h EXCEPT !.pool = q]
  BY DspFreeIs
<1> HIDE DEF p
<1>3. f \in PoolRec /\ f.hdr = [p.hdr EXCEPT ![a] = [magic |-> FALSE, size |-> p.hdr[a].size]]
  BY <1>1, <1>2, PushFreeEffect, Zenon
<1> HIDE DEF f
<1>4. AutoReset(f) \in PoolRec /\ AutoReset(f).hdr = f.hdr
  BY <1>3, AutoResetEffect, Zenon
<1>5. \A b \in HeapUnits : b # a => f.hdr[b] = p.hdr[b]
  BY <1>1, <1>3
<1>6. q \in PoolRec /\ \A b \in HeapUnits : b # a => q.hdr[b] = p.hdr[b]
  BY <1>1, <1>4, <1>5, Zenon
<1>7. \A b \in HeapUnits : b + HeaderSize \notin {x} => b # a
  BY HeaderSizeAssumption DEF HeapUnits, Ptrs
<1> HIDE DEF q, a
<1>8. /\ [h EXCEPT !.pool = q].pool = q /\ [h EXCEPT !.pool = q].owner = h.owner
      /\ [h EXCEPT !.pool = q].wm = h.wm /\ [h EXCEPT !.pool = q].oom = h.oom
      /\ [h EXCEPT !.pool = q] \in HeapType
  BY <1>6, HeapUpdates
<1> DEFINE k == [h EXCEPT !.pool = q]
<1> HIDE DEF k
<1>9. /\ k.pool = q /\ k.owner = h.owner /\ k.wm = h.wm /\ k.oom = h.oom
      /\ k \in HeapType /\ DspFree(h, x) = k
  BY <1>2, <1>8, Zenon DEF k
<1> QED BY <1>6, <1>7, <1>9, Zenon DEF FreeFrame, p

\* One block of C given back: the last one reclaims the pool, any other goes to
\* the free list.
LEMMA FreeOne ==
  ASSUME CountLaws, NEW h, NEW A, NEW C, NEW w, HeapOK(h, A, C, w), NEW x \in C, x >= w
  PROVE  LET k == DspFree(h, x) IN
         IF C \ {x} = {} THEN HeapOK(k, {}, {}, 0) /\ k.pool.bump = 0
         ELSE HeapOK(k, A \ {x}, C \ {x}, w)
<1> DEFINE p == h.pool
           a == x - HeaderSize
           f == PushFree(p, a)
           q == AutoReset(f)
           k == DspFree(h, x)
<1> USE HeaderSizeAssumption, PoolUnitsAssumption
<1>1. /\ h \in HeapType /\ p \in PoolRec /\ w \in Nat
      /\ A \subseteq Ptrs /\ C \subseteq A
      /\ p.bump \in 0 .. PoolUnits /\ p.freeList \in Seq(HeapUnits)
      /\ p.hdr \in [HeapUnits -> HeaderWord]
      /\ p.numAllocs \in Nat /\ p.numFrees \in Nat
      /\ IsFiniteSet(C) /\ Cardinality(C) \in Nat
      /\ p.numAllocs = p.numFrees + Cardinality(C)
      /\ Distinct(p.freeList) /\ Blocks(p.freeList) \subseteq HeapUnits
      /\ \A b \in Blocks(p.freeList) : /\ p.hdr[b].size = 1 /\ b + HeaderSize < p.bump
                                       /\ b + HeaderSize >= w
      /\ w <= p.bump
  BY HeapOKParts
<1>2. \A y \in A : /\ p.hdr[y - HeaderSize] = [magic |-> TRUE, size |-> 1]
                   /\ y < p.bump /\ y - HeaderSize \notin Blocks(p.freeList)
  BY DEF HeapOK, LiveOK
<1>3. /\ p.hdr[a] = [magic |-> TRUE, size |-> 1] /\ x < p.bump
      /\ a \notin Blocks(p.freeList) /\ x \in Ptrs
  BY <1>1, <1>2
<1>4. a \in HeapUnits /\ k = [h EXCEPT !.pool = q] /\ a + HeaderSize = x
  <2>1. p.hdr[a].magic
    BY <1>3
  <2>2. a + HeaderSize = x
    BY <1>3 DEF Ptrs
  <2> HIDE DEF q
  <2> QED BY <1>1, <1>3, <2>1, <2>2, DspFreeIs, Zenon DEF q
<1> HIDE DEF p
<1>5. /\ f \in PoolRec /\ f.bump = p.bump /\ f.freeList = <<a>> \o p.freeList
      /\ f.hdr = [p.hdr EXCEPT ![a] = [magic |-> FALSE, size |-> p.hdr[a].size]]
      /\ f.numAllocs = p.numAllocs /\ f.numFrees = p.numFrees + 1
  BY <1>1, <1>4, PushFreeEffect, Zenon
<1> HIDE DEF f
<1>6. /\ q \in PoolRec /\ q.hdr = f.hdr
      /\ q.numAllocs = f.numAllocs /\ q.numFrees = f.numFrees
      /\ IF f.numFrees = f.numAllocs THEN q.bump = 0 /\ q.freeList = <<>> ELSE q = f
  BY <1>5, AutoResetEffect, Zenon
<1>7. k \in HeapType /\ k.pool = q
  <2>1. q \in PoolRec /\ h \in HeapType /\ k = [h EXCEPT !.pool = q]
    BY <1>1, <1>4, <1>6
  <2> HIDE DEF q, k
  <2> QED BY <2>1, HeapUpdates
<1>8. Cardinality(C \ {x}) = Cardinality(C) - 1 /\ IsFiniteSet(C \ {x})
  BY <1>1, CountRemove
<1>9. q.numAllocs = q.numFrees + Cardinality(C \ {x})
  <2> DEFINE n == Cardinality(C)
             m == Cardinality(C \ {x})
  <2>1. n \in Nat /\ m = n - 1 /\ p.numAllocs = p.numFrees + n
        /\ p.numFrees \in Nat
        /\ q.numAllocs = p.numAllocs /\ q.numFrees = p.numFrees + 1
    BY <1>1, <1>5, <1>6, <1>8
  <2> HIDE DEF n, m, q, k
  <2>2. q.numAllocs = q.numFrees + m
    BY <2>1
  <2> QED BY <2>2 DEF m
<1>10. (f.numFrees = f.numAllocs) <=> (C \ {x} = {})
  <2> DEFINE m == Cardinality(C \ {x})
  <2>1. (C \ {x} = {}) <=> m = 0
    BY <1>8, CountEmpty, Zenon
  <2>2. m \in Nat
    BY <1>8, CountType
  <2>3. f.numAllocs = f.numFrees + m /\ f.numFrees \in Nat
    BY <1>1, <1>5, <1>6, <1>9
  <2> HIDE DEF m
  <2>4. (f.numFrees = f.numAllocs) <=> m = 0
    BY <2>2, <2>3
  <2> QED BY <2>1, <2>4
<1> HIDE DEF q, k, a
<1>11. CASE C \ {x} = {}
  <2>1. q.bump = 0 /\ q.freeList = <<>>
    BY <1>6, <1>10, <1>11
  <2>2. LiveOK(k, {}) /\ {} \subseteq Ptrs /\ {} \subseteq {} /\ 0 \in Nat
    BY DEF LiveOK
  <2>3. Distinct(q.freeList) /\ Blocks(q.freeList) = {}
    BY <2>1 DEF Distinct, Blocks
  <2>4. k.pool.numAllocs = k.pool.numFrees + Cardinality({})
    BY <1>7, <1>9, <1>11
  <2>5. HeapOK(k, {}, {}, 0)
    <3>1. 0 <= k.pool.bump
      BY <1>7, <2>1
    <3> QED BY <1>7, <2>2, <2>3, <2>4, <3>1, HeapOKFrom
  <2> QED BY <1>7, <1>11, <2>1, <2>5 DEF k
<1>12. CASE C \ {x} # {}
  <2>1. q = f
    BY <1>6, <1>10, <1>12
  <2>2. /\ f.hdr[a].size = 1
        /\ \A b \in HeapUnits : b # a => f.hdr[b] = p.hdr[b]
    BY <1>1, <1>3, <1>4, <1>5
  <2>3. Blocks(f.freeList) = Blocks(p.freeList) \cup {a} /\ Distinct(f.freeList)
    <3>1. p.freeList \in Seq(HeapUnits) /\ Distinct(p.freeList) /\ a \in HeapUnits
          /\ a \notin Blocks(p.freeList) /\ f.freeList = <<a>> \o p.freeList
      BY <1>1, <1>3, <1>4, <1>5
    <3> QED BY <3>1, PushBlocks
  <2>4. LiveOK(k, A \ {x})
    <3> SUFFICES ASSUME NEW y \in A \ {x}
                 PROVE  /\ f.hdr[y - HeaderSize] = [magic |-> TRUE, size |-> 1]
                        /\ y < f.bump /\ y - HeaderSize \notin Blocks(f.freeList)
      BY <1>7, <2>1 DEF LiveOK
    <3>1. y \in Ptrs /\ y # x
      BY <1>1
    <3>2. y - HeaderSize \in HeapUnits /\ y - HeaderSize # a
      BY <1>3, <1>4, <3>1 DEF Ptrs, HeapUnits, a
    <3> QED BY <1>2, <1>5, <2>2, <2>3, <3>2
  <2>5. \A b \in Blocks(f.freeList) : /\ f.hdr[b].size = 1 /\ b + HeaderSize < f.bump
                                      /\ b + HeaderSize >= w
    <3> TAKE b \in Blocks(f.freeList)
    <3>1. CASE b = a
      BY <1>3, <1>4, <1>5, <2>2, <3>1
    <3>2. CASE b # a
      <4>1. b \in Blocks(p.freeList) /\ b \in HeapUnits
        BY <1>1, <2>3, <3>2
      <4> QED BY <1>1, <1>5, <2>2, <3>2, <4>1
    <3> QED BY <3>1, <3>2
  <2>6. A \ {x} \subseteq Ptrs /\ C \ {x} \subseteq A \ {x} /\ w <= f.bump
    BY <1>1, <1>5
  <2>7. HeapOK(k, A \ {x}, C \ {x}, w)
    BY <1>1, <1>7, <1>9, <2>1, <2>3, <2>4, <2>5, <2>6, HeapOKFrom
  <2> QED BY <1>12, <2>7 DEF k
<1> QED BY <1>11, <1>12

\* An interval with one more number.
LEMMA IntervalSucc == \A k \in Nat : 1 .. k + 1 = (1 .. k) \cup {k + 1}
  OBVIOUS

\* FreeAll is its frees one after the other.
LEMMA FreeAllUnfold ==
  ASSUME CountLaws, NEW h \in HeapType, NEW s \in Seq(Ptrs)
  PROVE  \E f \in [0 .. Len(s) -> HeapType] :
           /\ f[0] = h /\ FreeAll(h, s) = f[Len(s)]
           /\ \A k \in 1 .. Len(s) : f[k] = DspFree(f[k - 1], s[k])
<1> DEFINE n == Len(s)
           D(x, k) == DspFree(x, s[k])
           P(f) == f = [k \in 0 .. n |-> IF k = 0 THEN h ELSE D(f[k - 1], k)]
           g == [y \in HeapType \X Nat |->
                  IF y[2] \in 1 .. n THEN D(y[1], y[2]) ELSE y[1]]
<1>1. n \in Nat /\ \A k \in 1 .. n : s[k] \in Ptrs
  OBVIOUS
<1>2. FreeAll(h, s) = (CHOOSE f : P(f))[n]
  BY DEF FreeAll
<1>3. \A x \in HeapType, k \in 1 .. n : D(x, k) \in HeapType
  BY <1>1, DspFreeFrame, Zenon DEF FreeFrame
<1> HIDE DEF n, D
<1>4. \A x \in HeapType, k \in Nat : g[<<x, k>>] = IF k \in 1 .. n THEN D(x, k) ELSE x
  OBVIOUS
<1>5. \A x \in HeapType, k \in Nat : g[<<x, k>>] \in HeapType
  BY <1>3, <1>4, Zenon
<1> HIDE DEF g
<1>6. PICK e \in [0 .. n -> HeapType] :
             e[0] = h /\ \A k \in 1 .. n : e[k] = g[<<e[k - 1], k>>]
  <2>1. Stays(g, HeapType)
    BY <1>5, Zenon DEF Stays
  <2>2. PICK e : Steps(e, g, h, n, HeapType)
    BY <1>1, <2>1, Iterates
  <2> QED BY <2>2, Zenon DEF Steps
<1>7. P(e)
  <2>1. ASSUME NEW k \in 0 .. n
        PROVE  e[k] = IF k = 0 THEN h ELSE D(e[k - 1], k)
    <3>1. CASE k = 0
      BY <1>6, <3>1
    <3>2. CASE k # 0
      <4>1. k \in 1 .. n /\ k \in Nat /\ k - 1 \in 0 .. n
        BY <1>1, <3>2
      <4>2. e[k - 1] \in HeapType
        BY <4>1
      <4> QED BY <1>4, <1>6, <3>2, <4>1, <4>2, Zenon
    <3> QED BY <3>1, <3>2
  <2> QED BY <2>1
<1> DEFINE f == CHOOSE x : P(x)
<1>8. P(f)
  BY <1>7, Zenon
<1> HIDE DEF f
<1>9. /\ DOMAIN f = 0 .. n /\ f[0] = h /\ f = [k \in 0 .. n |-> f[k]]
      /\ \A k \in 1 .. n : f[k] = D(f[k - 1], k)
  <2>1. DOMAIN f = 0 .. n
    BY <1>8
  <2>2. \A k \in 0 .. n : f[k] = IF k = 0 THEN h ELSE D(f[k - 1], k)
    BY <1>8, Zenon
  <2>3. 0 \in 0 .. n /\ \A k \in 1 .. n : k \in 0 .. n /\ k # 0
    BY <1>1
  <2>4. f = [k \in 0 .. n |-> f[k]]
    BY <1>8
  <2> QED BY <2>1, <2>2, <2>3, <2>4, Zenon
<1>10. \A k \in 0 .. n : f[k] \in HeapType
  <2> DEFINE T == {k \in Nat : k <= n => f[k] \in HeapType}
  <2>1. 0 \in T
    BY <1>9
  <2>2. \A k \in Nat : k \in T => k + 1 \in T
    <3> SUFFICES ASSUME NEW k \in Nat, k \in T, k + 1 <= n
                 PROVE  f[k + 1] \in HeapType
      OBVIOUS
    <3>1. k + 1 \in 1 .. n /\ f[k] \in HeapType /\ (k + 1) - 1 = k
      BY <1>1
    <3> QED BY <1>3, <1>9, <3>1, Zenon
  <2> HIDE DEF T
  <2>3. \A k \in Nat : k \in T
    BY <2>1, <2>2, Induction
  <2> QED BY <1>1, <2>3 DEF T
<1>11. f \in [0 .. n -> HeapType]
  BY <1>9, <1>10
<1> QED BY <1>2, <1>9, <1>11, Zenon DEF f, n, D

\* Freeing any blocks leaves types, owners, watermark and other headers alone.
LEMMA FreeAllFrame ==
  ASSUME CountLaws, NEW h \in HeapType, NEW s \in Seq(Ptrs)
  PROVE  FreeFrame(h, FreeAll(h, s), Blocks(s))
<1> DEFINE n == Len(s)
<1>1. n \in Nat /\ \A k \in 1 .. n : s[k] \in Ptrs /\ s[k] \in Blocks(s)
  BY DEF Blocks
<1>2. PICK f \in [0 .. n -> HeapType] :
         /\ f[0] = h /\ FreeAll(h, s) = f[n]
         /\ \A k \in 1 .. n : f[k] = DspFree(f[k - 1], s[k])
  BY FreeAllUnfold
<1> HIDE DEF n
<1> DEFINE T == {k \in Nat : k <= n => FreeFrame(h, f[k], Blocks(s))}
<1>3. 0 \in T
  BY <1>2 DEF FreeFrame
<1>4. \A k \in Nat : k \in T => k + 1 \in T
  <2> SUFFICES ASSUME NEW k \in Nat, k \in T, k + 1 <= n
               PROVE  FreeFrame(h, f[k + 1], Blocks(s))
    OBVIOUS
  <2>1. k + 1 \in 1 .. n /\ FreeFrame(h, f[k], Blocks(s)) /\ (k + 1) - 1 = k
    BY <1>1
  <2>2. f[k + 1] = DspFree(f[k], s[k + 1]) /\ f[k] \in HeapType
    BY <1>2, <2>1 DEF FreeFrame
  <2>3. FreeFrame(f[k], f[k + 1], {s[k + 1]})
    BY <1>1, <2>1, <2>2, DspFreeFrame
  <2> QED BY <1>1, <2>1, <2>3, Zenon DEF FreeFrame
<1> HIDE DEF T
<1>5. \A k \in Nat : k \in T
  BY <1>3, <1>4, Induction
<1>6. FreeFrame(h, f[n], Blocks(s))
  <2>1. n \in T
    BY <1>1, <1>5
  <2> QED BY <1>1, <2>1 DEF T
<1> QED BY <1>2, <1>6

\* Blocks of C given back: if they are all of C the pool is reclaimed.
LEMMA FreeAllOK ==
  ASSUME CountLaws, NEW h, NEW A, NEW C, NEW w, HeapOK(h, A, C, w), NEW s \in Seq(Ptrs),
         Distinct(s), Blocks(s) \subseteq C, \A x \in Blocks(s) : x >= w
  PROVE  LET k == FreeAll(h, s) IN
         IF s # <<>> /\ C \ Blocks(s) = {} THEN HeapOK(k, {}, {}, 0) /\ k.pool.bump = 0
         ELSE HeapOK(k, A \ Blocks(s), C \ Blocks(s), w)
<1> DEFINE n == Len(s)
           R(k) == {s[i] : i \in 1 .. k}
           Q(k, x) == IF k # 0 /\ C \ R(k) = {} THEN HeapOK(x, {}, {}, 0) /\ x.pool.bump = 0
                      ELSE HeapOK(x, A \ R(k), C \ R(k), w)
<1>1. n \in Nat /\ \A k \in 1 .. n : s[k] \in Ptrs /\ s[k] \in Blocks(s)
  BY DEF Blocks
<1>2. h \in HeapType
  BY DEF HeapOK
<1>3. PICK f \in [0 .. n -> HeapType] :
         /\ f[0] = h /\ FreeAll(h, s) = f[n]
         /\ \A k \in 1 .. n : f[k] = DspFree(f[k - 1], s[k])
  BY <1>2, FreeAllUnfold
<1>4. \A k \in Nat : R(k + 1) = R(k) \cup {s[k + 1]}
  <2> TAKE k \in Nat
  <2>1. 1 .. k + 1 = (1 .. k) \cup {k + 1}
    BY IntervalSucc
  <2> QED BY <2>1
<1>5. R(0) = {} /\ R(n) = Blocks(s)
  BY DEF Blocks
<1>6. \A k \in 0 .. n - 1 : s[k + 1] \in C \ R(k) /\ s[k + 1] >= w
  <2> TAKE k \in 0 .. n - 1
  <2>1. k + 1 \in 1 .. n /\ \A i \in 1 .. k : i \in 1 .. n /\ i # k + 1
    BY <1>1
  <2>2. s[k + 1] \in Blocks(s)
    BY <1>1, <2>1
  <2>3. s[k + 1] \notin R(k)
    BY <2>1 DEF Distinct
  <2> QED BY <2>2, <2>3
<1> HIDE DEF n, R
<1> DEFINE T == {k \in Nat : k <= n => Q(k, f[k])}
<1>7. 0 \in T
  BY <1>3, <1>5, Zenon
<1>8. \A k \in Nat : k \in T => k + 1 \in T
  <2> SUFFICES ASSUME NEW k \in Nat, k \in T, k + 1 <= n
               PROVE  Q(k + 1, f[k + 1])
    <3> HIDE DEF Q
    <3> QED OBVIOUS
  <2>1. k + 1 \in 1 .. n /\ k \in 0 .. n - 1 /\ (k + 1) - 1 = k /\ k <= n /\ k + 1 # 0
    BY <1>1
  <2>2. Q(k, f[k])
    BY <2>1
  <2> DEFINE x == s[k + 1]
             B == A \ R(k)
             E == C \ R(k)
             y == f[k]
             z == f[k + 1]
  <2>3. x \in E /\ x >= w /\ z = DspFree(y, x)
    BY <1>3, <1>6, <2>1
  <2>4. HeapOK(y, B, E, w)
    BY <2>2, <2>3
  <2>5. B \ {x} = A \ R(k + 1) /\ E \ {x} = C \ R(k + 1)
    BY <1>4, Zenon
  <2> HIDE DEF x, B, E, y, z
  <2>6. IF E \ {x} = {} THEN HeapOK(z, {}, {}, 0) /\ z.pool.bump = 0
        ELSE HeapOK(z, B \ {x}, E \ {x}, w)
    BY <2>3, <2>4, FreeOne, Zenon
  <2>7. Q(k + 1, z)
    BY <2>1, <2>5, <2>6, Zenon
  <2> QED BY <2>7 DEF z
<1> HIDE DEF T
<1>9. \A k \in Nat : k \in T
  BY <1>7, <1>8, Induction
<1>10. Q(n, f[n])
  <2>1. n \in T
    BY <1>1, <1>9
  <2> HIDE DEF Q
  <2> QED BY <1>1, <2>1 DEF T
<1>11. n # 0 <=> s # <<>>
  BY DEF n
<1> QED BY <1>3, <1>5, <1>10, <1>11, Zenon

\* HeapOK is about the pool only.
LEMMA SamePool ==
  ASSUME NEW h, NEW A, NEW C, NEW w, HeapOK(h, A, C, w),
         NEW k \in HeapType, k.pool = h.pool
  PROVE  HeapOK(k, A, C, w)
<1>1. LiveOK(k, A)
  BY DEF HeapOK, LiveOK
<1>2. FreeOK(k)
  BY DEF HeapOK, FreeOK
<1>3. Floor(k, w)
  <2> DEFINE p == k.pool
  <2>1. w <= p.bump /\ \A i \in 1 .. Len(p.freeList) : p.freeList[i] + HeaderSize >= w
    BY DEF HeapOK, Floor
  <2> HIDE DEF p
  <2> QED BY <2>1, Zenon DEF Floor, p
<1> QED BY <1>1, <1>2, <1>3, Zenon DEF HeapOK

\* Setting the out-of-memory flag leaves everything else.
LEMMA OomOK ==
  ASSUME NEW h, NEW A, NEW C, NEW w, HeapOK(h, A, C, w), NEW b \in BOOLEAN
  PROVE  LET k == [h EXCEPT !.oom = b] IN
         HeapOK(k, A, C, w) /\ k.pool = h.pool /\ k.owner = h.owner /\ k.wm = h.wm
<1> DEFINE k == [h EXCEPT !.oom = b]
<1>1. h \in HeapType
  BY DEF HeapOK
<1>2. k \in HeapType /\ k.pool = h.pool /\ k.owner = h.owner /\ k.wm = h.wm
  BY <1>1, FlagUpdates
<1> HIDE DEF k
<1>3. HeapOK(k, A, C, w)
  BY <1>2, SamePool
<1> QED BY <1>2, <1>3, Zenon DEF k

\* What k requests for blocks of tag have made of the heap h.
ManyFacts(h, A, C, w, tag, k, x) ==
  LET R == Blocks(x.ptrs) IN
  /\ x \in [heap : HeapType, ptrs : Seq(Ptrs)]
  /\ Distinct(x.ptrs) /\ Len(x.ptrs) <= k
  /\ R \cap A = {} /\ \A y \in R : y >= w
  /\ HeapOK(x.heap, A \cup R, C \cup R, w)
  /\ \A y \in R : x.heap.owner[y] = tag
  /\ \A y \in HeapUnits \ R : x.heap.owner[y] = h.owner[y]
  /\ x.heap.wm = h.wm
  /\ x.heap.pool.bump <= h.pool.bump + Len(x.ptrs) * (HeaderSize + 1)
  /\ h.pool.freeList = <<>> => x.heap.pool.freeList = <<>>
  /\ Len(x.ptrs) < k => /\ x.heap.pool.freeList = <<>>
                        /\ x.heap.pool.bump + HeaderSize + 1 > PoolUnits

\* One request more, as AllocMany makes it.
OneMore(x, tag, k) ==
  LET r == DspAlloc(x.heap, tag)
  IN  IF Len(x.ptrs) < k - 1 THEN x
      ELSE [heap |-> r.heap,
            ptrs |-> IF r.ptr = Null THEN x.ptrs ELSE Append(x.ptrs, r.ptr)]

\* A list with one more element at the end.
LEMMA AppendBlocks ==
  ASSUME NEW S, NEW s \in Seq(S), NEW a \in S
  PROVE  LET r == Append(s, a) IN
         /\ r \in Seq(S) /\ Len(r) = Len(s) + 1 /\ Blocks(r) = Blocks(s) \cup {a}
         /\ Distinct(s) /\ a \notin Blocks(s) => Distinct(r)
<1> DEFINE r == Append(s, a)
<1>1. r \in Seq(S) /\ Len(r) = Len(s) + 1 /\ Len(s) \in Nat
  OBVIOUS
<1>2. r[Len(s) + 1] = a /\ \A i \in 1 .. Len(s) : r[i] = s[i]
  OBVIOUS
<1>3. 1 .. Len(r) = (1 .. Len(s)) \cup {Len(s) + 1}
  BY <1>1, IntervalSucc
<1> HIDE DEF r
<1>4. Blocks(r) = Blocks(s) \cup {a}
  BY <1>2, <1>3 DEF Blocks
<1>5. ASSUME Distinct(s), a \notin Blocks(s)
      PROVE  Distinct(r)
  <2> SUFFICES ASSUME NEW i \in 1 .. Len(r), NEW j \in 1 .. Len(r), i # j
               PROVE  r[i] # r[j]
    BY DEF Distinct
  <2>1. \A k \in 1 .. Len(s) : s[k] # a
    BY <1>5 DEF Blocks
  <2> QED BY <1>2, <1>3, <1>5, <2>1 DEF Distinct
<1> QED BY <1>1, <1>4, <1>5 DEF r

\* The facts after k requests give those after k + 1.
LEMMA ManyStep ==
  ASSUME CountLaws, NEW h \in HeapType, NEW A, NEW C, NEW w, NEW tag \in Tags,
         NEW k \in Nat, NEW x, ManyFacts(h, A, C, w, tag, k, x)
  PROVE  ManyFacts(h, A, C, w, tag, k + 1, OneMore(x, tag, k + 1))
<1> DEFINE R == Blocks(x.ptrs)
           r == DspAlloc(x.heap, tag)
           z == OneMore(x, tag, k + 1)
<1> USE HeaderSizeAssumption, PoolUnitsAssumption
<1>1. /\ x \in [heap : HeapType, ptrs : Seq(Ptrs)] /\ x.heap \in HeapType
      /\ x.ptrs \in Seq(Ptrs) /\ Len(x.ptrs) \in Nat
      /\ Distinct(x.ptrs) /\ Len(x.ptrs) <= k
      /\ R \cap A = {} /\ \A y \in R : y >= w
      /\ HeapOK(x.heap, A \cup R, C \cup R, w)
      /\ \A y \in R : x.heap.owner[y] = tag
      /\ \A y \in HeapUnits \ R : x.heap.owner[y] = h.owner[y]
      /\ x.heap.wm = h.wm
      /\ x.heap.pool.bump <= h.pool.bump + Len(x.ptrs) * (HeaderSize + 1)
      /\ h.pool.freeList = <<>> => x.heap.pool.freeList = <<>>
  BY DEF ManyFacts
<1>2. CASE Len(x.ptrs) < k
  <2>1. z = x
    <3>1. Len(x.ptrs) < (k + 1) - 1
      BY <1>1, <1>2
    <3> QED BY <3>1, Zenon DEF OneMore
  <2>2. /\ x.heap.pool.freeList = <<>>
        /\ x.heap.pool.bump + HeaderSize + 1 > PoolUnits
    BY <1>2 DEF ManyFacts
  <2>3. Len(x.ptrs) <= k + 1
    BY <1>1
  <2>4. ManyFacts(h, A, C, w, tag, k + 1, x)
    BY <1>1, <2>2, <2>3, Zenon DEF ManyFacts
  <2> QED BY <2>1, <2>4, Zenon
<1>3. CASE ~ (Len(x.ptrs) < k)
  <2>1. Len(x.ptrs) = k /\ ~ (Len(x.ptrs) < (k + 1) - 1)
    BY <1>1, <1>3
  <2>2. z = [heap |-> r.heap, ptrs |-> IF r.ptr = Null THEN x.ptrs ELSE Append(x.ptrs, r.ptr)]
    BY <2>1, Zenon DEF OneMore
  <2>3. CASE AllocFailed(x.heap, r)
    <3> DEFINE e == [x.heap EXCEPT !.oom = TRUE]
    <3>1. /\ r.ptr = Null /\ r.heap = e /\ x.heap.pool.freeList = <<>>
          /\ x.heap.pool.bump + HeaderSize + 1 > PoolUnits
      BY <2>3, Zenon DEF AllocFailed
    <3>2. /\ HeapOK(e, A \cup R, C \cup R, w) /\ e.pool = x.heap.pool
          /\ e.owner = x.heap.owner /\ e.wm = x.heap.wm
      BY <1>1, OomOK, Zenon
    <3> HIDE DEF e, r, z
    <3>3. z = [heap |-> e, ptrs |-> x.ptrs]
      BY <2>2, <3>1, Zenon
    <3>4. e \in HeapType
      BY <3>2 DEF HeapOK
    <3>5. z.heap = e /\ z.ptrs = x.ptrs /\ z \in [heap : HeapType, ptrs : Seq(Ptrs)]
      BY <1>1, <3>3, <3>4
    <3>6. Len(x.ptrs) <= k + 1
      BY <1>1
    <3>7. ManyFacts(h, A, C, w, tag, k + 1, z)
      BY <1>1, <3>1, <3>2, <3>5, <3>6, ZenonT(60) DEF ManyFacts
    <3> QED BY <3>7 DEF z
  <2>4. CASE AllocFacts(x.heap, A \cup R, C \cup R, w, tag, r)
    <3> DEFINE y == r.ptr
               s == Append(x.ptrs, y)
    <3>1. /\ y \in Ptrs \ (A \cup R) /\ y >= w
          /\ HeapOK(r.heap, (A \cup R) \cup {y}, (C \cup R) \cup {y}, w)
          /\ r.heap.owner = [x.heap.owner EXCEPT ![y] = tag]
          /\ r.heap.wm = x.heap.wm
          /\ r.heap.pool.bump <= x.heap.pool.bump + HeaderSize + 1
          /\ x.heap.pool.freeList = <<>> => r.heap.pool.freeList = <<>>
      BY <2>4, Zenon DEF AllocFacts
    <3>2. y # Null /\ y \in HeapUnits
      BY <3>1 DEF Ptrs, Null, HeapUnits
    <3>3. /\ s \in Seq(Ptrs) /\ Len(s) = Len(x.ptrs) + 1
          /\ Blocks(s) = R \cup {y} /\ Distinct(s)
      BY <1>1, <3>1, AppendBlocks
    <3>4. r.heap \in HeapType
      BY <3>1 DEF HeapOK
    <3> HIDE DEF z
    <3>5. z.heap = r.heap /\ z.ptrs = s /\ z \in [heap : HeapType, ptrs : Seq(Ptrs)]
      <4> HIDE DEF r, s
      <4>1. z = [heap |-> r.heap, ptrs |-> s]
        BY <2>2, <3>2, Zenon DEF s
      <4> QED BY <3>3, <3>4, <4>1
    <3> HIDE DEF r, s, y
    <3>6. /\ A \cup Blocks(s) = (A \cup R) \cup {y} /\ C \cup Blocks(s) = (C \cup R) \cup {y}
          /\ Blocks(s) \cap A = {} /\ \A v \in Blocks(s) : v >= w
      BY <1>1, <3>1, <3>3
    <3>7. /\ \A v \in Blocks(s) : r.heap.owner[v] = tag
          /\ \A v \in HeapUnits \ Blocks(s) : r.heap.owner[v] = h.owner[v]
      <4>1. x.heap.owner \in [HeapUnits -> Tags] /\ R \subseteq HeapUnits
        <5>1. A \cup R \subseteq Ptrs
          BY <1>1 DEF HeapOK
        <5>2. Ptrs \subseteq HeapUnits
          BY DEF Ptrs, HeapUnits
        <5> QED BY <1>1, <5>1, <5>2, HeapParts
      <4>2. r.heap.owner[y] = tag /\ \A v \in HeapUnits : v # y => r.heap.owner[v] = x.heap.owner[v]
        BY <3>1, <3>2, <4>1, Zenon
      <4> QED BY <1>1, <3>3, <4>1, <4>2
    <3>8. /\ Len(s) <= k + 1 /\ ~ (Len(s) < k + 1)
          /\ r.heap.pool.bump <= h.pool.bump + Len(s) * (HeaderSize + 1)
      <4> DEFINE a == h.pool.bump
                 b == x.heap.pool.bump
                 c == r.heap.pool.bump
                 n == Len(x.ptrs)
      <4>1. a \in Int /\ b \in Int /\ c \in Int
        <5>1. /\ a \in 0 .. PoolUnits /\ b \in 0 .. PoolUnits /\ c \in 0 .. PoolUnits
          BY <1>1, <3>4, HeapParts
        <5> QED BY <5>1
      <4>2. /\ n \in Nat /\ Len(s) = n + 1 /\ n = k /\ c <= b + HeaderSize + 1
            /\ b <= a + n * (HeaderSize + 1)
        BY <1>1, <2>1, <3>1, <3>3
      <4> HIDE DEF a, b, c, n
      <4>3. (n + 1) * (HeaderSize + 1) = n * (HeaderSize + 1) + HeaderSize + 1
        BY <4>2
      <4>4. n * (HeaderSize + 1) \in Int
        BY <4>2
      <4>5. c <= a + (n + 1) * (HeaderSize + 1)
        BY <4>1, <4>2, <4>3, <4>4
      <4>6. Len(s) <= k + 1 /\ ~ (Len(s) < k + 1)
        BY <4>2
      <4> QED BY <4>2, <4>5, <4>6 DEF a, c
    <3>9. ManyFacts(h, A, C, w, tag, k + 1, z)
      BY <1>1, <3>1, <3>3, <3>5, <3>6, <3>7, <3>8, Zenon DEF ManyFacts
    <3> QED BY <3>9 DEF z
  <2>5. AllocFailed(x.heap, r) \/ AllocFacts(x.heap, A \cup R, C \cup R, w, tag, r)
    BY <1>1, AllocOne, Zenon
  <2> QED BY <2>3, <2>4, <2>5
<1> QED BY <1>2, <1>3

\* A request after one that failed fails too and changes nothing, so a caller
\* that goes on after a failure leaves the heap as one that stops there.
LEMMA FailedAgain ==
  ASSUME NEW h \in HeapType, NEW tag, NEW other, DspAlloc(h, tag).ptr = Null
  PROVE  DspAlloc(DspAlloc(h, tag).heap, other) = DspAlloc(h, tag)
<1> DEFINE k == [h EXCEPT !.oom = TRUE]
<1>1. PoolAlloc(h.pool, 1, 1).ptr = Null /\ DspAlloc(h, tag) = [ptr |-> Null, heap |-> k]
  BY Zenon DEF DspAlloc
<1>2. k.pool = h.pool /\ [k EXCEPT !.oom = TRUE] = k
  BY DEF HeapType
<1>3. DspAlloc(h, tag).heap = k
  BY <1>1
<1> HIDE DEF k
<1>4. DspAlloc(k, other) = [ptr |-> Null, heap |-> k]
  BY <1>1, <1>2, Zenon DEF DspAlloc
<1> QED BY <1>1, <1>3, <1>4, Zenon

\* n requests for blocks of tag, from a good heap.
LEMMA AllocManyOK ==
  ASSUME CountLaws, NEW h, NEW A, NEW C, NEW w, HeapOK(h, A, C, w),
         NEW tag \in Tags, NEW n \in Nat
  PROVE  ManyFacts(h, A, C, w, tag, n, AllocMany(h, tag, n))
<1> DEFINE S == [heap : HeapType, ptrs : Seq(Ptrs)]
           x0 == [heap |-> h, ptrs |-> <<>>]
           M(k, x) == ManyFacts(h, A, C, w, tag, k, x)
           G(x, k) == OneMore(x, tag, k)
           P(f) == f = [k \in 0 .. n |-> IF k = 0 THEN x0 ELSE G(f[k - 1], k)]
           g == [y \in S \X Nat |-> IF y[2] # 0 /\ M(y[2] - 1, y[1]) THEN G(y[1], y[2])
                                    ELSE x0]
<1>1. h \in HeapType
  BY Zenon DEF HeapOK
<1>2. AllocMany(h, tag, n) = (CHOOSE f : P(f))[n]
  BY Zenon DEF AllocMany, OneMore
<1>3. x0 \in S /\ M(0, x0)
  <2>1. x0.heap = h /\ x0.ptrs = <<>> /\ Blocks(x0.ptrs) = {} /\ Len(x0.ptrs) = 0
    BY DEF Blocks
  <2>2. x0 \in S
    BY <1>1
  <2>3. Distinct(x0.ptrs)
    BY DEF Distinct
  <2>4. A \cup {} = A /\ C \cup {} = C /\ {} \cap A = {}
    OBVIOUS
  <2>5. h.pool.bump <= h.pool.bump + 0 * (HeaderSize + 1) /\ 0 <= 0 /\ ~ (0 < 0)
    <3>1. h.pool.bump \in 0 .. PoolUnits
      BY <1>1, HeapParts
    <3> QED BY <3>1, HeaderSizeAssumption, PoolUnitsAssumption
  <2> HIDE DEF x0
  <2>6. M(0, x0)
    BY <2>1, <2>2, <2>3, <2>4, <2>5, Zenon DEF ManyFacts
  <2> QED BY <2>2, <2>6
<1>4. \A k \in Nat : \A x : M(k, x) => M(k + 1, G(x, k + 1))
  <2> SUFFICES ASSUME NEW k \in Nat, NEW x, M(k, x)
               PROVE  M(k + 1, G(x, k + 1))
    OBVIOUS
  <2> QED BY <1>1, ManyStep
<1>5. \A k \in Nat : \A x : M(k, x) => x \in S
  BY DEF ManyFacts
<1> HIDE DEF M, G, S, x0
<1>6. \A x \in S, k \in Nat :
        g[<<x, k>>] = IF k # 0 /\ M(k - 1, x) THEN G(x, k) ELSE x0
  OBVIOUS
<1>7. \A x \in S, k \in Nat : g[<<x, k>>] \in S
  <2> TAKE x \in S, k \in Nat
  <2>1. CASE k # 0 /\ M(k - 1, x)
    <3>1. k - 1 \in Nat /\ (k - 1) + 1 = k
      BY <2>1
    <3>2. M(k, G(x, k))
      BY <1>4, <2>1, <3>1
    <3> QED BY <1>5, <1>6, <2>1, <3>2
  <2>2. CASE ~ (k # 0 /\ M(k - 1, x))
    BY <1>3, <1>6, <2>2
  <2> QED BY <2>1, <2>2
<1> HIDE DEF g
<1>8. PICK e \in [0 .. n -> S] :
             e[0] = x0 /\ \A k \in 1 .. n : e[k] = g[<<e[k - 1], k>>]
  <2>1. Stays(g, S)
    BY <1>7, Zenon DEF Stays
  <2>2. PICK e : Steps(e, g, x0, n, S)
    BY <1>3, <2>1, Iterates
  <2> QED BY <2>2 DEF Steps
<1>9. \A k \in 0 .. n : M(k, e[k])
  <2> DEFINE T == {k \in Nat : k <= n => M(k, e[k])}
  <2>1. 0 \in T
    BY <1>3, <1>8
  <2>2. \A k \in Nat : k \in T => k + 1 \in T
    <3> SUFFICES ASSUME NEW k \in Nat, k \in T, k + 1 <= n
                 PROVE  M(k + 1, e[k + 1])
      OBVIOUS
    <3>1. /\ k + 1 \in 1 .. n /\ M(k, e[k]) /\ (k + 1) - 1 = k
          /\ k \in 0 .. n /\ k + 1 \in Nat /\ k + 1 # 0
      OBVIOUS
    <3>2. e[k] \in S
      BY <3>1
    <3>3. e[k + 1] = G(e[k], k + 1)
      BY <1>6, <1>8, <3>1, <3>2, Zenon
    <3> QED BY <1>4, <3>1, <3>3
  <2> HIDE DEF T
  <2>3. \A k \in Nat : k \in T
    BY <2>1, <2>2, Induction
  <2> QED BY <2>3 DEF T
<1>10. P(e)
  <2>1. ASSUME NEW k \in 0 .. n
        PROVE  e[k] = IF k = 0 THEN x0 ELSE G(e[k - 1], k)
    <3>1. CASE k = 0
      BY <1>8, <3>1
    <3>2. CASE k # 0
      <4>1. k \in 1 .. n /\ k \in Nat /\ k - 1 \in 0 .. n
        BY <3>2
      <4>2. e[k - 1] \in S /\ M(k - 1, e[k - 1])
        BY <1>9, <4>1
      <4>3. e[k] = g[<<e[k - 1], k>>]
        BY <1>8, <4>1
      <4> QED BY <1>6, <3>2, <4>1, <4>2, <4>3
    <3> QED BY <3>1, <3>2
  <2> QED BY <2>1
<1> DEFINE f == CHOOSE x : P(x)
<1>11. P(f)
  BY <1>10, Zenon
<1> HIDE DEF f
<1>12. f[0] = x0 /\ \A k \in 1 .. n : f[k] = G(f[k - 1], k)
  <2>1. \A k \in 0 .. n : f[k] = IF k = 0 THEN x0 ELSE G(f[k - 1], k)
    BY <1>11, Zenon
  <2>2. 0 \in 0 .. n /\ \A k \in 1 .. n : k \in 0 .. n /\ k # 0
    OBVIOUS
  <2> QED BY <2>1, <2>2, Zenon
<1>13. M(n, f[n])
  <2> DEFINE T == {k \in Nat : k <= n => M(k, f[k])}
  <2>1. 0 \in T
    BY <1>3, <1>12
  <2>2. \A k \in Nat : k \in T => k + 1 \in T
    <3> SUFFICES ASSUME NEW k \in Nat, k \in T, k + 1 <= n
                 PROVE  M(k + 1, f[k + 1])
      OBVIOUS
    <3>1. k + 1 \in 1 .. n /\ M(k, f[k]) /\ (k + 1) - 1 = k
      OBVIOUS
    <3>2. f[k + 1] = G(f[k], k + 1)
      BY <1>12, <3>1
    <3> QED BY <1>4, <3>1, <3>2
  <2> HIDE DEF T
  <2>3. n \in T
    BY <2>1, <2>2, Induction
  <2> QED BY <2>3 DEF T
<1> QED BY <1>2, <1>13 DEF f, M
-----------------------------------------------------------------------------
\* Nothing to free changes nothing.
LEMMA FreeNone ==
  ASSUME CountLaws, NEW h \in HeapType
  PROVE  FreeAll(h, <<>>) = h
<1>1. <<>> \in Seq(Ptrs) /\ Len(<<>>) = 0
  OBVIOUS
<1>2. PICK f \in [0 .. Len(<<>>) -> HeapType] : f[0] = h /\ FreeAll(h, <<>>) = f[Len(<<>>)]
  BY <1>1, FreeAllUnfold, ZenonT(60)
<1> QED BY <1>1, <1>2

\* A pool that starts again has no block; what its memory held does not matter.
LEMMA ResetOK ==
  ASSUME CountLaws, NEW h \in HeapType
  PROVE  LET k == ResetPools(h) IN
         HeapOK(k, {}, {}, 0) /\ k.pool.bump = 0 /\ k.owner = h.owner
<1> DEFINE q == PoolReset(h.pool)
           g == [h EXCEPT !.pool = q]
           k == [g EXCEPT !.oom = FALSE]
<1>1. ResetPools(h) = k
  BY DEF ResetPools, OomReset
<1>2. /\ q = [base |-> 0, size |-> PoolUnits, bump |-> 0, freeList |-> <<>>,
              hdr |-> h.pool.hdr, allocated |-> 0, numAllocs |-> 0, numFrees |-> 0]
      /\ h.pool.hdr \in [HeapUnits -> HeaderWord]
  BY HeapParts DEF PoolReset, PoolInit
<1> HIDE DEF q
<1>3. /\ q \in PoolRec /\ q.bump = 0 /\ q.freeList = <<>>
      /\ q.numAllocs = 0 /\ q.numFrees = 0
  BY <1>2, PoolUnitsAssumption DEF PoolRec
<1>4. g \in HeapType /\ g.pool = q /\ g.owner = h.owner
  BY <1>3, HeapUpdates, Zenon
<1> HIDE DEF g
<1>5. k \in HeapType /\ k.pool = q /\ k.owner = h.owner
  BY <1>4, FlagUpdates, Zenon
<1> HIDE DEF k
<1>6. Distinct(k.pool.freeList) /\ Blocks(k.pool.freeList) = {}
  BY <1>3, <1>5 DEF Distinct, Blocks
<1>7. LiveOK(k, {}) /\ 0 <= k.pool.bump /\ k.pool.numAllocs = k.pool.numFrees + Cardinality({})
  <2>1. Cardinality({}) = 0
    BY CountEmpty
  <2> QED BY <1>3, <1>5, <2>1 DEF LiveOK
<1>8. HeapOK(k, {}, {}, 0)
  BY <1>5, <1>6, <1>7, HeapOKFrom
<1> QED BY <1>1, <1>3, <1>5, <1>8

\* tvm_dsp_restore_infer_watermark after the objects above the mark were freed:
\* the blocks below it are what is left, and none of them is counted.
LEMMA RestoreOK ==
  ASSUME CountLaws, NEW h, NEW A, NEW C, HeapOK(h, A, C, h.wm), NEW s \in Seq(Ptrs),
         \A x \in Blocks(s) : x >= h.wm
  PROVE  LET k == RestoreWatermark(FreeAll(h, s)) IN
         /\ HeapOK(k, {y \in A : y < h.wm}, {}, h.wm)
         /\ k.owner = h.owner /\ k.wm = h.wm
         /\ k.pool.bump = h.wm /\ k.pool.freeList = <<>>
<1> DEFINE g == FreeAll(h, s)
           m == h.wm
           p == g.pool
           q == [p EXCEPT !.bump = m, !.freeList = <<>>, !.allocated = 0,
                          !.numAllocs = 0, !.numFrees = 0]
           k == [g EXCEPT !.pool = q]
           B == {y \in A : y < m}
<1>1. /\ h \in HeapType /\ m \in Nat /\ A \subseteq Ptrs /\ m <= h.pool.bump
      /\ h.pool.bump \in 0 .. PoolUnits
  BY HeapOKParts
<1>2. FreeFrame(h, g, Blocks(s))
  BY <1>1, FreeAllFrame
<1>3. /\ g \in HeapType /\ g.owner = h.owner /\ g.wm = m
      /\ \A b \in HeapUnits : b + HeaderSize \notin Blocks(s) => p.hdr[b] = h.pool.hdr[b]
  BY <1>2 DEF FreeFrame
<1>4. p \in PoolRec /\ g.wm # Null /\ m \in 0 .. PoolUnits
  <2>1. p \in PoolRec
    BY <1>3, HeapUpdates, Zenon
  <2> QED BY <1>1, <1>3, <2>1, PoolUnitsAssumption DEF Null
<1>5. RestoreWatermark(g) = k
  <2> HIDE DEF g
  <2> QED BY <1>3, <1>4, Zenon DEF RestoreWatermark
<1> HIDE DEF g, p
<1>6. /\ q \in PoolRec /\ q.bump = m /\ q.freeList = <<>> /\ q.hdr = p.hdr
      /\ q.numAllocs = 0 /\ q.numFrees = 0
  <2> DEFINE f == <<>>
  <2>1. f \in Seq(HeapUnits) /\ 0 \in Nat
    OBVIOUS
  <2> HIDE DEF f, m
  <2>2. LET v == [p EXCEPT !.bump = m, !.freeList = f, !.allocated = 0,
                           !.numAllocs = 0, !.numFrees = 0] IN
        /\ v \in PoolRec /\ v.bump = m /\ v.freeList = f /\ v.hdr = p.hdr
        /\ v.numAllocs = 0 /\ v.numFrees = 0
    BY <1>4, <2>1, Zenon DEF PoolRec
  <2> QED BY <2>2, Zenon DEF f
<1> HIDE DEF q
<1>7. k \in HeapType /\ k.pool = q /\ k.owner = g.owner /\ k.wm = g.wm
  BY <1>3, <1>6, HeapUpdates, Zenon
<1> HIDE DEF k
<1>8. LiveOK(k, B)
  <2> SUFFICES ASSUME NEW y \in B
               PROVE  /\ q.hdr[y - HeaderSize] = [magic |-> TRUE, size |-> 1]
                      /\ y < q.bump /\ y - HeaderSize \notin Blocks(q.freeList)
    BY <1>7 DEF LiveOK
  <2>1. y \in A /\ y < m /\ y \in Ptrs
    BY <1>1
  <2>2. h.pool.hdr[y - HeaderSize] = [magic |-> TRUE, size |-> 1]
    BY <2>1 DEF HeapOK, LiveOK
  <2>3. y - HeaderSize \in HeapUnits /\ (y - HeaderSize) + HeaderSize = y
    BY <2>1, HeaderSizeAssumption, PoolUnitsAssumption DEF Ptrs, HeapUnits
  <2>4. y \notin Blocks(s)
    BY <1>1, <2>1, HeaderSizeAssumption, PoolUnitsAssumption DEF Ptrs
  <2>5. p.hdr[y - HeaderSize] = h.pool.hdr[y - HeaderSize]
    BY <1>3, <2>3, <2>4
  <2>6. Blocks(q.freeList) = {}
    BY <1>6 DEF Blocks
  <2> QED BY <1>6, <2>1, <2>2, <2>5, <2>6
<1>9. HeapOK(k, B, {}, m)
  <2>1. Distinct(k.pool.freeList) /\ Blocks(k.pool.freeList) = {}
    BY <1>6, <1>7 DEF Distinct, Blocks
  <2>2. k.pool.numAllocs = k.pool.numFrees + Cardinality({}) /\ m <= k.pool.bump
    <3>1. Cardinality({}) = 0
      BY CountEmpty
    <3> QED BY <1>1, <1>6, <1>7, <3>1
  <2>3. B \subseteq Ptrs /\ {} \subseteq B
    BY <1>1
  <2> HIDE DEF B, m
  <2>4. m \in Nat
    BY <1>1
  <2> QED BY <1>7, <1>8, <2>1, <2>2, <2>3, <2>4, HeapOKFrom
<1> HIDE DEF B, m
<1> QED BY <1>3, <1>5, <1>6, <1>7, <1>9, Zenon DEF B, m, g

\* A block of a good heap is allocated.
LEMMA LiveAllocated ==
  ASSUME NEW h, NEW A, NEW C, NEW w, HeapOK(h, A, C, w), NEW x \in A
  PROVE  Allocated(h, x)
  BY DEF HeapOK, LiveOK, Allocated, Blocks

\* A list of blocks of a good heap that hold their owner's data is intact.
LEMMA HoldsIntact ==
  ASSUME NEW h, NEW A, NEW C, NEW w, HeapOK(h, A, C, w), NEW s, NEW tag,
         Holds(h, s, A, tag)
  PROVE  Intact(h, s, tag)
  BY LiveAllocated DEF Holds, Intact, Blocks

\* The initial heap has no block.
LEMMA HeapInitOK ==
  ASSUME CountLaws
  PROVE  HeapOK(HeapInit, {}, {}, 0) /\ HeapInit.pool.bump = 0
<1> DEFINE p == PoolInit(0, PoolUnits, [a \in HeapUnits |-> Junk])
           h == HeapInit
<1>1. /\ h.pool = p /\ p.bump = 0 /\ p.freeList = <<>> /\ p.numAllocs = 0
      /\ p.numFrees = 0
  BY DEF HeapInit, PoolInit
<1>2. h \in HeapType
  <2>1. p \in [base : {0}, size : {PoolUnits}, bump : 0 .. PoolUnits,
               freeList : Seq(HeapUnits), hdr : [HeapUnits -> HeaderWord],
               allocated : Nat, numAllocs : Nat, numFrees : Nat]
    <3> DEFINE d == [a \in HeapUnits |-> Junk]
    <3>1. d \in [HeapUnits -> HeaderWord] /\ 0 \in 0 .. PoolUnits /\ <<>> \in Seq(HeapUnits)
      BY PoolUnitsAssumption DEF HeaderWord, Junk
    <3> HIDE DEF d
    <3>2. PoolInit(0, PoolUnits, d) \in
            [base : {0}, size : {PoolUnits}, bump : 0 .. PoolUnits,
             freeList : Seq(HeapUnits), hdr : [HeapUnits -> HeaderWord],
             allocated : Nat, numAllocs : Nat, numFrees : Nat]
      BY <3>1 DEF PoolInit
    <3> QED BY <3>2 DEF d
  <2>2. [a \in HeapUnits |-> NoOwner] \in [HeapUnits -> Tags]
    <3>1. NoOwner \in Tags
      BY DEF NoOwner, Tags
    <3> QED BY <3>1
  <2> HIDE DEF p
  <2> QED BY <2>1, <2>2 DEF HeapInit, HeapType, p
<1> HIDE DEF p, h
<1>3. Distinct(h.pool.freeList) /\ Blocks(h.pool.freeList) = {}
  BY <1>1 DEF Distinct, Blocks
<1>4. LiveOK(h, {}) /\ 0 <= h.pool.bump /\ h.pool.numAllocs = h.pool.numFrees + Cardinality({})
  <2>1. Cardinality({}) = 0
    BY CountEmpty
  <2> QED BY <1>1, <2>1 DEF LiveOK
<1>5. HeapOK(h, {}, {}, 0)
  BY <1>2, <1>3, <1>4, HeapOKFrom
<1> QED BY <1>1, <1>5 DEF h
=============================================================================
