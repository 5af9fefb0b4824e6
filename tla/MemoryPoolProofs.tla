--------------------------- MODULE MemoryPoolProofs ---------------------------
(* Proofs about MemoryPool, for every region, header and request size. *)
EXTENDS MemoryPool, FiniteSetTheorems, WellFoundedInduction, TLAPS

\* align_up returns a multiple of the alignment at or above its argument, and
\* leaves such a multiple alone.
LEMMA AlignUpFacts ==
  ASSUME NEW v \in Nat, NEW a \in Nat \ {0}
  PROVE  /\ AlignUp(v, a) \in Nat
         /\ AlignUp(v, a) >= v
         /\ AlignUp(AlignUp(v, a), a) = AlignUp(v, a)
<1> DEFINE q == (v + a - 1) \div a
<1>1. q \in Nat /\ a * q <= v + a - 1 /\ v + a - 1 < a * (q + 1)
  BY SMT
<1>2. q * a \in Nat /\ q * a >= v
  BY <1>1, SMT
<1>3. (q * a + a - 1) \div a = q
  BY <1>1, SMT
<1> QED
  BY <1>2, <1>3 DEF AlignUp

\* A non-empty set of numbers has a least element.
LEMMA LeastElement ==
  ASSUME NEW T, T \subseteq Nat, T # {}
  PROVE  \E x \in T : \A y \in T : x <= y
<1> DEFINE R == OpToRel(<, Nat)
<1>1. PICK x \in T : \A y \in T : ~ (<<y, x>> \in R)
  <2> HIDE DEF R
  <2>1. IsWellFoundedOn(R, Nat)
    BY NatLessThanWellFounded, Zenon DEF R
  <2> QED
    BY <2>1, WFMin, Zenon
<1>2. ASSUME NEW y \in T, y < x PROVE FALSE
  BY <1>1, <1>2, Zenon DEF OpToRel
<1> QED
  BY <1>2, SMT

\* The allocator takes a block that fits: the search stops at the first one.
LEMMA FirstFitFits ==
  ASSUME NEW p, NEW size, NEW alignment, Len(p.freeList) \in Nat,
         FitIndices(p, size, alignment) # {}
  PROVE  FirstFit(p, size, alignment) \in FitIndices(p, size, alignment)
<1> DEFINE F == FitIndices(p, size, alignment)
<1>1. F \subseteq Nat
  BY DEF FitIndices
<1>2. \E i \in F : \A j \in F : i <= j
  <2> HIDE DEF F
  <2> QED BY <1>1, LeastElement DEF F
<1> QED
  BY <1>2 DEF FirstFit

\* Taking one element off a list without repetitions leaves the others.
LEMMA RemoveNthFacts ==
  ASSUME NEW S, NEW s \in Seq(S), NEW i \in 1 .. Len(s),
         \A j, k \in 1 .. Len(s) : j # k => s[j] # s[k]
  PROVE  LET r == RemoveNth(s, i) IN
         /\ r \in Seq(S)
         /\ Len(r) = Len(s) - 1
         /\ {r[j] : j \in 1 .. Len(r)} = {s[j] : j \in 1 .. Len(s)} \ {s[i]}
         /\ \A j, k \in 1 .. Len(r) : j # k => r[j] # r[k]
<1> DEFINE r == RemoveNth(s, i)
<1>1. Len(s) \in Nat /\ Len(s) >= 1
  OBVIOUS
<1>2. r \in [1 .. Len(s) - 1 -> S]
  BY <1>1 DEF RemoveNth
<1>3. r \in Seq(S) /\ Len(r) = Len(s) - 1
  BY <1>1, <1>2
<1>4. \A j \in 1 .. Len(s) - 1 : r[j] = IF j < i THEN s[j] ELSE s[j + 1]
  BY DEF RemoveNth
<1>5. \A j, k \in 1 .. Len(r) : j # k => r[j] # r[k]
  BY <1>1, <1>3, <1>4
<1>6. ASSUME NEW x \in {r[j] : j \in 1 .. Len(r)}
      PROVE  x \in {s[j] : j \in 1 .. Len(s)} \ {s[i]}
  BY <1>1, <1>3, <1>4
<1>7. ASSUME NEW j \in 1 .. Len(s), s[j] # s[i]
      PROVE  s[j] \in {r[k] : k \in 1 .. Len(r)}
  <2>1. CASE j < i
    BY <1>1, <1>3, <1>4, <2>1
  <2>2. CASE j > i
    <3>1. j - 1 \in 1 .. Len(r) /\ r[j - 1] = s[j]
      BY <1>1, <1>3, <1>4, <2>2
    <3> QED BY <3>1
  <2> QED BY <1>1, <1>7, <2>1, <2>2
<1> QED
  BY <1>3, <1>5, <1>6, <1>7, Zenon
-----------------------------------------------------------------------------
(* The inductive invariant, action by action. *)

IInv == TypeOK /\ BlocksTile

\* tvm_dsp_memory_pool_init and _reset leave an empty pool.
LEMMA EmptyPool ==
  ASSUME NEW m \in [Region -> HeaderWord],
         pool' = PoolInit(Base, Size, m), live' = {}
  PROVE  IInv'
<1> USE RegionAssumption, HeaderSizeAssumption
<1>1. /\ pool' \in PoolType
      /\ pool'.bump = Base /\ pool'.freeList = <<>>
      /\ pool'.numAllocs = 0 /\ pool'.numFrees = 0
  BY DEF PoolInit, PoolType
<1>2. FreeHeaders' = {} /\ LiveHeaders' = {}
  BY <1>1 DEF FreeHeaders, LiveHeaders
<1>3. IsFiniteSet(live') /\ Cardinality(live') = 0
  BY FS_EmptySet
<1> QED
  BY <1>1, <1>2, <1>3
  DEF IInv, TypeOK, BlocksTile, Headers, HeaderPrecedesData

\* What the invariant says of one block, in numbers.
LEMMA BlockFacts ==
  ASSUME IInv
  PROVE  /\ Headers \subseteq Region /\ Headers \subseteq Nat
         /\ \A h \in Headers : /\ pool.hdr[h].size \in Nat
                               /\ pool.hdr[h] \in HeaderWord
                               /\ BlockSize(pool, h) = pool.hdr[h].size + HeaderSize
         /\ \A b \in live : /\ b.ptr \in Nat /\ b.size \in Nat
                            /\ b.ptr - HeaderSize \in Headers
                            /\ pool.hdr[b.ptr - HeaderSize].size >= b.size
<1> USE RegionAssumption, HeaderSizeAssumption
<1>1. Headers \subseteq Region
  BY DEF IInv, TypeOK, PoolType, Headers, FreeHeaders, LiveHeaders
<1>2. Region \subseteq Nat
  BY DEF Region
<1>3. pool.hdr \in [Region -> HeaderWord]
  BY DEF IInv, TypeOK, PoolType
<1>4. \A h \in Headers : pool.hdr[h] \in HeaderWord
  BY <1>1, <1>3
<1>5. \A b \in live : b.ptr \in Nat /\ b.size \in Nat
  BY DEF IInv, TypeOK, Block
<1> QED
  BY <1>1, <1>2, <1>4, <1>5, Zenon
  DEF IInv, BlocksTile, HeaderPrecedesData, BlockSize, HeaderWord, Headers,
      LiveHeaders

\* A caller that fills its block touches no header: they all lie outside it.
LEMMA WriteStep ==
  ASSUME IInv, NEW b \in live, Write(b)
  PROVE  IInv'
<1> USE RegionAssumption, HeaderSizeAssumption
<1>1. /\ pool' \in PoolType
      /\ pool'.bump = pool.bump /\ pool'.freeList = pool.freeList
      /\ pool'.numAllocs = pool.numAllocs /\ pool'.numFrees = pool.numFrees
      /\ \A a \in Region : a \notin Extent(b) => pool'.hdr[a] = pool.hdr[a]
      /\ live' = live
  BY Zenon DEF Write, Scribble, Junk, HeaderWord, IInv, TypeOK, PoolType
<1>2. FreeHeaders' = FreeHeaders /\ LiveHeaders' = LiveHeaders /\ Headers' = Headers
  BY <1>1 DEF FreeHeaders, LiveHeaders, Headers
<1>3. ASSUME NEW h \in Headers PROVE h \in Region /\ h \notin Extent(b)
  <2> DEFINE k == b.ptr - HeaderSize
  <2>1. /\ h \in Nat /\ k \in Nat /\ b.ptr = k + HeaderSize /\ b.size \in Nat
        /\ k \in Headers /\ pool.hdr[k].size \in Nat /\ pool.hdr[h].size \in Nat
        /\ pool.hdr[k].size >= b.size
    BY BlockFacts
  <2> HIDE DEF k
  <2>2. /\ h < k => h + (pool.hdr[h].size + HeaderSize) <= k
        /\ k < h => k + (pool.hdr[k].size + HeaderSize) <= h
    BY <2>1, BlockFacts, Zenon DEF IInv, BlocksTile
  <2>3. h \notin Extent(b)
    BY <2>1, <2>2 DEF Extent
  <2> QED BY <2>3, BlockFacts
<1>4. \A h \in Headers : pool'.hdr[h] = pool.hdr[h]
  BY <1>1, <1>3
<1> QED
  BY <1>1, <1>2, <1>4
  DEF BlockSize, LiveHeaders, Headers, IInv, TypeOK, BlocksTile, HeaderPrecedesData
-----------------------------------------------------------------------------
(* What the operators do to a descriptor, field by field. *)

\* Marking a block used or free rewrites one word of the header array.
LEMMA SetMagicEffect ==
  ASSUME NEW hdr \in [Region -> HeaderWord], NEW h \in Region, NEW b \in BOOLEAN
  PROVE  /\ SetMagic(hdr, h, b) \in [Region -> HeaderWord]
         /\ SetMagic(hdr, h, b)[h].magic = b
         /\ SetMagic(hdr, h, b)[h].size = hdr[h].size
         /\ \A x \in Region : x # h => SetMagic(hdr, h, b)[x] = hdr[x]
<1> DEFINE w == [magic |-> b, size |-> hdr[h].size]
<1>1. SetMagic(hdr, h, b) = [hdr EXCEPT ![h] = w]
  BY DEF SetMagic
<1>2. hdr[h] \in HeaderWord
  OBVIOUS
<1>3. w \in HeaderWord /\ w.magic = b /\ w.size = hdr[h].size
  BY <1>2 DEF HeaderWord
<1> HIDE DEF w
<1> QED BY <1>1, <1>3

\* Only the magic of one header changes; every size stays.
LEMMA SetMagicKeeps ==
  ASSUME NEW hdr \in [Region -> HeaderWord], NEW h \in Region, NEW b
  PROVE  /\ \A x \in Region : SetMagic(hdr, h, b)[x].size = hdr[x].size
         /\ \A x \in Region : x # h => SetMagic(hdr, h, b)[x] = hdr[x]
<1> DEFINE w == [magic |-> b, size |-> hdr[h].size]
<1>1. SetMagic(hdr, h, b) = [hdr EXCEPT ![h] = w]
  BY DEF SetMagic
<1>2. w.size = hdr[h].size
  OBVIOUS
<1> HIDE DEF w
<1> QED BY <1>1, <1>2

\* A block reused leaves the list and keeps its size; nothing else moves.
LEMMA ReuseEffect ==
  ASSUME NEW p \in PoolType, NEW i \in 1 .. Len(p.freeList),
         \A j, k \in 1 .. Len(p.freeList) : j # k => p.freeList[j] # p.freeList[k]
  PROVE  LET q == Reuse(p, i)
             h == p.freeList[i]
         IN  /\ q \in PoolType
             /\ q.freeList = RemoveNth(p.freeList, i)
             /\ q.hdr = SetMagic(p.hdr, h, TRUE)
             /\ q.bump = p.bump /\ q.numFrees = p.numFrees
             /\ q.numAllocs = p.numAllocs + 1
<1> DEFINE h == p.freeList[i]
           q == Reuse(p, i)
           n == p.allocated + BlockSize(p, h)
<1>1. p.freeList \in Seq(Region) /\ p.hdr \in [Region -> HeaderWord]
      /\ p.allocated \in Nat /\ p.numAllocs \in Nat
  BY DEF PoolType
<1>2. h \in Region
  BY <1>1
<1>3. SetMagic(p.hdr, h, TRUE) \in [Region -> HeaderWord]
  BY <1>1, <1>2, SetMagicEffect, Zenon
<1>4. RemoveNth(p.freeList, i) \in Seq(Region)
  BY <1>1, RemoveNthFacts, Zenon
<1>5. n \in Nat
  <2>1. p.hdr[h] \in HeaderWord BY <1>1, <1>2
  <2>2. p.hdr[h].size \in Nat BY <2>1 DEF HeaderWord
  <2>3. n = p.allocated + (p.hdr[h].size + HeaderSize) BY DEF BlockSize
  <2>4. HeaderSize \in Nat /\ p.allocated \in Nat BY <1>1, HeaderSizeAssumption
  <2> HIDE DEF n, q, h
  <2>5. \A a, b, c \in Nat : a + (b + c) \in Nat OBVIOUS
  <2> QED BY <2>2, <2>3, <2>4, <2>5, Zenon
<1>6. q = [p EXCEPT !.freeList = RemoveNth(p.freeList, i),
                    !.hdr = SetMagic(p.hdr, h, TRUE),
                    !.allocated = n,
                    !.numAllocs = p.numAllocs + 1]
  BY DEF Reuse
<1>7. p.numAllocs + 1 \in Nat
  BY <1>1
<1> HIDE DEF h, n, q
<1>8. /\ q \in PoolType
      /\ q.freeList = RemoveNth(p.freeList, i)
      /\ q.hdr = SetMagic(p.hdr, h, TRUE)
      /\ q.bump = p.bump /\ q.numFrees = p.numFrees
      /\ q.numAllocs = p.numAllocs + 1
  BY <1>3, <1>4, <1>5, <1>6, <1>7, Zenon DEF PoolType
<1> QED BY <1>8 DEF h, q

\* A block carved from the bump region: where its header, its data and the
\* new bump pointer lie.
LEMMA BumpEffect ==
  ASSUME NEW p \in PoolType, NEW size \in Nat \ {0}, NEW a \in Alignments,
         BumpEnd(p, size, a) <= Base + Size
  PROVE  LET q == Bump(p, size, a)
             h == BumpPtr(p, a) - HeaderSize
         IN  /\ q \in PoolType
             /\ h \in Region /\ h >= p.bump
             /\ BumpPtr(p, a) = h + HeaderSize /\ BumpPtr(p, a) \in Nat
             /\ q.hdr[h].magic /\ q.hdr[h].size = AlignUp(size, a)
             /\ q.bump = h + HeaderSize + AlignUp(size, a)
             /\ \A x \in Region : x < p.bump => q.hdr[x] = p.hdr[x]
             /\ q.freeList = p.freeList /\ q.numFrees = p.numFrees
             /\ q.numAllocs = p.numAllocs + 1
<1> USE RegionAssumption, HeaderSizeAssumption, RequestAssumption
<1> DEFINE ptr == BumpPtr(p, a)
           h == ptr - HeaderSize
           sz == AlignUp(size, a)
           end == BumpEnd(p, size, a)
           m == PutHeader(p.hdr, h, sz)
           q == Bump(p, size, a)
<1>1. p.bump \in Base .. Base + Size /\ p.hdr \in [Region -> HeaderWord]
      /\ p.allocated \in Nat /\ p.numAllocs \in Nat
  BY DEF PoolType
<1>2. ptr \in Nat /\ ptr >= p.bump + HeaderSize
  BY <1>1, AlignUpFacts DEF BumpPtr
<1>3. sz \in Nat /\ sz >= size
  BY AlignUpFacts
<1>4. end = ptr + sz /\ end <= Base + Size
  BY DEF BumpEnd
<1> HIDE DEF ptr, sz, end
<1>5. h \in Region /\ h \in Nat /\ h >= p.bump /\ ptr = h + HeaderSize
      /\ end \in Base .. Base + Size /\ end - p.bump \in Nat
  <2> HIDE DEF m, q
  <2>1. h \in Int /\ ptr = h + HeaderSize /\ h >= p.bump
    BY <1>1, <1>2
  <2>2. end \in Nat /\ end >= ptr + 1
    BY <1>2, <1>3, <1>4
  <2> HIDE DEF h
  <2>3. h >= Base /\ h <= Base + Size - 1
    BY <1>1, <1>4, <2>1, <2>2
  <2>4. end >= p.bump
    BY <1>1, <2>1, <2>2
  <2> QED BY <1>1, <1>4, <2>1, <2>2, <2>3, <2>4 DEF Region
<1> HIDE DEF h
<1>6. /\ m \in [Region -> HeaderWord]
      /\ m[h].magic /\ m[h].size = sz
      /\ \A x \in Region : x < p.bump => m[x] = p.hdr[x]
  <2>1. [magic |-> TRUE, size |-> sz] \in HeaderWord /\ Junk \in HeaderWord
    BY <1>3 DEF HeaderWord, Junk
  <2>2. m = [x \in Region |-> IF x = h THEN [magic |-> TRUE, size |-> sz]
                              ELSE IF x \in h .. h + HeaderSize - 1 THEN Junk
                              ELSE p.hdr[x]]
    BY <1>1 DEF PutHeader
  <2>3. ASSUME NEW x \in Region, x < p.bump
        PROVE  x # h /\ x \notin h .. h + HeaderSize - 1
    BY <1>1, <1>5, <2>3 DEF Region
  <2>4. m[h] = [magic |-> TRUE, size |-> sz]
    BY <1>5, <2>2
  <2>5. \A x \in Region : m[x] \in HeaderWord
    <3> HIDE DEF m
    <3> QED BY <1>1, <2>1, <2>2, Zenon
  <2>6. m = [x \in Region |-> m[x]]
    BY <2>2
  <2> HIDE DEF m
  <2>7. m \in [Region -> HeaderWord]
    BY <2>5, <2>6
  <2>8. \A x \in Region : x < p.bump => m[x] = p.hdr[x]
    BY <2>2, <2>3, Zenon
  <2>9. m[h].magic /\ m[h].size = sz
    BY <2>4
  <2> QED BY <2>7, <2>8, <2>9
<1>7. p.numAllocs + 1 \in Nat /\ p.allocated + (end - p.bump) \in Nat
  BY <1>1, <1>5
<1>8. q = [p EXCEPT !.hdr = m, !.bump = end,
                    !.allocated = p.allocated + (end - p.bump),
                    !.numAllocs = p.numAllocs + 1]
  BY DEF Bump, ptr, sz, end, h
<1> HIDE DEF m, q
<1>9. /\ q \in PoolType /\ q.hdr = m /\ q.bump = end
      /\ q.freeList = p.freeList /\ q.numFrees = p.numFrees
      /\ q.numAllocs = p.numAllocs + 1
  BY <1>5, <1>6, <1>7, <1>8, Zenon DEF PoolType
<1>10. q.bump = h + HeaderSize + sz
  BY <1>4, <1>5, <1>9
<1> QED
  BY <1>2, <1>5, <1>6, <1>9, <1>10 DEF q, h, sz, ptr

\* A freed block goes to the head of the list, and only its magic changes.
LEMMA PushFreeEffect ==
  ASSUME NEW p \in PoolType, NEW h \in Region
  PROVE  LET q == PushFree(p, h)
         IN  /\ q \in PoolType
             /\ q.freeList = <<h>> \o p.freeList
             /\ q.hdr = SetMagic(p.hdr, h, FALSE)
             /\ q.bump = p.bump /\ q.numAllocs = p.numAllocs
             /\ q.numFrees = p.numFrees + 1
<1> DEFINE q == PushFree(p, h)
           n == IF p.allocated >= BlockSize(p, h) THEN p.allocated - BlockSize(p, h)
                ELSE p.allocated
<1>1. p.freeList \in Seq(Region) /\ p.hdr \in [Region -> HeaderWord]
      /\ p.allocated \in Nat /\ p.numFrees \in Nat
  BY DEF PoolType
<1>2. SetMagic(p.hdr, h, FALSE) \in [Region -> HeaderWord]
  BY <1>1, SetMagicEffect, Zenon
<1>3. n \in Nat
  <2>1. p.hdr[h] \in HeaderWord BY <1>1
  <2> QED BY <1>1, <2>1, HeaderSizeAssumption DEF BlockSize, HeaderWord
<1>4. <<h>> \o p.freeList \in Seq(Region) /\ p.numFrees + 1 \in Nat
  BY <1>1
<1>5. q = [p EXCEPT !.hdr = SetMagic(p.hdr, h, FALSE),
                    !.freeList = <<h>> \o p.freeList,
                    !.allocated = n, !.numFrees = p.numFrees + 1]
  BY DEF PushFree
<1> HIDE DEF q, n
<1>6. /\ q \in PoolType
      /\ q.freeList = <<h>> \o p.freeList
      /\ q.hdr = SetMagic(p.hdr, h, FALSE)
      /\ q.bump = p.bump /\ q.numAllocs = p.numAllocs
      /\ q.numFrees = p.numFrees + 1
  BY <1>2, <1>3, <1>4, <1>5, Zenon DEF PoolType
<1> QED BY <1>6 DEF q
-----------------------------------------------------------------------------
(* tvm_dsp_memory_pool_alloc and _free keep the invariant. *)

\* A block taken off the free list changes hands and keeps its place.
LEMMA ReuseStep ==
  ASSUME IInv, NEW size \in Nat \ {0}, NEW a \in Alignments,
         NEW i \in FitIndices(pool, size, a),
         pool' = Reuse(pool, i),
         live' = live \cup {[ptr |-> ReusePtr(pool, i, a), size |-> size]}
  PROVE  IInv'
<1> USE RegionAssumption, HeaderSizeAssumption, RequestAssumption
<1> DEFINE h == pool.freeList[i]
           new == [ptr |-> h + HeaderSize, size |-> size]
<1>1. /\ i \in 1 .. Len(pool.freeList) /\ pool \in PoolType
      /\ pool.freeList \in Seq(Region) /\ pool.hdr \in [Region -> HeaderWord]
      /\ pool.numAllocs \in Nat /\ pool.numFrees \in Nat
      /\ \A j, k \in 1 .. Len(pool.freeList) : j # k => pool.freeList[j] # pool.freeList[k]
  BY Zenon DEF IInv, TypeOK, BlocksTile, PoolType, FitIndices
<1>2. h \in FreeHeaders /\ h \in Headers /\ h \in Region /\ h \in Nat
  BY <1>1, BlockFacts DEF FreeHeaders, Headers
<1>3. AlignUp(h + HeaderSize, a) = h + HeaderSize
  BY <1>2 DEF IInv, BlocksTile
<1>4. pool.hdr[h].size \in Nat /\ pool.hdr[h].size >= size
  <2>1. BlockSize(pool, h) >= HeaderSize + AlignUp(size, a) + ((h + HeaderSize) - (h + HeaderSize))
    BY <1>3 DEF FitIndices, Fits
  <2>2. AlignUp(size, a) \in Nat /\ AlignUp(size, a) >= size
    BY AlignUpFacts
  <2>3. pool.hdr[h].size \in Nat /\ BlockSize(pool, h) = pool.hdr[h].size + HeaderSize
    BY <1>2, BlockFacts
  <2> QED BY <1>2, <2>1, <2>2, <2>3
<1>5. live' = live \cup {new}
  BY <1>3 DEF ReusePtr
<1>6. /\ pool' \in PoolType
      /\ pool'.freeList = RemoveNth(pool.freeList, i)
      /\ pool'.hdr = SetMagic(pool.hdr, h, TRUE)
      /\ pool'.bump = pool.bump /\ pool'.numFrees = pool.numFrees
      /\ pool'.numAllocs = pool.numAllocs + 1
  BY <1>1, ReuseEffect, Zenon
<1> HIDE DEF h
<1>7. /\ \A x \in Region : pool'.hdr[x].size = pool.hdr[x].size
      /\ \A x \in Region : x # h => pool'.hdr[x] = pool.hdr[x]
      /\ pool'.hdr[h].magic
  <2> DEFINE m == SetMagic(pool.hdr, h, TRUE)
  <2>1. /\ m[h].magic = TRUE /\ m[h].size = pool.hdr[h].size
        /\ \A x \in Region : x # h => m[x] = pool.hdr[x]
    <3>1. pool.hdr \in [Region -> HeaderWord] /\ h \in Region
      BY <1>1, <1>2
    <3> QED BY <3>1, SetMagicEffect, Zenon
  <2> HIDE DEF m
  <2>2. \A x \in Region : m[x].size = pool.hdr[x].size
    <3> TAKE x \in Region
    <3>1. CASE x = h BY <2>1, <3>1
    <3>2. CASE x # h BY <2>1, <3>2
    <3> QED BY <3>1, <3>2
  <2> QED BY <1>6, <2>1, <2>2, Zenon DEF m
<1>8. /\ FreeHeaders' = FreeHeaders \ {h}
      /\ \A j, k \in 1 .. Len(pool'.freeList) : j # k => pool'.freeList[j] # pool'.freeList[k]
  <2> DEFINE s == pool.freeList
             r == RemoveNth(s, i)
  <2>1. /\ {r[j] : j \in 1 .. Len(r)} = {s[j] : j \in 1 .. Len(s)} \ {s[i]}
        /\ \A j, k \in 1 .. Len(r) : j # k => r[j] # r[k]
    BY <1>1, RemoveNthFacts, ZenonT(60)
  <2>2. FreeHeaders' = {r[j] : j \in 1 .. Len(r)}
    BY <1>6 DEF FreeHeaders
  <2>3. FreeHeaders \ {h} = {s[j] : j \in 1 .. Len(s)} \ {s[i]}
    BY DEF FreeHeaders, h
  <2>4. pool'.freeList = r
    BY <1>6
  <2> HIDE DEF r, s
  <2> QED BY <2>1, <2>2, <2>3, <2>4, Zenon
<1>9. new.ptr = h + HeaderSize /\ new.size = size /\ new \in Block
  BY <1>2 DEF Block
<1> HIDE DEF new
<1>10. LiveHeaders' = LiveHeaders \cup {h}
  <2>1. new.ptr - HeaderSize = h
    BY <1>2, <1>9
  <2> QED BY <1>5, <2>1 DEF LiveHeaders
<1>11. Headers' = Headers
  BY <1>2, <1>8, <1>10 DEF Headers
<1>12. \A b \in live : b.ptr # new.ptr
  <2>1. \A b \in live : b.ptr - HeaderSize # h /\ b.ptr \in Nat
    BY <1>2, BlockFacts, Zenon DEF IInv, BlocksTile
  <2>2. new.ptr - HeaderSize = h
    BY <1>2, <1>9
  <2> HIDE DEF h, new
  <2> QED BY <2>1, <2>2
<1>13. IsFiniteSet(live') /\ Cardinality(live') = Cardinality(live) + 1 /\ Cardinality(live) \in Nat
  <2>1. new \notin live /\ IsFiniteSet(live)
    BY <1>12 DEF IInv, BlocksTile
  <2>2. IsFiniteSet(live \cup {new}) /\ Cardinality(live \cup {new}) = Cardinality(live) + 1
    BY <2>1, FS_AddElement, Zenon
  <2>3. Cardinality(live) \in Nat
    BY <2>1, FS_CardinalityType
  <2> QED BY <1>5, <2>2, <2>3, Zenon
<1>14. TypeOK'
  BY <1>2, <1>5, <1>6, <1>9 DEF IInv, TypeOK
<1>15. HeaderPrecedesData'
  <2> SUFFICES ASSUME NEW b \in live'
               PROVE  LET w == pool'.hdr[b.ptr - HeaderSize] IN w.magic /\ w.size >= b.size
    BY DEF HeaderPrecedesData
  <2>1. CASE b = new
    <3>1. b.ptr - HeaderSize = h /\ b.size = size
      BY <1>2, <1>9, <2>1
    <3> QED BY <1>2, <1>4, <1>7, <3>1
  <2>2. CASE b \in live
    <3>1. b.ptr - HeaderSize # h /\ b.ptr - HeaderSize \in Region
      BY <1>2, <2>2 DEF IInv, TypeOK, BlocksTile
    <3> QED BY <1>7, <2>2, <3>1 DEF IInv, BlocksTile, HeaderPrecedesData
  <2> QED BY <1>5, <2>1, <2>2
<1>16. \A x \in Headers : BlockSize(pool', x) = BlockSize(pool, x)
  BY <1>7, BlockFacts DEF BlockSize
<1>17. /\ \A x \in Headers' : x >= Base /\ x + BlockSize(pool', x) <= pool'.bump
       /\ \A x, y \in Headers' : x < y => x + BlockSize(pool', x) <= y
       /\ \A x \in Headers', c \in Alignments : AlignUp(x + HeaderSize, c) = x + HeaderSize
  BY <1>6, <1>11, <1>16 DEF IInv, BlocksTile
<1>18. /\ \A b \in live' : b.ptr - HeaderSize \notin FreeHeaders'
       /\ \A b, c \in live' : b.ptr = c.ptr => b = c
  <2>1. new.ptr - HeaderSize = h
    BY <1>2, <1>9
  <2> QED BY <1>5, <1>8, <1>12, <2>1 DEF IInv, BlocksTile
<1>19. pool'.numAllocs = pool'.numFrees + Cardinality(live') /\ pool'.numAllocs # pool'.numFrees
  <2>1. pool.numAllocs = pool.numFrees + Cardinality(live)
    BY DEF IInv, BlocksTile
  <2> QED BY <1>1, <1>6, <1>13, <2>1
<1> QED
  BY <1>8, <1>13, <1>14, <1>15, <1>17, <1>18, <1>19 DEF IInv, BlocksTile

\* A block carved from the bump region lies above every other one.
LEMMA BumpStep ==
  ASSUME IInv, OneAlignment, NEW size \in Nat \ {0}, NEW a \in Alignments,
         BumpEnd(pool, size, a) <= Base + Size,
         pool' = Bump(pool, size, a),
         live' = live \cup {[ptr |-> BumpPtr(pool, a), size |-> size]}
  PROVE  IInv'
<1> USE RegionAssumption, HeaderSizeAssumption, RequestAssumption
<1> DEFINE h == BumpPtr(pool, a) - HeaderSize
           new == [ptr |-> BumpPtr(pool, a), size |-> size]
<1>1. /\ pool \in PoolType /\ pool.bump \in Base .. Base + Size
      /\ pool.numAllocs \in Nat /\ pool.numFrees \in Nat
  BY DEF IInv, TypeOK, PoolType
<1>2. /\ pool' \in PoolType
      /\ h \in Region /\ h >= pool.bump
      /\ BumpPtr(pool, a) = h + HeaderSize /\ BumpPtr(pool, a) \in Nat
      /\ pool'.hdr[h].magic /\ pool'.hdr[h].size = AlignUp(size, a)
      /\ pool'.bump = h + HeaderSize + AlignUp(size, a)
      /\ \A x \in Region : x < pool.bump => pool'.hdr[x] = pool.hdr[x]
      /\ pool'.freeList = pool.freeList /\ pool'.numFrees = pool.numFrees
      /\ pool'.numAllocs = pool.numAllocs + 1
  <2> DEFINE q == Bump(pool, size, a)
  <2>1. LET k == BumpPtr(pool, a) - HeaderSize
        IN  /\ q \in PoolType
            /\ k \in Region /\ k >= pool.bump
            /\ BumpPtr(pool, a) = k + HeaderSize /\ BumpPtr(pool, a) \in Nat
            /\ q.hdr[k].magic /\ q.hdr[k].size = AlignUp(size, a)
            /\ q.bump = k + HeaderSize + AlignUp(size, a)
            /\ \A x \in Region : x < pool.bump => q.hdr[x] = pool.hdr[x]
            /\ q.freeList = pool.freeList /\ q.numFrees = pool.numFrees
            /\ q.numAllocs = pool.numAllocs + 1
    BY <1>1, BumpEffect, ZenonT(60)
  <2>2. pool' = q
    OBVIOUS
  <2> HIDE DEF q
  <2> QED BY <2>1, <2>2, Zenon
<1>3. /\ new.ptr = h + HeaderSize /\ new.size = size /\ new \in Block
      /\ live' = live \cup {new} /\ new.ptr - HeaderSize = h
  <2>1. new.ptr = BumpPtr(pool, a) /\ new.size = size
    OBVIOUS
  <2>2. new \in Block
    BY <1>2 DEF Block
  <2>3. new.ptr = h + HeaderSize /\ new.ptr - HeaderSize = h
    <3> HIDE DEF h, new
    <3>1. h \in Int BY <1>2 DEF Region
    <3> QED BY <1>2, <2>1, <3>1
  <2> QED BY <2>1, <2>2, <2>3
<1>4. AlignUp(size, a) \in Nat /\ AlignUp(size, a) >= size
  BY AlignUpFacts
<1>5. \A c \in Alignments : AlignUp(h + HeaderSize, c) = h + HeaderSize
  <2>1. pool.bump + HeaderSize \in Nat /\ a \in Nat \ {0}
    BY <1>1
  <2>2. AlignUp(BumpPtr(pool, a), a) = BumpPtr(pool, a)
    BY <2>1, AlignUpFacts DEF BumpPtr
  <2> QED BY <1>2, <2>2 DEF OneAlignment
<1> HIDE DEF h, new
<1>6. /\ FreeHeaders' = FreeHeaders /\ LiveHeaders' = LiveHeaders \cup {h}
      /\ Headers' = Headers \cup {h}
  BY <1>2, <1>3 DEF FreeHeaders, LiveHeaders, Headers
<1>7. ASSUME NEW x \in Headers
      PROVE  /\ x \in Region /\ x \in Nat /\ x < pool.bump /\ x < h
             /\ x + BlockSize(pool, x) <= pool.bump /\ BlockSize(pool, x) \in Nat
             /\ pool'.hdr[x] = pool.hdr[x] /\ BlockSize(pool', x) = BlockSize(pool, x)
  <2>1. /\ x \in Region /\ x \in Nat /\ pool.hdr[x].size \in Nat
        /\ BlockSize(pool, x) = pool.hdr[x].size + HeaderSize
        /\ x + BlockSize(pool, x) <= pool.bump
    BY BlockFacts, Zenon DEF IInv, BlocksTile
  <2>2. x < pool.bump /\ BlockSize(pool, x) \in Nat
    BY <1>1, <2>1
  <2>3. x < h
    BY <1>1, <1>2, <2>1, <2>2 DEF Region
  <2> QED BY <1>2, <2>1, <2>2, <2>3 DEF BlockSize
<1>8. BlockSize(pool', h) = AlignUp(size, a) + HeaderSize
  BY <1>2 DEF BlockSize
<1>9. h \in Nat /\ h >= Base
  BY <1>2 DEF Region
<1>10. /\ \A x \in Headers' : x >= Base /\ x + BlockSize(pool', x) <= pool'.bump
       /\ \A x, y \in Headers' : x < y => x + BlockSize(pool', x) <= y
       /\ \A x \in Headers', c \in Alignments : AlignUp(x + HeaderSize, c) = x + HeaderSize
  <2>1. ASSUME NEW x \in Headers'
        PROVE  x >= Base /\ x + BlockSize(pool', x) <= pool'.bump
    <3>1. CASE x = h
      BY <1>2, <1>4, <1>8, <1>9, <3>1
    <3>2. CASE x \in Headers
      <4>1. x >= Base BY <3>2 DEF IInv, BlocksTile
      <4> QED BY <1>1, <1>2, <1>4, <1>7, <1>9, <3>2, <4>1
    <3> QED BY <1>6, <3>1, <3>2
  <2>2. ASSUME NEW x \in Headers', NEW y \in Headers', x < y
        PROVE  x + BlockSize(pool', x) <= y
    <3>1. CASE x = h
      <4>1. y \in Headers \/ y = h BY <1>6
      <4>2. y \in Headers => y < h /\ y \in Nat
        BY <1>7
      <4> QED BY <1>9, <2>2, <3>1, <4>1, <4>2
    <3>2. CASE x \in Headers /\ y = h
      BY <1>1, <1>2, <1>7, <1>9, <3>2
    <3>3. CASE x \in Headers /\ y \in Headers
      BY <1>7, <2>2, <3>3, Zenon DEF IInv, BlocksTile
    <3> QED BY <1>6, <3>1, <3>2, <3>3
  <2>3. \A x \in Headers', c \in Alignments : AlignUp(x + HeaderSize, c) = x + HeaderSize
    BY <1>5, <1>6 DEF IInv, BlocksTile
  <2> QED BY <2>1, <2>2, <2>3
<1>11. \A b \in live : b.ptr - HeaderSize \in Headers /\ b.ptr \in Nat /\ b.ptr # new.ptr
  <2> TAKE b \in live
  <2>1. b.ptr - HeaderSize \in Headers /\ b.ptr \in Nat
    BY BlockFacts
  <2>2. b.ptr - HeaderSize < h
    BY <1>7, <2>1
  <2> QED BY <1>3, <1>9, <2>1, <2>2
<1>12. IsFiniteSet(live') /\ Cardinality(live') = Cardinality(live) + 1 /\ Cardinality(live) \in Nat
  <2>1. new \notin live /\ IsFiniteSet(live)
    BY <1>11 DEF IInv, BlocksTile
  <2> QED BY <1>3, <2>1, FS_AddElement, FS_CardinalityType
<1>13. TypeOK'
  BY <1>2, <1>3 DEF IInv, TypeOK
<1>14. HeaderPrecedesData'
  <2> SUFFICES ASSUME NEW b \in live'
               PROVE  LET w == pool'.hdr[b.ptr - HeaderSize] IN w.magic /\ w.size >= b.size
    BY DEF HeaderPrecedesData
  <2>1. CASE b = new
    BY <1>2, <1>3, <1>4, <2>1
  <2>2. CASE b \in live
    BY <1>7, <1>11, <2>2, Zenon DEF IInv, BlocksTile, HeaderPrecedesData
  <2> QED BY <1>3, <2>1, <2>2
<1>15. /\ \A b \in live' : b.ptr - HeaderSize \notin FreeHeaders'
       /\ \A b, c \in live' : b.ptr = c.ptr => b = c
  <2>1. h \notin Headers
    BY <1>7, <1>9
  <2>2. h \notin FreeHeaders
    BY <2>1 DEF Headers
  <2> QED BY <1>3, <1>6, <1>11, <2>2 DEF IInv, BlocksTile
<1>16. pool'.numAllocs = pool'.numFrees + Cardinality(live') /\ pool'.numAllocs # pool'.numFrees
  <2>1. pool.numAllocs = pool.numFrees + Cardinality(live)
    BY DEF IInv, BlocksTile
  <2> QED BY <1>1, <1>2, <1>12, <2>1
<1>17. \A j, k \in 1 .. Len(pool'.freeList) : j # k => pool'.freeList[j] # pool'.freeList[k]
  <2>1. \A j, k \in 1 .. Len(pool.freeList) : j # k => pool.freeList[j] # pool.freeList[k]
    BY DEF IInv, BlocksTile
  <2>2. pool'.freeList = pool.freeList
    BY <1>2
  <2> QED BY <2>1, <2>2
<1> QED
  BY <1>10, <1>12, <1>13, <1>14, <1>15, <1>16, <1>17 DEF IInv, BlocksTile

\* A freed block goes back to the list, or empties the pool if it was the last.
LEMMA FreeStep ==
  ASSUME IInv, NEW b \in live, Free(b)
  PROVE  IInv'
<1> USE RegionAssumption, HeaderSizeAssumption
<1> DEFINE h == b.ptr - HeaderSize
           q == PushFree(pool, h)
<1>1. /\ pool \in PoolType /\ pool.hdr \in [Region -> HeaderWord]
      /\ pool.freeList \in Seq(Region)
      /\ pool.numAllocs \in Nat /\ pool.numFrees \in Nat
      /\ pool.numAllocs = pool.numFrees + Cardinality(live)
      /\ h \in Region /\ h \in Headers /\ h \notin FreeHeaders
      /\ pool.hdr[h].magic /\ b.ptr \in Nat
  BY BlockFacts DEF IInv, TypeOK, BlocksTile, PoolType, HeaderPrecedesData
<1>2. pool' = AutoReset(q) /\ live' = live \ {b}
  BY <1>1 DEF Free, PoolFree, Null
<1> HIDE DEF h
<1>3. /\ q \in PoolType
      /\ q.freeList = <<h>> \o pool.freeList
      /\ q.hdr = SetMagic(pool.hdr, h, FALSE)
      /\ q.bump = pool.bump /\ q.numAllocs = pool.numAllocs
      /\ q.numFrees = pool.numFrees + 1
  BY <1>1, PushFreeEffect, Zenon
<1> HIDE DEF q
<1>4. /\ IsFiniteSet(live') /\ Cardinality(live') \in Nat
      /\ Cardinality(live) = Cardinality(live') + 1
      /\ q.numAllocs = q.numFrees + Cardinality(live')
  <2>1. IsFiniteSet(live) BY DEF IInv, BlocksTile
  <2>2. IsFiniteSet(live') /\ Cardinality(live') \in Nat /\ Cardinality(live) \in Nat
        /\ Cardinality(live') = Cardinality(live) - 1
    BY <1>2, <2>1, FS_RemoveElement, FS_CardinalityType
  <2>3. /\ pool.numFrees \in Nat /\ q.numAllocs = pool.numFrees + Cardinality(live)
        /\ q.numFrees = pool.numFrees + 1
    BY <1>1, <1>3
  <2> QED BY <2>2, <2>3
<1>5. CASE q.numFrees = q.numAllocs
  <2>1. live' = {}
    <3>1. Cardinality(live') = 0
      BY <1>1, <1>3, <1>4, <1>5
    <3> QED BY <1>4, <3>1, FS_EmptySet
  <2>2. pool' = [q EXCEPT !.freeList = <<>>, !.bump = q.base, !.allocated = 0]
    BY <1>2, <1>5 DEF AutoReset
  <2>3. q.base = Base /\ <<>> \in Seq(Region) /\ Base \in Base .. Base + Size
    BY <1>3 DEF PoolType
  <2>4. /\ pool' \in PoolType /\ pool'.freeList = <<>> /\ pool'.bump = Base
        /\ pool'.numFrees = q.numFrees /\ pool'.numAllocs = q.numAllocs
    <3>1. 0 \in Nat OBVIOUS
    <3> QED BY <1>3, <2>2, <2>3, <3>1, Zenon DEF PoolType
  <2>5. FreeHeaders' = {} /\ LiveHeaders' = {} /\ Headers' = {}
    BY <2>1, <2>4 DEF FreeHeaders, LiveHeaders, Headers
  <2>6. pool'.numAllocs = pool'.numFrees + Cardinality(live')
    BY <1>4, <2>4
  <2>7. TypeOK'
    BY <2>1, <2>4 DEF TypeOK
  <2>8. \A j, k \in 1 .. Len(pool'.freeList) : j # k => pool'.freeList[j] # pool'.freeList[k]
    BY <2>4
  <2> QED
    BY <1>4, <2>1, <2>4, <2>5, <2>6, <2>7, <2>8, Zenon
    DEF IInv, BlocksTile, HeaderPrecedesData
<1>6. CASE q.numFrees # q.numAllocs
  <2>1. pool' = q
    BY <1>2, <1>6 DEF AutoReset
  <2>2. /\ \A x \in Region : pool'.hdr[x].size = pool.hdr[x].size
        /\ \A x \in Region : x # h => pool'.hdr[x] = pool.hdr[x]
    <3>1. \E c : pool'.hdr = SetMagic(pool.hdr, h, c)
      BY <1>3, <2>1, Zenon
    <3>2. PICK c : pool'.hdr = SetMagic(pool.hdr, h, c)
      BY <3>1
    <3> QED BY <1>1, <3>2, SetMagicKeeps
  <2>3. /\ FreeHeaders' = FreeHeaders \cup {h}
        /\ \A j, k \in 1 .. Len(pool'.freeList) : j # k => pool'.freeList[j] # pool'.freeList[k]
    <3> DEFINE s == pool.freeList
               r == <<h>> \o s
    <3>1. s \in Seq(Region) /\ \A j \in 1 .. Len(s) : s[j] # h
      BY <1>1 DEF FreeHeaders
    <3>2. \A j, k \in 1 .. Len(s) : j # k => s[j] # s[k]
      BY DEF IInv, BlocksTile
    <3>3. pool'.freeList = r
      BY <1>3, <2>1
    <3>4. FreeHeaders = {s[j] : j \in 1 .. Len(s)} /\ FreeHeaders' = {r[j] : j \in 1 .. Len(r)}
      BY <3>3 DEF FreeHeaders
    <3> HIDE DEF s
    <3>5. Len(r) = Len(s) + 1 /\ r[1] = h /\ \A j \in 2 .. Len(r) : r[j] = s[j - 1]
      BY <1>1, <3>1
    <3>6. Len(s) \in Nat BY <3>1
    <3> HIDE DEF r
    <3>7. \A j, k \in 1 .. Len(r) : j # k => r[j] # r[k]
      BY <3>1, <3>2, <3>5, <3>6
    <3>8. \A j \in 1 .. Len(s) : r[j + 1] = s[j] /\ j + 1 \in 1 .. Len(r)
      BY <3>5, <3>6
    <3>9. \A j \in 1 .. Len(r) : r[j] = h \/ (j - 1 \in 1 .. Len(s) /\ r[j] = s[j - 1])
      BY <3>5, <3>6
    <3>10. 1 \in 1 .. Len(r)
      BY <3>5, <3>6
    <3>11. {r[j] : j \in 1 .. Len(r)} = {s[j] : j \in 1 .. Len(s)} \cup {h}
      <4>1. ASSUME NEW j \in 1 .. Len(r)
            PROVE  r[j] \in {s[k] : k \in 1 .. Len(s)} \cup {h}
        BY <3>9
      <4>2. ASSUME NEW j \in 1 .. Len(s) PROVE s[j] \in {r[k] : k \in 1 .. Len(r)}
        BY <3>8, Zenon
      <4>3. h \in {r[k] : k \in 1 .. Len(r)}
        BY <3>5, <3>10
      <4> QED BY <4>1, <4>2, <4>3
    <3> QED BY <3>3, <3>4, <3>7, <3>11, Zenon
  <2>4. \A c \in live' : c \in live /\ c.ptr - HeaderSize # h /\ c.ptr - HeaderSize \in Region
    <3> TAKE c \in live'
    <3>1. c \in live /\ c # b BY <1>2, Zenon
    <3>2. c.ptr \in Nat /\ c.ptr # b.ptr
      BY <3>1, BlockFacts DEF IInv, BlocksTile
    <3>3. c.ptr - HeaderSize # h
      BY <1>1, <3>2 DEF h
    <3> QED BY <3>1, <3>3 DEF IInv, TypeOK
  <2>5. Headers' \subseteq Headers
    <3>1. LiveHeaders' \subseteq LiveHeaders
      BY <2>4 DEF LiveHeaders
    <3> QED BY <1>1, <2>3, <3>1 DEF Headers
  <2>6. \A x \in Headers : BlockSize(pool', x) = BlockSize(pool, x)
    BY <2>2, BlockFacts DEF BlockSize
  <2>7. /\ \A x \in Headers' : x >= Base /\ x + BlockSize(pool', x) <= pool'.bump
        /\ \A x, y \in Headers' : x < y => x + BlockSize(pool', x) <= y
        /\ \A x \in Headers', c \in Alignments : AlignUp(x + HeaderSize, c) = x + HeaderSize
    BY <1>3, <2>1, <2>5, <2>6, Zenon DEF IInv, BlocksTile
  <2>8. HeaderPrecedesData'
    BY <2>2, <2>4 DEF IInv, BlocksTile, HeaderPrecedesData
  <2>9. TypeOK'
    BY <1>3, <2>1, <2>4, Zenon DEF IInv, TypeOK
  <2>10. /\ \A c \in live' : c.ptr - HeaderSize \notin FreeHeaders'
         /\ \A c, d \in live' : c.ptr = d.ptr => c = d
    BY <2>3, <2>4 DEF IInv, BlocksTile
  <2>11. pool'.numAllocs = pool'.numFrees + Cardinality(live') /\ pool'.numAllocs # pool'.numFrees
    BY <1>4, <1>6, <2>1, Zenon
  <2> QED
    BY <1>4, <2>3, <2>7, <2>8, <2>9, <2>10, <2>11 DEF IInv, BlocksTile
<1> QED BY <1>5, <1>6

\* The invariant mentions nothing but the pool and the blocks held.
LEMMA StutterStep ==
  ASSUME IInv, UNCHANGED vars
  PROVE  IInv'
BY DEF vars, IInv, TypeOK, BlocksTile, HeaderPrecedesData, Headers, FreeHeaders,
       LiveHeaders

\* The addresses the bump path computes are numbers.
LEMMA BumpIsNat ==
  ASSUME NEW p, p.bump \in Nat, NEW size \in Nat, NEW a \in Nat \ {0}
  PROVE  BumpPtr(p, a) \in Nat /\ BumpEnd(p, size, a) \in Nat
<1>1. p.bump + HeaderSize \in Nat
  BY HeaderSizeAssumption
<1>2. AlignUp(p.bump + HeaderSize, a) \in Nat /\ AlignUp(size, a) \in Nat
  BY <1>1, AlignUpFacts
<1> QED BY <1>2 DEF BumpPtr, BumpEnd

\* An allocation keeps the invariant, whether it reuses a block, carves one or
\* fails.
LEMMA AllocStep ==
  ASSUME IInv, OneAlignment, NEW size \in Sizes, NEW a \in Alignments, Alloc(size, a)
  PROVE  IInv'
<1> USE RegionAssumption, HeaderSizeAssumption, RequestAssumption
<1> DEFINE r == PoolAlloc(pool, size, a)
<1>1. /\ pool' = r.pool
      /\ r.ptr = Null => live' = live
      /\ r.ptr # Null => live' = live \cup {[ptr |-> r.ptr, size |-> size]}
  BY DEF Alloc
<1>2. pool.base = Base /\ pool.size = Size /\ pool.bump \in Nat
      /\ Len(pool.freeList) \in Nat
  BY DEF IInv, TypeOK, PoolType
<1>3. CASE r = [pool |-> pool, ptr |-> Null]
  <2>1. UNCHANGED vars
    BY <1>1, <1>3 DEF vars
  <2> QED BY <2>1, StutterStep
<1>4. CASE size # 0 /\ FitIndices(pool, size, a) # {} /\ size <= pool.size
  <2> DEFINE i == FirstFit(pool, size, a)
  <2>1. i \in FitIndices(pool, size, a)
    BY <1>2, <1>4, FirstFitFits
  <2>2. r = [pool |-> Reuse(pool, i), ptr |-> ReusePtr(pool, i, a)]
    <3>1. ~ (size = 0 \/ size > pool.size)
      BY <1>2, <1>4
    <3> QED BY <1>4, <3>1, Zenon DEF PoolAlloc
  <2> HIDE DEF i
  <2>3. pool.freeList[i] \in Nat
    <3>1. i \in 1 .. Len(pool.freeList)
      BY <2>1 DEF FitIndices
    <3> QED BY <3>1, BlockFacts DEF Headers, FreeHeaders
  <2>4. ReusePtr(pool, i, a) # Null
    <3>1. pool.freeList[i] + HeaderSize \in Nat /\ a \in Nat \ {0}
      BY <2>3
    <3>2. ReusePtr(pool, i, a) \in Nat
      BY <3>1, AlignUpFacts DEF ReusePtr
    <3> QED BY <3>2 DEF Null
  <2>5. /\ pool' = Reuse(pool, i)
        /\ live' = live \cup {[ptr |-> ReusePtr(pool, i, a), size |-> size]}
    <3> HIDE DEF r
    <3>1. r.pool = Reuse(pool, i) /\ r.ptr = ReusePtr(pool, i, a)
      BY <2>2
    <3> QED BY <1>1, <2>4, <3>1
  <2>6. size \in Nat \ {0}
    BY <1>4
  <2> QED BY <2>1, <2>5, <2>6, ReuseStep
<1>5. CASE /\ size # 0 /\ size <= pool.size /\ FitIndices(pool, size, a) = {}
           /\ BumpEnd(pool, size, a) <= Base + Size
  <2>1. size \in Nat \ {0} /\ ~ (size = 0 \/ size > pool.size)
    BY <1>2, <1>5
  <2>2. BumpPtr(pool, a) \in Nat /\ BumpEnd(pool, size, a) \in Nat
    BY <1>2, <2>1, BumpIsNat
  <2>3. ~ (BumpEnd(pool, size, a) > pool.base + pool.size)
    BY <1>2, <1>5, <2>2
  <2>4. r = [pool |-> Bump(pool, size, a), ptr |-> BumpPtr(pool, a)]
    BY <1>5, <2>1, <2>3, Zenon DEF PoolAlloc
  <2>5. BumpPtr(pool, a) # Null
    BY <2>2 DEF Null
  <2>6. /\ pool' = Bump(pool, size, a)
        /\ live' = live \cup {[ptr |-> BumpPtr(pool, a), size |-> size]}
    <3> HIDE DEF r
    <3>1. r.pool = Bump(pool, size, a) /\ r.ptr = BumpPtr(pool, a)
      BY <2>4
    <3> QED BY <1>1, <2>5, <3>1
  <2> QED BY <1>5, <2>1, <2>6, BumpStep
<1>6. \/ r = [pool |-> pool, ptr |-> Null]
      \/ size # 0 /\ FitIndices(pool, size, a) # {} /\ size <= pool.size
      \/ /\ size # 0 /\ size <= pool.size /\ FitIndices(pool, size, a) = {}
         /\ BumpEnd(pool, size, a) <= Base + Size
  <2>1. size = 0 \/ size > pool.size \/ (size # 0 /\ size <= pool.size)
    BY <1>2
  <2>2. ASSUME size # 0, size <= pool.size
        PROVE  BumpEnd(pool, size, a) > pool.base + pool.size
               \/ BumpEnd(pool, size, a) <= Base + Size
    <3>1. size \in Nat \ {0} BY <2>2
    <3>2. BumpEnd(pool, size, a) \in Nat
      BY <1>2, <3>1, BumpIsNat
    <3> QED BY <1>2, <3>2
  <2> QED BY <2>1, <2>2, Zenon DEF PoolAlloc
<1> QED BY <1>3, <1>4, <1>5, <1>6

-----------------------------------------------------------------------------
(* The theorems. *)

\* The blocks and the free list of a pool whose callers share one alignment
\* always tile the used part of its region, whatever the order of allocations,
\* frees, writes and resets.
THEOREM PoolInvariant ==
  ASSUME OneAlignment
  PROVE  Spec => [](TypeOK /\ BlocksTile)
<1>1. Init => IInv
  <2> SUFFICES ASSUME Init PROVE IInv
    OBVIOUS
  <2> USE RegionAssumption, HeaderSizeAssumption
  <2>1. PICK m \in [Region -> HeaderWord] : pool = PoolInit(Base, Size, m)
    BY MemoriesAssumption DEF Init, Region
  <2>2. /\ pool \in PoolType /\ pool.bump = Base /\ pool.freeList = <<>>
        /\ pool.numAllocs = 0 /\ pool.numFrees = 0
    BY <2>1 DEF PoolInit, PoolType
  <2>3. live = {} /\ FreeHeaders = {} /\ LiveHeaders = {}
    BY <2>2 DEF Init, FreeHeaders, LiveHeaders
  <2>4. IsFiniteSet(live) /\ Cardinality(live) = 0
    BY <2>3, FS_EmptySet
  <2> QED
    BY <2>2, <2>3, <2>4 DEF IInv, TypeOK, BlocksTile, Headers, HeaderPrecedesData
<1>2. IInv /\ [Next]_vars => IInv'
  <2> SUFFICES ASSUME IInv, [Next]_vars PROVE IInv'
    OBVIOUS
  <2>1. ASSUME NEW s \in Sizes, NEW a \in Alignments, Alloc(s, a) PROVE IInv'
    BY <2>1, AllocStep
  <2>2. ASSUME NEW b \in live, Free(b) PROVE IInv'
    BY <2>2, FreeStep
  <2>3. ASSUME NEW b \in live, Write(b) PROVE IInv'
    BY <2>3, WriteStep
  <2>4. ASSUME Reset PROVE IInv'
    <3>1. pool.hdr \in [Region -> HeaderWord] /\ pool.base = Base /\ pool.size = Size
      BY DEF IInv, TypeOK, PoolType
    <3>2. pool' = PoolInit(Base, Size, pool.hdr) /\ live' = {}
      BY <2>4, <3>1 DEF Reset, PoolReset
    <3> QED BY <3>1, <3>2, EmptyPool
  <2>5. ASSUME UNCHANGED vars PROVE IInv'
    BY <2>5, StutterStep
  <2> QED BY <2>1, <2>2, <2>3, <2>4, <2>5 DEF Next
<1>3. IInv => TypeOK /\ BlocksTile
  BY DEF IInv
<1> QED BY <1>1, <1>2, <1>3, PTL DEF Spec

\* Two holders of blocks of such a pool never share a unit of memory.
THEOREM PoolLiveDisjoint ==
  ASSUME OneAlignment
  PROVE  Spec => []LiveDisjoint
<1>1. TypeOK /\ BlocksTile => LiveDisjoint
  <2> SUFFICES ASSUME IInv, NEW b \in live, NEW c \in live, b # c
               PROVE  Extent(b) \cap Extent(c) = {}
    BY DEF IInv, LiveDisjoint
  <2> DEFINE h == b.ptr - HeaderSize
             k == c.ptr - HeaderSize
  <2>1. /\ h \in Headers /\ k \in Headers /\ h \in Nat /\ k \in Nat
        /\ b.ptr = h + HeaderSize /\ c.ptr = k + HeaderSize /\ b.ptr # c.ptr
        /\ b.size \in Nat /\ c.size \in Nat
        /\ pool.hdr[h].size \in Nat /\ pool.hdr[k].size \in Nat
        /\ pool.hdr[h].size >= b.size /\ pool.hdr[k].size >= c.size
    <3>1. b.ptr # c.ptr
      BY DEF IInv, BlocksTile
    <3>2. b.ptr \in Nat /\ c.ptr \in Nat /\ h \in Headers /\ k \in Headers
      BY BlockFacts
    <3>3. b.ptr = h + HeaderSize /\ c.ptr = k + HeaderSize
      BY <3>2, HeaderSizeAssumption
    <3> QED BY <3>1, <3>2, <3>3, BlockFacts
  <2> HIDE DEF h, k
  <2>2. /\ h < k => h + (pool.hdr[h].size + HeaderSize) <= k
        /\ k < h => k + (pool.hdr[k].size + HeaderSize) <= h
    BY <2>1, BlockFacts, Zenon DEF IInv, BlocksTile
  <2>3. b.ptr + b.size <= c.ptr \/ c.ptr + c.size <= b.ptr
    BY <2>1, <2>2, HeaderSizeAssumption
  <2>4. b.ptr \in Nat /\ c.ptr \in Nat
    BY <2>1, HeaderSizeAssumption
  <2> QED BY <2>1, <2>3, <2>4 DEF Extent
<1> QED BY <1>1, PoolInvariant, PTL

\* When every block of such a pool is freed, all of its memory is available
\* again from its base: nothing is lost to padding or to the free list.
THEOREM PoolEmptyMeansWhole ==
  ASSUME OneAlignment
  PROVE  Spec => []EmptyMeansWhole
<1>1. TypeOK /\ BlocksTile => EmptyMeansWhole
  <2> SUFFICES ASSUME TypeOK, BlocksTile, live = {}
               PROVE  pool.bump = Base /\ pool.freeList = <<>>
    BY DEF EmptyMeansWhole
  <2>1. Cardinality(live) = 0
    BY FS_EmptySet
  <2>2. pool.numAllocs = pool.numFrees
    BY <2>1 DEF TypeOK, PoolType, BlocksTile
  <2> QED BY <2>2 DEF BlocksTile
<1> QED BY <1>1, PoolInvariant, PTL
\* The descriptor of such a pool stays well formed: the bump pointer stays in the
\* region, every free block's header lies in it, and so does the header of every
\* block a caller holds.
THEOREM PoolTypes ==
  ASSUME OneAlignment
  PROVE  Spec => []TypeOK
BY PoolInvariant, PTL

\* The unit before each pointer a caller of such a pool holds is its block's
\* header, still marked and large enough: tvm_dsp_memory_pool_free never ignores
\* a block that was handed out.
THEOREM PoolHeaderPrecedesData ==
  ASSUME OneAlignment
  PROVE  Spec => []HeaderPrecedesData
<1>1. TypeOK /\ BlocksTile => HeaderPrecedesData
  BY DEF BlocksTile
<1> QED BY <1>1, PoolInvariant, PTL
=============================================================================
