-------------------------- MODULE ServiceTheorems --------------------------
(***************************************************************************)
(* The safety theorems of the compute service.  ComputeServiceProofs shows *)
(* that every step of a careful client keeps the service invariant, given  *)
(* the laws of counting and induction; this module proves those laws from  *)
(* the library and draws the temporal conclusions.                         *)
(***************************************************************************)
EXTENDS ComputeServiceProofs, FiniteSetTheorems, WellFoundedInduction

\* A careful client loads a module only when the table is empty, unless the
\* loader refuses for want of a slot.
LEMMA LoadEmpty ==
  ASSUME CountLaws, Control, CarefulClients, Cardinality(modules) < client.atOnce,
         Cardinality(modules) # MaxModules
  PROVE  modules = {}
<1> SUFFICES ASSUME modules # {} PROVE FALSE
  OBVIOUS
<1>1. PICK m \in modules : modules = {m} /\ MaxModules >= 1
  BY ControlParts
<1>2. Cardinality(modules) = 1
  BY <1>1, CountOne, Zenon
<1>3. client \in Clients /\ client.atOnce \in Nat /\ MaxModules \in Nat
  BY ControlParts, ServiceAssumption
<1>4. MaxModules <= 1 \/ client.atOnce <= 1
  BY <1>3, Careful
<1> QED BY <1>1, <1>2, <1>3, <1>4

\* The segments of a module that is loaded into an empty table.
SegFacts(A, r) ==
  /\ r.heap \in HeapType /\ r.ptrs \in Seq(Ptrs) /\ Len(r.ptrs) \in Nat
  /\ Distinct(r.ptrs) /\ Blocks(r.ptrs) \cap A = {}
  /\ HeapOK(r.heap, A \cup Blocks(r.ptrs), A \cup Blocks(r.ptrs), 0)
  /\ \A y \in Blocks(r.ptrs) : r.heap.owner[y] = Seg(nextHandle)
  /\ \A y \in A : r.heap.owner[y] = heap.owner[y]
  /\ r.heap.wm = heap.wm
  /\ Large => /\ A = {} /\ constants = <<>> /\ r.heap.pool.freeList = <<>>
              /\ r.heap.pool.bump <= Len(r.ptrs) * (HeaderSize + 1)

\* The allocations of dyn_loader_load.
LEMMA SegmentsOK ==
  ASSUME CountLaws, Control, NEW A, NEW C, Held(A, C), modules = {}
  PROVE  /\ C = A /\ HeapOK(heap, A, A, 0)
         /\ Distinct(constants) /\ Blocks(constants) \subseteq A
         /\ SegFacts(A, AllocMany(OomReset(heap), Seg(nextHandle), SegBlocks))
<1> DEFINE h == OomReset(heap)
           r == AllocMany(h, Seg(nextHandle), SegBlocks)
           R == Blocks(r.ptrs)
<1>1. /\ HeapOK(heap, A, C, 0) /\ (~ Large => C = A) /\ (Large => heap.pool.bump = 0)
      /\ Distinct(constants) /\ Blocks(constants) \subseteq A
  BY Zenon DEF Held, LargeLoaded
<1>2. Large => A = {} /\ C = {} /\ heap.pool.freeList = <<>>
  BY <1>1, EmptyPool
<1>3. C = A
  BY <1>1, <1>2, Zenon
<1>4. constants \in Seq(Ptrs) /\ nextHandle \in Nat
  BY ControlParts
<1>5. Large => constants = <<>>
  BY <1>1, <1>2, <1>4, ShortBlocks, Zenon
<1>6. /\ HeapOK(h, A, A, 0) /\ h.pool = heap.pool /\ h.owner = heap.owner
      /\ h.wm = heap.wm
  BY <1>1, <1>3, OomOK, Zenon DEF OomReset
<1> HIDE DEF h
<1>7. ManyFacts(h, A, A, 0, Seg(nextHandle), SegBlocks, r)
  BY <1>4, <1>6, TagTypes, ServiceAssumption, AllocManyOK, Zenon
<1> HIDE DEF r
<1>8. /\ r.heap \in HeapType /\ r.ptrs \in Seq(Ptrs)
      /\ Distinct(r.ptrs) /\ R \cap A = {} /\ HeapOK(r.heap, A \cup R, A \cup R, 0)
      /\ \A y \in R : r.heap.owner[y] = Seg(nextHandle)
      /\ \A y \in HeapUnits \ R : r.heap.owner[y] = h.owner[y]
      /\ r.heap.wm = h.wm
      /\ r.heap.pool.bump <= h.pool.bump + Len(r.ptrs) * (HeaderSize + 1)
      /\ h.pool.freeList = <<>> => r.heap.pool.freeList = <<>>
  BY <1>7, Zenon DEF ManyFacts
<1>9. \A y \in A : r.heap.owner[y] = heap.owner[y]
  <2>1. \A y \in A : y \in HeapUnits /\ y \notin R
    <3>1. A \subseteq Ptrs
      BY <1>6, HeapOKParts, Zenon
    <3> QED BY <1>8, <3>1, PtrsUnits, Zenon
  <2> QED BY <1>6, <1>8, <2>1, Zenon
<1>10. Len(r.ptrs) \in Nat
  <2>1. r.ptrs \in Seq(Ptrs)
    BY <1>8, Zenon
  <2> QED BY <2>1
<1>11. Large => r.heap.pool.bump <= Len(r.ptrs) * (HeaderSize + 1)
  <2> DEFINE b == r.heap.pool.bump
             e == Len(r.ptrs) * (HeaderSize + 1)
  <2>1. b \in 0 .. PoolUnits /\ e \in Nat
    <3>1. b \in 0 .. PoolUnits
      BY <1>8, HeapParts, Zenon
    <3>2. e \in Nat
      <4> DEFINE n == Len(r.ptrs)
      <4>1. n \in Nat /\ HeaderSize + 1 \in Nat
        BY <1>10, HeaderSizeAssumption
      <4> HIDE DEF n
      <4>2. n * (HeaderSize + 1) \in Nat
        BY <4>1
      <4> QED BY <4>2 DEF n
    <3> QED BY <3>1, <3>2, Zenon
  <2>2. Large => b <= 0 + e
    <3>1. b <= h.pool.bump + e /\ h.pool = heap.pool /\ (Large => heap.pool.bump = 0)
      BY <1>1, <1>6, <1>8, Zenon
    <3> HIDE DEF b, e
    <3> QED BY <3>1
  <2> HIDE DEF b, e
  <2>3. Large => b <= e
    BY <2>1, <2>2
  <2> QED BY <2>3 DEF b, e
<1>12. SegFacts(A, r)
  BY <1>2, <1>5, <1>6, <1>8, <1>9, <1>10, <1>11, Zenon DEF SegFacts
<1> QED BY <1>1, <1>3, <1>12, Zenon DEF r, h

\* handle_dyn_load when dyn_loader_load refuses.
LEMMA DynLoadFailsOK ==
  ASSUME CountLaws, ServiceInv, CarefulClients, NEW img, DynLoadFails(img),
         Cardinality(modules) < client.atOnce, UNCHANGED <<client, regs, inputs>>
  PROVE  ServiceInv'
<1> DEFINE r == AllocMany(OomReset(heap), Seg(nextHandle), SegBlocks)
           full == Cardinality(modules) = MaxModules
<1>1. /\ UNCHANGED <<modules, nextHandle, models, nextModelId, constants,
                     loaded, entry, embedded>>
      /\ heap' = IF full THEN OomReset(heap) ELSE OomReset(FreeAll(r.heap, r.ptrs))
  BY DEF DynLoadFails
<1>2. PICK A, C : Held(A, C)
  BY DEF ServiceInv
<1>3. Control
  BY DEF ServiceInv
<1>4. entry \in {0, loaded} /\ regs \in [of : {0, loaded}, objs : Seq(Ptrs)]
  BY <1>3, ControlParts, Zenon
<1>5. Control'
  BY <1>1, <1>3, <1>4, ControlKept, Zenon
<1>8. InputsHeld /\ OomReset(heap).owner = heap.owner
  <2> DEFINE w == IF LargeLoaded THEN heap.wm ELSE 0
  <2>1. HeapOK(heap, A, C, w)
    BY <1>2, Zenon DEF Held
  <2> HIDE DEF w
  <2> QED BY <2>1, OomOK, Zenon DEF ServiceInv, OomReset
<1>6. CASE full
  <2>1. Held(A, C)'
    BY <1>1, <1>2, <1>6, HeldSame, Zenon
  <2>2. InputsHeld'
    BY <1>1, <1>6, <1>8, InputsKept, Zenon
  <2> QED BY <1>5, <2>1, <2>2, InvFrom, Zenon
<1>7. CASE ~ full
  <2> DEFINE R == Blocks(r.ptrs)
             k == FreeAll(r.heap, r.ptrs)
  <2>1. modules = {}
    BY <1>3, <1>7, LoadEmpty, Zenon
  <2>2. /\ C = A /\ Blocks(constants) \subseteq A /\ SegFacts(A, r)
    BY <1>2, <1>3, <2>1, SegmentsOK, Zenon
  <2>3. heap' = OomReset(k)
    BY <1>1, <1>7
  <2> HIDE DEF r
  <2>4. /\ r.heap \in HeapType /\ r.ptrs \in Seq(Ptrs) /\ Distinct(r.ptrs)
        /\ R \cap A = {} /\ HeapOK(r.heap, A \cup R, A \cup R, 0)
        /\ \A y \in A : r.heap.owner[y] = heap.owner[y]
        /\ r.heap.wm = heap.wm
    BY <2>2, Zenon DEF SegFacts
  <2>5. Large => A = {} /\ r.heap.pool.bump <= Len(r.ptrs) * (HeaderSize + 1)
    BY <2>2 DEF SegFacts
  <2>6. k \in HeapType /\ k.owner = r.heap.owner /\ k.wm = r.heap.wm
    <3>1. FreeFrame(r.heap, k, R)
      BY <2>4, FreeAllFrame
    <3> QED BY <3>1 DEF FreeFrame
  <2>7. IF r.ptrs # <<>> /\ A = {} THEN HeapOK(k, {}, {}, 0) /\ k.pool.bump = 0
        ELSE HeapOK(k, A, A, 0)
    <3>1. \A x \in R : x >= 0
      <4>1. R \subseteq Ptrs
        BY <2>4 DEF Blocks
      <4> QED BY <4>1, HeaderSizeAssumption, PoolUnitsAssumption DEF Ptrs
    <3>2. (A \cup R) \ R = A /\ R \subseteq A \cup R
      BY <2>4
    <3> DEFINE X == A \cup R
    <3>3. /\ HeapOK(r.heap, X, X, 0) /\ r.ptrs \in Seq(Ptrs) /\ Distinct(r.ptrs)
          /\ Blocks(r.ptrs) \subseteq X /\ X \ Blocks(r.ptrs) = A
      BY <2>4, <3>2
    <3> HIDE DEF X
    <3>4. IF r.ptrs # <<>> /\ X \ Blocks(r.ptrs) = {}
          THEN HeapOK(k, {}, {}, 0) /\ k.pool.bump = 0
          ELSE HeapOK(k, X \ Blocks(r.ptrs), X \ Blocks(r.ptrs), 0)
      BY <3>1, <3>3, FreeAllOK, Zenon
    <3> QED BY <3>3, <3>4, Zenon
  <2>8. HeapOK(k, A, A, 0)
    BY <2>7, Zenon
  <2>9. Large => k.pool.bump = 0
    <3>1. CASE r.ptrs = <<>>
      <4>1. k = r.heap
        BY <2>4, <3>1, FreeNone
      <4>2. Len(r.ptrs) * (HeaderSize + 1) = 0
        BY <3>1, HeaderSizeAssumption
      <4>3. r.heap.pool.bump \in 0 .. PoolUnits
        BY <2>4, HeapParts
      <4>4. Large => r.heap.pool.bump = 0
        BY <2>5, <4>2, <4>3, PoolUnitsAssumption
      <4> QED BY <4>1, <4>4
    <3>2. CASE r.ptrs # <<>>
      BY <2>5, <2>7, <3>2, Zenon
    <3> QED BY <3>1, <3>2
  <2>10. /\ HeapOK(heap', A, A, 0) /\ heap'.pool = k.pool /\ heap'.owner = k.owner
         /\ heap'.wm = k.wm
    <3> HIDE DEF k
    <3> QED BY <2>3, <2>8, OomOK, Zenon DEF OomReset
  <2> HIDE DEF k
  <2>11. Held(A, A)'
    <3>1. HeapOK(heap', A, A, IF LargeLoaded THEN heap.wm ELSE 0)
      BY <2>1, <2>10, Zenon DEF LargeLoaded
    <3>2. Holds(heap, regs.objs, A, Work) /\ Apart(constants, regs.objs)
      BY <1>2, <2>2, Zenon DEF Held
    <3>3. \A y \in A : heap'.owner[y] = heap.owner[y]
      BY <2>4, <2>6, <2>10, Zenon
    <3>4. Holds(heap', regs'.objs, A, Work) /\ Apart(constants, regs'.objs)
      BY <3>2, <3>3, Zenon DEF Holds
    <3>5. \A y \in Blocks(constants) : heap'.owner[y] = heap.owner[y]
      BY <2>2, <3>3, Zenon
    <3>6. heap'.wm = heap.wm /\ UNCHANGED <<client, modules, models, constants>>
      BY <1>1, <2>4, <2>6, <2>10, Zenon
    <3>7. /\ Large /\ modules = {} => heap'.pool.bump = 0
          /\ LargeLoaded => \A p \in Blocks(regs'.objs) : p >= heap.wm
      BY <2>1, <2>9, <2>10, Zenon DEF LargeLoaded
    <3> QED BY <1>2, <2>1, <2>2, <3>1, <3>4, <3>5, <3>6, <3>7, HeldKept, ZenonT(60)
  <2>12. InputsHeld'
    <3>1. inputs' = Null
      BY <1>8, <2>1, Zenon DEF InputsHeld
    <3> QED BY <3>1, InputsGone
  <2> QED BY <1>5, <2>11, <2>12, InvFrom, Zenon
<1> QED BY <1>6, <1>7

\* With nothing on the free list, all allocations come from the bump pointer up.
LEMMA RaiseFloor ==
  ASSUME CountLaws, NEW h, NEW A, NEW C, NEW w, HeapOK(h, A, C, w), h.pool.freeList = <<>>
  PROVE  HeapOK(h, A, C, h.pool.bump) /\ \A p \in A : p < h.pool.bump
<1>1. h.pool.bump \in 0 .. PoolUnits
  BY HeapOKParts, Zenon
<1>2. h.pool.bump \in Nat /\ h.pool.bump <= h.pool.bump
  BY <1>1, PoolUnitsAssumption
<1>3. Floor(h, h.pool.bump)
  BY <1>2 DEF Floor
<1> QED BY <1>2, <1>3 DEF HeapOK, LiveOK

\* The heap, the constants and the embedded model once a module is in.
LoadFacts(A, r, B, hh, ks) ==
  LET R == Blocks(r.ptrs) IN
  /\ HeapOK(hh, B, B, 0) /\ R \subseteq B
  /\ \A y \in R : hh.owner[y] = Seg(nextHandle)
  /\ ks \in Seq(Ptrs) /\ Distinct(ks) /\ Blocks(ks) \subseteq B /\ Blocks(ks) \cap R = {}
  /\ \A p \in Blocks(ks) : hh.owner[p][1] = "const"
  /\ Large => /\ hh.pool.freeList = <<>>
              /\ hh.pool.bump <= (Len(r.ptrs) + ConstBlocks) * (HeaderSize + 1)

\* Without embedded weights.
LEMMA LoadPlain ==
  ASSUME Control, NEW A, NEW C, Held(A, C), Blocks(constants) \subseteq A,
         NEW r, SegFacts(A, r)
  PROVE  LoadFacts(A, r, A \cup Blocks(r.ptrs), r.heap, constants)
<1> DEFINE R == Blocks(r.ptrs)
<1>1. /\ HeapOK(r.heap, A \cup R, A \cup R, 0) /\ R \cap A = {}
      /\ \A y \in R : r.heap.owner[y] = Seg(nextHandle)
      /\ \A y \in A : r.heap.owner[y] = heap.owner[y]
  BY Zenon DEF SegFacts
<1>2. /\ constants \in Seq(Ptrs) /\ Distinct(constants)
      /\ \A p \in Blocks(constants) : heap.owner[p][1] = "const"
  BY ControlParts, Zenon DEF Held
<1>3. Large => /\ r.heap.pool.freeList = <<>>
               /\ r.heap.pool.bump <= (Len(r.ptrs) + ConstBlocks) * (HeaderSize + 1)
  <2> DEFINE b == r.heap.pool.bump
             n == Len(r.ptrs)
  <2>1. Large => r.heap.pool.freeList = <<>> /\ b <= n * (HeaderSize + 1)
    BY DEF SegFacts
  <2>2. n \in Nat /\ ConstBlocks \in Nat /\ HeaderSize + 1 \in Nat
    <3>1. n \in Nat
      BY Zenon DEF SegFacts
    <3>2. ConstBlocks \in Nat /\ HeaderSize \in Nat
      BY HeaderSizeAssumption, ServiceAssumption, Zenon
    <3> HIDE DEF n
    <3> QED BY <3>1, <3>2
  <2>3. b \in 0 .. PoolUnits
    <3>1. r.heap \in HeapType
      BY DEF SegFacts
    <3> QED BY <3>1, HeapParts, Zenon
  <2> HIDE DEF b, n
  <2>4. (n + ConstBlocks) * (HeaderSize + 1) =
          n * (HeaderSize + 1) + ConstBlocks * (HeaderSize + 1)
    BY <2>2
  <2>5. ConstBlocks * (HeaderSize + 1) \in Nat /\ n * (HeaderSize + 1) \in Nat
    BY <2>2
  <2>6. Large => b <= (n + ConstBlocks) * (HeaderSize + 1)
    BY <2>1, <2>3, <2>4, <2>5
  <2> QED BY <2>1, <2>6, Zenon DEF b, n
<1>4. /\ R \subseteq A \cup R /\ Blocks(constants) \subseteq A \cup R
      /\ Blocks(constants) \cap R = {}
      /\ \A p \in Blocks(constants) : r.heap.owner[p][1] = "const"
  BY <1>1, <1>2, Zenon
<1> QED BY <1>1, <1>2, <1>3, <1>4, Zenon DEF LoadFacts

\* With embedded weights: they may parse or not, and find a slot or not.
LEMMA LoadEmbedded ==
  ASSUME CountLaws, Control, NEW A, NEW C, Held(A, C), Blocks(constants) \subseteq A,
         NEW r, SegFacts(A, r), NEW state
  PROVE  LET w == LoadWeights(r.heap, state) IN
         /\ \E B : LoadFacts(A, r, B, w.heap, w.constants)
         /\ w.ok => /\ Cardinality(models) # MaxModels
                    /\ \A p \in Blocks(w.constants) : w.heap.owner[p] = Const(nextModelId)
<1> DEFINE R == Blocks(r.ptrs)
           w == LoadWeights(r.heap, state)
           K == Blocks(constants)
<1>1. /\ HeapOK(r.heap, A \cup R, A \cup R, 0) /\ R \cap A = {} /\ Len(r.ptrs) \in Nat
      /\ \A y \in R : r.heap.owner[y] = Seg(nextHandle)
      /\ \A y \in A : r.heap.owner[y] = heap.owner[y]
      /\ Large => /\ constants = <<>> /\ r.heap.pool.freeList = <<>>
                  /\ r.heap.pool.bump <= Len(r.ptrs) * (HeaderSize + 1)
  BY Zenon DEF SegFacts
<1>2. /\ constants \in Seq(Ptrs) /\ Distinct(constants) /\ nextModelId \in Nat
      /\ \A p \in K : heap.owner[p][1] = "const"
  BY ControlParts, Zenon DEF Held
<1>3. PICK B : WeightFacts(r.heap, A \cup R, B, w)
  <2> DEFINE X == A \cup R
  <2>1. HeapOK(r.heap, X, X, 0) /\ Blocks(constants) \subseteq X
    BY <1>1
  <2> HIDE DEF X
  <2>2. \E B : WeightFacts(r.heap, X, B, w)
    BY <1>2, <2>1, LoadWeightsOK, Zenon
  <2> QED BY <2>2, Zenon DEF X
<1> HIDE DEF w
<1>4. /\ w.constants \in Seq(Ptrs) /\ HeapOK(w.heap, B, B, 0)
      /\ (A \cup R) \ K \subseteq B /\ Distinct(w.constants)
      /\ Blocks(w.constants) \subseteq B
      /\ Blocks(w.constants) \cap ((A \cup R) \ K) = {}
      /\ \A y \in (A \cup R) \ K : w.heap.owner[y] = r.heap.owner[y]
      /\ \/ w.heap = r.heap /\ w.constants = constants /\ ~ w.ok
         \/ /\ Cardinality(models) # MaxModels
            /\ \A y \in Blocks(w.constants) : w.heap.owner[y] = Const(nextModelId)
      /\ constants = <<>> /\ r.heap.pool.freeList = <<>> =>
           /\ w.heap.pool.freeList = <<>>
           /\ w.heap.pool.bump <= r.heap.pool.bump + ConstBlocks * (HeaderSize + 1)
  BY <1>3, Zenon DEF WeightFacts
<1>5. R \subseteq (A \cup R) \ K
  BY <1>1, Zenon
<1>6. /\ R \subseteq B /\ \A y \in R : w.heap.owner[y] = Seg(nextHandle)
      /\ Blocks(w.constants) \cap R = {}
  BY <1>1, <1>4, <1>5, Zenon
<1>7. \A p \in Blocks(w.constants) : w.heap.owner[p][1] = "const"
  <2>1. CASE w.heap = r.heap /\ w.constants = constants
    BY <1>1, <1>2, <2>1, ZenonT(60)
  <2>2. CASE \A y \in Blocks(w.constants) : w.heap.owner[y] = Const(nextModelId)
    BY <2>2 DEF Const
  <2> QED BY <1>4, <2>1, <2>2, Zenon
<1>8. Large => /\ w.heap.pool.freeList = <<>>
               /\ w.heap.pool.bump <= (Len(r.ptrs) + ConstBlocks) * (HeaderSize + 1)
  <2> DEFINE b == w.heap.pool.bump
             a == r.heap.pool.bump
             n == Len(r.ptrs)
  <2>1. Large => /\ w.heap.pool.freeList = <<>> /\ a <= n * (HeaderSize + 1)
                 /\ b <= a + ConstBlocks * (HeaderSize + 1)
    BY <1>1, <1>4, Zenon
  <2>2. n \in Nat /\ ConstBlocks \in Nat /\ HeaderSize + 1 \in Nat
    <3>1. n \in Nat
      BY <1>1, Zenon
    <3>2. ConstBlocks \in Nat /\ HeaderSize \in Nat
      BY HeaderSizeAssumption, ServiceAssumption, Zenon
    <3> HIDE DEF n
    <3> QED BY <3>1, <3>2
  <2>3. a \in 0 .. PoolUnits /\ b \in 0 .. PoolUnits
    <3>1. r.heap \in HeapType /\ w.heap \in HeapType
      BY <1>3, Zenon DEF SegFacts, WeightFacts
    <3> QED BY <3>1, HeapParts, Zenon
  <2> HIDE DEF a, b, n
  <2>4. (n + ConstBlocks) * (HeaderSize + 1) =
          n * (HeaderSize + 1) + ConstBlocks * (HeaderSize + 1)
    BY <2>2
  <2>5. ConstBlocks * (HeaderSize + 1) \in Nat /\ n * (HeaderSize + 1) \in Nat
    BY <2>2
  <2>6. Large => b <= (n + ConstBlocks) * (HeaderSize + 1)
    BY <2>1, <2>3, <2>4, <2>5
  <2> QED BY <2>1, <2>6 DEF b, n
<1>9. LoadFacts(A, r, B, w.heap, w.constants)
  BY <1>4, <1>6, <1>7, <1>8, Zenon DEF LoadFacts
<1> QED BY <1>4, <1>9, Zenon DEF w

\* The rest of handle_dyn_load: the table's only module, its constants and the
\* embedded model's slot, and the watermark above them all.
LEMMA DynLoadSucceedsOK ==
  ASSUME CountLaws, ServiceInv, CarefulClients, NEW img \in client.images, DynLoadSucceeds(img),
         Cardinality(modules) < client.atOnce, nextHandle <= client.modules,
         nextModelId <= client.models, UNCHANGED <<client, regs, inputs>>
  PROVE  ServiceInv'
<1> DEFINE r == AllocMany(OomReset(heap), Seg(nextHandle), SegBlocks)
           w == LoadWeights(r.heap, img.weights)
           embeds == img.weights # "none"
           hh == IF embeds THEN w.heap ELSE r.heap
           ks == IF embeds THEN w.constants ELSE constants
           mo == [handle |-> nextHandle, image |-> img, segs |-> r.ptrs]
<1>1. /\ Cardinality(modules) < MaxModules /\ Len(r.ptrs) = SegBlocks
      /\ modules' = modules \cup {mo} /\ nextHandle' = nextHandle + 1
      /\ entry' = IF img.entry THEN nextHandle ELSE 0
      /\ loaded' = nextHandle
      /\ IF embeds /\ w.ok
         THEN /\ models' = AddModel(w, "module")
              /\ embedded' = nextModelId
              /\ nextModelId' = nextModelId + 1
         ELSE UNCHANGED <<models, embedded, nextModelId>>
      /\ constants' = ks
      /\ heap' = SaveWatermark(hh)
  BY Zenon DEF DynLoadSucceeds, HeapAfterLoad
<1>2. Control /\ OneModule /\ ModelTable
  BY DEF ServiceInv, Control
<1>3. PICK A, C : Held(A, C)
  BY DEF ServiceInv
<1>4. /\ client \in Clients /\ client.modules \in Nat /\ client.models \in Nat
      /\ nextHandle \in 1 .. client.modules + 1 /\ nextHandle \in Nat
  BY <1>2, ControlParts, Zenon DEF OneModule
<1>5. modules = {}
  <2>1. Cardinality(modules) # MaxModules
    <3>1. MaxModules \in Nat
      BY ServiceAssumption
    <3>2. \A c : c < MaxModules /\ c = MaxModules => FALSE
      BY <3>1
    <3> QED BY <1>1, <3>2, Zenon
  <2> QED BY <1>2, <2>1, LoadEmpty, Zenon
<1>6. loaded = 0 /\ entry = 0 /\ embedded = 0 /\ regs = NoRegs
  BY <1>2, <1>5, ControlParts, Zenon
<1>7. SegFacts(A, r) /\ Blocks(constants) \subseteq A
  BY <1>2, <1>3, <1>5, SegmentsOK, Zenon
<1> HIDE DEF r
<1>8. /\ \E B : LoadFacts(A, r, B, hh, ks)
      /\ embeds /\ w.ok =>
           /\ Cardinality(models) # MaxModels
           /\ \A p \in Blocks(ks) : hh.owner[p] = Const(nextModelId)
  <2>1. CASE embeds
    <3> HIDE DEF embeds
    <3>1. hh = w.heap /\ ks = w.constants
      BY <2>1
    <3>2. /\ \E B : LoadFacts(A, r, B, w.heap, w.constants)
          /\ w.ok => /\ Cardinality(models) # MaxModels
                     /\ \A p \in Blocks(w.constants) : w.heap.owner[p] = Const(nextModelId)
      BY <1>2, <1>3, <1>7, LoadEmbedded, Zenon
    <3> HIDE DEF w, hh, ks
    <3> QED BY <3>1, <3>2, Zenon
  <2>2. CASE ~ embeds
    <3> HIDE DEF embeds
    <3>1. hh = r.heap /\ ks = constants
      BY <2>2, Zenon
    <3>2. LoadFacts(A, r, A \cup Blocks(r.ptrs), r.heap, constants)
      BY <1>2, <1>3, <1>7, LoadPlain, Zenon
    <3> HIDE DEF w, hh, ks
    <3> QED BY <2>2, <3>1, <3>2, Zenon
  <2> QED BY <2>1, <2>2, Zenon
<1> HIDE DEF w, hh, ks, embeds
<1>9. PICK B : LoadFacts(A, r, B, hh, ks)
  BY <1>8
<1> DEFINE R == Blocks(r.ptrs)
<1>10. /\ HeapOK(hh, B, B, 0) /\ R \subseteq B
       /\ \A y \in R : hh.owner[y] = Seg(nextHandle)
       /\ ks \in Seq(Ptrs) /\ Distinct(ks) /\ Blocks(ks) \subseteq B /\ Blocks(ks) \cap R = {}
       /\ \A p \in Blocks(ks) : hh.owner[p][1] = "const"
       /\ Large => /\ hh.pool.freeList = <<>>
                   /\ hh.pool.bump <= (Len(r.ptrs) + ConstBlocks) * (HeaderSize + 1)
  BY <1>9, Zenon DEF LoadFacts
<1>11. r.ptrs \in Seq(Ptrs) /\ Distinct(r.ptrs)
  BY <1>7 DEF SegFacts
<1>12. /\ heap'.pool = hh.pool /\ heap'.owner = hh.owner /\ heap'.wm = hh.pool.bump
       /\ heap' \in HeapType
  <2>1. hh \in HeapType /\ hh.pool.bump \in Nat
    <3>1. hh \in HeapType /\ hh.pool.bump \in 0 .. PoolUnits
      BY <1>10, HeapOKParts, Zenon
    <3> QED BY <3>1, PoolUnitsAssumption
  <2>2. heap' = [hh EXCEPT !.wm = hh.pool.bump]
    BY <1>1 DEF SaveWatermark
  <2> QED BY <2>1, <2>2, FlagUpdates
<1>13. modules' = {mo}
  BY <1>1, <1>5, Zenon
<1>14. /\ mo.handle = nextHandle /\ mo.segs = r.ptrs
       /\ mo \in [handle : 1 .. client.modules, image : client.images, segs : Seq(Ptrs)]
  <2>1. nextHandle \in 1 .. client.modules
    BY <1>4
  <2> QED BY <1>11, <2>1, Zenon
<1> HIDE DEF mo
<1>15. OneModule'
  <2>1. regs' \in [of : {0, nextHandle}, objs : Seq(Ptrs)]
    <3>1. regs' = [of |-> 0, objs |-> <<>>] /\ <<>> \in Seq(Ptrs)
      BY <1>6 DEF NoRegs
    <3> QED BY <3>1
  <2>2. MaxModules >= 1
    <3>1. Cardinality(modules) = 0
      BY <1>5, CountEmpty, Zenon
    <3>2. MaxModules \in Nat
      BY ServiceAssumption
    <3> QED BY <1>1, <3>1, <3>2
  <2>3. nextHandle' \in 1 .. client'.modules + 1
    BY <1>1, <1>4
  <2>4. entry' \in {0, nextHandle} /\ loaded' = nextHandle
    BY <1>1
  <2>5. mo \in modules' /\ modules' = {mo} /\ client' = client
    BY <1>13, Zenon
  <2> QED BY <1>4, <1>14, <2>1, <2>2, <2>3, <2>4, <2>5, Zenon DEF OneModule
<1>16. \A m \in models : m.by # "module"
  BY <1>2, <1>6, Zenon DEF ModelTable, EmbeddedOwned
<1>17. ModelTable' /\ (client.weights = {} => \A m \in models' : /\ m.id = nextModelId
                                                               /\ embeds /\ w.ok)
  <2>1. client.weights = {} => models = {}
    BY <1>2, <1>16, Zenon DEF ModelTable
  <2>2. CASE embeds /\ w.ok
    <3> DEFINE nm == [id |-> nextModelId, consts |-> ks, by |-> "module"]
    <3>1. /\ models' = AddModel(w, "module") /\ embedded' = nextModelId
          /\ nextModelId' = nextModelId + 1
      BY <1>1, <2>2, Zenon
    <3>2. ks = w.constants
      BY <2>2 DEF ks
    <3>3. models' = models \cup {nm}
      BY <3>1, <3>2, Zenon DEF AddModel
    <3>4. /\ models' \subseteq [id : 1 .. nextModelId' - 1, consts : Seq(Ptrs),
                                by : {"module", "client"}]
          /\ IsFiniteSet(models') /\ Cardinality(models') <= MaxModels
          /\ nextModelId' \in 1 .. client.models + 1
          /\ embedded' \in 0 .. client.models
      BY <1>2, <1>4, <1>8, <1>10, <2>2, <3>1, <3>2, AddModelOK, Zenon
    <3>5. nm.id = nextModelId /\ nm.consts = ks /\ nm.by = "module"
      BY Zenon
    <3> HIDE DEF nm
    <3>6. EmbeddedOwned'
      <4>1. loaded' # 0
        <5>1. loaded' = nextHandle
          BY <1>1, Zenon
        <5>2. nextHandle # 0
          BY <1>4
        <5> QED BY <5>1, <5>2, Zenon
      <4> QED BY <1>16, <3>1, <3>3, <3>5, <4>1, Zenon DEF EmbeddedOwned
    <3>7. client.weights = {} =>
            /\ \A m \in models' : /\ m.by = "module" /\ m.consts = ks
                                  /\ m.id = nextModelId
            /\ \E m \in models' : m.id = embedded'
      BY <2>1, <3>1, <3>3, <3>5, Zenon
    <3> QED BY <1>1, <1>10, <2>2, <3>4, <3>6, <3>7, Zenon DEF ModelTable
  <2>3. CASE ~ (embeds /\ w.ok)
    <3>1. UNCHANGED <<models, embedded, nextModelId>> /\ constants' = ks
      BY <1>1, <2>3, Zenon
    <3>2. EmbeddedOwned'
      BY <1>16, <3>1 DEF EmbeddedOwned
    <3> QED BY <1>2, <1>6, <1>10, <2>1, <3>1, <3>2, Zenon DEF ModelTable
  <2> QED BY <2>2, <2>3, Zenon
<1>18. Held(B, B)'
  <2>1. modules' # {} /\ (LargeLoaded' <=> Large) /\ (Large' <=> Large)
    BY <1>13 DEF Large, LargeLoaded
  <2>2. Large => HeapOK(hh, B, B, hh.pool.bump) /\ \A p \in B : p < hh.pool.bump
    BY <1>10, RaiseFloor, Zenon
  <2>3. HeapOK(heap', B, B, IF LargeLoaded' THEN heap'.wm ELSE 0)
    <3>1. CASE Large
      BY <1>12, <2>1, <2>2, <3>1, SamePool, Zenon
    <3>2. CASE ~ Large
      BY <1>10, <1>12, <2>1, <3>2, SamePool, Zenon
    <3> QED BY <3>1, <3>2, Zenon
  <2>4. Blocks(<<>>) = {} /\ Distinct(<<>>) /\ regs'.objs = <<>>
    BY <1>6 DEF Blocks, Distinct, NoRegs
  <2>5. \A m \in modules' : /\ Holds(heap', m.segs, B, Seg(m.handle))
                            /\ Apart(m.segs, constants') /\ Apart(m.segs, regs'.objs)
    BY <1>1, <1>10, <1>11, <1>12, <1>13, <1>14, <2>4, Zenon DEF Holds, Apart
  <2>6. /\ Distinct(constants') /\ Blocks(constants') \subseteq B
        /\ \A p \in Blocks(constants') : heap'.owner[p][1] = "const"
    BY <1>1, <1>10, <1>12, Zenon
  <2>7. \A m \in models' : client'.weights = {} =>
          \A p \in Blocks(constants') : heap'.owner[p] = Const(m.id)
    BY <1>1, <1>8, <1>12, <1>17, Zenon
  <2>8. Holds(heap', regs'.objs, B, Work) /\ Apart(constants', regs'.objs)
    BY <2>4, Zenon DEF Holds, Apart
  <2>9. LargeLoaded' =>
          /\ heap'.wm <= (SegBlocks + ConstBlocks) * (HeaderSize + 1)
          /\ \A m \in modules' : \A p \in Blocks(m.segs) : p < heap'.wm
          /\ \A p \in Blocks(constants') : p < heap'.wm
          /\ \A p \in Blocks(regs'.objs) : p >= heap'.wm
    BY <1>1, <1>10, <1>12, <1>13, <1>14, <2>1, <2>2, <2>4, Zenon
  <2> QED BY <2>1, <2>3, <2>5, <2>6, <2>7, <2>8, <2>9, Zenon DEF Held
<1>19. InputsHeld'
  <2>1. inputs' = Null
    BY <1>5, Zenon DEF ServiceInv, InputsHeld
  <2> QED BY <2>1, InputsGone
<1> QED BY <1>15, <1>17, <1>18, <1>19, InvFrom, Zenon DEF Control

\* handle_dyn_load
LEMMA DynLoadOK ==
  ASSUME CountLaws, ServiceInv, CarefulClients, NEW img \in client.images, DynLoad(img),
         Cardinality(modules) < client.atOnce, UNCHANGED client
  PROVE  ServiceInv'
<1>1. /\ nextHandle <= client.modules /\ nextModelId <= client.models
      /\ regs' = regs /\ inputs' = inputs
  BY DEF DynLoad
<1>2. CASE DynLoadRefused(img)
  <2>1. UNCHANGED <<heap, modules, nextHandle, models, nextModelId, constants,
                    loaded, entry, embedded>>
    BY <1>2 DEF DynLoadRefused
  <2>2. PICK A, C : Held(A, C)
    BY DEF ServiceInv
  <2>3. Control /\ entry \in {0, loaded} /\ regs \in [of : {0, loaded}, objs : Seq(Ptrs)]
    BY ControlParts, Zenon DEF ServiceInv
  <2>4. Control'
    BY <1>1, <2>1, <2>3, ControlKept, Zenon
  <2>5. Held(A, C)'
    BY <1>1, <2>1, <2>2, HeldSame, Zenon
  <2>6. InputsHeld'
    BY <1>1, <2>1, InputsKept, Zenon DEF ServiceInv
  <2> QED BY <2>4, <2>5, <2>6, InvFrom, Zenon
<1>3. CASE DynLoadFails(img)
  BY <1>1, <1>3, DynLoadFailsOK, Zenon
<1>4. CASE DynLoadSucceeds(img)
  BY <1>1, <1>4, DynLoadSucceedsOK, Zenon
<1> QED BY <1>2, <1>3, <1>4, Zenon DEF DynLoad
-----------------------------------------------------------------------------
\* The firmware starts with an empty heap and empty tables.
LEMMA ServiceInit ==
  ASSUME CountLaws, Init
  PROVE  ServiceInv
<1>1. /\ client \in Clients /\ heap = HeapInit /\ modules = {} /\ nextHandle = 1
      /\ models = {} /\ nextModelId = 1 /\ constants = <<>>
      /\ loaded = 0 /\ entry = 0 /\ embedded = 0 /\ regs = NoRegs /\ inputs = Null
  BY DEF Init
<1>2. client.modules \in Nat /\ client.models \in Nat /\ MaxModels \in Nat
  BY <1>1, ServiceAssumption, Zenon
<1>3. OneModule
  BY <1>1, <1>2 DEF OneModule
<1>4. IsFiniteSet(models) /\ Cardinality(models) <= MaxModels
  BY <1>1, <1>2, CountEmpty
<1>5. ModelTable
  <2>1. <<>> \in Seq(Ptrs)
    OBVIOUS
  <2> QED BY <1>1, <1>2, <1>4, <2>1, SMTT(30) DEF ModelTable, EmbeddedOwned
<1>6. Held({}, {})
  <2>1. HeapOK(heap, {}, {}, 0) /\ heap.pool.bump = 0
    BY <1>1, HeapInitOK, Zenon
  <2>2. Blocks(<<>>) = {} /\ Distinct(<<>>) /\ regs.objs = <<>>
    BY <1>1 DEF Blocks, Distinct, NoRegs
  <2> QED BY <1>1, <2>1, <2>2, Zenon DEF Held, Holds, Apart, LargeLoaded
<1>7. {} \in SUBSET Ptrs
  OBVIOUS
<1>8. InputsHeld
  BY <1>1, OutsidePool, Zenon DEF InputsHeld
<1> QED BY <1>3, <1>5, <1>6, <1>7, <1>8, Zenon DEF ServiceInv, Control

\* Every request of a careful client keeps the invariant.
LEMMA ServiceNext ==
  ASSUME CountLaws, CarefulClients, ServiceInv, [Next]_vars
  PROVE  ServiceInv'
<1>1. CASE UNCHANGED vars
  <2>1. UNCHANGED <<client, heap, modules, nextHandle, models, nextModelId, constants,
                    loaded, entry, embedded, regs, inputs>>
    BY <1>1, Zenon DEF vars
  <2>2. PICK A, C : Held(A, C)
    BY DEF ServiceInv
  <2>3. Control /\ entry \in {0, loaded} /\ regs \in [of : {0, loaded}, objs : Seq(Ptrs)]
    BY ControlParts, Zenon DEF ServiceInv
  <2>4. Control'
    BY <2>1, <2>3, ControlKept, Zenon
  <2>5. Held(A, C)'
    BY <2>1, <2>2, HeldSame, Zenon
  <2>6. InputsHeld'
    BY <2>1, InputsKept, Zenon DEF ServiceInv
  <2> QED BY <2>4, <2>5, <2>6, InvFrom, Zenon
<1>2. ASSUME Cardinality(modules) < client.atOnce, UNCHANGED client,
             NEW img \in client.images, DynLoad(img)
      PROVE  ServiceInv'
  BY <1>2, DynLoadOK, Zenon
<1>3. ASSUME NEW h, DynUnload(h), UNCHANGED client
      PROVE  ServiceInv'
  BY <1>3, DynUnloadOK, Zenon
<1>4. ASSUME NEW file \in client.weights, ModelLoad(file), UNCHANGED client
      PROVE  ServiceInv'
  BY <1>4, ModelLoadOK, Zenon
<1>5. ASSUME NEW id \in {0} \cup ClientModels, ModelUnload(id), UNCHANGED client
      PROVE  ServiceInv'
  BY <1>5, ModelUnloadOK, Zenon
<1>6. ASSUME NEW q, Infer(q), UNCHANGED client
      PROVE  ServiceInv'
  BY <1>6, InferOK, Zenon
<1>7. ASSUME NEW q \in Requests(client.large), InferLarge(q), UNCHANGED client
      PROVE  ServiceInv'
  BY <1>7, InferLargeOK, Zenon
<1> QED BY <1>1, <1>2, <1>3, <1>4, <1>5, <1>6, <1>7, Zenon DEF Next

\* Pointers are units of the heap.
LEMMA PtrSeqs ==
  /\ Ptrs \subseteq HeapUnits
  /\ \A s \in Seq(Ptrs) : s \in Seq(HeapUnits)
<1>1. Ptrs \subseteq HeapUnits
  BY PtrsUnits, Zenon
<1> QED BY <1>1

\* The types that follow from the invariant.
LEMMA InvTypes ==
  ASSUME CountLaws, ServiceInv
  PROVE  TypeOK
<1>1. Control /\ OneModule /\ ModelTable
  BY DEF ServiceInv, Control
<1>2. /\ client \in Clients /\ client.modules \in Nat /\ client.models \in Nat
      /\ loaded \in 0 .. client.modules /\ entry \in {0, loaded}
      /\ regs \in [of : {0, loaded}, objs : Seq(Ptrs)] /\ constants \in Seq(Ptrs)
  BY <1>1, ControlParts, Zenon
<1>3. heap \in HeapType
  <2>1. PICK A, C : Held(A, C)
    BY DEF ServiceInv
  <2> DEFINE w == IF LargeLoaded THEN heap.wm ELSE 0
  <2>2. HeapOK(heap, A, C, w)
    BY <2>1, Zenon DEF Held
  <2> HIDE DEF w
  <2> QED BY <2>2, HeapOKParts, Zenon
<1>4. modules \subseteq [handle : 1 .. client.modules, image : client.images,
                         segs : Seq(HeapUnits)]
  <2>1. \A m \in modules : m \in [handle : 1 .. client.modules, image : client.images,
                                  segs : Seq(Ptrs)]
    BY <1>1, ControlParts, Zenon
  <2> QED BY <2>1, PtrSeqs, Zenon
<1>5. models \subseteq [id : 1 .. client.models, consts : Seq(HeapUnits),
                        by : {"module", "client"}]
  <2>1. /\ models \subseteq [id : 1 .. nextModelId - 1, consts : Seq(Ptrs),
                             by : {"module", "client"}]
        /\ nextModelId \in 1 .. client.models + 1
    BY <1>1, Zenon DEF ModelTable
  <2>2. 1 .. nextModelId - 1 \subseteq 1 .. client.models
    BY <1>2, <2>1
  <2> QED BY <2>1, <2>2, PtrSeqs, Zenon
<1>6. Cardinality(modules) <= MaxModules
  <2>1. CASE modules = {}
    BY <2>1, CountEmpty, ServiceAssumption
  <2>2. CASE modules # {}
    <3>1. PICK m \in modules : modules = {m} /\ MaxModules >= 1
      BY <1>1, <2>2, ControlParts, Zenon
    <3>2. Cardinality(modules) = 1
      BY <3>1, CountOne, Zenon
    <3>3. MaxModules \in Nat
      BY ServiceAssumption, Zenon
    <3> QED BY <3>1, <3>2, <3>3, Zenon
  <2> QED BY <2>1, <2>2, Zenon
<1>7. /\ Cardinality(models) <= MaxModels
      /\ nextModelId \in 1 .. client.models + 1 /\ embedded \in 0 .. client.models
      /\ nextHandle \in 1 .. client.modules + 1
  BY <1>1, Zenon DEF OneModule, ModelTable
<1>8. {loaded, entry} \subseteq 0 .. client.modules
  BY <1>2
<1>9. regs \in [of : 0 .. client.modules, objs : Seq(HeapUnits)]
  <2>1. {0, loaded} \subseteq 0 .. client.modules
    BY <1>2
  <2> QED BY <1>2, <2>1, PtrSeqs, Zenon
<1>10. constants \in Seq(HeapUnits)
  BY <1>2, PtrSeqs, Zenon
<1>11. inputs \in {Null, Stack} \cup HeapUnits
  BY Zenon DEF ServiceInv, InputsHeld
<1> QED BY <1>2, <1>3, <1>4, <1>5, <1>6, <1>7, <1>8, <1>9, <1>10, <1>11, Zenon DEF TypeOK

\* The safety properties that follow from the invariant.
LEMMA InvSafe ==
  ASSUME CountLaws, ServiceInv
  PROVE  /\ ModulesIntact /\ ModelsIntact /\ ConstantsIntact
         /\ EntryLive /\ RegsLive /\ EmbeddedOwned
<1>1. Control /\ OneModule /\ ModelTable
  BY DEF ServiceInv, Control
<1>2. PICK A, C : Held(A, C)
  BY DEF ServiceInv
<1> DEFINE w == IF LargeLoaded THEN heap.wm ELSE 0
<1>3. HeapOK(heap, A, C, w)
  BY <1>2, Zenon DEF Held
<1> HIDE DEF w
<1>4. ModulesIntact
  <2>1. \A m \in modules : Holds(heap, m.segs, A, Seg(m.handle))
    BY <1>2, Zenon DEF Held
  <2> QED BY <1>3, <2>1, HoldsIntact, Zenon DEF ModulesIntact
<1>5. /\ Distinct(constants) /\ Blocks(constants) \subseteq A
      /\ \A p \in Blocks(constants) : heap.owner[p][1] = "const"
      /\ \A m \in models : client.weights = {} =>
           \A p \in Blocks(constants) : heap.owner[p] = Const(m.id)
  BY <1>2, Zenon DEF Held
<1>6. ModelsIntact
  <2> SUFFICES ASSUME client.weights = {}, NEW m \in models
               PROVE  Intact(heap, m.consts, Const(m.id))
    BY Zenon DEF ModelsIntact
  <2>1. m.consts = constants
    BY <1>1, Zenon DEF ModelTable
  <2>2. Holds(heap, constants, A, Const(m.id))
    BY <1>5 DEF Holds
  <2> QED BY <1>3, <2>1, <2>2, HoldsIntact, Zenon
<1>7. ConstantsIntact
  <2> SUFFICES ASSUME NEW i \in 1 .. Len(constants)
               PROVE  Allocated(heap, constants[i]) /\ heap.owner[constants[i]][1] = "const"
    BY DEF ConstantsIntact
  <2>1. constants[i] \in Blocks(constants)
    BY DEF Blocks
  <2> QED BY <1>3, <1>5, <2>1, LiveAllocated, Zenon
<1>8. loaded # 0 => loaded \in LoadedHandles
  <2>1. modules # {} => \E m \in modules : m.handle = loaded
    BY <1>1, ControlParts, Zenon
  <2>2. modules = {} => loaded = 0
    BY <1>1, ControlParts, Zenon
  <2> QED BY <2>1, <2>2, Zenon DEF LoadedHandles
<1>9. entry \in {0, loaded} /\ regs.of \in {0, loaded}
  BY <1>1, ControlParts, Zenon
<1>10. EntryLive
  BY <1>8, <1>9, Zenon DEF EntryLive
<1>11. RegsLive
  <2>1. Holds(heap, regs.objs, C, Work) /\ C \subseteq A
    BY <1>2, <1>3, HeapOKParts, Zenon DEF Held
  <2>2. Holds(heap, regs.objs, A, Work)
    BY <2>1, Zenon DEF Holds
  <2>3. Intact(heap, regs.objs, Work)
    BY <1>3, <2>2, HoldsIntact, Zenon
  <2>4. inputs \in HeapUnits => heap.owner[inputs] = Array
    BY Zenon DEF ServiceInv, InputsHeld
  <2> QED BY <1>8, <1>9, <2>3, <2>4, Zenon DEF RegsLive
<1>12. EmbeddedOwned
  BY <1>1, Zenon DEF ModelTable
<1> QED BY <1>4, <1>6, <1>7, <1>10, <1>11, <1>12, Zenon
-----------------------------------------------------------------------------
\* A nonempty set of natural numbers has a least element.
LEMMA LeastNumber ==
  ASSUME NEW T, T \subseteq Nat, T # {}
  PROVE  \E x \in T : \A y \in T : x <= y
<1> DEFINE R == OpToRel(<, Nat)
<1>1. IsWellFoundedOn(R, Nat)
  BY NatLessThanWellFounded, Zenon
<1>2. \A x, y \in Nat : y < x => <<y, x>> \in R
  BY DEF OpToRel
<1> HIDE DEF R
<1>3. PICK x \in T : \A y \in T : ~ (<<y, x>> \in R)
  BY <1>1, WFMin, Zenon
<1>4. ASSUME NEW y \in T
      PROVE  x <= y
  <2>1. x \in Nat /\ y \in Nat
    OBVIOUS
  <2>2. ~ (y < x)
    BY <1>2, <1>3, <2>1, Zenon
  <2> QED BY <2>1, <2>2
<1> QED BY <1>4, Zenon

\* Induction: a set that contains 0 and with a number the next one contains all.
LEMMA SetInduction ==
  ASSUME NEW T, 0 \in T, \A n \in Nat : n \in T => n + 1 \in T
  PROVE  \A n \in Nat : n \in T
<1> SUFFICES ASSUME NEW n \in Nat, n \notin T
             PROVE  FALSE
  OBVIOUS
<1> DEFINE U == Nat \ T
<1>1. U \subseteq Nat /\ U # {}
  OBVIOUS
<1>2. PICK x \in U : \A y \in U : x <= y
  <2> HIDE DEF U
  <2> QED BY <1>1, LeastNumber, Zenon
<1>3. x \in Nat /\ x # 0
  BY <1>2
<1>4. x - 1 \in Nat /\ x - 1 \in T
  BY <1>2, <1>3
<1> QED BY <1>2, <1>3, <1>4

\* The laws the lemmas about the heap and the service assume hold.
LEMMA Laws == CountLaws
<1>1. /\ \A S : IsFiniteSet(S) => Cardinality(S) \in Nat
      /\ IsFiniteSet({}) /\ \A S : IsFiniteSet(S) => (Cardinality(S) = 0 <=> S = {})
      /\ \A x : Cardinality({x}) = 1
  BY FS_CardinalityType, FS_EmptySet, FS_Singleton, Zenon
<1>2. ASSUME NEW S, NEW x, IsFiniteSet(S)
      PROVE  /\ IsFiniteSet(S \cup {x})
             /\ Cardinality(S \cup {x}) = Cardinality(S) + (IF x \in S THEN 0 ELSE 1)
             /\ IsFiniteSet(S \ {x})
             /\ Cardinality(S \ {x}) = Cardinality(S) - (IF x \in S THEN 1 ELSE 0)
  <2>1. Cardinality(S) \in Nat
    BY <1>2, FS_CardinalityType, Zenon
  <2> QED BY <1>2, <2>1, FS_AddElement, FS_RemoveElement, SMTT(30)
<1>3. \A S : \A T \in SUBSET S :
        IsFiniteSet(S) => IsFiniteSet(T) /\ Cardinality(T) <= Cardinality(S)
  BY FS_Subset
<1>4. \A a, b \in Int : IsFiniteSet(a .. b)
  BY FS_Interval
<1>5. \A T : 0 \in T /\ (\A n \in Nat : n \in T => n + 1 \in T) => \A n \in Nat : n \in T
  BY SetInduction, Zenon
<1> QED BY <1>1, <1>2, <1>3, <1>4, <1>5, Zenon DEF CountLaws
-----------------------------------------------------------------------------
\* The service invariant of careful clients: at most one module is loaded, what
\* the service caches of it is its own, and the heap's live blocks are exactly
\* accounted for between module, constants, register file and leaked workspace,
\* with the freed input objects the register file still points to untouched.
THEOREM ServiceInvariant == CarefulClients => (Spec => []ServiceInv)
<1>1. Init => ServiceInv
  BY Laws, ServiceInit, Zenon
<1>2. CarefulClients => (ServiceInv /\ [Next]_vars => ServiceInv')
  BY Laws, ServiceNext, Zenon
<1>3. CASE ~ CarefulClients
  BY <1>3
<1>4. CASE CarefulClients
  BY <1>1, <1>2, <1>4, PTL DEF Spec
<1> QED BY <1>3, <1>4, Zenon

\* What the invariant implies.
LEMMA InvImplies ==
  ServiceInv => /\ TypeOK /\ ModulesIntact /\ ModelsIntact /\ ConstantsIntact
                /\ EntryLive /\ RegsLive /\ EmbeddedOwned
  BY Laws, InvTypes, InvSafe, Zenon

\* The service's state keeps its types: in particular the module and the model
\* table never hold more entries than their arrays have slots.
THEOREM ServiceTypes == CarefulClients => (Spec => []TypeOK)
<1>1. CASE ~ CarefulClients
  BY <1>1
<1>2. CASE CarefulClients
  BY <1>2, ServiceInvariant, InvImplies, PTL
<1> QED BY <1>1, <1>2, Zenon

\* No inference, load, unload or pool reset of a careful client overwrites or
\* releases the code and data of a loaded module.
THEOREM ModulesStayIntact == CarefulClients => (Spec => []ModulesIntact)
<1>1. CASE ~ CarefulClients
  BY <1>1
<1>2. CASE CarefulClients
  BY <1>2, ServiceInvariant, InvImplies, PTL
<1> QED BY <1>1, <1>2, Zenon

\* The constants an active model slot points to are good as long as all weights
\* are embedded ones.
THEOREM ModelsStayIntact == CarefulClients => (Spec => []ModelsIntact)
<1>1. CASE ~ CarefulClients
  BY <1>1
<1>2. CASE CarefulClients
  BY <1>2, ServiceInvariant, InvImplies, PTL
<1> QED BY <1>1, <1>2, Zenon

\* The memory constants.c holds is never handed out again while it holds it.
THEOREM ConstantsStayIntact == CarefulClients => (Spec => []ConstantsIntact)
<1>1. CASE ~ CarefulClients
  BY <1>1, Zenon
<1>2. CASE CarefulClients
  BY <1>2, ServiceInvariant, InvImplies, PTL
<1> QED BY <1>1, <1>2, Zenon

\* The cached entry point always lies in a loaded module.
THEOREM EntryStaysLive == CarefulClients => (Spec => []EntryLive)
<1>1. CASE ~ CarefulClients
  BY <1>1
<1>2. CASE CarefulClients
  BY <1>2, ServiceInvariant, InvImplies, PTL
<1> QED BY <1>1, <1>2, Zenon

\* The register file lies in a loaded module, the objects the model made in it
\* are allocated, and nothing has come where an INFER_LARGE's input objects were:
\* its clean-up damages no one's data in the pool.  What lies by then where an
\* INFER's input objects were, on the handler's stack, it does not say.
THEOREM RegsStayLive == CarefulClients => (Spec => []RegsLive)
<1>1. CASE ~ CarefulClients
  BY <1>1
<1>2. CASE CarefulClients
  BY <1>2, ServiceInvariant, InvImplies, PTL
<1> QED BY <1>1, <1>2, Zenon

\* Load and unload cycles leave no embedded model's slot behind.
THEOREM NoSlotLeaks == CarefulClients => (Spec => []EmbeddedOwned)
<1>1. CASE ~ CarefulClients
  BY <1>1
<1>2. CASE CarefulClients
  BY <1>2, ServiceInvariant, InvImplies, PTL
<1> QED BY <1>1, <1>2, Zenon
=============================================================================
