------------------------------ MODULE MemoryPool ------------------------------
(***************************************************************************)
(* One memory pool and the code that allocates from it.  The callers obey  *)
(* the contract of dsp_memory.h: they free only pointers they were given   *)
(* and still hold, and write only inside what they asked for.              *)
(***************************************************************************)
EXTENDS MemoryPoolOps

CONSTANTS Base, Size,      \* the region handed to tvm_dsp_memory_pool_init
          Sizes,           \* the request sizes, in units
          Alignments,      \* the alignments the callers ask for, in units
          Memories,        \* what the region may hold when the pool is set up
          MaxAllocs        \* bound on num_allocs between resets

ASSUME RegionAssumption == Base \in Nat /\ Size \in Nat \ {0}
ASSUME RequestAssumption == Sizes \subseteq Nat /\ Alignments \subseteq Nat \ {0}
ASSUME MemoriesAssumption ==
  Memories \subseteq [Base .. Base + Size - 1 -> HeaderWord]
ASSUME MaxAllocsAssumption == MaxAllocs \in Nat

VARIABLES pool,    \* the TVMDSPMemoryPoolDesc and the memory behind it
          live     \* the blocks the callers hold: pointer and size asked for

vars == <<pool, live>>

Region == Base .. Base + Size - 1

Block == [ptr : Nat, size : Nat]

\* The units the holder of block b may use.
Extent(b) == b.ptr .. b.ptr + b.size - 1

\* tvm_dsp_memory_pool_init does not clear the region.
Init == /\ \E m \in Memories : pool = PoolInit(Base, Size, m)
        /\ live = {}

\* A caller allocates; a NULL result leaves it without a block.
Alloc(size, alignment) ==
  /\ pool.numAllocs < MaxAllocs
  /\ LET r == PoolAlloc(pool, size, alignment)
     IN  /\ pool' = r.pool
         /\ live' = IF r.ptr = Null THEN live
                    ELSE live \cup {[ptr |-> r.ptr, size |-> size]}

\* A caller frees a block it holds.
Free(b) ==
  /\ pool' = PoolFree(pool, b.ptr)
  /\ live' = live \ {b}

\* A caller fills its block.
Write(b) ==
  /\ pool' = [pool EXCEPT !.hdr = Scribble(@, Extent(b))]
  /\ UNCHANGED live

\* tvm_dsp_memory_pool_reset: every holder loses its blocks.
Reset ==
  /\ pool' = PoolReset(pool)
  /\ live' = {}

Next == \/ \E s \in Sizes, a \in Alignments : Alloc(s, a)
        \/ \E b \in live : Free(b)
        \/ \E b \in live : Write(b)
        \/ Reset

Spec == Init /\ [][Next]_vars
\* All callers ask for one alignment, as those of the L2 (fast) pool do.
OneAlignment == \A a, b \in Alignments : a = b
-----------------------------------------------------------------------------
PoolType ==
  [base : {Base}, size : {Size}, bump : Base .. Base + Size,
   freeList : Seq(Region), hdr : [Region -> HeaderWord],
   allocated : Nat, numAllocs : Nat, numFrees : Nat]

\* Type invariant of the descriptor.
TypeOK ==
  /\ pool \in PoolType
  /\ live \subseteq Block
  /\ \A b \in live : b.ptr - HeaderSize \in Region

\* Two callers never share a unit of memory: tvm_dsp_memory_pool_alloc hands
\* out disjoint blocks whatever was freed, reused or reset before.
LiveDisjoint ==
  \A b, c \in live : b # c => Extent(b) \cap Extent(c) = {}

\* Each pointer a caller holds has its block's header right before it, large
\* enough for what was asked: the layout "[padding for alignment] [header]
\* [user data]" that tvm_dsp_memory_pool_free relies on.
HeaderPrecedesData ==
  \A b \in live : LET h == pool.hdr[b.ptr - HeaderSize]
                  IN  h.magic /\ h.size >= b.size

\* When the last block is freed the pool is whole again: no leak survives.
EmptyMeansWhole ==
  live = {} => pool.bump = Base /\ pool.freeList = <<>>
-----------------------------------------------------------------------------
(* The inductive invariant behind the three properties. *)

FreeHeaders == {pool.freeList[i] : i \in 1 .. Len(pool.freeList)}

LiveHeaders == {b.ptr - HeaderSize : b \in live}

Headers == FreeHeaders \cup LiveHeaders

\* Held and free blocks tile [base, bump) without overlap, a block is held or
\* free but not both and once only, each is aligned as any caller asks, and
\* the counters differ by the number of blocks held: what alloc and free keep
\* true of memory_pool.c's list, headers and counters when all requests share
\* one alignment.
BlocksTile ==
  /\ \A h \in Headers : h >= Base /\ h + BlockSize(pool, h) <= pool.bump
  /\ \A h, k \in Headers : h < k => h + BlockSize(pool, h) <= k
  /\ \A h \in Headers, a \in Alignments :
       AlignUp(h + HeaderSize, a) = h + HeaderSize
  /\ \A i, j \in 1 .. Len(pool.freeList) :
       i # j => pool.freeList[i] # pool.freeList[j]
  /\ \A b \in live : b.ptr - HeaderSize \notin FreeHeaders
  /\ \A b, c \in live : b.ptr = c.ptr => b = c
  /\ HeaderPrecedesData
  /\ IsFiniteSet(live)
  /\ pool.numAllocs = pool.numFrees + Cardinality(live)
  /\ pool.numAllocs = pool.numFrees => pool.bump = Base /\ pool.freeList = <<>>
=============================================================================
