---------------------------- MODULE MemoryPoolOps ----------------------------
(***************************************************************************)
(* The bump allocator with a free list of platform/common/memory_pool.c,   *)
(* as functions from a pool descriptor to a pool descriptor.               *)
(*                                                                         *)
(* Addresses and sizes count units of sizeof(void* ) bytes, the smallest   *)
(* alignment the allocator hands out, so every rounding it does is exact.  *)
(* A descriptor is                                                         *)
(*   base, size          the region it manages                             *)
(*   bump                bump_ptr                                          *)
(*   freeList            the headers on free_list, head first              *)
(*   hdr                 the unit at each address, read as a header's      *)
(*                       first word: is it the magic number, what size     *)
(*   allocated, numAllocs, numFrees                                        *)
(* The statistic "peak", which no branch reads, is left out.               *)
(***************************************************************************)
EXTENDS Integers, Sequences, FiniteSets

CONSTANT HeaderSize    \* sizeof(TVMDSPAllocHeader), in units

ASSUME HeaderSizeAssumption == HeaderSize \in Nat \ {0}

Null == -1             \* the NULL pointer

HeaderWord == [magic : BOOLEAN, size : Nat]

Junk == [magic |-> FALSE, size |-> 0]      \* a unit that is no header

\* align_up: round value up to a multiple of alignment.
AlignUp(value, alignment) ==
  ((value + alignment - 1) \div alignment) * alignment

\* Overwrite the units of region with something that is not a header.
Scribble(hdr, region) ==
  [a \in DOMAIN hdr |-> IF a \in region THEN Junk ELSE hdr[a]]

\* Write a header at h: magic and size in its first unit, next in the others.
PutHeader(hdr, h, size) ==
  [a \in DOMAIN hdr |-> IF a = h THEN [magic |-> TRUE, size |-> size]
                        ELSE IF a \in h .. h + HeaderSize - 1 THEN Junk
                        ELSE hdr[a]]

SetMagic(hdr, h, b) == [hdr EXCEPT ![h] = [magic |-> b, size |-> @.size]]

\* A faulty unlink: drops the head whichever block was taken.
RemoveNth_Head(s, i) == Tail(s)

RemoveNth(s, i) == [j \in 1 .. Len(s) - 1 |-> IF j < i THEN s[j] ELSE s[j + 1]]

\* tvm_dsp_memory_pool_init over a region whose contents hdr is arbitrary.
PoolInit(base, size, hdr) ==
  [base |-> base, size |-> size, bump |-> base, freeList |-> <<>>,
   hdr |-> hdr, allocated |-> 0, numAllocs |-> 0, numFrees |-> 0]

\* tvm_dsp_memory_pool_reset: the descriptor starts again, memory is untouched.
PoolReset(p) == PoolInit(p.base, p.size, p.hdr)

-----------------------------------------------------------------------------
(* tvm_dsp_memory_pool_alloc *)

BlockSize(p, h) == p.hdr[h].size + HeaderSize

\* The free block with header h takes size units at this alignment.
Fits(p, h, size, alignment) ==
  LET user == h + HeaderSize
      padding == AlignUp(user, alignment) - user
  IN  BlockSize(p, h) >= HeaderSize + AlignUp(size, alignment) + padding

FitIndices(p, size, alignment) ==
  {i \in 1 .. Len(p.freeList) : Fits(p, p.freeList[i], size, alignment)}

FirstFit(p, size, alignment) ==
  CHOOSE i \in FitIndices(p, size, alignment) :
    \A j \in FitIndices(p, size, alignment) : i <= j

ReusePtr(p, i, alignment) == AlignUp(p.freeList[i] + HeaderSize, alignment)

\* Take block i off the free list; its header stays where it is.
Reuse(p, i) ==
  LET h == p.freeList[i]
  IN  [p EXCEPT !.freeList = RemoveNth(@, i),
                !.hdr = SetMagic(@, h, TRUE),
                !.allocated = @ + BlockSize(p, h),
                !.numAllocs = @ + 1]

BumpPtr(p, alignment) == AlignUp(p.bump + HeaderSize, alignment)

BumpEnd(p, size, alignment) == BumpPtr(p, alignment) + AlignUp(size, alignment)

\* A faulty layout: the header at the bump pointer, before the padding.
Bump_HeaderFirst(p, size, alignment) ==
  [p EXCEPT !.hdr = PutHeader(@, p.bump, AlignUp(size, alignment)),
            !.bump = BumpEnd(p, size, alignment),
            !.allocated = @ + (BumpEnd(p, size, alignment) - p.bump),
            !.numAllocs = @ + 1]

Bump(p, size, alignment) ==
  [p EXCEPT !.hdr = PutHeader(@, BumpPtr(p, alignment) - HeaderSize,
                              AlignUp(size, alignment)),
            !.bump = BumpEnd(p, size, alignment),
            !.allocated = @ + (BumpEnd(p, size, alignment) - p.bump),
            !.numAllocs = @ + 1]

\* A faulty alloc: no check against the end of the pool.
PoolAlloc_Unbounded(p, size, alignment) ==
  IF size = 0 \/ size > p.size
  THEN [pool |-> p, ptr |-> Null]
  ELSE [pool |-> Bump(p, size, alignment), ptr |-> BumpPtr(p, alignment)]

\* What one call returns: the descriptor after it and the pointer.
PoolAlloc(p, size, alignment) ==
  IF size = 0 \/ size > p.size
  THEN [pool |-> p, ptr |-> Null]
  ELSE IF FitIndices(p, size, alignment) # {}
  THEN LET i == FirstFit(p, size, alignment)
       IN  [pool |-> Reuse(p, i), ptr |-> ReusePtr(p, i, alignment)]
  ELSE IF BumpEnd(p, size, alignment) > p.base + p.size
  THEN [pool |-> p, ptr |-> Null]
  ELSE [pool |-> Bump(p, size, alignment), ptr |-> BumpPtr(p, alignment)]

-----------------------------------------------------------------------------
(* tvm_dsp_memory_pool_free *)

\* The block with header h goes to the head of the free list.
PushFree(p, h) ==
  [p EXCEPT !.hdr = SetMagic(@, h, FALSE),
            !.freeList = <<h>> \o @,
            !.allocated = IF @ >= BlockSize(p, h) THEN @ - BlockSize(p, h) ELSE @,
            !.numFrees = @ + 1]

\* Faulty resets: never, and one free too early.
AutoReset_Never(p) == p
AutoReset_Early(p) ==
  IF p.numFrees + 1 >= p.numAllocs
  THEN [p EXCEPT !.freeList = <<>>, !.bump = p.base, !.allocated = 0]
  ELSE p

\* Every allocation freed: the whole pool is reclaimed, the counters stay.
AutoReset(p) ==
  IF p.numFrees = p.numAllocs
  THEN [p EXCEPT !.freeList = <<>>, !.bump = p.base, !.allocated = 0]
  ELSE p

\* A pointer whose preceding unit is no magic number is silently ignored.
PoolFree(p, ptr) ==
  LET h == ptr - HeaderSize
  IN  IF ptr = Null \/ ~ p.hdr[h].magic THEN p ELSE AutoReset(PushFree(p, h))

\* tvm_dsp_memory_pool_contains
PoolContains(p, ptr) == ptr >= p.base /\ ptr < p.base + p.size
=============================================================================
