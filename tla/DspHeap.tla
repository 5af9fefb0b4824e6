------------------------------- MODULE DspHeap -------------------------------
(***************************************************************************)
(* The DDR (main) pool as platform/c7x/c7x_platform.c offers it to the     *)
(* firmware: allocation with a sticky out-of-memory flag, reset, and the   *)
(* watermark saved after a module load and restored before each large      *)
(* inference.                                                              *)
(*                                                                         *)
(* Requests are one unit each: what matters here is which blocks overlap,  *)
(* not how large they are.  "owner" says whose data each unit holds, so a  *)
(* block handed out twice shows as data of the wrong owner.  The L2 (fast) *)
(* pool holds scratch data only and is left out.                           *)
(***************************************************************************)
EXTENDS MemoryPoolOps

CONSTANT PoolUnits     \* the size of the DDR heap, in units

ASSUME PoolUnitsAssumption == PoolUnits \in Nat \ {0}

HeapUnits == 0 .. PoolUnits - 1

NoOwner == <<"none", 0>>

HeapInit ==
  [pool |-> PoolInit(0, PoolUnits, [a \in HeapUnits |-> Junk]),
   owner |-> [a \in HeapUnits |-> NoOwner], wm |-> Null, oom |-> FALSE]

\* tvm_dsp_alloc(.., TVM_DSP_MEM_MAIN), and the caller filling its block.
DspAlloc(h, tag) ==
  LET r == PoolAlloc(h.pool, 1, 1)
  IN  [ptr  |-> r.ptr,
       heap |-> IF r.ptr = Null THEN [h EXCEPT !.oom = TRUE]
                ELSE [h EXCEPT !.pool = r.pool, !.owner[r.ptr] = tag]]

\* tvm_dsp_free: a pointer outside the pool is only warned about.
DspFree(h, ptr) ==
  IF PoolContains(h.pool, ptr) THEN [h EXCEPT !.pool = PoolFree(@, ptr)] ELSE h

\* n allocations in a row that stop at the first one that fails.  With requests
\* of one size, going on after a failure changes nothing: a failed request leaves
\* the heap as it was but for the flag, so the next one fails too.
AllocMany(h, tag, n) ==
  LET after[k \in 0 .. n] ==
        IF k = 0 THEN [heap |-> h, ptrs |-> <<>>]
        ELSE LET p == after[k - 1]
                 r == DspAlloc(p.heap, tag)
             IN  IF Len(p.ptrs) < k - 1 THEN p
                 ELSE [heap |-> r.heap,
                       ptrs |-> IF r.ptr = Null THEN p.ptrs ELSE Append(p.ptrs, r.ptr)]
  IN  after[n]

\* The blocks ptrs given back one after the other.
FreeAll(h, ptrs) ==
  LET freed[k \in 0 .. Len(ptrs)] ==
        IF k = 0 THEN h ELSE DspFree(freed[k - 1], ptrs[k])
  IN  freed[Len(ptrs)]

\* tvm_dsp_oom_reset; tvm_dsp_oom_take leaves the same state.
OomReset(h) == [h EXCEPT !.oom = FALSE]

\* tvm_dsp_reset_pools: the watermark is not cleared.
ResetPools(h) == OomReset([h EXCEPT !.pool = PoolReset(@)])

\* A faulty save: the base of the pool instead of its bump pointer.
SaveWatermark_Base(h) == [h EXCEPT !.wm = h.pool.base]

\* tvm_dsp_save_infer_watermark
SaveWatermark(h) == [h EXCEPT !.wm = h.pool.bump]

\* tvm_dsp_restore_infer_watermark: counters restart, memory is untouched.
RestoreWatermark(h) ==
  IF h.wm = Null THEN h
  ELSE [h EXCEPT !.pool.bump = h.wm, !.pool.freeList = <<>>,
                 !.pool.allocated = 0, !.pool.numAllocs = 0, !.pool.numFrees = 0]
-----------------------------------------------------------------------------
\* The block at ptr is allocated: below the bump pointer, not on the free list.
Allocated(h, ptr) ==
  /\ ptr < h.pool.bump
  /\ \A i \in 1 .. Len(h.pool.freeList) : h.pool.freeList[i] # ptr - HeaderSize

\* The blocks ptrs are allocated and still hold the data of tag.
Intact(h, ptrs, tag) ==
  \A i \in 1 .. Len(ptrs) : Allocated(h, ptrs[i]) /\ h.owner[ptrs[i]] = tag

\* What a unit may hold: nothing, code and data of a module, constants of a
\* model, workspace or an input array of an inference.
Tags == {"none", "seg", "const", "work", "array"} \X Nat

HeapType ==
  [pool : [base : {0}, size : {PoolUnits}, bump : 0 .. PoolUnits,
           freeList : Seq(HeapUnits), hdr : [HeapUnits -> HeaderWord],
           allocated : Nat, numAllocs : Nat, numFrees : Nat],
   owner : [HeapUnits -> Tags], wm : {Null} \cup Nat, oom : BOOLEAN]
=============================================================================
