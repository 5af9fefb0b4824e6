---------------------------- MODULE ComputeService ----------------------------
(***************************************************************************)
(* The firmware's compute service (compute_service.c) with the loader      *)
(* (dyn_loader.c), the model table (tvm_model.c), the constants and the    *)
(* register file it drives, all of which share the DDR heap.               *)
(*                                                                         *)
(* One client talks to it and waits for each answer, so a request, from    *)
(* the client writing the staging buffer to the answer, is one action.     *)
(* Execute is the wrapper cg_main_dsp that the code generator emits around *)
(* a model; of the model's own code it keeps one temporary and one output. *)
(* The contents of the staging buffer, job counters, cycle counts and      *)
(* printf are left out.                                                    *)
(***************************************************************************)
EXTENDS DspHeap

CONSTANTS
  Clients,      \* the clients considered, one of which talks to the service:
                \*   images: the ELF files it loads: name; state: "ok", "empty" or
                \*     "unlinkable"; entry: it has cg_main_dsp; weights: embedded
                \*     ones, "none" if absent
                \*   weights: its separate weight files: name; state: "ok",
                \*     "empty", "bad" (the pre-scan finds a fault) or "torn" (the
                \*     fault shows only once the pools are allocated)
                \*   inputs, large: what its INFER and INFER_LARGE requests may
                \*     carry, see InputKinds
                \*   stale: whether it also infers with handles and model ids it
                \*     has already given back
                \*   atOnce, modules, models, allocs: bounds on the modules it
                \*     keeps loaded at a time, on the handles and the model ids
                \*     it is given, and on the pool's num_allocs between requests
  MaxModules,   \* MAX_LOADED_MODULES
  MaxModels,    \* MAX_MODELS
  SegBlocks,    \* blocks a module's code and writable data take
  ConstBlocks,  \* blocks the constants' metadata takes
  ArrayBlocks   \* blocks INFER_LARGE takes for its input arrays

\* A well-formed request, one refused by the checks on its header, one with a
\* tensor outside the input buffer, one with the wrong number of tensors, and
\* well-formed ones whose kernel fails and whose output does not fit.
InputKinds == {"ok", "header", "tensor", "count", "kernel", "size"}

ASSUME ServiceAssumption ==
  /\ {MaxModules, MaxModels, SegBlocks, ConstBlocks} \subseteq Nat
  /\ ArrayBlocks \in Nat \ {0}
  /\ \A c \in Clients :
       /\ \A i \in c.images : /\ i.state \in {"ok", "empty", "unlinkable"}
                              /\ i.entry \in BOOLEAN
                              /\ i.weights \in {"ok", "bad", "torn", "none"}
       /\ \A w \in c.weights : w.state \in {"ok", "empty", "bad", "torn"}
       /\ c.inputs \subseteq InputKinds /\ c.large \subseteq InputKinds
       /\ c.stale \in BOOLEAN
       /\ {c.atOnce, c.modules, c.models, c.allocs} \subseteq Nat

VARIABLES
  client,       \* the client, one of Clients
  heap,         \* the DDR heap
  modules,      \* g_modules: handle, image and segments of each loaded module
  nextHandle,   \* g_next_handle
  models,       \* g_models: id, constants and who loaded each active model
  nextModelId,  \* g_next_model_id
  constants,    \* the pools of constants.c: g_constants and the others
  loaded,       \* g_loaded_module_handle
  entry,        \* g_cg_main_dsp: the module it points into, 0 for NULL
  embedded,     \* g_embedded_model_id
  regs,         \* g_reg_file: the module whose .bss holds it, objects in it
  inputs,       \* where the input objects lie that its first registers point to
  last          \* the last answer: status, handle asked for, module run

vars == <<client, heap, modules, nextHandle, models, nextModelId, constants,
          loaded, entry, embedded, regs, inputs, last>>

NoRegs == [of |-> 0, objs |-> <<>>]

\* The frame of handle_infer, whose locals are an INFER's input objects: an
\* address outside the pool.
Stack == PoolUnits

\* tvm_dsp_platform_init, then compute_service_init with its loader and table.
Init ==
  /\ client \in Clients
  /\ heap = HeapInit
  /\ modules = {} /\ nextHandle = 1
  /\ models = {} /\ nextModelId = 1
  /\ constants = <<>>
  /\ loaded = 0 /\ entry = 0 /\ embedded = 0
  /\ regs = NoRegs /\ inputs = Null
  /\ last = [status |-> "SUCCESS", asked |-> 0, ran |-> 0]

Answer(status, asked, ran) ==
  last' = [status |-> status, asked |-> asked, ran |-> ran]

Seg(handle) == <<"seg", handle>>
Const(id) == <<"const", id>>
Work == <<"work", 0>>
Array == <<"array", 0>>
-----------------------------------------------------------------------------
(* tvm_model_load_weights, with TVMDSPSetWeightsData and TVMDSPLoadConstants: *)
(* the old pools are freed and, if the pre-scan finds no fault, the new ones  *)
(* allocated until one fails; a fault in the second pass leaves them there.   *)
LoadWeights(h, state) ==
  LET freed == FreeAll(h, constants)
      r == AllocMany(freed, Const(nextModelId), ConstBlocks)
  IN  IF Cardinality(models) = MaxModels
      THEN [heap |-> h, constants |-> constants, ok |-> FALSE]
      ELSE IF state \notin {"ok", "torn"}
      THEN [heap |-> freed, constants |-> <<>>, ok |-> FALSE]
      ELSE [heap |-> r.heap, constants |-> r.ptrs,
            ok |-> state = "ok" /\ Len(r.ptrs) = ConstBlocks]

AddModel(r, by) == models \cup {[id |-> nextModelId, consts |-> r.constants, by |-> by]}

\* handle_dyn_load refusing the size of the file.
DynLoadRefused(img) ==
  /\ img.state = "empty"
  /\ Answer("ERR_SIZE", 0, 0)
  /\ UNCHANGED <<heap, modules, nextHandle, models, nextModelId, constants,
                 loaded, entry, embedded>>

\* handle_dyn_load when dyn_loader_load refuses: no slot, no memory for the
\* segments, or a file that does not link; what was allocated is freed.
DynLoadFails(img) ==
  LET r == AllocMany(OomReset(heap), Seg(nextHandle), SegBlocks)
      full == Cardinality(modules) = MaxModules
  IN  /\ img.state # "empty"
      /\ full \/ Len(r.ptrs) < SegBlocks \/ img.state = "unlinkable"
      /\ heap' = IF full THEN OomReset(heap) ELSE OomReset(FreeAll(r.heap, r.ptrs))
      /\ Answer(IF ~ full /\ r.heap.oom THEN "ERR_NOMEM" ELSE "ERR_LOAD", 0, 0)
      /\ UNCHANGED <<modules, nextHandle, models, nextModelId, constants,
                     loaded, entry, embedded>>

\* The heap once a module is in: the watermark saved too early, before the
\* embedded weights were parsed, and as the code saves it.
HeapAfterLoad_EarlyMark(segs, all) == [all EXCEPT !.wm = segs.pool.bump]
HeapAfterLoad(segs, all) == SaveWatermark(all)

\* The rest of handle_dyn_load: the entry point, embedded weights (a failure
\* to parse them is only logged) and the watermark.
DynLoadSucceeds(img) ==
  LET r == AllocMany(OomReset(heap), Seg(nextHandle), SegBlocks)
      w == LoadWeights(r.heap, img.weights)
      embeds == img.weights # "none"
  IN  /\ img.state = "ok"
      /\ Cardinality(modules) < MaxModules /\ Len(r.ptrs) = SegBlocks
      /\ modules' = modules \cup {[handle |-> nextHandle, image |-> img, segs |-> r.ptrs]}
      /\ nextHandle' = nextHandle + 1
      /\ entry' = IF img.entry THEN nextHandle ELSE 0
      /\ loaded' = nextHandle
      /\ IF embeds /\ w.ok
         THEN /\ models' = AddModel(w, "module")
              /\ embedded' = nextModelId
              /\ nextModelId' = nextModelId + 1
         ELSE UNCHANGED <<models, embedded, nextModelId>>
      /\ constants' = IF embeds THEN w.constants ELSE constants
      /\ heap' = HeapAfterLoad(r.heap, IF embeds THEN w.heap ELSE r.heap)
      /\ Answer("SUCCESS", nextHandle, 0)

\* DYN_LOAD of an image the client has just staged.
DynLoad(img) ==
  /\ nextHandle <= client.modules /\ nextModelId <= client.models
  /\ DynLoadRefused(img) \/ DynLoadFails(img) \/ DynLoadSucceeds(img)
  /\ UNCHANGED <<regs, inputs>>
-----------------------------------------------------------------------------
(* DYN_UNLOAD.  The runtime state is cleaned only for the current module, the *)
(* pools are reset whichever module went away.                               *)

\* A reference count decremented at ptr, where an input object was: data of
\* anyone else that has come there is damaged.
Touch(h, ptr) ==
  IF PoolContains(h.pool, ptr) /\ h.owner[ptr] # Array
  THEN [h EXCEPT !.owner[ptr] = NoOwner] ELSE h

\* TVMDSPRegFileCleanup: every object in a register is released down to zero;
\* input objects have no deleter, the others free their memory.
RegFileCleanup(h) == FreeAll(Touch(h, inputs), regs.objs)

\* The entry kept by mistake, and as the code leaves it.
EntryAfterUnload_Kept(h) == entry
EntryAfterUnload(h) == IF h = loaded THEN 0 ELSE entry

\* TVMDSPRegFileCleanup without, and with, TVMDSPRegFileInit(NULL, 0).
RegsAfterUnload_Kept(h) == IF h = loaded THEN [regs EXCEPT !.objs = <<>>] ELSE regs
RegsAfterUnload(h) == IF h = loaded THEN NoRegs ELSE regs

\* The embedded model's slot leaked, and freed.
ModelsAfterUnload_Leaked(h) == models
ModelsAfterUnload(h) ==
  IF h = loaded THEN {m \in models : m.id # embedded} ELSE models

\* The pools reset whatever dyn_loader_unload says, and only on its success.
HeapAfterUnload_Always(cleaned, found) == ResetPools(cleaned)
HeapAfterUnload(cleaned, found) ==
  IF found = {} THEN cleaned
  ELSE ResetPools(FreeAll(cleaned, (CHOOSE m \in found : TRUE).segs))

DynUnload(h) ==
  LET cleaned == IF h = loaded THEN FreeAll(RegFileCleanup(heap), constants)
                 ELSE heap
      found == {m \in modules : m.handle = h}
  IN  /\ regs' = RegsAfterUnload(h)
      /\ inputs' = IF h = loaded THEN Null ELSE inputs
      /\ models' = ModelsAfterUnload(h)
      /\ constants' = IF h = loaded THEN <<>> ELSE constants
      /\ heap' = HeapAfterUnload(cleaned, found)
      /\ IF found = {}
         THEN /\ Answer("ERR_HANDLE", h, 0)
              /\ UNCHANGED <<modules, loaded, entry, embedded>>
         ELSE /\ modules' = modules \ found
              /\ loaded' = IF h = loaded THEN 0 ELSE loaded
              /\ embedded' = IF h = loaded THEN 0 ELSE embedded
              /\ entry' = EntryAfterUnload(h)
              /\ Answer("SUCCESS", h, 0)
      /\ UNCHANGED <<nextHandle, nextModelId>>

\* MODEL_LOAD of a weights file the client has just staged.
ModelLoad(file) ==
  LET r == LoadWeights(OomReset(heap), file.state)
  IN  /\ nextModelId <= client.models
      /\ IF file.state = "empty"
         THEN /\ Answer("ERR_SIZE", 0, 0)
              /\ UNCHANGED <<heap, models, nextModelId, constants>>
         ELSE IF r.ok
         THEN /\ models' = AddModel(r, "client")
              /\ nextModelId' = nextModelId + 1
              /\ constants' = r.constants
              /\ heap' = r.heap
              /\ Answer("SUCCESS", nextModelId, 0)
         ELSE /\ constants' = r.constants
              /\ heap' = OomReset(r.heap)
              /\ Answer(IF r.heap.oom THEN "ERR_NOMEM" ELSE "ERR_WEIGHTS", 0, 0)
              /\ UNCHANGED <<models, nextModelId>>
      /\ UNCHANGED <<modules, nextHandle, loaded, entry, embedded, regs, inputs>>

\* A faulty MODEL_UNLOAD: it frees memory constants.c still points to.
ModelUnload_Frees(id) ==
  /\ models' = {m \in models : m.id # id}
  /\ heap' = IF models' = models THEN heap ELSE FreeAll(heap, constants)
  /\ Answer(IF models' = models THEN "ERR_HANDLE" ELSE "SUCCESS", id, 0)
  /\ UNCHANGED <<modules, nextHandle, nextModelId, constants, loaded, entry,
                 embedded, regs, inputs>>

\* MODEL_UNLOAD frees the slot; the constants' memory stays with constants.c.
ModelUnload(id) ==
  /\ models' = {m \in models : m.id # id}
  /\ Answer(IF models' = models THEN "ERR_HANDLE" ELSE "SUCCESS", id, 0)
  /\ UNCHANGED <<heap, modules, nextHandle, nextModelId, constants, loaded,
                 entry, embedded, regs, inputs>>
-----------------------------------------------------------------------------
(* INFER and INFER_LARGE.  A request names a module, a model (0 for the      *)
(* embedded one), what it carries and how often to repeat it.                *)

HasEntry(handle) == \E m \in modules : m.handle = handle /\ m.image.entry

\* The entry point the handlers call: the cached one before the one asked for.
Resolve(q) ==
  IF entry # 0 THEN entry ELSE IF HasEntry(q.handle) THEN q.handle ELSE 0

EffectiveModel(q) == IF q.model = 0 THEN embedded ELSE q.model

ModelKnown(q) == EffectiveModel(q) = 0 \/ \E m \in models : m.id = EffectiveModel(q)

\* What cg_main_dsp leaves when its allocations gave r: the temporary is freed
\* and the output kept on success, otherwise all that was had stays.
Executed(r, q) ==
  IF Len(r.ptrs) = 2 /\ q.input # "kernel"
  THEN [heap |-> DspFree(r.heap, r.ptrs[1]),
        regs |-> [of |-> Resolve(q), objs |-> <<r.ptrs[2]>>], ret |-> "ok"]
  ELSE [heap |-> r.heap, regs |-> [of |-> Resolve(q), objs |-> r.ptrs], ret |-> "fail"]

\* One call of cg_main_dsp.  A wrong input count returns at once.  Otherwise
\* the register file is cleared without releasing what it held, and the model
\* allocates a temporary and its output.  The initialisations on the first call
\* succeed.
Execute(s, q) ==
  IF q.input = "count" THEN [s EXCEPT !.ret = "fail"]
  ELSE Executed(AllocMany(s.heap, Work, 2), q)

\* Where the input objects in the register file lie after calls for q, whose own
\* ones are at ptr, when they were at held before.
InputRegs(q, held, ptr) == IF q.input = "count" THEN held ELSE ptr

\* The answer to an inference that ran: the flag tells an OOM from a failure.
RunStatus(s, q) ==
  IF s.ret = "fail" THEN IF s.heap.oom THEN "ERR_NOMEM" ELSE "ERR_CALL"
  ELSE IF q.input = "size" THEN "ERR_SIZE" ELSE "SUCCESS"

\* tvm_dsp_oom_take runs only after a failed call.
AfterRun(s) == IF s.ret = "fail" THEN OomReset(s.heap) ELSE s.heap

\* A refused request: nothing but the entry may have been resolved.
Refuse(q, status) ==
  /\ Answer(status, q.handle, 0)
  /\ UNCHANGED <<heap, regs, inputs>>

\* The requests that ran: what s they leave, and the answer.
Ran(s, q) ==
  /\ heap' = AfterRun(s)
  /\ regs' = s.regs /\ inputs' = InputRegs(q, inputs, Stack)
  /\ Answer(RunStatus(s, q), q.handle, Resolve(q))

\* The repeat loop of handle_infer stops at the first failure.
Repeated(s, q) == IF q.repeat = 2 /\ s.ret = "ok" THEN Execute(s, q) ELSE s

\* handle_infer
Infer(q) ==
  /\ IF q.handle = 0 THEN Refuse(q, "ERR_HANDLE") /\ UNCHANGED entry
     ELSE IF q.input = "header" THEN Refuse(q, "ERR_ADDR") /\ UNCHANGED entry
     ELSE IF Resolve(q) = 0 THEN Refuse(q, "ERR_SYMBOL") /\ UNCHANGED entry
     ELSE /\ entry' = Resolve(q)
          /\ IF ~ ModelKnown(q) THEN Refuse(q, "ERR_HANDLE")
             ELSE IF q.input = "tensor" THEN Refuse(q, "ERR_TENSOR")
             ELSE Ran(Repeated(Execute([heap |-> OomReset(heap), regs |-> regs,
                                        ret |-> "ok"], q), q), q)
  /\ UNCHANGED <<modules, nextHandle, models, nextModelId, constants,
                 loaded, embedded>>

\* The repeat loop of handle_infer_large goes on after a failure.
RepeatedLarge(s, q) == IF q.repeat = 2 THEN Execute(s, q) ELSE s

\* The ways out of handle_infer_large free the input arrays ptrs, the first of
\* which holds the input objects: refused with heap h, and after a run that
\* left s.
RefuseLarge(h, ptrs, q, status) ==
  /\ heap' = FreeAll(h, ptrs)
  /\ regs' = [regs EXCEPT !.objs = <<>>] /\ inputs' = Null
  /\ Answer(status, q.handle, 0)
RanLarge(s, ptrs, q) ==
  /\ heap' = FreeAll(AfterRun(s), ptrs)
  /\ regs' = s.regs /\ inputs' = InputRegs(q, Null, ptrs[1])
  /\ entry' = Resolve(q)
  /\ Answer(RunStatus(s, q), q.handle, Resolve(q))

\* handle_infer_large once it has tried to allocate its input arrays, with
\* outcome a.
RunLarge(a, q) ==
  IF Len(a.ptrs) < ArrayBlocks
  THEN RefuseLarge(OomReset(a.heap), a.ptrs, q, "ERR_NOMEM") /\ UNCHANGED entry
  ELSE IF q.input = "tensor"
  THEN RefuseLarge(a.heap, a.ptrs, q, "ERR_TENSOR") /\ UNCHANGED entry
  ELSE IF Resolve(q) = 0
  THEN RefuseLarge(a.heap, a.ptrs, q, "ERR_SYMBOL") /\ UNCHANGED entry
  ELSE IF ~ ModelKnown(q)
  THEN RefuseLarge(a.heap, a.ptrs, q, "ERR_HANDLE") /\ entry' = Resolve(q)
  ELSE RanLarge(RepeatedLarge(Execute([heap |-> OomReset(a.heap), ret |-> "ok",
                                       regs |-> [regs EXCEPT !.objs = <<>>]], q), q),
                a.ptrs, q)

\* handle_infer_large: after its header checks it reclaims what the last
\* inference left and allocates its input arrays.
InferLarge(q) ==
  /\ IF q.handle = 0 THEN Refuse(q, "ERR_HANDLE") /\ UNCHANGED entry
     ELSE IF q.input = "header" THEN Refuse(q, "ERR_ADDR") /\ UNCHANGED entry
     ELSE RunLarge(AllocMany(RestoreWatermark(RegFileCleanup(heap)), Array,
                             ArrayBlocks), q)
  /\ UNCHANGED <<modules, nextHandle, models, nextModelId, constants,
                 loaded, embedded>>
-----------------------------------------------------------------------------
LoadedHandles == {m.handle : m \in modules}

ClientModels == {m.id : m \in {n \in models : n.by = "client"}}

RequestRecords(kinds) ==
  [handle : {0} \cup IF client.stale THEN 1 .. nextHandle - 1 ELSE LoadedHandles,
   model : {0} \cup IF client.stale THEN 1 .. nextModelId - 1 ELSE ClientModels,
   input : kinds, repeat : {1, 2}]

\* Repeating matters only for requests that reach cg_main_dsp and allocate.
Requests(kinds) ==
  {q \in RequestRecords(kinds) : q.repeat = 2 => q.input \in {"ok", "kernel"}}

Bounded == heap.pool.numAllocs <= client.allocs

Next ==
  /\ \/ /\ Bounded /\ Cardinality(modules) < client.atOnce
        /\ \E img \in client.images : DynLoad(img)
     \/ \E h \in {0} \cup LoadedHandles : DynUnload(h)
     \/ \E file \in client.weights : Bounded /\ ModelLoad(file)
     \/ \E id \in {0} \cup ClientModels : ModelUnload(id)
     \/ \E q \in Requests(client.inputs) : Bounded /\ Infer(q)
     \/ \E q \in Requests(client.large) : InferLarge(q)
  /\ UNCHANGED client

Spec == Init /\ [][Next]_vars
-----------------------------------------------------------------------------
\* The clients for which the invariants below are proved: no more than one
\* module is loaded at a time, and INFER_LARGE, which leaves the counters of the
\* pool out of step with the blocks in use, is sent only by a client of embedded
\* weights, for requests that reach the kernel, in a heap that has room for what
\* the module, the arrays and one block of workspace take.
CarefulClients ==
  \A c \in Clients :
    /\ MaxModules <= 1 \/ c.atOnce <= 1
    /\ c.large # {} =>
         /\ c.weights = {} /\ ~ c.stale
         /\ c.large \subseteq {"ok", "header", "kernel", "size"}
         /\ \A i \in c.images : i.entry
         /\ (SegBlocks + ConstBlocks + ArrayBlocks + 1) * (HeaderSize + 1) <= PoolUnits

\* Type invariant of the service's state.
TypeOK ==
  /\ client \in Clients
  /\ heap \in HeapType
  /\ modules \subseteq [handle : 1 .. client.modules, image : client.images,
                        segs : Seq(HeapUnits)]
  /\ models \subseteq [id : 1 .. client.models, consts : Seq(HeapUnits),
                       by : {"module", "client"}]
  /\ Cardinality(modules) <= MaxModules /\ Cardinality(models) <= MaxModels
  /\ nextHandle \in 1 .. client.modules + 1 /\ nextModelId \in 1 .. client.models + 1
  /\ constants \in Seq(HeapUnits)
  /\ {loaded, entry} \subseteq 0 .. client.modules /\ embedded \in 0 .. client.models
  /\ regs \in [of : 0 .. client.modules, objs : Seq(HeapUnits)]
  /\ inputs \in {Null, Stack} \cup HeapUnits

\* The code and data of every loaded module stay allocated and are never
\* overwritten: not by an inference's workspace, not by constants, not by a
\* pool reset or watermark restore meant for something else.
ModulesIntact == \A m \in modules : Intact(heap, m.segs, Seg(m.handle))

\* As long as all weights are embedded ones, the constants every active model
\* slot points to stay allocated and hold that model's constants: the pointer
\* tvm_model_get_constants returns is good.
ModelsIntact ==
  client.weights = {} => \A m \in models : Intact(heap, m.consts, Const(m.id))

\* The memory constants.c holds for its tensors stays allocated and is never
\* overwritten, by an inference's arrays and workspace in particular.
ConstantsIntact ==
  \A i \in 1 .. Len(constants) :
    Allocated(heap, constants[i]) /\ heap.owner[constants[i]][1] = "const"

\* The cached entry point always points into a module that is loaded, so an
\* inference never jumps into freed code.
EntryLive == entry # 0 => entry \in LoadedHandles

\* What TVMDSPRegFileCleanup will touch of the heap is what the register file
\* meant: it lies in the .bss of a loaded module, each object the model made is
\* allocated and untouched, and where INFER_LARGE's input objects were, which
\* the handler has freed, nothing else has been put since.
RegsLive ==
  /\ regs.of # 0 => regs.of \in LoadedHandles
  /\ Intact(heap, regs.objs, Work)
  /\ inputs \in HeapUnits => heap.owner[inputs] = Array

\* What the register file refers to is allocated on the heap, as the comment on
\* its clean-up says.  Input objects are not: an INFER's were locals of its
\* handler, an INFER_LARGE's were freed before it answered.
RegsOnHeap == inputs # Null => inputs \in HeapUnits /\ Allocated(heap, inputs)

\* An inference runs the module its request names.
RanAsked == last.ran # 0 => last.ran = last.asked

\* A model slot taken for a module's embedded weights is the current module's:
\* load and unload cycles leave no slot behind.
EmbeddedOwned ==
  \A m \in models : m.by = "module" => m.id = embedded /\ loaded # 0
=============================================================================
