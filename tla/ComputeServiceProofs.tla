------------------------- MODULE ComputeServiceProofs -------------------------
(***************************************************************************)
(* Proofs about ComputeService, for every careful set of clients and every *)
(* size of the heap, of its header, of the tables and of what modules,     *)
(* constants and inputs take.                                              *)
(***************************************************************************)
EXTENDS ComputeService, DspHeapProofs

\* A client that makes large inferences, and such a client with a module.
Large == client.large # {}
LargeLoaded == Large /\ modules # {}

\* There is no module, or one, which what is cached of the table refers to.
OneModule ==
  /\ client \in Clients
  /\ \/ /\ modules = {} /\ loaded = 0 /\ entry = 0 /\ embedded = 0
        /\ regs = NoRegs
     \/ \E m \in modules :
          /\ modules = {m} /\ loaded = m.handle /\ MaxModules >= 1
          /\ m \in [handle : 1 .. client.modules, image : client.images,
                   segs : Seq(Ptrs)]
          /\ entry \in {0, loaded}
          /\ regs \in [of : {0, loaded}, objs : Seq(Ptrs)]
  /\ nextHandle \in 1 .. client.modules + 1

\* The model table.  Without separate weights its only model is the embedded
\* one, and the constants are that model's.
ModelTable ==
  /\ models \subseteq [id : 1 .. nextModelId - 1, consts : Seq(Ptrs),
                       by : {"module", "client"}]
  /\ IsFiniteSet(models) /\ Cardinality(models) <= MaxModels
  /\ nextModelId \in 1 .. client.models + 1 /\ embedded \in 0 .. client.models
  /\ constants \in Seq(Ptrs)
  /\ EmbeddedOwned
  /\ client.weights = {} =>
       /\ \A m \in models : m.by = "module" /\ m.consts = constants
       /\ embedded # 0 => \E m \in models : m.id = embedded

Control == OneModule /\ ModelTable

\* What the module, the constants and the register file hold of a heap whose
\* blocks are A and C.
Held(A, C) ==
  /\ HeapOK(heap, A, C, IF LargeLoaded THEN heap.wm ELSE 0)
  /\ \A m \in modules : /\ Holds(heap, m.segs, A, Seg(m.handle))
                        /\ Apart(m.segs, constants) /\ Apart(m.segs, regs.objs)
  /\ Distinct(constants) /\ Blocks(constants) \subseteq A
  /\ \A p \in Blocks(constants) : heap.owner[p][1] = "const"
  /\ \A m \in models : client.weights = {} =>
       \A p \in Blocks(constants) : heap.owner[p] = Const(m.id)
  /\ Holds(heap, regs.objs, C, Work) /\ Apart(constants, regs.objs)
  /\ ~ Large => C = A
  /\ Large /\ modules = {} => heap.pool.bump = 0
  /\ LargeLoaded =>
       /\ heap.wm <= (SegBlocks + ConstBlocks) * (HeaderSize + 1)
       /\ \A m \in modules : \A p \in Blocks(m.segs) : p < heap.wm
       /\ \A p \in Blocks(constants) : p < heap.wm
       /\ \A p \in Blocks(regs.objs) : p >= heap.wm

\* The input objects the register file points to: there are none without a
\* module, and those in the pool are a large client's and untouched.
InputsHeld ==
  /\ inputs \in {Null, Stack} \cup HeapUnits
  /\ modules = {} => inputs = Null
  /\ inputs \in HeapUnits => Large /\ heap.owner[inputs] = Array

ServiceInv == Control /\ InputsHeld /\ \E A, C \in SUBSET Ptrs : Held(A, C)
-----------------------------------------------------------------------------
\* The owners the service writes.
LEMMA TagTypes ==
  /\ \A n \in Nat : Seg(n) \in Tags /\ Const(n) \in Tags
  /\ Work \in Tags /\ Array \in Tags
  BY DEF Seg, Const, Work, Array, Tags

\* What calls of cg_main_dsp for q have made of s, which had the blocks A and C:
\* there are new blocks N, and the register file holds some of them, or what it
\* held if the call returned at once.
ExecFacts(s, A, C, w, q, N, z) ==
  /\ N \subseteq Ptrs /\ N \cap A = {} /\ HeapOK(z.heap, A \cup N, C \cup N, w)
  /\ \A y \in A : z.heap.owner[y] = s.heap.owner[y]
  /\ z.heap.wm = s.heap.wm
  /\ IF q.input = "count" THEN z.regs = s.regs
     ELSE /\ z.regs \in [of : {Resolve(q)}, objs : Seq(Ptrs)]
          /\ Holds(z.heap, z.regs.objs, N, Work)
          /\ \A y \in Blocks(z.regs.objs) : y >= w
  /\ q.input = "count" => z.heap = s.heap
  /\ q.input # "count" /\ s.heap.pool.bump + HeaderSize + 1 <= PoolUnits => N # {}

\* The blocks of a short list.
LEMMA ShortBlocks ==
  ASSUME NEW s \in Seq(Ptrs)
  PROVE  /\ Len(s) = 2 => /\ Blocks(s) = {s[1], s[2]} /\ s[1] \in Ptrs /\ s[2] \in Ptrs
                          /\ Distinct(s) => s[1] # s[2]
         /\ s # <<>> <=> Blocks(s) # {}
         /\ \A x \in Ptrs : /\ <<x>> \in Seq(Ptrs) /\ Blocks(<<x>>) = {x}
                            /\ Distinct(<<x>>)
         /\ <<>> \in Seq(Ptrs) /\ Blocks(<<>>) = {} /\ Distinct(<<>>)
<1>1. ASSUME Len(s) = 2
      PROVE  /\ Blocks(s) = {s[1], s[2]} /\ s[1] \in Ptrs /\ s[2] \in Ptrs
             /\ Distinct(s) => s[1] # s[2]
  <2>1. 1 .. 2 = {1, 2} /\ 1 # 2
    OBVIOUS
  <2>2. s[1] \in Ptrs /\ s[2] \in Ptrs
    <3>1. \A i \in 1 .. Len(s) : s[i] \in Ptrs
      OBVIOUS
    <3>2. 1 \in 1 .. Len(s) /\ 2 \in 1 .. Len(s)
      BY <1>1, <2>1
    <3> QED BY <3>1, <3>2
  <2>3. Blocks(s) = {s[i] : i \in {1, 2}}
    BY <1>1, <2>1 DEF Blocks
  <2>4. Distinct(s) => s[1] # s[2]
    BY <1>1, <2>1 DEF Distinct
  <2> QED BY <2>2, <2>3, <2>4
<1>2. s # <<>> <=> Blocks(s) # {}
  <2>1. CASE s = <<>>
    BY <2>1 DEF Blocks
  <2>2. CASE s # <<>>
    <3>1. 1 \in 1 .. Len(s)
      BY <2>2
    <3> QED BY <2>2, <3>1 DEF Blocks
  <2> QED BY <2>1, <2>2
<1>3. ASSUME NEW x \in Ptrs
      PROVE  <<x>> \in Seq(Ptrs) /\ Blocks(<<x>>) = {x} /\ Distinct(<<x>>)
  BY DEF Blocks, Distinct
<1>4. <<>> \in Seq(Ptrs) /\ Blocks(<<>>) = {} /\ Distinct(<<>>)
  BY DEF Blocks, Distinct
<1> QED BY <1>1, <1>2, <1>3, <1>4

\* The first block of a list that has one.
LEMMA FirstBlock ==
  ASSUME NEW s \in Seq(Ptrs), Len(s) \in Nat \ {0}
  PROVE  s[1] \in Blocks(s) /\ s[1] \in HeapUnits
<1>1. 1 \in 1 .. Len(s) /\ s[1] \in Ptrs
  OBVIOUS
<1> QED BY <1>1, PtrsUnits, Zenon DEF Blocks

\* One call of cg_main_dsp from a good heap.
LEMMA ExecuteOK ==
  ASSUME CountLaws,
         NEW s \in [heap : HeapType, regs : [of : Nat, objs : Seq(Ptrs)], ret : {"ok", "fail"}],
         NEW A, NEW C, NEW w, HeapOK(s.heap, A, C, w), NEW q
  PROVE  /\ \E N : ExecFacts(s, A, C, w, q, N, Execute(s, q))
         /\ Resolve(q) \in Nat =>
              Execute(s, q) \in [heap : HeapType, regs : [of : Nat, objs : Seq(Ptrs)],
                                 ret : {"ok", "fail"}]
<1> DEFINE z == Execute(s, q)
           W == [heap : HeapType, regs : [of : Nat, objs : Seq(Ptrs)], ret : {"ok", "fail"}]
<1>1. CASE q.input = "count"
  <2>1. /\ z = [s EXCEPT !.ret = "fail"]
    BY <1>1, Zenon DEF Execute
  <2>2. z.heap = s.heap /\ z.regs = s.regs /\ z \in W
    BY <2>1
  <2> HIDE DEF z
  <2>3. A \cup {} = A /\ C \cup {} = C /\ {} \cap A = {} /\ {} \subseteq Ptrs
    OBVIOUS
  <2>4. ExecFacts(s, A, C, w, q, {}, z)
    BY <1>1, <2>2, <2>3 DEF ExecFacts
  <2> QED BY <2>2, <2>4 DEF z
<1>2. CASE q.input # "count"
  <2> DEFINE r == AllocMany(s.heap, Work, 2)
             R == Blocks(r.ptrs)
  <2>1. ManyFacts(s.heap, A, C, w, Work, 2, r)
    BY TagTypes, AllocManyOK
  <2>2. /\ r.heap \in HeapType /\ r.ptrs \in Seq(Ptrs) /\ Len(r.ptrs) \in Nat
        /\ Distinct(r.ptrs) /\ R \cap A = {} /\ \A y \in R : y >= w
        /\ HeapOK(r.heap, A \cup R, C \cup R, w)
        /\ \A y \in R : r.heap.owner[y] = Work
        /\ \A y \in HeapUnits \ R : r.heap.owner[y] = s.heap.owner[y]
        /\ r.heap.wm = s.heap.wm
        /\ Len(r.ptrs) <= 2
    BY <2>1 DEF ManyFacts
  <2>3. A \subseteq HeapUnits /\ R \subseteq Ptrs
    <3>1. A \cup R \subseteq Ptrs
      BY <2>2 DEF HeapOK
    <3> QED BY <3>1, PtrsUnits, Zenon
  <2>4. s.heap.pool.bump + HeaderSize + 1 <= PoolUnits => r.ptrs # <<>>
    <3> SUFFICES ASSUME s.heap.pool.bump + HeaderSize + 1 <= PoolUnits, r.ptrs = <<>>
                 PROVE  FALSE
      OBVIOUS
    <3> DEFINE a == s.heap.pool.bump
               b == r.heap.pool.bump
    <3>1. /\ b <= a + Len(r.ptrs) * (HeaderSize + 1)
          /\ Len(r.ptrs) < 2 => b + HeaderSize + 1 > PoolUnits
      BY <2>1 DEF ManyFacts
    <3>2. a \in 0 .. PoolUnits /\ b \in 0 .. PoolUnits
      BY <2>2, HeapParts
    <3>3. Len(r.ptrs) = 0
      OBVIOUS
    <3>4. a + HeaderSize + 1 <= PoolUnits
      OBVIOUS
    <3> HIDE DEF a, b, r
    <3>5. b <= a /\ b + HeaderSize + 1 > PoolUnits
      <4>1. 0 * (HeaderSize + 1) = 0
        BY HeaderSizeAssumption
      <4> QED BY <3>1, <3>2, <3>3, <4>1
    <3> QED BY <3>2, <3>4, <3>5, HeaderSizeAssumption, PoolUnitsAssumption
  <2>5. z = Executed(r, q)
    BY <1>2, Zenon DEF Execute
  <2> HIDE DEF r, z
  <2>6. CASE Len(r.ptrs) = 2 /\ q.input # "kernel"
    <3> DEFINE x == r.ptrs[1]
               y == r.ptrs[2]
               k == DspFree(r.heap, x)
    <3>1. z = [heap |-> k, regs |-> [of |-> Resolve(q), objs |-> <<y>>], ret |-> "ok"]
      BY <2>5, <2>6, Zenon DEF Executed
    <3>2. R = {x, y} /\ x \in Ptrs /\ y \in Ptrs /\ x # y
      BY <2>2, <2>6, ShortBlocks, Zenon
    <3>3. x \notin A /\ y \notin A /\ x >= w /\ y >= w /\ r.heap.owner[y] = Work
      BY <2>2, <3>2
    <3>4. FreeFrame(r.heap, k, {x})
      BY <2>2, <3>2, DspFreeFrame
    <3>5. k \in HeapType /\ k.owner = r.heap.owner /\ k.wm = r.heap.wm
      BY <3>4 DEF FreeFrame
    <3> HIDE DEF x, y
    <3>6. HeapOK(k, A \cup {y}, C \cup {y}, w)
      <4>1. x \in C \cup R /\ (C \cup R) \ {x} # {}
        BY <3>2, Zenon
      <4>2. HeapOK(k, (A \cup R) \ {x}, (C \cup R) \ {x}, w)
        BY <2>2, <3>3, <4>1, FreeOne, Zenon
      <4>3. C \subseteq A
        BY HeapOKParts
      <4>4. (A \cup R) \ {x} = A \cup {y} /\ (C \cup R) \ {x} = C \cup {y}
        BY <3>2, <3>3, <4>3
      <4> QED BY <4>2, <4>4, Zenon
    <3> HIDE DEF k
    <3>7. /\ z.heap = k /\ z.regs = [of |-> Resolve(q), objs |-> <<y>>]
          /\ z.regs.objs = <<y>> /\ z.ret = "ok"
      BY <3>1
    <3>8. <<y>> \in Seq(Ptrs) /\ Blocks(<<y>>) = {y} /\ Distinct(<<y>>)
      BY <2>2, <3>2, ShortBlocks
    <3>9. Holds(k, <<y>>, {y}, Work)
      BY <3>3, <3>5, <3>8 DEF Holds
    <3>10. z.regs \in [of : {Resolve(q)}, objs : Seq(Ptrs)]
      BY <3>7, <3>8
    <3>11. \A v \in A : k.owner[v] = s.heap.owner[v]
      BY <2>2, <2>3, <3>2, <3>3, <3>5, Zenon
    <3>12. ExecFacts(s, A, C, w, q, {y}, z)
      <4>1. {y} \subseteq Ptrs /\ {y} \cap A = {} /\ {y} # {}
        BY <3>2, <3>3
      <4>2. \A v \in Blocks(<<y>>) : v >= w
        BY <3>3, <3>8
      <4> QED BY <1>2, <2>2, <3>5, <3>6, <3>7, <3>9, <3>10, <3>11, <4>1, <4>2, Zenon
              DEF ExecFacts
    <3>13. Resolve(q) \in Nat => z \in W
      BY <3>1, <3>5, <3>8
    <3> QED BY <3>12, <3>13 DEF z
  <2>7. CASE ~ (Len(r.ptrs) = 2 /\ q.input # "kernel")
    <3>1. z = [heap |-> r.heap, regs |-> [of |-> Resolve(q), objs |-> r.ptrs], ret |-> "fail"]
      BY <2>5, <2>7, Zenon DEF Executed
    <3>2. /\ z.heap = r.heap /\ z.regs = [of |-> Resolve(q), objs |-> r.ptrs]
          /\ z.regs.objs = r.ptrs
      BY <3>1
    <3>3. z.regs \in [of : {Resolve(q)}, objs : Seq(Ptrs)]
      BY <2>2, <3>2
    <3>4. Holds(r.heap, r.ptrs, R, Work)
      BY <2>2 DEF Holds
    <3>5. r.ptrs # <<>> => R # {}
      BY <2>2, ShortBlocks
    <3>6. \A v \in A : r.heap.owner[v] = s.heap.owner[v]
      BY <2>2, <2>3, Zenon
    <3>7. ExecFacts(s, A, C, w, q, R, z)
      BY <1>2, <2>2, <2>3, <2>4, <3>2, <3>3, <3>4, <3>5, <3>6, Zenon DEF ExecFacts
    <3>8. Resolve(q) \in Nat => z \in W
      BY <2>2, <3>1
    <3> QED BY <3>7, <3>8 DEF z
  <2> QED BY <2>6, <2>7
<1> QED BY <1>1, <1>2

\* A second call after the first.
LEMMA TwoRuns ==
  ASSUME NEW s, NEW A, NEW C, NEW w, NEW q, NEW N, NEW M, NEW y, NEW z,
         ExecFacts(s, A, C, w, q, N, y), ExecFacts(y, A \cup N, C \cup N, w, q, M, z)
  PROVE  ExecFacts(s, A, C, w, q, N \cup M, z)
<1>1. /\ N \subseteq Ptrs /\ N \cap A = {}
      /\ \A v \in A : y.heap.owner[v] = s.heap.owner[v]
      /\ y.heap.wm = s.heap.wm
      /\ q.input = "count" => y.regs = s.regs /\ y.heap = s.heap
      /\ q.input # "count" /\ s.heap.pool.bump + HeaderSize + 1 <= PoolUnits => N # {}
  BY DEF ExecFacts
<1>2. /\ M \subseteq Ptrs /\ M \cap (A \cup N) = {}
      /\ HeapOK(z.heap, (A \cup N) \cup M, (C \cup N) \cup M, w)
      /\ \A v \in A \cup N : z.heap.owner[v] = y.heap.owner[v]
      /\ z.heap.wm = y.heap.wm
      /\ q.input = "count" => z.regs = y.regs /\ z.heap = y.heap
      /\ q.input # "count" => /\ z.regs \in [of : {Resolve(q)}, objs : Seq(Ptrs)]
                              /\ Holds(z.heap, z.regs.objs, M, Work)
                              /\ \A v \in Blocks(z.regs.objs) : v >= w
  BY DEF ExecFacts
<1>3. (A \cup N) \cup M = A \cup (N \cup M) /\ (C \cup N) \cup M = C \cup (N \cup M)
  OBVIOUS
<1>4. N \cup M \subseteq Ptrs /\ (N \cup M) \cap A = {} /\ (N # {} => N \cup M # {})
  BY <1>1, <1>2
<1>5. Holds(z.heap, z.regs.objs, M, Work) => Holds(z.heap, z.regs.objs, N \cup M, Work)
  BY DEF Holds
<1>6. \A v \in A : z.heap.owner[v] = s.heap.owner[v]
  BY <1>1, <1>2
<1> QED BY <1>1, <1>2, <1>3, <1>4, <1>5, <1>6, Zenon DEF ExecFacts

\* What a call of cg_main_dsp starts from and leaves.
RunState == [heap : HeapType, regs : [of : Nat, objs : Seq(Ptrs)], ret : {"ok", "fail"}]

\* The loop of handle_infer and of handle_infer_large: one call or two.
LEMMA RunsOK ==
  ASSUME CountLaws, NEW s \in RunState,
         NEW A, NEW C, NEW w, HeapOK(s.heap, A, C, w), NEW q, Resolve(q) \in Nat,
         NEW z, z \in {Execute(s, q), Execute(Execute(s, q), q)}
  PROVE  /\ \E N : ExecFacts(s, A, C, w, q, N, z)
         /\ z \in RunState
<1> DEFINE y == Execute(s, q)
<1>1. y \in RunState
  BY ExecuteOK, Zenon DEF RunState
<1>2. PICK N : ExecFacts(s, A, C, w, q, N, y)
  BY ExecuteOK, Zenon DEF RunState
<1>3. HeapOK(y.heap, A \cup N, C \cup N, w)
  BY <1>2 DEF ExecFacts
<1> HIDE DEF y
<1>4. CASE z = y
  BY <1>1, <1>2, <1>4
<1>5. CASE z = Execute(y, q)
  <2>1. z \in RunState
    BY <1>1, <1>3, <1>5, ExecuteOK, Zenon DEF RunState
  <2>2. PICK M : ExecFacts(y, A \cup N, C \cup N, w, q, M, z)
    BY <1>1, <1>3, <1>5, ExecuteOK, Zenon DEF RunState
  <2>3. ExecFacts(s, A, C, w, q, N \cup M, z)
    BY <1>2, <2>2, TwoRuns
  <2> QED BY <2>1, <2>3
<1> QED BY <1>4, <1>5 DEF y

\* What tvm_model_load_weights makes of a heap with the blocks A, all counted:
\* the old constants are gone, unless no slot was free, and the new ones are
\* blocks that no one else has.
WeightFacts(h, A, B, r) ==
  /\ r.heap \in HeapType /\ r.constants \in Seq(Ptrs) /\ r.ok \in BOOLEAN
  /\ HeapOK(r.heap, B, B, 0) /\ r.heap.wm = h.wm
  /\ A \ Blocks(constants) \subseteq B
  /\ Distinct(r.constants) /\ Blocks(r.constants) \subseteq B
  /\ Blocks(r.constants) \cap (A \ Blocks(constants)) = {}
  /\ \A y \in A \ Blocks(constants) : r.heap.owner[y] = h.owner[y]
  /\ \/ r.heap = h /\ r.constants = constants /\ ~ r.ok /\ Cardinality(models) = MaxModels
     \/ /\ Cardinality(models) # MaxModels
        /\ \A y \in Blocks(r.constants) : r.heap.owner[y] = Const(nextModelId)
  /\ constants = <<>> /\ h.pool.freeList = <<>> =>
       /\ r.heap.pool.freeList = <<>>
       /\ r.heap.pool.bump <= h.pool.bump + ConstBlocks * (HeaderSize + 1)

\* LoadWeights from a good heap that holds the constants.
LEMMA LoadWeightsOK ==
  ASSUME CountLaws, NEW h, NEW A, HeapOK(h, A, A, 0),
         constants \in Seq(Ptrs), Distinct(constants),
         Blocks(constants) \subseteq A, nextModelId \in Nat, NEW state
  PROVE  \E B : WeightFacts(h, A, B, LoadWeights(h, state))
<1> DEFINE K == Blocks(constants)
           g == FreeAll(h, constants)
           r == AllocMany(g, Const(nextModelId), ConstBlocks)
           z == LoadWeights(h, state)
<1>1. h \in HeapType /\ A \subseteq Ptrs /\ h.pool.bump \in 0 .. PoolUnits
  BY HeapOKParts
<1>2. ConstBlocks \in Nat
  BY ServiceAssumption
<1>3. CASE Cardinality(models) = MaxModels
  <2>1. z = [heap |-> h, constants |-> constants, ok |-> FALSE]
    BY <1>3, Zenon DEF LoadWeights
  <2>2. z.heap = h /\ z.constants = constants /\ z.ok = FALSE
    BY <2>1
  <2>3. h.pool.bump <= h.pool.bump + ConstBlocks * (HeaderSize + 1)
    <3> DEFINE a == h.pool.bump
    <3>1. a \in Int
      BY <1>1
    <3>2. ConstBlocks * (HeaderSize + 1) \in Nat
      BY <1>2, HeaderSizeAssumption
    <3> HIDE DEF a
    <3>3. a <= a + ConstBlocks * (HeaderSize + 1)
      BY <3>1, <3>2
    <3> QED BY <3>3 DEF a
  <2> HIDE DEF z
  <2>4. WeightFacts(h, A, A, z)
    <3>1. Blocks(constants) \cap (A \ Blocks(constants)) = {} /\ A \ Blocks(constants) \subseteq A
      OBVIOUS
    <3> QED BY <1>1, <1>3, <2>2, <2>3, <3>1, Zenon DEF WeightFacts
  <2> QED BY <2>4 DEF z
<1>4. CASE Cardinality(models) # MaxModels
  <2>1. /\ g \in HeapType /\ g.owner = h.owner /\ g.wm = h.wm
        /\ HeapOK(g, A \ K, A \ K, 0)
    <3>1. FreeFrame(h, g, K)
      BY <1>1, FreeAllFrame
    <3>2. \A x \in K : x >= 0
      BY <1>1, HeaderSizeAssumption, PoolUnitsAssumption DEF Ptrs
    <3>3. HeapOK(g, A \ K, A \ K, 0)
      <4>1. IF constants # <<>> /\ A \ K = {} THEN HeapOK(g, {}, {}, 0) /\ g.pool.bump = 0
            ELSE HeapOK(g, A \ K, A \ K, 0)
        BY <3>2, FreeAllOK
      <4> HIDE DEF K, g
      <4> QED BY <4>1, Zenon
    <3> QED BY <3>1, <3>3 DEF FreeFrame
  <2>2. constants = <<>> => g = h
    BY <1>1, FreeNone
  <2>3. CASE state \notin {"ok", "torn"}
    <3>1. z = [heap |-> g, constants |-> <<>>, ok |-> FALSE]
      BY <1>4, <2>3, Zenon DEF LoadWeights
    <3>2. z.heap = g /\ z.constants = <<>> /\ z.ok = FALSE
      BY <3>1
    <3>3. <<>> \in Seq(Ptrs) /\ Blocks(<<>>) = {} /\ Distinct(<<>>)
      BY ShortBlocks
    <3>4. h.pool.bump <= h.pool.bump + ConstBlocks * (HeaderSize + 1)
      <4> DEFINE a == h.pool.bump
      <4>1. a \in Int
        BY <1>1
      <4>2. ConstBlocks * (HeaderSize + 1) \in Nat
        BY <1>2, HeaderSizeAssumption
      <4> HIDE DEF a
      <4>3. a <= a + ConstBlocks * (HeaderSize + 1)
        BY <4>1, <4>2
      <4> QED BY <4>3 DEF a
    <3> HIDE DEF z, g
    <3>5. WeightFacts(h, A, A \ K, z)
      BY <1>4, <2>1, <2>2, <3>2, <3>3, <3>4, Zenon DEF WeightFacts
    <3> QED BY <3>5 DEF z
  <2>4. CASE state \in {"ok", "torn"}
    <3> DEFINE R == Blocks(r.ptrs)
    <3>1. ManyFacts(g, A \ K, A \ K, 0, Const(nextModelId), ConstBlocks, r)
      BY <1>2, <2>1, TagTypes, AllocManyOK
    <3>2. /\ r.heap \in HeapType /\ r.ptrs \in Seq(Ptrs)
          /\ Distinct(r.ptrs) /\ R \cap (A \ K) = {}
          /\ HeapOK(r.heap, (A \ K) \cup R, (A \ K) \cup R, 0)
          /\ \A y \in R : r.heap.owner[y] = Const(nextModelId)
          /\ \A y \in HeapUnits \ R : r.heap.owner[y] = g.owner[y]
          /\ r.heap.wm = g.wm /\ Len(r.ptrs) \in Nat /\ Len(r.ptrs) <= ConstBlocks
          /\ r.heap.pool.bump <= g.pool.bump + Len(r.ptrs) * (HeaderSize + 1)
          /\ g.pool.freeList = <<>> => r.heap.pool.freeList = <<>>
      <4>1. /\ r \in [heap : HeapType, ptrs : Seq(Ptrs)]
            /\ Distinct(r.ptrs) /\ R \cap (A \ K) = {}
            /\ HeapOK(r.heap, (A \ K) \cup R, (A \ K) \cup R, 0)
            /\ \A y \in R : r.heap.owner[y] = Const(nextModelId)
            /\ \A y \in HeapUnits \ R : r.heap.owner[y] = g.owner[y]
            /\ r.heap.wm = g.wm /\ Len(r.ptrs) <= ConstBlocks
            /\ r.heap.pool.bump <= g.pool.bump + Len(r.ptrs) * (HeaderSize + 1)
            /\ g.pool.freeList = <<>> => r.heap.pool.freeList = <<>>
        BY <3>1, Zenon DEF ManyFacts
      <4>2. r.heap \in HeapType /\ r.ptrs \in Seq(Ptrs)
        BY <4>1, Zenon
      <4>3. Len(r.ptrs) \in Nat
        BY <4>2
      <4> QED BY <4>1, <4>2, <4>3, Zenon
    <3>3. z = [heap |-> r.heap, constants |-> r.ptrs,
               ok |-> state = "ok" /\ Len(r.ptrs) = ConstBlocks]
      BY <1>4, <2>4, Zenon DEF LoadWeights
    <3>4. z.heap = r.heap /\ z.constants = r.ptrs /\ z.ok \in BOOLEAN
      BY <3>3
    <3>5. r.heap.pool.bump <= g.pool.bump + ConstBlocks * (HeaderSize + 1)
      <4> DEFINE a == g.pool.bump
                 b == r.heap.pool.bump
                 n == Len(r.ptrs)
      <4>1. a \in 0 .. PoolUnits /\ b \in 0 .. PoolUnits
        BY <2>1, <3>2, HeapParts, Zenon
      <4>2. n \in Nat /\ n <= ConstBlocks /\ b <= a + n * (HeaderSize + 1)
        BY <3>2
      <4> HIDE DEF a, b, n
      <4>3. n * (HeaderSize + 1) <= ConstBlocks * (HeaderSize + 1)
        BY <1>2, <4>2, HeaderSizeAssumption
      <4>4. n * (HeaderSize + 1) \in Int /\ ConstBlocks * (HeaderSize + 1) \in Int
        BY <1>2, <4>2, HeaderSizeAssumption
      <4>5. b <= a + ConstBlocks * (HeaderSize + 1)
        BY <4>1, <4>2, <4>3, <4>4, SMTT(30)
      <4> QED BY <4>5 DEF a, b
    <3>6. \A y \in A \ K : r.heap.owner[y] = h.owner[y]
      <4>1. \A y \in A \ K : y \in HeapUnits /\ y \notin R
        BY <1>1, <3>2, PtrsUnits, Zenon
      <4> QED BY <2>1, <3>2, <4>1
    <3> HIDE DEF z, r, g
    <3>7. WeightFacts(h, A, (A \ K) \cup R, z)
      <4>1. A \ K \subseteq (A \ K) \cup R /\ R \subseteq (A \ K) \cup R
        OBVIOUS
      <4>2. constants = <<>> /\ h.pool.freeList = <<>> =>
              /\ r.heap.pool.freeList = <<>>
              /\ r.heap.pool.bump <= h.pool.bump + ConstBlocks * (HeaderSize + 1)
        BY <2>2, <3>2, <3>5
      <4> QED BY <1>4, <2>1, <3>2, <3>4, <3>6, <4>1, <4>2 DEF WeightFacts
    <3> QED BY <3>7 DEF z
  <2> QED BY <2>3, <2>4
<1> QED BY <1>3, <1>4
-----------------------------------------------------------------------------
\* The types and the one-module facts that follow from Control.
LEMMA ControlParts ==
  ASSUME Control
  PROVE  /\ client \in Clients /\ client.modules \in Nat /\ client.models \in Nat
         /\ loaded \in 0 .. client.modules /\ entry \in {0, loaded}
         /\ regs \in [of : {0, loaded}, objs : Seq(Ptrs)]
         /\ regs \in [of : Nat, objs : Seq(Ptrs)]
         /\ constants \in Seq(Ptrs) /\ nextModelId \in Nat /\ nextHandle \in Nat
         /\ modules = {} => loaded = 0 /\ entry = 0 /\ embedded = 0 /\ regs = NoRegs
         /\ \A m \in modules : /\ modules = {m} /\ loaded = m.handle /\ loaded # 0
                               /\ m \in [handle : 1 .. client.modules,
                                         image : client.images, segs : Seq(Ptrs)]
                               /\ MaxModules >= 1
<1>1. client \in Clients /\ client.modules \in Nat /\ client.models \in Nat
  BY ServiceAssumption DEF Control, OneModule, ModelTable
<1>2. /\ constants \in Seq(Ptrs)
      /\ nextHandle \in 1 .. client.modules + 1 /\ nextModelId \in 1 .. client.models + 1
  BY DEF Control, OneModule, ModelTable
<1>3. nextHandle \in Nat /\ nextModelId \in Nat
  BY <1>1, <1>2
<1>4. CASE modules = {} /\ loaded = 0 /\ entry = 0 /\ embedded = 0 /\ regs = NoRegs
  <2>1. regs = [of |-> 0, objs |-> <<>>] /\ <<>> \in Seq(Ptrs)
    BY <1>4 DEF NoRegs
  <2> QED BY <1>1, <1>2, <1>3, <1>4, <2>1
<1>5. CASE \E m \in modules :
             /\ modules = {m} /\ loaded = m.handle /\ MaxModules >= 1
             /\ m \in [handle : 1 .. client.modules, image : client.images,
                      segs : Seq(Ptrs)]
             /\ entry \in {0, loaded}
             /\ regs \in [of : {0, loaded}, objs : Seq(Ptrs)]
  <2>1. PICK m \in modules :
             /\ modules = {m} /\ loaded = m.handle /\ MaxModules >= 1
             /\ m \in [handle : 1 .. client.modules, image : client.images,
                      segs : Seq(Ptrs)]
             /\ entry \in {0, loaded}
             /\ regs \in [of : {0, loaded}, objs : Seq(Ptrs)]
    BY <1>5
  <2>2. m.handle \in 1 .. client.modules
    BY <2>1
  <2>3. loaded \in Nat /\ loaded # 0 /\ loaded \in 0 .. client.modules
    BY <1>1, <2>1, <2>2
  <2>4. regs \in [of : Nat, objs : Seq(Ptrs)]
    BY <2>1, <2>3
  <2>5. \A n \in modules : n = m
    BY <2>1
  <2> QED BY <1>1, <1>2, <1>3, <2>1, <2>3, <2>4, <2>5
<1> QED BY <1>4, <1>5, Zenon DEF Control, OneModule, ModelTable

\* With one module at most, the entry point the handlers call is its own.
LEMMA ResolveLoaded ==
  ASSUME Control, NEW q
  PROVE  Resolve(q) \in {0, loaded} /\ Resolve(q) \in Nat
<1>1. loaded \in Nat /\ entry \in {0, loaded}
      /\ \A m \in modules : m.handle = loaded
  BY ControlParts
<1>2. HasEntry(q.handle) => q.handle = loaded
  BY <1>1 DEF HasEntry
<1> QED BY <1>1, <1>2 DEF Resolve

\* A request that changes neither table, nor the constants, keeps Control.
LEMMA ControlKept ==
  ASSUME Control, UNCHANGED <<client, modules, nextHandle, models, nextModelId,
                              constants, loaded, embedded>>,
         entry' \in {0, loaded}, regs' \in [of : {0, loaded}, objs : Seq(Ptrs)],
         modules = {} => regs' = regs
  PROVE  Control'
<1>1. CASE modules = {} /\ loaded = 0 /\ entry = 0 /\ embedded = 0 /\ regs = NoRegs
  BY <1>1 DEF Control, OneModule, ModelTable, EmbeddedOwned, NoRegs
<1>2. CASE \E m \in modules :
             /\ modules = {m} /\ loaded = m.handle /\ MaxModules >= 1
             /\ m \in [handle : 1 .. client.modules, image : client.images,
                      segs : Seq(Ptrs)]
             /\ entry \in {0, loaded}
             /\ regs \in [of : {0, loaded}, objs : Seq(Ptrs)]
  BY <1>2 DEF Control, OneModule, ModelTable, EmbeddedOwned
<1> QED BY <1>1, <1>2, Zenon DEF Control, OneModule, ModelTable

\* A request that changes neither table, nor the constants, keeps what they hold
\* as long as their blocks stay in use and untouched.
LEMMA HeldKept ==
  ASSUME NEW A, NEW C, NEW B, NEW D, Held(A, C),
         HeapOK(heap', B, D, IF LargeLoaded THEN heap.wm ELSE 0), heap'.wm = heap.wm,
         UNCHANGED <<client, modules, models, constants>>,
         \A m \in modules : /\ Blocks(m.segs) \subseteq B /\ Apart(m.segs, regs'.objs)
                            /\ \A y \in Blocks(m.segs) : heap'.owner[y] = heap.owner[y],
         Blocks(constants) \subseteq B, Apart(constants, regs'.objs),
         \A y \in Blocks(constants) : heap'.owner[y] = heap.owner[y],
         Holds(heap', regs'.objs, D, Work),
         ~ Large => D = B, Large /\ modules = {} => heap'.pool.bump = 0,
         LargeLoaded => \A p \in Blocks(regs'.objs) : p >= heap.wm
  PROVE  Held(B, D)'
<1>1. (Large' <=> Large) /\ (LargeLoaded' <=> LargeLoaded)
  BY Zenon DEF Large, LargeLoaded
<1>2. HeapOK(heap', B, D, IF LargeLoaded' THEN heap'.wm ELSE 0)
  BY <1>1, Zenon
<1>3. \A m \in modules : /\ Holds(heap', m.segs, B, Seg(m.handle))
                         /\ Apart(m.segs, constants) /\ Apart(m.segs, regs'.objs)
  BY Zenon DEF Held, Holds
<1>4. /\ Distinct(constants) /\ Blocks(constants) \subseteq B
      /\ \A p \in Blocks(constants) : heap'.owner[p][1] = "const"
      /\ \A m \in models : client.weights = {} =>
           \A p \in Blocks(constants) : heap'.owner[p] = Const(m.id)
  BY Zenon DEF Held
<1>5. LargeLoaded =>
       /\ heap.wm <= (SegBlocks + ConstBlocks) * (HeaderSize + 1)
       /\ \A m \in modules : \A p \in Blocks(m.segs) : p < heap.wm
       /\ \A p \in Blocks(constants) : p < heap.wm
  BY Zenon DEF Held
<1> QED BY <1>1, <1>2, <1>3, <1>4, <1>5, Zenon DEF Held

\* The same for a request that leaves the heap alone, but for its flag, and the
\* register file.
LEMMA HeldSame ==
  ASSUME CountLaws, NEW A, NEW C, Held(A, C), heap' = heap \/ heap' = OomReset(heap),
         UNCHANGED <<client, modules, models, constants, regs>>
  PROVE  Held(A, C)'
<1> DEFINE w == IF LargeLoaded THEN heap.wm ELSE 0
<1>1. HeapOK(heap, A, C, w)
  BY DEF Held
<1>2. /\ HeapOK(heap', A, C, w) /\ heap'.wm = heap.wm
      /\ heap'.owner = heap.owner /\ heap'.pool = heap.pool
  <2>1. CASE heap' = heap
    BY <1>1, <2>1
  <2>2. CASE heap' = OomReset(heap)
    <3> HIDE DEF w
    <3> QED BY <1>1, <2>2, OomOK, Zenon DEF OomReset
  <2> QED BY <2>1, <2>2
<1>3. C \subseteq A
  BY <1>1, HeapOKParts, Zenon
<1>4. \A m \in modules : /\ Blocks(m.segs) \subseteq A /\ Apart(m.segs, regs'.objs)
                         /\ \A y \in Blocks(m.segs) : heap'.owner[y] = heap.owner[y]
  BY <1>2, Zenon DEF Held, Holds
<1>5. /\ Blocks(constants) \subseteq A /\ Apart(constants, regs'.objs)
      /\ \A y \in Blocks(constants) : heap'.owner[y] = heap.owner[y]
      /\ Holds(heap', regs'.objs, C, Work)
  BY <1>2, Zenon DEF Held, Holds
<1>6. /\ ~ Large => C = A
      /\ Large /\ modules = {} => heap'.pool.bump = 0
      /\ LargeLoaded => \A p \in Blocks(regs'.objs) : p >= heap.wm
  BY <1>2 DEF Held
<1> QED BY <1>2, <1>4, <1>5, <1>6, HeldKept, Zenon

\* Null and the handler's frame are outside the pool.
LEMMA OutsidePool == Null \notin HeapUnits /\ Stack \notin HeapUnits
  BY PoolUnitsAssumption DEF Null, Stack, HeapUnits

\* A request that leaves the registers of the inputs, and what they point to.
LEMMA InputsKept ==
  ASSUME InputsHeld, UNCHANGED <<client, modules, inputs>>,
         inputs \in HeapUnits => heap'.owner = heap.owner
  PROVE  InputsHeld'
<1>1. Large' <=> Large
  BY Zenon DEF Large
<1> QED BY <1>1, Zenon DEF InputsHeld

\* One that leaves no register pointing to an input object in the pool.
LEMMA InputsGone ==
  ASSUME inputs' = Null \/ (inputs' = Stack /\ modules' # {})
  PROVE  InputsHeld'
  BY OutsidePool, Zenon DEF InputsHeld

\* The clean-up of the register file damages no one's data: all it changes is
\* that the model's objects are freed.
LEMMA CleanupOK ==
  ASSUME InputsHeld, heap \in HeapType
  PROVE  RegFileCleanup(heap) = FreeAll(heap, regs.objs)
<1>1. heap.pool.base = 0 /\ heap.pool.size = PoolUnits
  BY HeapParts, Zenon
<1>2. CASE inputs \in HeapUnits
  BY <1>2, Zenon DEF InputsHeld, Touch, RegFileCleanup
<1>3. CASE inputs \in {Null, Stack}
  <2>1. ~ PoolContains(heap.pool, inputs)
    BY <1>1, <1>3, PoolUnitsAssumption DEF PoolContains, Null, Stack
  <2> QED BY <2>1, Zenon DEF Touch, RegFileCleanup
<1> QED BY <1>2, <1>3, Zenon DEF InputsHeld

\* ServiceInv after a request that gives what the tables hold some blocks.
LEMMA InvFrom ==
  ASSUME CountLaws, NEW B, NEW D, Control', InputsHeld', Held(B, D)'
  PROVE  ServiceInv'
<1>1. HeapOK(heap', B, D, (IF LargeLoaded THEN heap.wm ELSE 0)')
  BY Zenon DEF Held
<1>2. B \in SUBSET Ptrs /\ D \in SUBSET Ptrs
  BY <1>1, HeapOKParts
<1> QED BY <1>2, Zenon DEF ServiceInv

\* handle_infer and handle_infer_large when they refuse before they touch memory.
LEMMA RefuseOK ==
  ASSUME CountLaws, ServiceInv, NEW q, NEW status, Refuse(q, status), entry' \in {0, loaded},
         UNCHANGED <<client, modules, nextHandle, models, nextModelId, constants,
                     loaded, embedded>>
  PROVE  ServiceInv'
<1>1. PICK A, C : Held(A, C)
  BY DEF ServiceInv
<1>2. heap' = heap /\ regs' = regs /\ inputs' = inputs
  BY DEF Refuse
<1>3. regs \in [of : {0, loaded}, objs : Seq(Ptrs)]
  BY ControlParts DEF ServiceInv
<1>4. Control'
  BY <1>2, <1>3, ControlKept DEF ServiceInv
<1>5. Held(A, C)'
  BY <1>1, <1>2, HeldSame
<1>6. InputsHeld'
  BY <1>2, InputsKept, Zenon DEF ServiceInv
<1> QED BY <1>4, <1>5, <1>6, InvFrom, Zenon

\* What is left of a run once the flag was taken.
LEMMA AfterRunOK ==
  ASSUME NEW z, NEW A, NEW C, NEW w, HeapOK(z.heap, A, C, w)
  PROVE  /\ HeapOK(AfterRun(z), A, C, w)
         /\ AfterRun(z).owner = z.heap.owner /\ AfterRun(z).wm = z.heap.wm
<1>1. LET k == OomReset(z.heap) IN
      HeapOK(k, A, C, w) /\ k.owner = z.heap.owner /\ k.wm = z.heap.wm
  BY OomOK, Zenon DEF OomReset
<1> QED BY <1>1 DEF AfterRun

\* handle_infer
LEMMA InferOK ==
  ASSUME CountLaws, ServiceInv, NEW q, Infer(q), UNCHANGED client
  PROVE  ServiceInv'
<1> DEFINE s == [heap |-> OomReset(heap), regs |-> regs, ret |-> "ok"]
           z == Repeated(Execute(s, q), q)
           w == IF LargeLoaded THEN heap.wm ELSE 0
<1>1. Control
  BY DEF ServiceInv
<1>2. Resolve(q) \in {0, loaded} /\ Resolve(q) \in Nat /\ entry \in {0, loaded}
  BY <1>1, ResolveLoaded, ControlParts, Zenon
<1>3. UNCHANGED <<client, modules, nextHandle, models, nextModelId, constants,
                  loaded, embedded>>
  BY Zenon DEF Infer
<1>4. \/ Refuse(q, "ERR_HANDLE") /\ entry' \in {entry, Resolve(q)}
      \/ Refuse(q, "ERR_ADDR") /\ entry' = entry
      \/ Refuse(q, "ERR_SYMBOL") /\ entry' = entry
      \/ Refuse(q, "ERR_TENSOR") /\ entry' = Resolve(q)
      \/ Resolve(q) # 0 /\ Ran(z, q) /\ entry' = Resolve(q)
  BY DEF Infer
<1>5. ASSUME NEW status, Refuse(q, status), entry' \in {entry, Resolve(q)}
      PROVE  ServiceInv'
  BY <1>2, <1>3, <1>5, RefuseOK, Zenon
<1>6. CASE Resolve(q) # 0 /\ Ran(z, q) /\ entry' = Resolve(q)
  <2>1. PICK A, C : Held(A, C)
    BY Zenon DEF ServiceInv
  <2>2. HeapOK(heap, A, C, w)
    BY <2>1, Zenon DEF Held
  <2>3. /\ s.heap = OomReset(heap) /\ s.regs = regs /\ s.ret = "ok"
        /\ HeapOK(s.heap, A, C, w) /\ s.heap.owner = heap.owner /\ s.heap.wm = heap.wm
    <3> HIDE DEF w
    <3>1. LET k == OomReset(heap) IN
          HeapOK(k, A, C, w) /\ k.owner = heap.owner /\ k.wm = heap.wm
      BY <2>2, OomOK, Zenon DEF OomReset
    <3> QED BY <3>1
  <2>4. s \in RunState
    <3>1. OomReset(heap) \in HeapType
      BY <2>3, HeapOKParts, ZenonT(60)
    <3>2. regs \in [of : Nat, objs : Seq(Ptrs)]
      BY <1>1, ControlParts
    <3> QED BY <3>1, <3>2 DEF RunState
  <2>5. z \in {Execute(s, q), Execute(Execute(s, q), q)}
    BY DEF Repeated
  <2>6. /\ heap' = AfterRun(z) /\ regs' = z.regs
        /\ inputs' = InputRegs(q, inputs, Stack)
    BY <1>6, Zenon DEF Ran
  <2>7. modules # {}
    BY <1>1, <1>2, <1>6, ControlParts
  <2> HIDE DEF s, z, w
  <2>8. PICK N : ExecFacts(s, A, C, w, q, N, z)
    BY <1>2, <2>3, <2>4, <2>5, RunsOK, Zenon
  <2>9. z \in RunState
    BY <1>2, <2>3, <2>4, <2>5, RunsOK, Zenon
  <2>10. /\ N \cap A = {} /\ HeapOK(z.heap, A \cup N, C \cup N, w)
         /\ \A v \in A : z.heap.owner[v] = heap.owner[v]
         /\ z.heap.wm = heap.wm
    BY <2>3, <2>8, Zenon DEF ExecFacts
  <2>11. \/ z.regs = regs
         \/ /\ z.regs \in [of : {Resolve(q)}, objs : Seq(Ptrs)]
            /\ Holds(z.heap, z.regs.objs, N, Work)
            /\ \A y \in Blocks(z.regs.objs) : y >= w
    BY <2>3, <2>8 DEF ExecFacts
  <2>12. /\ HeapOK(heap', A \cup N, C \cup N, w)
         /\ heap'.owner = z.heap.owner /\ heap'.wm = heap.wm
    BY <2>6, <2>10, AfterRunOK, Zenon
  <2>13. C \subseteq A
    BY <2>2, HeapOKParts
  <2>14. regs' \in [of : {0, loaded}, objs : Seq(Ptrs)]
    <3>1. regs \in [of : {0, loaded}, objs : Seq(Ptrs)]
      BY <1>1, ControlParts, Zenon
    <3> QED BY <1>2, <2>6, <2>11, <3>1, Zenon
  <2>15. Control'
    BY <1>1, <1>2, <1>3, <1>6, <2>7, <2>14, ControlKept, Zenon
  <2>16. \A m \in modules : /\ Blocks(m.segs) \subseteq A
                            /\ Apart(m.segs, regs.objs)
    BY <2>1, Zenon DEF Held, Holds
  <2>17. /\ Blocks(constants) \subseteq A /\ Apart(constants, regs.objs)
         /\ Holds(heap, regs.objs, C, Work) /\ (~ Large => C = A)
         /\ LargeLoaded => \A p \in Blocks(regs.objs) : p >= heap.wm
    BY <2>1, Zenon DEF Held
  <2>18. \A m \in modules : /\ Blocks(m.segs) \subseteq A \cup N /\ Apart(m.segs, regs'.objs)
                            /\ \A y \in Blocks(m.segs) : heap'.owner[y] = heap.owner[y]
    <3>1. CASE z.regs = regs
      BY <2>6, <2>10, <2>12, <2>16, <3>1, Zenon
    <3>2. CASE Holds(z.heap, z.regs.objs, N, Work)
      BY <2>6, <2>10, <2>12, <2>16, <3>2, Zenon DEF Holds, Apart
    <3> QED BY <2>11, <3>1, <3>2, Zenon
  <2>19. /\ Blocks(constants) \subseteq A \cup N /\ Apart(constants, regs'.objs)
         /\ \A y \in Blocks(constants) : heap'.owner[y] = heap.owner[y]
    <3>1. CASE z.regs = regs
      BY <2>6, <2>10, <2>12, <2>17, <3>1, Zenon
    <3>2. CASE Holds(z.heap, z.regs.objs, N, Work)
      BY <2>6, <2>10, <2>12, <2>17, <3>2, Zenon DEF Holds, Apart
    <3> QED BY <2>11, <3>1, <3>2, Zenon
  <2>20. Holds(heap', regs'.objs, C \cup N, Work)
    <3>1. CASE z.regs = regs
      BY <2>6, <2>10, <2>12, <2>13, <2>17, <3>1, Zenon DEF Holds
    <3>2. CASE Holds(z.heap, z.regs.objs, N, Work)
      BY <2>6, <2>12, <3>2, Zenon DEF Holds
    <3> QED BY <2>11, <3>1, <3>2, Zenon
  <2>21. LargeLoaded => \A p \in Blocks(regs'.objs) : p >= heap.wm
    BY <2>6, <2>11, <2>17 DEF w
  <2>22. Held(A \cup N, C \cup N)'
    <3>1. HeapOK(heap', A \cup N, C \cup N, IF LargeLoaded THEN heap.wm ELSE 0)
      BY <2>12 DEF w
    <3>2. ~ Large => C \cup N = A \cup N
      BY <2>17
    <3> QED BY <1>3, <2>1, <2>7, <2>12, <2>18, <2>19, <2>20, <2>21, <3>1, <3>2, HeldKept, Zenon
  <2>23. InputsHeld'
    <3>1. CASE q.input = "count"
      <4>1. z.heap = s.heap
        BY <2>8, <3>1, Zenon DEF ExecFacts
      <4>2. heap'.owner = heap.owner /\ inputs' = inputs
        BY <2>3, <2>6, <2>12, <3>1, <4>1, Zenon DEF InputRegs
      <4> QED BY <1>3, <4>2, InputsKept, Zenon DEF ServiceInv
    <3>2. CASE q.input # "count"
      <4>1. inputs' = Stack /\ modules' # {}
        BY <1>3, <2>6, <2>7, <3>2, Zenon DEF InputRegs
      <4> QED BY <4>1, InputsGone, Zenon
    <3> QED BY <3>1, <3>2, Zenon
  <2> QED BY <2>15, <2>22, <2>23, InvFrom, Zenon
<1> QED BY <1>4, <1>5, <1>6

\* A pool whose bump pointer is at its base has no block.
LEMMA EmptyPool ==
  ASSUME CountLaws, NEW h, NEW A, NEW C, NEW w, HeapOK(h, A, C, w), h.pool.bump = 0
  PROVE  A = {} /\ C = {} /\ h.pool.freeList = <<>>
<1>1. /\ A \subseteq Ptrs /\ C \subseteq A /\ h.pool.freeList \in Seq(HeapUnits)
      /\ Blocks(h.pool.freeList) \subseteq HeapUnits
      /\ \A a \in Blocks(h.pool.freeList) : a + HeaderSize < h.pool.bump
  BY HeapOKParts, Zenon
<1>2. \A p \in A : p < 0
  BY DEF HeapOK, LiveOK
<1>3. \A p \in Ptrs : p >= 0
  BY HeaderSizeAssumption, PoolUnitsAssumption DEF Ptrs
<1>4. \A p \in Ptrs : ~ (p < 0)
  BY <1>3, HeaderSizeAssumption, PoolUnitsAssumption DEF Ptrs
<1>5. A = {} /\ C = {}
  BY <1>1, <1>2, <1>4
<1>6. ASSUME h.pool.freeList # <<>> PROVE FALSE
  <2>1. 1 \in 1 .. Len(h.pool.freeList)
    BY <1>1, <1>6
  <2>2. h.pool.freeList[1] \in Blocks(h.pool.freeList)
    BY <2>1 DEF Blocks
  <2>3. PICK a \in HeapUnits : a + HeaderSize < 0
    BY <1>1, <2>2
  <2> QED BY <2>3, HeaderSizeAssumption, PoolUnitsAssumption DEF HeapUnits
<1> QED BY <1>5, <1>6, Zenon

\* One more model in a table with a free slot.
LEMMA AddModelOK ==
  ASSUME CountLaws, ModelTable, client.models \in Nat, nextModelId <= client.models, NEW r,
         r.constants \in Seq(Ptrs), NEW by \in {"module", "client"},
         Cardinality(models) # MaxModels
  PROVE  LET ms == AddModel(r, by) IN
         /\ ms \subseteq [id : 1 .. (nextModelId + 1) - 1, consts : Seq(Ptrs),
                          by : {"module", "client"}]
         /\ IsFiniteSet(ms) /\ Cardinality(ms) <= MaxModels
         /\ nextModelId + 1 \in 1 .. client.models + 1 /\ nextModelId \in 0 .. client.models
<1> DEFINE n == [id |-> nextModelId, consts |-> r.constants, by |-> by]
<1>1. /\ IsFiniteSet(models) /\ Cardinality(models) <= MaxModels
      /\ nextModelId \in 1 .. client.models + 1
      /\ models \subseteq [id : 1 .. nextModelId - 1, consts : Seq(Ptrs),
                           by : {"module", "client"}]
  BY DEF ModelTable
<1>2. nextModelId \in Nat /\ 1 <= nextModelId /\ MaxModels \in Nat
  BY <1>1, ServiceAssumption
<1>3. n \in [id : 1 .. (nextModelId + 1) - 1, consts : Seq(Ptrs), by : {"module", "client"}]
  <2>1. nextModelId \in 1 .. (nextModelId + 1) - 1
    BY <1>2
  <2> QED BY <2>1
<1>4. models \subseteq [id : 1 .. (nextModelId + 1) - 1, consts : Seq(Ptrs),
                        by : {"module", "client"}]
  <2>1. 1 .. nextModelId - 1 \subseteq 1 .. (nextModelId + 1) - 1
    BY <1>2
  <2> QED BY <1>1, <2>1
<1>5. /\ IsFiniteSet(models \cup {n})
      /\ Cardinality(models \cup {n}) <= MaxModels
  <2> HIDE DEF n
  <2>1. /\ IsFiniteSet(models \cup {n})
        /\ Cardinality(models \cup {n}) \in {Cardinality(models), Cardinality(models) + 1}
    BY <1>1, CountAdd, Zenon
  <2>2. Cardinality(models) \in Nat
    BY <1>1, CountType
  <2> QED BY <1>1, <1>2, <2>1, <2>2
<1>6. nextModelId + 1 \in 1 .. client.models + 1 /\ nextModelId \in 0 .. client.models
  BY <1>2
<1> QED BY <1>3, <1>4, <1>5, <1>6, Zenon DEF AddModel

\* Fewer models in the table.
LEMMA FewerModels ==
  ASSUME CountLaws, ModelTable, NEW S, S \subseteq models
  PROVE  /\ S \subseteq [id : 1 .. nextModelId - 1, consts : Seq(Ptrs),
                         by : {"module", "client"}]
         /\ IsFiniteSet(S) /\ Cardinality(S) <= MaxModels
<1>1. /\ IsFiniteSet(models) /\ Cardinality(models) <= MaxModels
      /\ models \subseteq [id : 1 .. nextModelId - 1, consts : Seq(Ptrs),
                           by : {"module", "client"}]
  BY DEF ModelTable
<1>2. IsFiniteSet(S) /\ Cardinality(S) <= Cardinality(models)
  BY <1>1, CountSubset
<1>3. Cardinality(S) \in Nat /\ Cardinality(models) \in Nat /\ MaxModels \in Nat
  BY <1>1, <1>2, CountType, ServiceAssumption
<1> QED BY <1>1, <1>2, <1>3

\* handle_model_unload
LEMMA ModelUnloadOK ==
  ASSUME CountLaws, ServiceInv, NEW id \in {0} \cup ClientModels, ModelUnload(id), UNCHANGED client
  PROVE  ServiceInv'
<1>1. /\ models' = {m \in models : m.id # id}
      /\ UNCHANGED <<heap, modules, nextHandle, nextModelId, constants, loaded,
                     entry, embedded, regs, inputs>>
  BY DEF ModelUnload
<1>2. OneModule /\ ModelTable
  BY DEF ServiceInv, Control
<1>3. models' \subseteq models
  BY <1>1
<1>4. client.weights = {} => models' = models
  <2>1. ASSUME client.weights = {}, NEW m \in models
        PROVE  m.id # id
    <3>1. ClientModels = {}
      BY <1>2, <2>1, Zenon DEF ClientModels, ModelTable
    <3>2. m.id \in 1 .. nextModelId - 1 /\ nextModelId \in Nat
      BY <1>2, <2>1, ControlParts, Zenon DEF ModelTable, Control
    <3> QED BY <3>1, <3>2
  <2> QED BY <1>1, <2>1
<1>5. OneModule'
  BY <1>1, <1>2 DEF OneModule
<1>6. /\ models' \subseteq [id : 1 .. nextModelId - 1, consts : Seq(Ptrs),
                            by : {"module", "client"}]
      /\ IsFiniteSet(models') /\ Cardinality(models') <= MaxModels
  <2>1. PICK S : S = models'
    OBVIOUS
  <2> QED BY <1>2, <1>3, <2>1, FewerModels
<1>7. ModelTable'
  BY <1>1, <1>2, <1>3, <1>4, <1>6, Zenon DEF ModelTable, EmbeddedOwned
<1>8. PICK A, C : Held(A, C)
  BY DEF ServiceInv
<1>9. Held(A, C)'
  BY <1>1, <1>3, <1>8, Zenon DEF Held, Large, LargeLoaded
<1>10. InputsHeld'
  BY <1>1, InputsKept, Zenon DEF ServiceInv
<1> QED BY <1>5, <1>7, <1>9, <1>10, InvFrom, Zenon DEF Control

\* What CarefulClients says of the client at work.
LEMMA Careful ==
  ASSUME CarefulClients, client \in Clients
  PROVE  /\ MaxModules <= 1 \/ client.atOnce <= 1
         /\ Large =>
              /\ client.weights = {} /\ ~ client.stale
              /\ client.large \subseteq {"ok", "header", "kernel", "size"}
              /\ \A i \in client.images : i.entry
              /\ (SegBlocks + ConstBlocks + ArrayBlocks + 1) * (HeaderSize + 1) <= PoolUnits
  BY Zenon DEF CarefulClients, Large

\* handle_model_load
LEMMA ModelLoadOK ==
  ASSUME CountLaws, ServiceInv, CarefulClients, NEW file \in client.weights, ModelLoad(file),
         UNCHANGED client
  PROVE  ServiceInv'
<1> DEFINE h == OomReset(heap)
           r == LoadWeights(h, file.state)
<1>1. OneModule /\ ModelTable /\ Control
  BY Zenon DEF ServiceInv, Control
<1>2. /\ nextModelId <= client.models
      /\ UNCHANGED <<modules, nextHandle, loaded, entry, embedded, regs, inputs>>
  BY DEF ModelLoad
<1>3. PICK A, C : Held(A, C)
  BY DEF ServiceInv
<1>4. client \in Clients /\ client.models \in Nat /\ nextModelId \in Nat
      /\ constants \in Seq(Ptrs)
  BY <1>1, ControlParts, Zenon
<1>5. ~ Large /\ client.weights # {} /\ ~ LargeLoaded
  BY <1>4, Careful, Zenon DEF LargeLoaded
<1>6. OneModule'
  BY <1>1, <1>2 DEF OneModule
<1>9. InputsHeld'
  <2>1. InputsHeld /\ inputs \notin HeapUnits
    BY <1>5, Zenon DEF ServiceInv, InputsHeld
  <2> QED BY <1>2, <2>1, InputsKept, Zenon
<1>7. CASE UNCHANGED <<heap, models, nextModelId, constants>>
  <2>1. ModelTable'
    BY <1>1, <1>2, <1>7, Zenon DEF ModelTable, EmbeddedOwned
  <2>2. Held(A, C)'
    BY <1>2, <1>3, <1>7, HeldSame
  <2> QED BY <1>6, <1>9, <2>1, <2>2, InvFrom, Zenon DEF Control
<1>8. CASE /\ constants' = r.constants /\ heap' \in {r.heap, OomReset(r.heap)}
           /\ \/ UNCHANGED <<models, nextModelId>>
              \/ /\ r.ok /\ models' = AddModel(r, "client")
                 /\ nextModelId' = nextModelId + 1
  <2>0. constants' = r.constants
    BY <1>8, Zenon
  <2>1. C = A /\ HeapOK(heap, A, A, 0)
    BY <1>3, <1>5 DEF Held
  <2>2. HeapOK(h, A, A, 0) /\ h.owner = heap.owner
    BY <2>1, OomOK, Zenon DEF OomReset
  <2>3. Distinct(constants) /\ Blocks(constants) \subseteq A
    BY <1>3 DEF Held
  <2> HIDE DEF h
  <2>4. PICK B : WeightFacts(h, A, B, r)
    BY <1>4, <2>2, <2>3, LoadWeightsOK, Zenon
  <2> HIDE DEF r
  <2>5. /\ r.constants \in Seq(Ptrs) /\ HeapOK(r.heap, B, B, 0)
        /\ A \ Blocks(constants) \subseteq B
        /\ Distinct(r.constants) /\ Blocks(r.constants) \subseteq B
        /\ Blocks(r.constants) \cap (A \ Blocks(constants)) = {}
        /\ \A y \in A \ Blocks(constants) : r.heap.owner[y] = heap.owner[y]
        /\ \/ r.heap = h /\ r.constants = constants /\ ~ r.ok
           \/ /\ Cardinality(models) # MaxModels
              /\ \A y \in Blocks(r.constants) : r.heap.owner[y] = Const(nextModelId)
    BY <2>2, <2>4, Zenon DEF WeightFacts
  <2>6. HeapOK(heap', B, B, 0) /\ heap'.owner = r.heap.owner
    <3>1. CASE heap' = r.heap
      BY <2>5, <3>1
    <3>2. CASE heap' = OomReset(r.heap)
      BY <2>5, <3>2, OomOK, Zenon DEF OomReset
    <3> QED BY <1>8, <3>1, <3>2, Zenon
  <2>7. ModelTable'
    <3>1. CASE UNCHANGED <<models, nextModelId>>
      BY <1>1, <1>2, <1>5, <2>0, <2>5, <3>1, Zenon DEF ModelTable, EmbeddedOwned
    <3>2. CASE r.ok /\ models' = AddModel(r, "client") /\ nextModelId' = nextModelId + 1
      <4>1. /\ models' \subseteq [id : 1 .. nextModelId' - 1, consts : Seq(Ptrs),
                                  by : {"module", "client"}]
            /\ IsFiniteSet(models') /\ Cardinality(models') <= MaxModels
            /\ nextModelId' \in 1 .. client.models + 1
        BY <1>1, <1>2, <1>4, <2>5, <3>2, AddModelOK, ZenonT(60)
      <4>2. EmbeddedOwned'
        <5>1. models' = models \cup {[id |-> nextModelId, consts |-> r.constants,
                                      by |-> "client"]}
          BY <3>2 DEF AddModel
        <5>2. EmbeddedOwned /\ embedded' = embedded /\ loaded' = loaded
          BY <1>1, <1>2, Zenon DEF ModelTable
        <5>3. ASSUME NEW n \in models', n.by = "module" PROVE n \in models
          <6>1. [id |-> nextModelId, consts |-> r.constants, by |-> "client"].by = "client"
            BY Zenon
          <6> QED BY <5>1, <5>3, <6>1, Zenon
        <5> QED BY <5>2, <5>3, Zenon DEF EmbeddedOwned
      <4>3. embedded' \in 0 .. client.models
        BY <1>1, <1>2 DEF ModelTable
      <4> QED BY <1>5, <2>0, <2>5, <4>1, <4>2, <4>3, Zenon DEF ModelTable
    <3> QED BY <1>8, <3>1, <3>2, Zenon
  <2>8. Held(B, B)'
    <3>1. \A m \in modules : /\ Holds(heap', m.segs, B, Seg(m.handle))
                             /\ Apart(m.segs, r.constants) /\ Apart(m.segs, regs.objs)
      <4>1. \A m \in modules : /\ Holds(heap, m.segs, A, Seg(m.handle))
                               /\ Apart(m.segs, constants) /\ Apart(m.segs, regs.objs)
        BY <1>3, Zenon DEF Held
      <4> QED BY <2>5, <2>6, <4>1 DEF Holds, Apart
    <3>2. Holds(heap', regs.objs, B, Work) /\ Apart(r.constants, regs.objs)
      <4>1. Holds(heap, regs.objs, A, Work) /\ Apart(constants, regs.objs)
        BY <1>3, <2>1, Zenon DEF Held
      <4> QED BY <2>5, <2>6, <4>1, Zenon DEF Holds, Apart
    <3>3. \A p \in Blocks(r.constants) : heap'.owner[p][1] = "const"
      <4>1. CASE r.heap = h /\ r.constants = constants
        <5>1. \A p \in Blocks(constants) : heap.owner[p][1] = "const"
          BY <1>3, Zenon DEF Held
        <5>2. heap'.owner = heap.owner
          BY <2>2, <2>6, <4>1, Zenon
        <5> QED BY <4>1, <5>1, <5>2, Zenon
      <4>2. CASE \A y \in Blocks(r.constants) : r.heap.owner[y] = Const(nextModelId)
        BY <2>6, <4>2 DEF Const
      <4> QED BY <2>5, <4>1, <4>2, Zenon
    <3>4. ~ Large' /\ ~ LargeLoaded' /\ client'.weights # {}
      BY <1>5 DEF Large, LargeLoaded
    <3> QED BY <1>2, <2>0, <2>5, <2>6, <3>1, <3>2, <3>3, <3>4, Zenon DEF Held
  <2> QED BY <1>6, <1>9, <2>7, <2>8, InvFrom, Zenon DEF Control
<1> QED
  <2>1. \/ UNCHANGED <<heap, models, nextModelId, constants>>
        \/ /\ constants' = r.constants /\ heap' \in {r.heap, OomReset(r.heap)}
           /\ \/ UNCHANGED <<models, nextModelId>>
              \/ /\ r.ok /\ models' = AddModel(r, "client")
                 /\ nextModelId' = nextModelId + 1
    <3> HIDE DEF r
    <3>1. /\ IF file.state = "empty"
             THEN /\ Answer("ERR_SIZE", 0, 0)
                  /\ UNCHANGED <<heap, models, nextModelId, constants>>
             ELSE IF r.ok
             THEN /\ models' = AddModel(r, "client")
                  /\ nextModelId' = nextModelId + 1
                  /\ constants' = r.constants
                  /\ heap' = r.heap
                  /\ Answer("SUCCESS", nextModelId, 0)
             ELSE /\ constants' = r.constants
                  /\ heap' = OomReset(r.heap)
                  /\ Answer(IF r.heap.oom THEN "ERR_NOMEM" ELSE "ERR_WEIGHTS", 0, 0)
                  /\ UNCHANGED <<models, nextModelId>>
      BY Zenon DEF ModelLoad, r
    <3> QED BY <3>1
  <2> QED BY <1>7, <1>8, <2>1, Zenon

\* handle_dyn_unload
LEMMA DynUnloadOK ==
  ASSUME CountLaws, ServiceInv, NEW h, DynUnload(h), UNCHANGED client
  PROVE  ServiceInv'
<1> DEFINE found == {m \in modules : m.handle = h}
           freed == FreeAll(RegFileCleanup(heap), constants)
<1>1. OneModule /\ ModelTable /\ Control
  BY DEF ServiceInv, Control
<1>2. PICK A, C : Held(A, C)
  BY DEF ServiceInv
<1>3. /\ \A m \in modules : /\ modules = {m} /\ m.handle = loaded /\ loaded # 0
                            /\ m.segs \in Seq(Ptrs)
      /\ modules = {} => loaded = 0 /\ entry = 0 /\ embedded = 0 /\ regs = NoRegs
      /\ constants \in Seq(Ptrs) /\ regs.objs \in Seq(Ptrs)
      /\ regs \in [of : {0, loaded}, objs : Seq(Ptrs)]
      /\ entry \in {0, loaded} /\ nextModelId \in Nat
  BY <1>1, ControlParts, Zenon
<1>4. UNCHANGED <<nextHandle, nextModelId>>
  BY Zenon DEF DynUnload
<1>5. heap \in HeapType
  <2>1. HeapOK(heap, A, C, IF LargeLoaded THEN heap.wm ELSE 0)
    BY <1>2, Zenon DEF Held
  <2> QED BY <2>1, HeapOKParts
<1>6. \A m \in models : m.id \in 1 .. nextModelId - 1 /\ m.id # 0
  BY <1>1, <1>3 DEF ModelTable
<1>10. InputsHeld /\ RegFileCleanup(heap) = FreeAll(heap, regs.objs)
  BY <1>5, CleanupOK, Zenon DEF ServiceInv
<1>11. ASSUME h = loaded PROVE InputsHeld'
  <2>1. inputs' = Null
    BY <1>11 DEF DynUnload
  <2> QED BY <2>1, InputsGone
<1>7. CASE h # loaded
  <2>1. found = {}
    BY <1>3, <1>7, Zenon
  <2>2. UNCHANGED <<heap, modules, models, constants, loaded, entry, embedded, regs,
                    inputs>>
    BY <1>7, <2>1, Zenon DEF DynUnload, RegsAfterUnload, ModelsAfterUnload, HeapAfterUnload
  <2>3. Control'
    BY <1>1, <1>3, <1>4, <2>2, ControlKept, Zenon
  <2>4. Held(A, C)'
    BY <1>2, <2>2, HeldSame
  <2>5. InputsHeld'
    BY <1>10, <2>2, InputsKept, Zenon
  <2> QED BY <2>3, <2>4, <2>5, InvFrom, Zenon
<1>8. CASE h = loaded /\ modules # {}
  <2>1. PICK m \in modules : modules = {m}
    BY <1>3, <1>8
  <2>2. found = {m} /\ found # {} /\ (CHOOSE n \in found : TRUE) = m
    BY <1>3, <1>8, <2>1, Zenon
  <2>3. /\ regs' = NoRegs /\ models' = {n \in models : n.id # embedded}
        /\ constants' = <<>> /\ heap' = ResetPools(FreeAll(freed, m.segs))
        /\ modules' = modules \ found /\ loaded' = 0 /\ embedded' = 0 /\ entry' = 0
    BY <1>8, <2>2, Zenon DEF DynUnload, RegsAfterUnload, ModelsAfterUnload, HeapAfterUnload,
                       EntryAfterUnload
  <2>4. modules' = {}
    BY <2>1, <2>2, <2>3, Zenon
  <2>5. heap'.pool.bump = 0 /\ HeapOK(heap', {}, {}, 0)
    <3>1. FreeAll(heap, regs.objs) \in HeapType
      BY <1>3, <1>5, FreeAllFrame, Zenon DEF FreeFrame
    <3>2. freed \in HeapType
      BY <1>3, <1>10, <3>1, FreeAllFrame, Zenon DEF FreeFrame
    <3>3. FreeAll(freed, m.segs) \in HeapType
      <4> HIDE DEF freed
      <4> QED BY <1>3, <3>2, FreeAllFrame, Zenon DEF FreeFrame
    <3> QED BY <2>3, <3>3, ResetOK, Zenon
  <2>6. OneModule'
    BY <1>1, <1>4, <2>3, <2>4, Zenon DEF OneModule
  <2>7. models' \subseteq models /\ \A n \in models' : n.by # "module"
    BY <1>1, <2>3, Zenon DEF ModelTable, EmbeddedOwned
  <2>8. ModelTable'
    <3>1. /\ models' \subseteq [id : 1 .. nextModelId - 1, consts : Seq(Ptrs),
                                by : {"module", "client"}]
          /\ IsFiniteSet(models') /\ Cardinality(models') <= MaxModels
      <4>1. PICK S : S = models'
        BY Zenon
      <4> QED BY <1>1, <2>7, <4>1, FewerModels, Zenon
    <3>2. client.weights = {} => models' = {}
      BY <1>1, <2>7, Zenon DEF ModelTable
    <3>3. EmbeddedOwned' /\ embedded' \in 0 .. client'.models /\ constants' \in Seq(Ptrs)
      <4>1. client.models \in Nat
        BY <1>1, ControlParts
      <4> QED BY <2>3, <2>7, <4>1 DEF EmbeddedOwned
    <3>4. nextModelId' \in 1 .. client'.models + 1
      BY <1>1, <1>4 DEF ModelTable
    <3> QED BY <1>4, <2>3, <3>1, <3>2, <3>3, <3>4, Zenon DEF ModelTable
  <2>9. Held({}, {})'
    <3>1. Blocks(<<>>) = {} /\ Distinct(<<>>)
      BY DEF Blocks, Distinct
    <3>2. constants' = <<>> /\ regs'.objs = <<>>
      BY <2>3, Zenon DEF NoRegs
    <3>3. ~ LargeLoaded'
      BY <2>4 DEF LargeLoaded
    <3> QED BY <2>4, <2>5, <3>1, <3>2, <3>3, Zenon DEF Held, Holds, Apart
  <2> QED BY <1>8, <1>11, <2>6, <2>8, <2>9, InvFrom, Zenon DEF Control
<1>9. CASE h = loaded /\ modules = {}
  <2>1. found = {} /\ h = 0
    BY <1>3, <1>9, Zenon
  <2>2. /\ UNCHANGED <<modules, loaded, entry, embedded>>
        /\ regs' = NoRegs /\ models' = {n \in models : n.id # embedded}
        /\ constants' = <<>> /\ heap' = freed
    BY <1>9, <2>1 DEF DynUnload, RegsAfterUnload, ModelsAfterUnload, HeapAfterUnload
  <2>3. regs' = regs /\ models' = models /\ heap' = FreeAll(heap, constants)
    <3>1. regs.objs = <<>>
      BY <1>3, <1>9 DEF NoRegs
    <3>2. FreeAll(heap, regs.objs) = heap
      BY <1>5, <3>1, FreeNone, Zenon
    <3> QED BY <1>3, <1>6, <1>9, <1>10, <2>2, <3>2, Zenon
  <2>4. OneModule'
    BY <1>1, <1>4, <2>2, <2>3 DEF OneModule
  <2>5. ModelTable'
    <3>1. client.weights = {} => models = {}
      BY <1>1, <1>3, <1>9 DEF ModelTable, EmbeddedOwned
    <3>2. constants' \in Seq(Ptrs)
      BY <2>2
    <3> QED BY <1>1, <1>3, <1>4, <1>9, <2>2, <2>3, <3>1, <3>2, Zenon DEF ModelTable, EmbeddedOwned
  <2>6. ~ LargeLoaded /\ ~ LargeLoaded' /\ (Large' <=> Large) /\ modules' = {}
    BY <1>9, <2>2 DEF Large, LargeLoaded
  <2>7. HeapOK(heap, A, C, 0) /\ Distinct(constants) /\ Blocks(constants) \subseteq A
        /\ (~ Large => C = A) /\ (Large => heap.pool.bump = 0)
    BY <1>2, <1>9, <2>6, Zenon DEF Held
  <2>8. \E B : HeapOK(heap', B, B, 0) /\ (Large => heap'.pool.bump = 0)
    <3>1. CASE Large
      <4>1. A = {} /\ C = {}
        BY <2>7, <3>1, EmptyPool, Zenon
      <4>2. constants = <<>>
        BY <1>3, <2>7, <4>1, ShortBlocks, Zenon
      <4>3. heap' = heap
        BY <1>5, <2>3, <4>2, FreeNone, Zenon
      <4> QED BY <2>7, <3>1, <4>1, <4>3, Zenon
    <3>2. CASE ~ Large
      <4>1. \A x \in Blocks(constants) : x >= 0
        BY <1>3, <2>7, HeapOKParts, HeaderSizeAssumption, PoolUnitsAssumption, SMTT(30) DEF Ptrs
      <4>2. HeapOK(heap, A, A, 0)
        BY <2>7, <3>2, Zenon
      <4>3. LET k == FreeAll(heap, constants) IN
            \/ HeapOK(k, {}, {}, 0)
            \/ HeapOK(k, A \ Blocks(constants), A \ Blocks(constants), 0)
        BY <1>3, <2>7, <4>1, <4>2, FreeAllOK, Zenon
      <4> QED BY <2>3, <3>2, <4>3, Zenon
    <3> QED BY <3>1, <3>2, Zenon
  <2>9. PICK B : HeapOK(heap', B, B, 0) /\ (Large => heap'.pool.bump = 0)
    BY <2>8, Zenon
  <2>10. Held(B, B)'
    <3>1. Blocks(<<>>) = {} /\ Distinct(<<>>)
      BY DEF Blocks, Distinct
    <3>2. constants' = <<>> /\ regs'.objs = <<>>
      BY <2>2, Zenon DEF NoRegs
    <3> QED BY <2>6, <2>9, <3>1, <3>2, Zenon DEF Held, Holds, Apart
  <2> QED BY <1>9, <1>11, <2>4, <2>5, <2>10, InvFrom, Zenon DEF Control
<1> QED BY <1>7, <1>8, <1>9

\* A careful client's large request names the module there is, whose entry point
\* it resolves to, and the embedded model, if any.
LEMMA LargeRequest ==
  ASSUME Control, CarefulClients, NEW q \in Requests(client.large)
  PROVE  /\ Large /\ q.input \in {"ok", "header", "kernel", "size"}
         /\ q.handle # 0 => /\ modules # {} /\ Resolve(q) = loaded /\ loaded # 0
                            /\ ModelKnown(q)
<1>1. q \in RequestRecords(client.large)
  BY Zenon DEF Requests
<1>2. /\ q.input \in client.large
      /\ q.handle \in {0} \cup IF client.stale THEN 1 .. nextHandle - 1 ELSE LoadedHandles
      /\ q.model \in {0} \cup IF client.stale THEN 1 .. nextModelId - 1 ELSE ClientModels
  BY <1>1 DEF RequestRecords
<1>3. Large
  BY <1>2 DEF Large
<1>4. client \in Clients
  BY ControlParts
<1>5. /\ client.weights = {} /\ ~ client.stale
      /\ client.large \subseteq {"ok", "header", "kernel", "size"}
      /\ \A i \in client.images : i.entry
  BY <1>3, <1>4, Careful, Zenon
<1>6. ASSUME q.handle # 0
      PROVE  modules # {} /\ Resolve(q) = loaded /\ loaded # 0 /\ ModelKnown(q)
  <2>1. PICK m \in modules : m.handle = q.handle
    BY <1>2, <1>5, <1>6, Zenon DEF LoadedHandles
  <2>2. m.handle = loaded /\ loaded # 0 /\ m.image \in client.images /\ entry \in {0, loaded}
    BY ControlParts, Zenon
  <2>3. HasEntry(q.handle)
    BY <1>5, <2>1, <2>2, Zenon DEF HasEntry
  <2>4. Resolve(q) = loaded
    BY <2>1, <2>2, <2>3 DEF Resolve
  <2>5. ModelTable
    BY DEF Control
  <2>6. ClientModels = {}
    BY <1>5, <2>5, Zenon DEF ModelTable, ClientModels
  <2>7. q.model = 0
    BY <1>2, <1>5, <2>6, Zenon
  <2>8. embedded # 0 => \E n \in models : n.id = embedded
    BY <1>5, <2>5, Zenon DEF ModelTable
  <2>9. ModelKnown(q)
    BY <2>7, <2>8 DEF ModelKnown, EffectiveModel
  <2> QED BY <2>1, <2>2, <2>4, <2>9, Zenon
<1> QED BY <1>2, <1>3, <1>5, <1>6, Zenon

\* The arithmetic of a careful client's heap: with the watermark v, n blocks
\* above it never run out before the last, and leave room for one more.
LEMMA Room ==
  ASSUME NEW v \in Nat, v <= (SegBlocks + ConstBlocks) * (HeaderSize + 1),
         (SegBlocks + ConstBlocks + ArrayBlocks + 1) * (HeaderSize + 1) <= PoolUnits,
         NEW n \in Nat, n <= ArrayBlocks, NEW b \in Nat, b <= v + n * (HeaderSize + 1)
  PROVE  b + HeaderSize + 1 <= PoolUnits
<1> DEFINE u == HeaderSize + 1
           x == SegBlocks + ConstBlocks
<1>1. u \in Nat /\ x \in Nat /\ ArrayBlocks \in Nat /\ PoolUnits \in Nat
  BY HeaderSizeAssumption, ServiceAssumption, PoolUnitsAssumption
<1>2. (x + ArrayBlocks + 1) * u <= PoolUnits /\ v <= x * u /\ b <= v + n * u
  OBVIOUS
<1>3. b + u <= PoolUnits => b + HeaderSize + 1 <= PoolUnits
  BY HeaderSizeAssumption
<1> HIDE DEF u, x
<1>4. (x + ArrayBlocks + 1) * u = x * u + ArrayBlocks * u + u
  BY <1>1
<1>5. n * u <= ArrayBlocks * u
  BY <1>1
<1>6. x * u \in Nat /\ ArrayBlocks * u \in Nat /\ n * u \in Nat
  BY <1>1
<1>7. b + u <= PoolUnits
  BY <1>1, <1>2, <1>4, <1>5, <1>6
<1> QED BY <1>3, <1>7, Zenon

\* What the run of a large request has to work on.
LargeStart(a) ==
  [heap |-> OomReset(a.heap), ret |-> "ok", regs |-> [regs EXCEPT !.objs = <<>>]]

\* handle_infer_large
LEMMA InferLargeOK ==
  ASSUME CountLaws, ServiceInv, CarefulClients, NEW q \in Requests(client.large), InferLarge(q),
         UNCHANGED client
  PROVE  ServiceInv'
<1> DEFINE h0 == RestoreWatermark(RegFileCleanup(heap))
           a == AllocMany(h0, Array, ArrayBlocks)
<1>1. Control
  BY DEF ServiceInv
<1>2. Large /\ q.input \in {"ok", "header", "kernel", "size"}
  BY <1>1, LargeRequest, Zenon
<1>3. UNCHANGED <<client, modules, nextHandle, models, nextModelId, constants,
                  loaded, embedded>>
  BY Zenon DEF InferLarge
<1>4. /\ entry \in {0, loaded} /\ client \in Clients /\ constants \in Seq(Ptrs)
      /\ regs \in [of : {0, loaded}, objs : Seq(Ptrs)]
      /\ regs \in [of : Nat, objs : Seq(Ptrs)] /\ loaded \in Nat
  BY <1>1, ControlParts
<1>5. CASE q.handle = 0 \/ q.input = "header"
  <2>1. \E status : Refuse(q, status) /\ entry' = entry
    BY <1>5 DEF InferLarge
  <2> QED BY <1>3, <1>4, <2>1, RefuseOK, Zenon
<1>6. CASE q.handle # 0 /\ q.input # "header"
  <2>1. modules # {} /\ Resolve(q) = loaded /\ loaded # 0 /\ ModelKnown(q)
    BY <1>1, <1>6, LargeRequest, Zenon
  <2>2. RunLarge(a, q)
    BY <1>6 DEF InferLarge
  <2>3. LargeLoaded
    BY <1>2, <2>1 DEF LargeLoaded
  <2>4. PICK A, C : Held(A, C)
    BY DEF ServiceInv
  <2>5. HeapOK(heap, A, C, heap.wm) /\ heap.wm \in Nat /\ heap \in HeapType
    <3>1. HeapOK(heap, A, C, heap.wm)
      BY <2>3, <2>4, Zenon DEF Held
    <3> QED BY <3>1, HeapOKParts, ZenonT(60)
  <2>6. /\ heap.wm <= (SegBlocks + ConstBlocks) * (HeaderSize + 1)
        /\ \A m \in modules : \A p \in Blocks(m.segs) : p < heap.wm
        /\ \A p \in Blocks(constants) : p < heap.wm
        /\ \A p \in Blocks(regs.objs) : p >= heap.wm
    BY <2>3, <2>4, Zenon DEF Held
  <2>27. PICK K : K = {y \in A : y < heap.wm}
    BY Zenon
  <2> DEFINE R == Blocks(a.ptrs)
             n == Len(a.ptrs)
  <2>7. /\ HeapOK(h0, K, {}, heap.wm) /\ h0.owner = heap.owner /\ h0.wm = heap.wm
        /\ h0.pool.bump = heap.wm
    <3>1. regs.objs \in Seq(Ptrs) /\ \A p \in Blocks(regs.objs) : p >= heap.wm
      BY <1>4, <2>6, Zenon
    <3>2. HeapOK(heap, A, C, heap.wm)
      BY <2>5
    <3>3. h0 = RestoreWatermark(FreeAll(heap, regs.objs))
      BY <2>5, CleanupOK, Zenon DEF ServiceInv
    <3> QED BY <2>27, <3>1, <3>2, <3>3, RestoreOK, Zenon
  <2> HIDE DEF h0
  <2>8. ManyFacts(h0, K, {}, heap.wm, Array, ArrayBlocks, a)
    BY <2>7, TagTypes, ServiceAssumption, AllocManyOK, Zenon
  <2> HIDE DEF a
  <2>9. /\ a.heap \in HeapType /\ a.ptrs \in Seq(Ptrs) /\ n \in Nat /\ n <= ArrayBlocks
        /\ Distinct(a.ptrs) /\ R \cap K = {} /\ \A y \in R : y >= heap.wm
        /\ HeapOK(a.heap, K \cup R, R, heap.wm)
        /\ \A y \in R : a.heap.owner[y] = Array
        /\ \A y \in HeapUnits \ R : a.heap.owner[y] = heap.owner[y]
        /\ a.heap.wm = heap.wm
        /\ a.heap.pool.bump <= heap.wm + n * (HeaderSize + 1)
        /\ n < ArrayBlocks => a.heap.pool.bump + HeaderSize + 1 > PoolUnits
    <3>1. /\ a \in [heap : HeapType, ptrs : Seq(Ptrs)] /\ n <= ArrayBlocks
          /\ Distinct(a.ptrs) /\ R \cap K = {} /\ \A y \in R : y >= heap.wm
          /\ HeapOK(a.heap, K \cup R, {} \cup R, heap.wm)
          /\ \A y \in R : a.heap.owner[y] = Array
          /\ \A y \in HeapUnits \ R : a.heap.owner[y] = h0.owner[y]
          /\ a.heap.wm = h0.wm
          /\ a.heap.pool.bump <= h0.pool.bump + n * (HeaderSize + 1)
          /\ n < ArrayBlocks => a.heap.pool.bump + HeaderSize + 1 > PoolUnits
      BY <2>8, Zenon DEF ManyFacts
    <3>2. {} \cup R = R /\ a.heap \in HeapType /\ a.ptrs \in Seq(Ptrs)
      BY <3>1, Zenon
    <3>3. n \in Nat
      BY <3>2
    <3> QED BY <2>7, <3>1, <3>2, <3>3, Zenon
  <2>10. a.heap.pool.bump + HeaderSize + 1 <= PoolUnits /\ n = ArrayBlocks
    <3> DEFINE b == a.heap.pool.bump
               v == heap.wm
    <3>1. b \in 0 .. PoolUnits /\ PoolUnits \in Nat /\ ArrayBlocks \in Nat
      BY <2>9, HeapParts, ServiceAssumption, PoolUnitsAssumption, Zenon
    <3>2. /\ n \in Nat /\ n <= ArrayBlocks /\ b <= v + n * (HeaderSize + 1) /\ v \in Nat
          /\ n < ArrayBlocks => b + HeaderSize + 1 > PoolUnits
          /\ v <= (SegBlocks + ConstBlocks) * (HeaderSize + 1)
      BY <2>5, <2>6, <2>9, Zenon
    <3>3. (SegBlocks + ConstBlocks + ArrayBlocks + 1) * (HeaderSize + 1) <= PoolUnits
      BY <1>2, <1>4, Careful
    <3> HIDE DEF b, v, n
    <3>4. b \in Nat
      BY <3>1
    <3>5. b + HeaderSize + 1 <= PoolUnits
      BY <3>2, <3>3, <3>4, Room, Zenon
    <3>6. n = ArrayBlocks
      BY <3>1, <3>2, <3>4, <3>5, HeaderSizeAssumption
    <3> QED BY <3>5, <3>6 DEF b
  <2> DEFINE s == LargeStart(a)
             z == RepeatedLarge(Execute(s, q), q)
  <2>11. /\ heap' = FreeAll(AfterRun(z), a.ptrs) /\ regs' = z.regs
         /\ entry' = Resolve(q) /\ inputs' = InputRegs(q, Null, a.ptrs[1])
    <3>1. ArrayBlocks \in Nat /\ ~ (n < ArrayBlocks)
      BY <2>10, ServiceAssumption
    <3> QED BY <1>2, <2>1, <2>2, <3>1, Zenon DEF RunLarge, RanLarge, LargeStart
  <2>12. /\ s.heap = OomReset(a.heap) /\ HeapOK(s.heap, K \cup R, R, heap.wm)
         /\ s.heap.owner = a.heap.owner /\ s.heap.wm = heap.wm
         /\ s.heap.pool.bump = a.heap.pool.bump /\ s \in RunState
    <3>1. /\ HeapOK(OomReset(a.heap), K \cup R, R, heap.wm)
          /\ OomReset(a.heap).pool = a.heap.pool
          /\ OomReset(a.heap).owner = a.heap.owner /\ OomReset(a.heap).wm = heap.wm
      <4>1. HeapOK(a.heap, K \cup R, R, heap.wm) /\ a.heap.wm = heap.wm
        BY <2>9
      <4> HIDE DEF R
      <4> QED BY <4>1, OomOK, Zenon DEF OomReset
    <3>2. OomReset(a.heap) \in HeapType
      <4> HIDE DEF R
      <4> QED BY <3>1, HeapOKParts, Zenon
    <3>3. [regs EXCEPT !.objs = <<>>] \in [of : Nat, objs : Seq(Ptrs)]
      <4>1. regs \in [of : Nat, objs : Seq(Ptrs)]
        BY <1>4
      <4>2. <<>> \in Seq(Ptrs)
        OBVIOUS
      <4> QED BY <4>1, <4>2, Zenon
    <3>4. s = [heap |-> OomReset(a.heap), ret |-> "ok", regs |-> [regs EXCEPT !.objs = <<>>]]
      BY DEF LargeStart
    <3>5. s \in RunState
      BY <3>2, <3>3, <3>4 DEF RunState
    <3> HIDE DEF R
    <3> QED BY <3>1, <3>4, <3>5
  <2>13. z \in {Execute(s, q), Execute(Execute(s, q), q)}
    BY DEF RepeatedLarge
  <2> HIDE DEF s, z, R, n
  <2>14. PICK N : ExecFacts(s, K \cup R, R, heap.wm, q, N, z)
    <3>1. Resolve(q) \in Nat
      BY <1>4, <2>1, Zenon
    <3>2. HeapOK(s.heap, K \cup R, R, heap.wm) /\ s \in RunState
      BY <2>12
    <3> QED BY <2>13, <3>1, <3>2, RunsOK, Zenon
  <2>15. /\ N \cap (K \cup R) = {} /\ HeapOK(z.heap, (K \cup R) \cup N, R \cup N, heap.wm)
         /\ \A v \in K \cup R : z.heap.owner[v] = a.heap.owner[v]
         /\ z.heap.wm = heap.wm /\ N # {}
         /\ z.regs \in [of : {Resolve(q)}, objs : Seq(Ptrs)]
         /\ Holds(z.heap, z.regs.objs, N, Work)
         /\ \A y \in Blocks(z.regs.objs) : y >= heap.wm
    <3>1. q.input # "count"
      BY <1>2
    <3> QED BY <2>10, <2>12, <2>14, <3>1, Zenon DEF ExecFacts
  <2>16. /\ HeapOK(AfterRun(z), (K \cup R) \cup N, R \cup N, heap.wm)
         /\ AfterRun(z).owner = z.heap.owner /\ AfterRun(z).wm = heap.wm
    BY <2>15, AfterRunOK, Zenon
  <2>17. ((K \cup R) \cup N) \ R = K \cup N /\ (R \cup N) \ R = N
    BY <2>9, <2>15, Zenon
  <2>18. /\ HeapOK(heap', K \cup N, N, heap.wm)
         /\ heap'.owner = z.heap.owner /\ heap'.wm = heap.wm
    <3>1. PICK k : k = AfterRun(z)
      OBVIOUS
    <3>2. HeapOK(k, (K \cup R) \cup N, R \cup N, heap.wm) /\ k \in HeapType
      BY <2>16, <3>1, HeapOKParts, Zenon
    <3>3. FreeFrame(k, FreeAll(k, a.ptrs), Blocks(a.ptrs))
      BY <2>9, <3>2, FreeAllFrame, Zenon
    <3>4. /\ a.ptrs \in Seq(Ptrs) /\ Distinct(a.ptrs) /\ Blocks(a.ptrs) = R
          /\ Blocks(a.ptrs) \subseteq R \cup N /\ \A x \in Blocks(a.ptrs) : x >= heap.wm
      BY <2>9, Zenon DEF R
    <3>5. (R \cup N) \ Blocks(a.ptrs) # {}
      BY <2>15, <2>17, <3>4, Zenon
    <3>6. IF a.ptrs # <<>> /\ (R \cup N) \ Blocks(a.ptrs) = {}
          THEN HeapOK(FreeAll(k, a.ptrs), {}, {}, 0) /\ FreeAll(k, a.ptrs).pool.bump = 0
          ELSE HeapOK(FreeAll(k, a.ptrs), ((K \cup R) \cup N) \ Blocks(a.ptrs),
                      (R \cup N) \ Blocks(a.ptrs), heap.wm)
      <4> DEFINE X == (K \cup R) \cup N
                 Y == R \cup N
      <4>1. HeapOK(k, X, Y, heap.wm) /\ Blocks(a.ptrs) \subseteq Y
        BY <3>2, <3>4, Zenon
      <4>2. /\ a.ptrs \in Seq(Ptrs) /\ Distinct(a.ptrs)
            /\ \A x \in Blocks(a.ptrs) : x >= heap.wm
        BY <3>4
      <4> HIDE DEF X, Y
      <4>3. IF a.ptrs # <<>> /\ Y \ Blocks(a.ptrs) = {}
            THEN HeapOK(FreeAll(k, a.ptrs), {}, {}, 0) /\ FreeAll(k, a.ptrs).pool.bump = 0
            ELSE HeapOK(FreeAll(k, a.ptrs), X \ Blocks(a.ptrs), Y \ Blocks(a.ptrs), heap.wm)
        BY <4>1, <4>2, FreeAllOK, Zenon
      <4> QED BY <4>3, Zenon DEF X, Y
    <3>7. HeapOK(FreeAll(k, a.ptrs), K \cup N, N, heap.wm)
      BY <2>17, <3>4, <3>5, <3>6, Zenon
    <3>8. FreeAll(k, a.ptrs).owner = k.owner /\ FreeAll(k, a.ptrs).wm = k.wm
      BY <3>3, Zenon DEF FreeFrame
    <3> QED BY <2>11, <2>16, <3>1, <3>7, <3>8, Zenon
  <2>19. Control'
    <3>1. regs' \in [of : {0, loaded}, objs : Seq(Ptrs)]
      BY <2>1, <2>11, <2>15, Zenon
    <3> QED BY <1>1, <1>3, <2>1, <2>11, <3>1, ControlKept, Zenon
  <2>20. /\ \A m \in modules : Blocks(m.segs) \subseteq K
         /\ Blocks(constants) \subseteq K
    <3>1. /\ \A m \in modules : Blocks(m.segs) \subseteq A
          /\ Blocks(constants) \subseteq A
      BY <2>4, Zenon DEF Held, Holds
    <3> QED BY <2>6, <2>27, <3>1
  <2>21. \A y \in K : heap'.owner[y] = heap.owner[y]
    <3>1. \A y \in K : y \in HeapUnits /\ y \notin R
      <4>1. K \subseteq Ptrs
        BY <2>7, HeapOKParts, Zenon
      <4> QED BY <2>9, <4>1, PtrsUnits, Zenon
    <3> QED BY <2>9, <2>15, <2>18, <3>1, Zenon
  <2>22. /\ Blocks(regs'.objs) \subseteq N /\ N \cap K = {}
         /\ Holds(heap', regs'.objs, N, Work)
         /\ \A p \in Blocks(regs'.objs) : p >= heap.wm
    BY <2>11, <2>15, <2>18, Zenon DEF Holds
  <2>23. \A m \in modules : /\ Blocks(m.segs) \subseteq K \cup N
                            /\ Apart(m.segs, regs'.objs)
                            /\ \A y \in Blocks(m.segs) : heap'.owner[y] = heap.owner[y]
    BY <2>20, <2>21, <2>22, Zenon DEF Apart
  <2>24. /\ Blocks(constants) \subseteq K \cup N /\ Apart(constants, regs'.objs)
         /\ \A y \in Blocks(constants) : heap'.owner[y] = heap.owner[y]
    BY <2>20, <2>21, <2>22, Zenon DEF Apart
  <2>25. HeapOK(heap', K \cup N, N, IF LargeLoaded THEN heap.wm ELSE 0)
    BY <2>3, <2>18
  <2>26. Held(K \cup N, N)'
    <3>1. heap'.wm = heap.wm /\ UNCHANGED <<client, modules, models, constants>>
      BY <1>3, <2>18, Zenon
    <3>2. /\ ~ Large => N = K \cup N
          /\ Large /\ modules = {} => heap'.pool.bump = 0
          /\ LargeLoaded => \A p \in Blocks(regs'.objs) : p >= heap.wm
          /\ Holds(heap', regs'.objs, N, Work)
      BY <1>2, <2>1, <2>22
    <3> QED BY <2>4, <2>23, <2>24, <2>25, <3>1, <3>2, HeldKept, Zenon
  <2>28. InputsHeld'
    <3>1. q.input # "count"
      BY <1>2, Zenon
    <3>2. inputs' = a.ptrs[1]
      BY <2>11, <3>1, Zenon DEF InputRegs
    <3>3. a.ptrs[1] \in R /\ a.ptrs[1] \in HeapUnits
      BY <2>9, <2>10, ServiceAssumption, FirstBlock, Zenon DEF n, R
    <3>4. heap'.owner[a.ptrs[1]] = Array
      BY <2>9, <2>15, <2>18, <3>3, Zenon
    <3>5. Large' /\ modules' # {}
      BY <1>2, <1>3, <2>1, Zenon DEF Large
    <3> QED BY <3>2, <3>3, <3>4, <3>5, Zenon DEF InputsHeld
  <2> QED BY <2>19, <2>26, <2>28, InvFrom, Zenon
<1> QED BY <1>5, <1>6
=============================================================================
