------------------------- MODULE ClientBuffersProofs -------------------------
(***************************************************************************)
(* A host that drops its pointers when it unloads a module never holds one *)
(* into a released buffer, for any modules, reservations and carveout.     *)
(***************************************************************************)
EXTENDS ClientBuffers, TLAPS

Sizes ==
  /\ inBuf \in [size : Nat, gen : Nat] /\ outBuf \in [size : Nat, gen : Nat]
  /\ dataOffset \in Nat /\ next \in Nat
  /\ loaded \subseteq Images

Held == PointersValid /\ HeldMeansLocked

IInv == Sizes /\ Held

\* grow_buf_if_needed leaves a buffer of some size, whether it succeeds or not.
LEMMA GrownType ==
  ASSUME NEW buf \in [size : Nat, gen : Nat], NEW need \in Nat, NEW other,
         NEW g \in Grown(buf, need, other)
  PROVE  g.buf \in [size : Nat, gen : Nat]
BY DEF Grown, Released

\* So does ensure_io_capacity, for both buffers.
LEMMA EnsuredType ==
  ASSUME Sizes, NEW in \in Nat, NEW out \in Nat, NEW r \in Ensured(in, out)
  PROVE  r.in \in [size : Nat, gen : Nat] /\ r.out \in [size : Nat, gen : Nat]
<1>1. PICK i \in Grown(inBuf, in, outBuf.size) :
        r \in {[ok |-> i.ok /\ o.ok, in |-> i.buf, out |-> o.buf] :
                 o \in IF i.ok THEN Grown(outBuf, out, i.buf.size)
                       ELSE {[ok |-> FALSE, buf |-> outBuf]}}
  BY DEF Ensured
<1>2. PICK o \in IF i.ok THEN Grown(outBuf, out, i.buf.size)
                 ELSE {[ok |-> FALSE, buf |-> outBuf]} :
        r = [ok |-> i.ok /\ o.ok, in |-> i.buf, out |-> o.buf]
  BY <1>1
<1>3. i.buf \in [size : Nat, gen : Nat]
  BY <1>1, GrownType DEF Sizes
<1>4. o.buf \in [size : Nat, gen : Nat]
  <2>1. CASE i.ok
    BY <1>2, <2>1, GrownType DEF Sizes
  <2>2. CASE ~ i.ok
    BY <1>2, <2>2 DEF Sizes
  <2> QED
    BY <2>1, <2>2
<1> QED
  BY <1>2, <1>3, <1>4

\* Sizes, offsets and allocation counts stay numbers through every operation.
LEMMA SizesStep ==
  ASSUME Sizes, [Next]_vars
  PROVE  Sizes'
<1>1. ASSUME NEW m \in Images, Load(m) PROVE Sizes'
  <2>1. m.in \in Nat /\ m.out \in Nat /\ m.inputs \in Nat /\ Fallback \in Nat
    BY SizesAssumption
  <2>2. PICK r \in Ensured(m.in, m.out) : Install(r)
    BY <1>1 DEF Load
  <2>3. r.in \in [size : Nat, gen : Nat] /\ r.out \in [size : Nat, gen : Nat]
    BY <2>1, EnsuredType
  <2>4. dataOffset' \in Nat /\ next' \in Nat /\ loaded' \subseteq Images
    BY <1>1, <2>1 DEF Load, Sizes
  <2> QED
    BY <2>2, <2>3, <2>4 DEF Install, Sizes
<1>2. ASSUME NEW q \in Reservations, Reserve(q.in, q.out) PROVE Sizes'
  <2>1. CASE locked
    BY <1>2, <2>1 DEF Reserve, Sizes
  <2>2. CASE ~ locked
    <3>1. q.in \in Nat /\ q.out \in Nat
      BY SizesAssumption
    <3>2. PICK r \in Ensured(q.in, q.out) : Install(r)
      BY <1>2, <2>2 DEF Reserve
    <3>3. r.in \in [size : Nat, gen : Nat] /\ r.out \in [size : Nat, gen : Nat]
      BY <3>1, EnsuredType
    <3> QED
      BY <1>2, <3>2, <3>3 DEF Reserve, Install, Sizes
  <2> QED
    BY <2>1, <2>2
<1>3. CASE Unload
  BY <1>3 DEF Unload, Sizes
<1>4. CASE Close
  BY <1>4 DEF Close, Released, Sizes
<1>5. CASE GetBuffer("in", inBuf) \/ GetBuffer("out", outBuf)
  BY <1>5 DEF GetBuffer, Sizes
<1>6. CASE CreateInput
  BY <1>6 DEF CreateInput, Sizes
<1>7. ASSUME NEW used, NEW plain, Infer(used, plain) PROVE Sizes'
  BY <1>7 DEF Infer, Sizes
<1>8. CASE UNCHANGED vars
  BY <1>8 DEF vars, Sizes
<1> QED
  BY <1>1, <1>2, <1>3, <1>4, <1>5, <1>6, <1>7, <1>8 DEF Next

\* A step that hands out no pointer and moves no buffer keeps them all valid.
LEMMA SameBuffers ==
  ASSUME Held, UNCHANGED <<inBuf, outBuf, held, loaded>>, locked => locked'
  PROVE  Held'
BY DEF Held, PointersValid, HeldMeansLocked

\* A step after which the host holds nothing is safe whatever it releases.
LEMMA NothingHeld ==
  ASSUME held' = {}
  PROVE  Held'
BY DEF Held, PointersValid, HeldMeansLocked

\* Handing out a pointer into a buffer that exists, and locking: what
\* get_input_buffer, get_output_buffer, CreateInput and an answered call do.
LEMMA HandOut ==
  ASSUME Held, UNCHANGED <<inBuf, outBuf, loaded>>, locked' = TRUE, loaded # {},
         NEW name \in {"in", "out"},
         NEW buf, buf = IF name = "in" THEN inBuf ELSE outBuf,
         buf.size > 0,
         held' = held \cup {Pointer(name, buf)}
  PROVE  Held'
<1>1. \A p \in held' : LET b == IF p.buf = "in" THEN inBuf' ELSE outBuf'
                       IN  b.size > 0 /\ b.gen = p.gen
  <2> SUFFICES ASSUME NEW p \in held'
               PROVE  LET b == IF p.buf = "in" THEN inBuf' ELSE outBuf'
                      IN  b.size > 0 /\ b.gen = p.gen
    OBVIOUS
  <2>1. CASE p \in held
    BY <2>1 DEF Held, PointersValid
  <2>2. CASE p = Pointer(name, buf)
    BY <2>2 DEF Pointer
  <2> QED
    BY <2>1, <2>2
<1>2. HeldMeansLocked'
  BY DEF HeldMeansLocked
<1> QED
  BY <1>1, <1>2 DEF Held, PointersValid

\* Every step of a host that drops its pointers on unload preserves both.
LEMMA HeldStep ==
  ASSUME ~ Keeps, Sizes, Held, [Next]_vars
  PROVE  Held'
<1>1. ASSUME NEW m \in Images, Load(m) PROVE Held'
  <2>1. held' = {}
    BY <1>1 DEF Load, Held, HeldMeansLocked
  <2> QED
    BY <2>1, NothingHeld
<1>2. ASSUME NEW r \in Reservations, Reserve(r.in, r.out) PROVE Held'
  <2>1. CASE locked
    BY <1>2, <2>1, SameBuffers DEF Reserve
  <2>2. CASE ~ locked
    <3>1. held' = {}
      BY <1>2, <2>2 DEF Reserve, Held, HeldMeansLocked
    <3> QED
      BY <3>1, NothingHeld
  <2> QED
    BY <2>1, <2>2
<1>3. CASE Unload
  BY <1>3, NothingHeld DEF Unload
<1>4. CASE Close
  BY <1>4, NothingHeld DEF Close
<1>5. CASE GetBuffer("in", inBuf)
  <2>1. CASE inBuf.size > 0
    BY <1>5, <2>1, HandOut, Zenon DEF GetBuffer
  <2>2. CASE ~ (inBuf.size > 0)
    BY <1>5, <2>2, SameBuffers DEF GetBuffer
  <2> QED
    BY <2>1, <2>2
<1>6. CASE GetBuffer("out", outBuf)
  <2>1. CASE outBuf.size > 0
    BY <1>6, <2>1, HandOut, Zenon DEF GetBuffer
  <2>2. CASE ~ (outBuf.size > 0)
    BY <1>6, <2>2, SameBuffers DEF GetBuffer
  <2> QED
    BY <2>1, <2>2
<1>7. CASE CreateInput
  <2>1. inBuf.size > 0
    BY <1>7 DEF CreateInput, Sizes
  <2> QED
    BY <1>7, <2>1, HandOut DEF CreateInput
<1>8. ASSUME NEW used \in 0 .. MaxInputs, NEW plain \in 0 .. MaxInputs,
             Infer(used, plain)
      PROVE  Held'
  <2>1. PICK m \in loaded : InferRefused(used, plain) \/ InferAnswered(m, used, plain)
    BY <1>8 DEF Infer
  <2>2. UNCHANGED <<inBuf, outBuf, loaded>>
    BY <1>8 DEF Infer
  <2>3. CASE UNCHANGED <<held, locked>>
    BY <2>2, <2>3, SameBuffers
  <2>4. CASE locked' = TRUE /\ held' = held
    BY <2>2, <2>4, SameBuffers
  <2>5. CASE /\ locked' = TRUE /\ outBuf.size >= m.used /\ m.used > 0
             /\ held' = held \cup {Pointer("out", outBuf)}
    <3>1. m.used \in Nat /\ outBuf.size \in Nat
      BY <2>1, SizesAssumption DEF Sizes
    <3>2. outBuf.size > 0
      BY <2>5, <3>1
    <3> QED
      BY <2>1, <2>2, <2>5, <3>2, HandOut
  <2> QED
    BY <2>1, <2>3, <2>4, <2>5, Zenon DEF InferRefused, InferAnswered
<1>9. CASE UNCHANGED vars
  BY <1>9, SameBuffers DEF vars
<1> QED
  BY <1>1, <1>2, <1>3, <1>4, <1>5, <1>6, <1>7, <1>8, <1>9 DEF Next

\* A host that drops its pointers when it unloads a module never uses one into a
\* buffer grow_buf_if_needed has released, whatever the modules declare, whatever
\* it reserves and however large the carveout is.
THEOREM BuffersPointersValid == ~ Keeps => (Spec => []PointersValid)
<1> SUFFICES ASSUME ~ Keeps PROVE Spec => []PointersValid
  OBVIOUS
<1>1. Init => IInv
  BY DEF Init, IInv, Sizes, Held, PointersValid, HeldMeansLocked
<1>2. IInv /\ [Next]_vars => IInv'
  BY SizesStep, HeldStep DEF IInv
<1>3. IInv => PointersValid
  BY DEF IInv, Held
<1> QED
  BY <1>1, <1>2, <1>3, PTL DEF Spec
-----------------------------------------------------------------------------
(* Both buffers fit the heap together, and CreateInput's tensors are kept. *)

\* One buffer within the bounds.
Fitted(b) == b.size \in Nat /\ b.gen \in 0 .. MaxGen /\ b \in [size : Nat, gen : Nat]

\* What grow_buf_if_needed leaves beside a buffer of size "other": the buffer fits
\* if the old one did.
LEMMA GrownFits ==
  ASSUME NEW buf, Fitted(buf), buf.gen < MaxGen, NEW need \in Nat, NEW other \in Nat,
         buf.size + other <= Carveout, NEW g \in Grown(buf, need, other)
  PROVE  Fitted(g.buf) /\ g.buf.size + other <= Carveout
<1> USE SizesAssumption
<1>1. CASE g = [ok |-> TRUE, buf |-> buf]
  BY <1>1
<1>2. CASE g = [ok |-> FALSE, buf |-> Released(buf)]
  <2>1. g.buf = [size |-> 0, gen |-> buf.gen]
    BY <1>2 DEF Released
  <2> QED
    BY <2>1 DEF Fitted
<1>3. CASE need + other <= Carveout /\ g = [ok |-> TRUE, buf |-> [size |-> need, gen |-> buf.gen + 1]]
  <2>1. g.buf = [size |-> need, gen |-> buf.gen + 1]
    BY <1>3
  <2> QED
    BY <1>3, <2>1 DEF Fitted
<1> QED
  BY <1>1, <1>2, <1>3 DEF Grown

\* Both buffers within the bounds, and within the heap together.
BothFit(in, out) == Fitted(in) /\ Fitted(out) /\ in.size + out.size <= Carveout

\* ensure_io_capacity keeps them so, whichever allocation fails.
LEMMA EnsuredFits ==
  ASSUME BothFit(inBuf, outBuf), Bounded, NEW in \in Nat, NEW out \in Nat,
         NEW r \in Ensured(in, out)
  PROVE  BothFit(r.in, r.out)
<1>1. PICK i \in Grown(inBuf, in, outBuf.size) :
        r \in {[ok |-> i.ok /\ o.ok, in |-> i.buf, out |-> o.buf] :
                 o \in IF i.ok THEN Grown(outBuf, out, i.buf.size)
                       ELSE {[ok |-> FALSE, buf |-> outBuf]}}
  BY DEF Ensured
<1>2. PICK o \in IF i.ok THEN Grown(outBuf, out, i.buf.size)
                 ELSE {[ok |-> FALSE, buf |-> outBuf]} :
        r = [ok |-> i.ok /\ o.ok, in |-> i.buf, out |-> o.buf]
  BY <1>1
<1>3. /\ inBuf.size \in Nat /\ outBuf.size \in Nat /\ Fitted(inBuf) /\ Fitted(outBuf)
      /\ inBuf.size + outBuf.size <= Carveout
      /\ inBuf.gen < MaxGen /\ outBuf.gen < MaxGen
  BY DEF BothFit, Fitted, Bounded
<1>4. Fitted(i.buf) /\ i.buf.size + outBuf.size <= Carveout
  BY <1>1, <1>3, GrownFits
<1>5. Fitted(o.buf) /\ i.buf.size + o.buf.size <= Carveout
  <2>1. i.buf.size \in Nat
    BY <1>4 DEF Fitted
  <2>2. CASE i.ok
    <3>1. outBuf.size + i.buf.size <= Carveout
      BY <1>3, <1>4, <2>1
    <3>2. Fitted(o.buf) /\ o.buf.size + i.buf.size <= Carveout
      BY <1>2, <1>3, <2>1, <2>2, <3>1, GrownFits
    <3>3. o.buf.size \in Nat
      BY <3>2 DEF Fitted
    <3> QED
      BY <2>1, <3>2, <3>3
  <2>3. CASE ~ i.ok
    BY <1>2, <1>3, <1>4, <2>3
  <2> QED
    BY <2>2, <2>3
<1> QED
  BY <1>2, <1>4, <1>5 DEF BothFit

\* What a unit of the input buffer may hold.
Contents == {"junk", "created", "copy", "descs"}

\* The rest of the type invariant: the host's side and the buffer's contents.
Rest ==
  /\ api \in {"client", "module"} /\ locked \in BOOLEAN
  /\ held \subseteq [buf : {"in", "out"}, gen : 0 .. MaxGen]
  /\ content \in [Units -> Contents]

Typed == Sizes /\ BothFit(inBuf, outBuf) /\ Rest
\* Every step keeps both buffers within the heap.
LEMMA FitStep ==
  ASSUME BothFit(inBuf, outBuf), [Next]_vars
  PROVE  BothFit(inBuf', outBuf')
<1>1. ASSUME NEW m \in Images, Load(m) PROVE BothFit(inBuf', outBuf')
  <2>1. m.in \in Nat /\ m.out \in Nat
    BY SizesAssumption
  <2>2. PICK r \in Ensured(m.in, m.out) : Install(r)
    BY <1>1 DEF Load
  <2>3. BothFit(r.in, r.out)
    BY <1>1, <2>1, EnsuredFits DEF Load
  <2> QED
    BY <2>2, <2>3 DEF Install
<1>2. ASSUME NEW q \in Reservations, Reserve(q.in, q.out) PROVE BothFit(inBuf', outBuf')
  <2>1. CASE locked
    BY <1>2, <2>1 DEF Reserve
  <2>2. CASE ~ locked
    <3>1. q.in \in Nat /\ q.out \in Nat
      BY SizesAssumption
    <3>2. PICK r \in Ensured(q.in, q.out) : Install(r)
      BY <1>2, <2>2 DEF Reserve
    <3>3. BothFit(r.in, r.out)
      BY <1>2, <3>1, EnsuredFits DEF Reserve
    <3> QED
      BY <3>2, <3>3 DEF Install
  <2> QED
    BY <2>1, <2>2
<1>3. CASE Close
  <2>1. /\ inBuf' = [size |-> 0, gen |-> inBuf.gen]
        /\ outBuf' = [size |-> 0, gen |-> outBuf.gen]
    BY <1>3 DEF Close, Released
  <2>2. inBuf'.size = 0 /\ outBuf'.size = 0
    BY <2>1
  <2>3. Fitted(inBuf') /\ Fitted(outBuf')
    BY <2>1 DEF BothFit, Fitted
  <2> QED
    BY <2>2, <2>3, SizesAssumption DEF BothFit
<1>4. CASE UNCHANGED <<inBuf, outBuf>>
  BY <1>4
<1>5. CASE Unload \/ GetBuffer("in", inBuf) \/ GetBuffer("out", outBuf) \/ CreateInput
           \/ (\E used, plain \in 0 .. MaxInputs : Infer(used, plain)) \/ UNCHANGED vars
  BY <1>4, <1>5 DEF Unload, GetBuffer, CreateInput, Infer, vars
<1> QED
  BY <1>1, <1>2, <1>3, <1>5 DEF Next

\* A pointer into a buffer within the bounds.
LEMMA PointerType ==
  ASSUME NEW b, Fitted(b), NEW name \in {"in", "out"}
  PROVE  Pointer(name, b) \in [buf : {"in", "out"}, gen : 0 .. MaxGen]
BY Zenon DEF Pointer, Fitted

\* So does what the host holds and what the input buffer contains.
LEMMA RestStep ==
  ASSUME Rest, BothFit(inBuf, outBuf), [Next]_vars
  PROVE  Rest'
<1> DEFINE Pointers == [buf : {"in", "out"}, gen : 0 .. MaxGen]
<1>0. /\ api \in {"client", "module"} /\ locked \in BOOLEAN /\ held \subseteq Pointers
      /\ content \in [Units -> Contents] /\ Blank \in [Units -> Contents]
      /\ Pointer("in", inBuf) \in Pointers /\ Pointer("out", outBuf) \in Pointers
  <2>1. Blank \in [Units -> Contents]
    BY DEF Blank, Contents
  <2>2. Pointer("in", inBuf) \in Pointers /\ Pointer("out", outBuf) \in Pointers
    BY PointerType, Zenon DEF BothFit
  <2> QED
    BY <2>1, <2>2, Zenon DEF Rest
<1> HIDE DEF Pointers
<1>00. ASSUME api' \in {"client", "module"}, locked' \in BOOLEAN, held' \subseteq Pointers,
              content' \in [Units -> Contents]
       PROVE  Rest'
  BY <1>00, Zenon DEF Rest, Pointers
<1>1. ASSUME NEW m \in Images, Load(m) PROVE Rest'
  BY <1>0, <1>00, <1>1, Zenon DEF Load, Install
<1>2. ASSUME NEW q \in Reservations, Reserve(q.in, q.out) PROVE Rest'
  BY <1>0, <1>00, <1>2 DEF Reserve, Install
<1>3. CASE Unload
  BY <1>0, <1>00, <1>3 DEF Unload
<1>4. CASE Close
  BY <1>0, <1>00, <1>4, Zenon DEF Close
<1>5. CASE GetBuffer("in", inBuf) \/ GetBuffer("out", outBuf)
  BY <1>0, <1>00, <1>5, Zenon DEF GetBuffer
<1>6. CASE CreateInput
  <2>1. content' \in [Units -> Contents]
    BY <1>0, <1>6, Zenon DEF CreateInput, Contents
  <2> QED
    BY <1>0, <1>00, <1>6, <2>1 DEF CreateInput
<1>7. ASSUME NEW used \in 0 .. MaxInputs, NEW plain \in 0 .. MaxInputs,
             Infer(used, plain)
      PROVE  Rest'
  <2>1. PICK m \in loaded : InferRefused(used, plain) \/ InferAnswered(m, used, plain)
    BY <1>7 DEF Infer
  <2>2. content' \in [Units -> Contents]
    <3>1. content' = [u \in Units |-> IF u \in Copied(plain) THEN "copy" ELSE content[u]]
             => content' \in [Units -> Contents]
      BY <1>0 DEF Contents
    <3>2. Staged(used + plain, plain) \in [Units -> Contents]
      BY <1>0 DEF Staged, Contents
    <3> QED
      BY <2>1, <3>1, <3>2 DEF InferRefused, InferAnswered
  <2>3. locked' \in BOOLEAN /\ held' \subseteq Pointers
    BY <1>0, <2>1, Zenon DEF InferRefused, InferAnswered
  <2>4. api' = api
    BY <1>7 DEF Infer
  <2> QED
    BY <1>0, <1>00, <2>2, <2>3, <2>4
<1>8. CASE UNCHANGED vars
  BY <1>0, <1>00, <1>8 DEF vars
<1> QED
  BY <1>1, <1>2, <1>3, <1>4, <1>5, <1>6, <1>7, <1>8 DEF Next

\* The three parts hold from the start and through every step.
LEMMA TypedInvariant == Spec => []Typed
<1>1. Init => Typed
  <2> SUFFICES ASSUME Init PROVE Typed
    OBVIOUS
  <2>1. Sizes
    BY DEF Init, Sizes
  <2>2. BothFit(inBuf, outBuf)
    BY SizesAssumption DEF Init, BothFit, Fitted
  <2>3. content \in [Units -> Contents]
    BY DEF Init, Blank, Contents
  <2>4. Rest
    BY <2>3, Zenon DEF Init, Rest
  <2> QED
    BY <2>1, <2>2, <2>4 DEF Typed
<1>2. Typed /\ [Next]_vars => Typed'
  BY SizesStep, FitStep, RestStep DEF Typed
<1> QED
  BY <1>1, <1>2, PTL DEF Spec

\* The input and the output buffer fit the carveout's heap together at all times,
\* whatever is loaded or reserved and whichever allocation the heap refuses: the
\* library releases the old buffer before it asks for a larger one.
THEOREM BuffersTypes == Spec => []TypeOK
<1>1. Typed => TypeOK
  <2> SUFFICES ASSUME Typed PROVE TypeOK
    OBVIOUS
  <2>1. ASSUME NEW b, Fitted(b), b.size <= Carveout PROVE b \in Buffer
    <3>1. b = [size |-> b.size, gen |-> b.gen]
      BY <2>1, Zenon DEF Fitted
    <3>2. b.size \in 0 .. Carveout /\ b.gen \in 0 .. MaxGen
      BY <2>1, SizesAssumption DEF Fitted
    <3> QED
      BY <3>1, <3>2, Zenon DEF Buffer
  <2>2. inBuf.size <= Carveout /\ outBuf.size <= Carveout
    BY SizesAssumption DEF Typed, BothFit, Fitted
  <2>3. inBuf \in Buffer /\ outBuf \in Buffer
    BY <2>1, <2>2 DEF Typed, BothFit
  <2> QED
    BY <2>3, Zenon DEF Typed, BothFit, Sizes, Rest, TypeOK, Contents
<1> QED
  BY <1>1, TypedInvariant, PTL
\* CreatedKept with what it needs to be inductive: only c7x::Module places tensors.
Kept == CreatedKept /\ (api = "client" => next = 0)

\* Nothing is created in a buffer whose next free unit is where its data begins.
LEMMA NothingCreated ==
  ASSUME dataOffset' \in Nat, next' <= dataOffset', next' \in Nat
  PROVE  Created' = {}
BY SizesAssumption DEF Created, Units

\* A step that leaves the tensors and their units alone keeps them.
LEMMA SameTensors ==
  ASSUME Kept, UNCHANGED <<api, next, dataOffset>>,
         \A u \in Created : content'[u] = content[u]
  PROVE  Kept'
<1>1. Created' = Created
  BY DEF Created
<1> QED
  BY <1>1 DEF Kept, CreatedKept

\* What an inference writes, when it has either no plain input or nothing to spare:
\* the descriptors stay below the data.
LEMMA InferKeeps ==
  ASSUME ~ Mixed, Typed, Kept, NEW used \in 0 .. MaxInputs, NEW plain \in 0 .. MaxInputs,
         Infer(used, plain)
  PROVE  Kept'
<1>1. PICK m \in loaded : InferRefused(used, plain) \/ InferAnswered(m, used, plain)
  BY DEF Infer
<1>2. UNCHANGED <<api, next, dataOffset>>
  BY DEF Infer
<1>3. CASE Created = {}
  BY <1>2, <1>3, SameTensors
<1>4. CASE plain = 0
  <2>1. Copied(plain) = {}
    BY <1>4, SizesAssumption DEF Copied, Units, Typed, Sizes
  <2>2. CASE InferRefused(used, plain)
    <3>1. \A u \in Units : content'[u] = content[u]
      BY <2>1, <2>2 DEF InferRefused
    <3> QED
      BY <1>2, <3>1, SameTensors DEF Created
  <2>3. CASE InferAnswered(m, used, plain)
    <3>1. used + plain <= dataOffset \/ ~ (used + plain > InlineMax)
      BY <2>3, SizesAssumption DEF InferAnswered, TooLong, Typed, Sizes
    <3>2. ASSUME NEW u \in Created PROVE content'[u] = content[u]
      <4>1. u \in Units /\ u \in Int /\ u >= dataOffset /\ dataOffset \in Nat
        BY DEF Created, Units, Typed, Sizes
      <4>2. ~ (used + plain > InlineMax /\ u < used + plain)
        BY <3>1, <4>1
      <4>3. content'[u] = IF u \in Copied(plain) THEN "copy"
                          ELSE IF used + plain > InlineMax /\ u < used + plain THEN "descs"
                          ELSE content[u]
        BY <2>3, <4>1 DEF InferAnswered, Staged
      <4> QED
        BY <2>1, <4>2, <4>3
    <3> QED
      BY <1>2, <3>2, SameTensors
  <2> QED
    BY <1>1, <2>2, <2>3
<1> QED
  BY <1>3, <1>4 DEF Infer

\* Every step of a host that does not mix the two kinds of input keeps them.
LEMMA KeptStep ==
  ASSUME ~ Mixed, Typed, Sizes', Kept, [Next]_vars
  PROVE  Kept'
<1>0. dataOffset' \in Nat /\ next' \in Nat
  BY DEF Sizes
<1>1. ASSUME NEW m \in Images, Load(m) PROVE Kept'
  <2>1. next' <= dataOffset' /\ (api' = "client" => next' = 0)
    BY <1>0, <1>1 DEF Load
  <2> QED
    BY <1>0, <2>1, NothingCreated DEF Kept, CreatedKept
<1>2. ASSUME NEW q \in Reservations, Reserve(q.in, q.out) PROVE Kept'
  <2>1. next' = 0 /\ api' = api
    BY <1>2 DEF Reserve, Kept
  <2> QED
    BY <1>0, <2>1, NothingCreated DEF Kept, CreatedKept
<1>3. CASE Unload
  <2>1. next' = 0 /\ api' = api
    BY <1>3 DEF Unload, Kept
  <2> QED
    BY <1>0, <2>1, NothingCreated DEF Kept, CreatedKept
<1>4. CASE Close
  <2>1. next' = 0
    BY <1>4 DEF Close
  <2> QED
    BY <1>0, <2>1, NothingCreated DEF Kept, CreatedKept
<1>5. CASE UNCHANGED <<api, next, dataOffset, content>>
  BY <1>5, SameTensors
<1>6. CASE CreateInput
  <2>1. /\ content' = [content EXCEPT ![next] = "created"] /\ next' = next + 1
        /\ dataOffset' = dataOffset /\ api' = "module"
    BY <1>6 DEF CreateInput
  <2>2. content \in [Units -> Contents] /\ next \in Nat
    BY DEF Typed, Rest, Sizes
  <2>3. ASSUME NEW u \in Created' PROVE content'[u] = "created"
    <3>1. u \in Units /\ u \in Int /\ u >= dataOffset /\ u < next + 1
      BY <2>1 DEF Created, Units
    <3>2. CASE u = next
      BY <2>1, <2>2, <3>1, <3>2
    <3>3. CASE u < next
      BY <2>1, <2>2, <3>1, <3>3 DEF Kept, CreatedKept, Created
    <3> QED
      BY <2>2, <3>1, <3>2, <3>3
  <2> QED
    BY <2>1, <2>3 DEF Kept, CreatedKept
<1>7. CASE GetBuffer("in", inBuf) \/ GetBuffer("out", outBuf) \/ UNCHANGED vars
  BY <1>5, <1>7 DEF GetBuffer, vars
<1>8. ASSUME NEW used \in 0 .. MaxInputs, NEW plain \in 0 .. MaxInputs,
             Infer(used, plain)
      PROVE  Kept'
  BY <1>8, InferKeeps
<1> QED
  BY <1>1, <1>2, <1>3, <1>4, <1>6, <1>7, <1>8 DEF Next

\* For a host that passes no plain inputs once it has tensors from CreateInput,
\* what it wrote to such a tensor stays there until Close:
\* neither a copied input nor the descriptors of a large call land on it, for any
\* number of inputs and any size of the descriptor region.
THEOREM BuffersCreatedKept == ~ Mixed => (Spec => []CreatedKept)
<1> SUFFICES ASSUME ~ Mixed PROVE Spec => []CreatedKept
  OBVIOUS
<1>1. Init => Kept
  <2> SUFFICES ASSUME Init PROVE Kept
    OBVIOUS
  <2>1. Created = {} /\ next = 0
    BY SizesAssumption DEF Init, Created, Units
  <2> QED
    BY <2>1 DEF Kept, CreatedKept
<1>2. Typed /\ Typed' /\ Kept /\ [Next]_vars => Kept'
  BY KeptStep DEF Typed
<1>3. Kept => CreatedKept
  BY DEF Kept
<1> QED
  BY <1>1, <1>2, <1>3, TypedInvariant, PTL DEF Spec
=============================================================================
