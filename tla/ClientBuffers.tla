---------------------------- MODULE ClientBuffers ----------------------------
(***************************************************************************)
(* The input and output buffers the host library shares with the DSP       *)
(* (c7x_compute_client.cpp) and the input tensors c7x::Module places in    *)
(* them (c7x_runtime.cc): who holds a pointer into a buffer when it is     *)
(* released and allocated anew, and who writes where in the input buffer.  *)
(*                                                                         *)
(* Sizes are in units: a tensor takes one, and so does a tensor            *)
(* descriptor.  The DSP's side of a call is ComputeService's.              *)
(***************************************************************************)
EXTENDS Integers

CONSTANTS
  Images,        \* modules: in, out: declared capacity; inputs: declared number
                 \* of inputs; used: what a call writes to the output buffer
  Reservations,  \* what reserve_io may be asked for: in, out
  Carveout,      \* units of the heap above the staging buffer
  InlineMax,     \* most inputs an inline INFER takes
  Fallback,      \* kFallbackDescRegionInputs
  MaxInputs,     \* bound on the inputs of one call
  MaxSlots,      \* kMaxInputSlots
  Mixed,         \* the host uses CreateInput and other inputs together
  Keeps,         \* the host keeps its pointers when it unloads a module
  MaxGen         \* bound on the allocations of each buffer

ASSUME SizesAssumption ==
  /\ {Carveout, InlineMax, Fallback, MaxInputs, MaxSlots, MaxGen} \subseteq Nat
  /\ \A i \in Images : i \in [in : Nat, out : Nat, inputs : Nat, used : Nat]
  /\ \A r \in Reservations : r \in [in : Nat, out : Nat]
ASSUME HostAssumption == {Mixed, Keeps} \subseteq BOOLEAN

VARIABLES
  api,            \* what the host uses: "client" functions or c7x::"module"
  inBuf, outBuf,  \* input_buf and output_buf: size, and which mapping it is
  locked,         \* io_capacity_locked
  dataOffset,     \* input_data_offset
  loaded,         \* the module the host has loaded, if any
  held,           \* pointers into the buffers the host holds
  next,           \* staging_alloc_offset
  content         \* what each unit of the input buffer holds

vars == <<api, inBuf, outBuf, locked, dataOffset, loaded, held, next, content>>

Units == 0 .. Carveout - 1
Blank == [u \in Units |-> "junk"]

Init ==
  /\ api \in {"client", "module"}
  /\ inBuf = [size |-> 0, gen |-> 0] /\ outBuf = [size |-> 0, gen |-> 0]
  /\ locked = FALSE /\ dataOffset = 0
  /\ loaded = {} /\ held = {}
  /\ next = 0
  /\ content = Blank

\* Where CreateInput placed its tensors.
Created == {u \in Units : u >= dataOffset /\ u < next}

Pointer(name, buf) == [buf |-> name, gen |-> buf.gen]

\* free_dmabuf.
Released(buf) == [size |-> 0, gen |-> buf.gen]
-----------------------------------------------------------------------------
(* grow_buf_if_needed and ensure_io_capacity: what they may leave behind.  The *)
(* old buffer goes first; the heap may refuse the new one, and does when it    *)
(* does not fit beside the other buffer.                                      *)

\* A faulty library that trusts the heap to be large enough.
Grown_NoLimit(buf, need, other) ==
  {[ok |-> TRUE, buf |-> IF need <= buf.size THEN buf
                         ELSE [size |-> need, gen |-> buf.gen + 1]]}

Grown(buf, need, other) ==
  IF need <= buf.size THEN {[ok |-> TRUE, buf |-> buf]}
  ELSE {[ok |-> FALSE, buf |-> Released(buf)]} \cup
       {[ok |-> TRUE, buf |-> b] :
          b \in IF need + other <= Carveout
                THEN {[size |-> need, gen |-> buf.gen + 1]} ELSE {}}

\* The output buffer is not tried when the input buffer failed.
Ensured(in, out) ==
  UNION {{[ok |-> i.ok /\ o.ok, in |-> i.buf, out |-> o.buf] :
            o \in IF i.ok THEN Grown(outBuf, out, i.buf.size)
                  ELSE {[ok |-> FALSE, buf |-> outBuf]}} :
         i \in Grown(inBuf, in, outBuf.size)}

Bounded == inBuf.gen < MaxGen /\ outBuf.gen < MaxGen

\* A buffer that moved holds nothing yet.
Install(r) ==
  /\ inBuf' = r.in /\ outBuf' = r.out
  /\ content' = IF r.in = inBuf THEN content ELSE Blank

\* c7x_client_dyn_load once the service has answered, also as Module::Load.
\* A capacity that cannot be had is only warned about.
Load(m) ==
  /\ loaded = {} /\ Bounded
  /\ loaded' = {m}
  /\ dataOffset' = IF m.inputs > 0 THEN m.inputs ELSE Fallback
  /\ next' = IF api = "module" THEN dataOffset' ELSE 0
  /\ locked' = FALSE
  /\ \E r \in Ensured(m.in, m.out) : Install(r)
  /\ UNCHANGED <<api, held>>

\* c7x_client_reserve_io: without, and with, its test of the lock.
Reserve_Unlocked(in, out) ==
  /\ api = "client" /\ Bounded
  /\ \E r \in Ensured(in, out) : Install(r)
  /\ UNCHANGED <<api, locked, dataOffset, loaded, held, next>>
Reserve(in, out) ==
  /\ api = "client" /\ Bounded
  /\ IF locked THEN UNCHANGED <<inBuf, outBuf, content>>
     ELSE \E r \in Ensured(in, out) : Install(r)
  /\ UNCHANGED <<api, locked, dataOffset, loaded, held, next>>

\* c7x_client_dyn_unload.  When it fails the offset stays, and the host may go on
\* with the module or give it up; it drops its pointers, unless it Keeps them.
Unload ==
  /\ api = "client" /\ loaded # {}
  /\ \/ loaded' = {} /\ dataOffset' = 0
     \/ loaded' \in {{}, loaded} /\ UNCHANGED dataOffset
  /\ held' = IF Keeps THEN held ELSE {}
  /\ UNCHANGED <<api, inBuf, outBuf, locked, next, content>>

\* Module::Close: unload, close the client, forget the input tensors.
Close ==
  /\ api = "module" /\ loaded # {}
  /\ loaded' = {} /\ held' = {}
  /\ inBuf' = Released(inBuf) /\ outBuf' = Released(outBuf)
  /\ locked' = FALSE /\ dataOffset' = 0 /\ next' = 0
  /\ content' = Blank
  /\ UNCHANGED api

\* c7x_client_get_input_buffer and c7x_client_get_output_buffer lock the
\* capacity when there is a buffer to hand out; Module::StagingBuffer is the first.
GetBuffer(name, buf) ==
  /\ loaded # {} /\ (api = "module" => name = "in")
  /\ IF buf.size > 0
     THEN /\ held' = held \cup {Pointer(name, buf)}
          /\ locked' = TRUE
     ELSE UNCHANGED <<held, locked>>
  /\ UNCHANGED <<api, inBuf, outBuf, dataOffset, loaded, next, content>>

\* Module::CreateInput, and the host filling the tensor it got; a tensor that
\* finds no slot or no room changes nothing.
CreateInput ==
  /\ api = "module" /\ loaded # {}
  /\ next - dataOffset < MaxSlots /\ next + 1 <= inBuf.size
  /\ content' = [content EXCEPT ![next] = "created"]
  /\ held' = held \cup {Pointer("in", inBuf)}
  /\ locked' = TRUE
  /\ next' = next + 1
  /\ UNCHANGED <<api, inBuf, outBuf, dataOffset, loaded>>
-----------------------------------------------------------------------------
(* c7x_client_infer_impl with "used" tensors that are in the input buffer      *)
(* already, from CreateInput or written by a host that got the buffer, and     *)
(* "plain" others, which are copied after the descriptor region one by one.    *)

Copied(plain) ==
  {u \in Units : u >= dataOffset /\ u < dataOffset + plain /\ u < inBuf.size}

\* Descriptors written where the tensors are, and only for a large call.
Staged_Descs(total, plain) ==
  [u \in Units |-> IF u \in Copied(plain) THEN "copy"
                   ELSE IF u >= dataOffset /\ u < dataOffset + total THEN "descs"
                   ELSE content[u]]
Staged(total, plain) ==
  [u \in Units |-> IF u \in Copied(plain) THEN "copy"
                   ELSE IF total > InlineMax /\ u < total THEN "descs"
                   ELSE content[u]]

TooLong(used, plain) ==
  \/ plain > 0 /\ dataOffset + plain > inBuf.size
  \/ used + plain > InlineMax /\ used + plain > dataOffset

\* The call fails before anything is sent: an input that does not fit, or more
\* descriptors than the region holds.  What was copied stays copied.
InferRefused(used, plain) ==
  /\ TooLong(used, plain)
  /\ content' = [u \in Units |-> IF u \in Copied(plain) THEN "copy" ELSE content[u]]
  /\ UNCHANGED <<held, locked>>

\* The DSP answers: with an error, or with outputs that fit, which locks the
\* capacity.
InferAnswered(m, used, plain) ==
  /\ ~ TooLong(used, plain)
  /\ content' = Staged(used + plain, plain)
  /\ \/ /\ outBuf.size >= m.used
        /\ held' = IF m.used > 0 THEN held \cup {Pointer("out", outBuf)} ELSE held
        /\ locked' = TRUE
     \/ UNCHANGED <<held, locked>>

Infer(used, plain) ==
  /\ used + plain \in 1 .. MaxInputs
  /\ used > 0 => Pointer("in", inBuf) \in held
  /\ Mixed \/ plain = 0 \/ Created = {}
  /\ \E m \in loaded : InferRefused(used, plain) \/ InferAnswered(m, used, plain)
  /\ UNCHANGED <<api, inBuf, outBuf, dataOffset, loaded, next>>

Next ==
  \/ \E m \in Images : Load(m)
  \/ \E r \in Reservations : Reserve(r.in, r.out)
  \/ Unload
  \/ Close
  \/ GetBuffer("in", inBuf)
  \/ GetBuffer("out", outBuf)
  \/ CreateInput
  \/ \E used, plain \in 0 .. MaxInputs : Infer(used, plain)

Spec == Init /\ [][Next]_vars
-----------------------------------------------------------------------------
Buffer == [size : 0 .. Carveout, gen : 0 .. MaxGen]

\* Type invariant: both buffers fit the carveout's heap together.
TypeOK ==
  /\ api \in {"client", "module"}
  /\ inBuf \in Buffer /\ outBuf \in Buffer
  /\ inBuf.size + outBuf.size <= Carveout
  /\ locked \in BOOLEAN
  /\ dataOffset \in Nat /\ next \in Nat
  /\ loaded \subseteq Images
  /\ held \subseteq [buf : {"in", "out"}, gen : 0 .. MaxGen]
  /\ content \in [Units -> {"junk", "created", "copy", "descs"}]

\* No pointer the host holds is into a buffer that was released: what
\* io_capacity_locked is there to guarantee.
PointersValid ==
  \A p \in held : LET b == IF p.buf = "in" THEN inBuf ELSE outBuf
                  IN  b.size > 0 /\ b.gen = p.gen

\* Pointers are held only while a module is loaded and the capacity locked: with
\* this, which a host that drops them on unload keeps true, PointersValid is
\* inductive.
HeldMeansLocked == held # {} => locked /\ loaded # {}

\* A tensor from CreateInput keeps what the host wrote to it until Close: no
\* copied input and no descriptor lands on it.
CreatedKept == \A u \in Created : content[u] = "created"
=============================================================================
