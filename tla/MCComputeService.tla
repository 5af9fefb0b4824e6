--------------------------- MODULE MCComputeService ---------------------------
(* Small instances of ComputeService for TLC. *)
EXTENDS ComputeService

Image(name, state, hasEntry, weights) ==
  [name |-> name, state |-> state, entry |-> hasEntry, weights |-> weights]

File(name, state) == [name |-> name, state |-> state]

\* A client whose modules embed their weights, good, bad and torn, one that does
\* not link and an empty file; it makes both kinds of inference.
EmbeddedClient ==
  [images |-> {Image("a", "ok", TRUE, "ok"), Image("b", "ok", TRUE, "bad"), Image("t", "ok", TRUE, "torn"),
               Image("u", "unlinkable", TRUE, "ok"), Image("e", "empty", TRUE, "none")},
   weights |-> {}, inputs |-> InputKinds, large |-> {"ok", "header", "kernel", "size"},
   stale |-> FALSE, atOnce |-> 1, modules |-> 3, models |-> 3, allocs |-> 8]

\* A client with separate weights and modules without any, the second without
\* an entry point; it tries a second module, makes plain inferences only.
WeightsClient ==
  [images |-> {Image("p", "ok", TRUE, "none"), Image("q", "ok", FALSE, "none")},
   weights |-> {File("w", "ok"), File("x", "bad"), File("y", "torn"), File("z", "empty")},
   inputs |-> {"ok", "kernel", "tensor"}, large |-> {},
   stale |-> FALSE, atOnce |-> 2, modules |-> 2, models |-> 2, allocs |-> 6]

Careful == {EmbeddedClient, WeightsClient}

\* Clients of one good module: one that sends the wrong number of inputs in an
\* INFER_LARGE, one that keeps two copies loaded and one with stale handles.
OneImage ==
  [EmbeddedClient EXCEPT !.images = {Image("a", "ok", TRUE, "ok")}, !.inputs = {"ok"},
                         !.large = {}]
Inferring == {OneImage}
Miscounting == {[OneImage EXCEPT !.large = {"ok", "count"}]}
TwoModules == {[OneImage EXCEPT !.large = {"ok"}, !.atOnce = 2]}
Stale == {[OneImage EXCEPT !.stale = TRUE]}
=============================================================================
