--------------------------- MODULE MCComputeChannel ---------------------------
(* Small instances of ComputeChannel for TLC. *)
EXTENDS ComputeChannel

Program(types, malformed, mayFail, mayStop) ==
  [types |-> types, malformed |-> malformed, mayFail |-> mayFail, mayStop |-> mayStop]

\* Two hosts that keep to what the library can answer for: one makes every
\* call over a transport on which no receive fails, the other only pings, with
\* receives that fail and a remote processor that may be stopped.
Careful == {Program(AllTypes, {DynLoad, InferLarge}, FALSE, FALSE),
            Program({Ping}, {}, TRUE, TRUE)}

\* A host that goes on inferring after a receive has failed.
Retrying == {Program({Infer}, {}, TRUE, FALSE)}

\* A host that pings while Linux may stop the remote processor.
Stopped == {Program({Ping}, {}, FALSE, TRUE)}
=============================================================================
