------------------------------- MODULE MCDisco -------------------------------
(* Small instances of Disco for TLC. *)
EXTENDS Disco

Kind(process, uses, commands, lag, operands) ==
  [process |-> process, uses |-> uses, commands |-> commands, lag |-> lag, operands |-> operands]

\* Registers that are reused in a long session, copies and calls of worker
\* threads far behind, collectives over a pipe, and synchronization of both;
\* and a client that shuts the session down itself.
SmallSessions ==
  {Kind(TRUE, {"copy"}, 5, 0, 1),
   Kind(FALSE, {"copy", "call"}, 3, 2, 1),
   Kind(FALSE, {"copy"}, 4, 2, 1),
   Kind(TRUE, {"collective", "unsupported"}, 3, 2, 2),
   Kind(TRUE, {"sync", "debug"}, 3, 2, 1),
   Kind(FALSE, {"sync", "debug"}, 3, 2, 1),
   Kind(FALSE, {"shutdown"}, 2, 1, 1)}

\* The same with workers that are processes.
ShutdownSession == {Kind(TRUE, {"shutdown"}, 1, 1, 1)}
=============================================================================
