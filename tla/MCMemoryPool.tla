---------------------------- MODULE MCMemoryPool ----------------------------
(* Small instances of MemoryPool for TLC. *)
EXTENDS MemoryPool

\* Memory full of zeros, and memory full of headers left by an earlier use.
CleanMemory == {[a \in Base .. Base + Size - 1 |-> Junk]}
DirtyMemory == {[a \in Base .. Base + Size - 1 |-> [magic |-> TRUE, size |-> 4]]}
AnyMemory == CleanMemory \cup DirtyMemory
=============================================================================
