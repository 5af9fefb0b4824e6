----------------------------- MODULE MCThreadPool -----------------------------
(* Instances of the thread pool for TLC. *)
EXTENDS ThreadPool
=============================================================================
