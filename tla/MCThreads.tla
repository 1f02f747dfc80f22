----------------------------- MODULE MCThreads -----------------------------
(* The cooperative threads of an SKVM title on their own. *)
EXTENDS Threads
=============================================================================
