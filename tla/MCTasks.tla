------------------------------ MODULE MCTasks ------------------------------
(* The task table of a KTF title on its own. *)
EXTENDS KTFTasks

MCMaxCalls == [U \in Titles |-> 4]
=============================================================================
