------------------------------ MODULE MCFrame ------------------------------
(* One or two controls, one timer, a bus of a few events. *)
EXTENDS Frame
=============================================================================
