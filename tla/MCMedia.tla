------------------------------ MODULE MCMedia ------------------------------
(* The clip timelines, with the bounds of each configuration. *)
EXTENDS Media
=============================================================================
