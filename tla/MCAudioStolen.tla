--------------------------- MODULE MCAudioStolen ---------------------------
(* The machine alone, with a host that drains it during a step. *)
EXTENDS Presentation
=============================================================================
