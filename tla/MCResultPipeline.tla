--------------------------- MODULE MCResultPipeline ---------------------------
(* Instances of ResultPipeline for TLC. *)
EXTENDS ResultPipeline
=============================================================================
