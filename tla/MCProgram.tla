----------------------------- MODULE MCProgram -----------------------------
(* Instance of Program for TLC: values in MCProgram.cfg. *)
EXTENDS Program
=============================================================================
