---------------------------- MODULE MCOperators ----------------------------
(***************************************************************************)
(* Instance of Operators for TLC.                                          *)
(***************************************************************************)
EXTENDS Operators
=============================================================================
