---------------------------- MODULE MCAcquisition ----------------------------
(* Instances of Acquisition for TLC. *)
EXTENDS Acquisition, TLC

NoFaults == {}
AllFaults == {"malloc", "scan"}
Symmetry == Permutations(Blocks)
=============================================================================
