----------------------------- MODULE MCSafeQueue -----------------------------
(* Instances of SafeQueue for TLC. *)
EXTENDS SafeQueue, TLC

Symmetry == Permutations(Producers) \cup Permutations(Consumers)
=============================================================================
