-------------------------------- MODULE MCAgc --------------------------------
(* Instances of Agc for TLC. *)
EXTENDS Agc

AllFaults == {"port", "loss", "late"}
=============================================================================
