----------------------------- MODULE MCTcpSender -----------------------------
(* Instances of TcpSender for TLC. *)
EXTENDS TcpSender

AllMoves == {"respond", "stall", "leave"}
NoMoves == {}
=============================================================================
