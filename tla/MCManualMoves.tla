---------------------------- MODULE MCManualMoves ----------------------------
(* A small instance of ManualMoves for TLC. *)
EXTENDS ManualMoves, TLC
=============================================================================
