---------------------------- MODULE MCMultiplexer ----------------------------
(* Instances of Multiplexer for TLC. *)
EXTENDS Multiplexer

CONSTANTS c1, c2, p1, p2
=============================================================================
