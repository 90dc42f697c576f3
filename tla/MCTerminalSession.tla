-------------------------- MODULE MCTerminalSession --------------------------
(* Instances of TerminalSession for TLC. *)
EXTENDS TerminalSession
=============================================================================
