------------------------------- MODULE MCPipe -------------------------------
(* Small instances of Pipe for TLC. *)
EXTENDS Pipe, TLC

Symmetry == Permutations(Process) \cup Permutations(Byte)
=============================================================================
