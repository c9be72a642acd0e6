-------------------------------- MODULE MCFs --------------------------------
(* Small instances of Fs for TLC. *)
EXTENDS Fs, TLC

MCPaths == {<<"x">>, <<"x", "x">>, <<"x", "..">>}
MCNewPaths == {<<"x">>, <<"x", "x">>}
Processes == Permutations(Process)
=============================================================================
