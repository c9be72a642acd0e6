------------------------------ MODULE MCBcache ------------------------------
(* Small instances of Bcache for TLC. *)
EXTENDS Bcache, TLC

CONSTANTS a, b, m, v, w

\* One block of which both contents matter; block contents are independent.
OneWritten == [x \in Block |-> IF x = a THEN {v, w} ELSE {v}]
=============================================================================
