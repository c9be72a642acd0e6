------------------------------- MODULE MCProc -------------------------------
(* Small instances of Proc for TLC: which system calls the programs make.  *)
(* A program ends by a fault, too.                                         *)
EXTENDS ProcInv

\* A parent that waits for its children, and one that sleeps meanwhile.
Mixed == [p \in Procs |-> IF p = 2 THEN {"fork", "wait"} ELSE {"sleep"}]
\* A process that forks and waits, and one that may kill it.
Killer == [p \in Procs |-> IF p = 2 THEN {"fork", "wait"} ELSE {"kill"}]
=============================================================================
