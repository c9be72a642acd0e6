----------------------------- MODULE MCFileData -----------------------------
(* A small instance of FileData: two files of at most three blocks, on a    *)
(* disk that cannot hold both, and two processes that share them.  A write  *)
(* has no byte twice; the processes write the same bytes, so that they, and *)
(* the files, are interchangeable.                                          *)
EXTENDS FileData, TLC

\* Each inode is opened once, and its file structure has its name.
Own == [x \in File |-> x]
Letters == [r \in Process |-> <<101, 102, 103>>]
Symmetry == Permutations(Process) \cup Permutations(File)
=============================================================================
