------------------------------- MODULE MCLog --------------------------------
(***************************************************************************)
(* Processes and home blocks are interchangeable: no definition of Log or  *)
(* AtomicDisk prefers one of them.                                         *)
(***************************************************************************)
EXTENDS Log, TLC

Interchangeable == Permutations(Procs) \cup Permutations(Blocks)

=============================================================================
