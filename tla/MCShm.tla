------------------------------- MODULE MCShm -------------------------------
(* Shm with interchangeable processes and frames. *)
EXTENDS Shm, TLC

Interchangeable ==
  Permutations(Procs) \cup Permutations(Frames)
=============================================================================
