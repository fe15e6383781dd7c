---------------------------- MODULE MCMsgQueue ----------------------------
(***************************************************************************)
(* Processes and page frames are interchangeable: no definition of         *)
(* MsgQueue or TypedQueue prefers one of them.                             *)
(***************************************************************************)
EXTENDS MsgQueue, TLC

Interchangeable == Permutations(Procs) \cup Permutations(Pages)

=============================================================================
