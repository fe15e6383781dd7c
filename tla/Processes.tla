----------------------------- MODULE Processes ------------------------------
(***************************************************************************)
(* What the modules about processes that sleep and are woken have in       *)
(* common: the processes, and where each of them is in the kernel.         *)
(***************************************************************************)
CONSTANTS
  Procs,
  None         \* no process: nobody, nothing

VARIABLE pc    \* where each process is

Goto(p, place) == pc' = [pc EXCEPT ![p] = place]
=============================================================================
