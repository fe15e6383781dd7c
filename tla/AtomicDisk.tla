----------------------------- MODULE AtomicDisk -----------------------------
(***************************************************************************)
(* What the log promises (log.c:9-20): the blocks the file system sees,    *)
(* and the blocks it will see after a crash.  The writes of operations     *)
(* that overlap become stable together, when none of them is in progress,  *)
(* or never.                                                               *)
(***************************************************************************)
CONSTANTS Procs, Blocks, Values

VARIABLES
  mem,      \* the content of each block, as the file system sees it
  stable,   \* the content of each block after a crash
  active    \* the processes that are inside an operation

vars == <<mem, stable, active>>

Init == mem \in [Blocks -> Values] /\ stable = mem /\ active = {}

Begin(p) == p \notin active /\ active' = active \cup {p} /\ UNCHANGED <<mem, stable>>

Write(p, b, v) ==
  p \in active /\ mem' = [mem EXCEPT ![b] = v] /\ UNCHANGED <<stable, active>>

End(p) == p \in active /\ active' = active \ {p} /\ UNCHANGED <<mem, stable>>

Commit == active = {} /\ stable' = mem /\ UNCHANGED <<mem, active>>

Crash == mem' = stable /\ active' = {} /\ UNCHANGED stable

Next ==
  \/ Commit \/ Crash
  \/ \E p \in Procs :
       Begin(p) \/ End(p) \/ \E b \in Blocks, v \in Values : Write(p, b, v)

Spec == Init /\ [][Next]_vars

=============================================================================
