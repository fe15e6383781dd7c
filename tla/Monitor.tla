------------------------------ MODULE Monitor ------------------------------
(***************************************************************************)
(* What sleep() and wakeup() promise to the code that uses them: a monitor *)
(* with one lock and one channel, in which sleeping "atomically releases   *)
(* lock and sleeps on chan" (proc.c:425).                                  *)
(***************************************************************************)
CONSTANTS Procs, None

VARIABLES
  holder,      \* the process inside the monitor, or None
  asleep,      \* the processes asleep on the channel
  waking       \* the processes whose wakeup() has not taken effect yet

vars == <<holder, asleep, waking>>

Init == holder = None /\ asleep = {} /\ waking = {}

Enter(p) == holder = None /\ p \notin asleep /\ holder' = p /\ UNCHANGED <<asleep, waking>>

Leave(p) == holder = p /\ holder' = None /\ UNCHANGED <<asleep, waking>>

Sleep(p) ==
  /\ holder = p /\ holder' = None
  /\ asleep' = asleep \cup {p}
  /\ UNCHANGED waking

(* wakeup() is called, inside the monitor or outside it, and at some later *)
(* moment all processes asleep at that moment wake up.                     *)
WakeCall(p) ==
  /\ p \notin asleep \cup waking
  /\ waking' = waking \cup {p}
  /\ UNCHANGED <<holder, asleep>>

WakeAll(p) ==
  /\ p \in waking
  /\ asleep' = {} /\ waking' = waking \ {p}
  /\ UNCHANGED holder

(* kill() wakes one process whatever it sleeps on. *)
WakeOne(q) == q \in asleep /\ asleep' = asleep \ {q} /\ UNCHANGED <<holder, waking>>

Next ==
  \E p \in Procs : \/ Enter(p) \/ Leave(p) \/ Sleep(p)
                   \/ WakeCall(p) \/ WakeAll(p) \/ WakeOne(p)

Spec == Init /\ [][Next]_vars

=============================================================================
