---------------------------- MODULE SleepWakeup ----------------------------
(***************************************************************************)
(* sleep(), wakeup() and kill() at the grain of single lock operations:    *)
(* spinlock.c (acquire, release, pushcli, popcli), sched(), scheduler(),   *)
(* yield(), forkret(), sleep(), wakeup() and kill() of proc.c.             *)
(*                                                                         *)
(* The processes use one monitor: a spinlock "lk" and a channel.  Nothing  *)
(* is assumed about what they do with it: outside the lock a process may   *)
(* enter, wake the sleepers or kill somebody; inside it may leave, wake or *)
(* sleep.  The order of the scheduler's scan is in module Proc; here a     *)
(* CPU may pick any RUNNABLE process.                                      *)
(***************************************************************************)
EXTENDS Naturals, Processes

CONSTANT NCPU

ASSUME MonitorAssumption == None \notin Procs /\ NCPU \in Nat \ {0}

VARIABLES
  owner,       \* lk->cpu of each spinlock, 0 when it is free
  ncli, intena, intr,      \* per CPU: mycpu()->ncli, ->intena, FL_IF
  proc,        \* per CPU: c->proc, None while scheduler() executes
  spc,         \* per CPU: where scheduler() is
  state, asleepOn,         \* p->state; p->chan # 0
  ret,         \* the place wakeup(), kill() or an interrupt returns to
  saved        \* the local intena of sched()

cpuVars  == <<ncli, intena, intr>>
procVars == <<state, asleepOn, pc, ret, saved>>
vars == <<owner, ncli, intena, intr, proc, spc, state, asleepOn, pc, ret, saved>>

Cpus  == 1..NCPU
Locks == {"lk", "pt"}        \* "pt" is ptable.lock
Spinning == [lk_spin |-> "lk", wake_spin |-> "pt", kill_spin |-> "pt",
             sleep_spin |-> "pt", yield_spin |-> "pt"]

Init ==
  /\ owner = [l \in Locks |-> 0]
  /\ ncli = [c \in Cpus |-> 0]
  /\ intena = [c \in Cpus |-> FALSE] /\ intr = [c \in Cpus |-> TRUE]
  /\ proc = [c \in Cpus |-> None] /\ spc = [c \in Cpus |-> "idle"]
  /\ state = [p \in Procs |-> "RUNNABLE"]
  /\ asleepOn = [p \in Procs |-> FALSE]
  /\ pc = [p \in Procs |-> "new"] /\ ret = [p \in Procs |-> "out"]
  /\ saved = [p \in Procs |-> FALSE]

-----------------------------------------------------------------------------
(* spinlock.c *)

Pushcli(c) ==
  /\ ncli' = [ncli EXCEPT ![c] = @ + 1]
  /\ intena' = [intena EXCEPT ![c] = IF ncli[c] = 0 THEN intr[c] ELSE @]
  /\ intr' = [intr EXCEPT ![c] = FALSE]

\* Slip: interrupts come back on as soon as one of two locks is released.
PopcliEarly(c) ==
  /\ ncli' = [ncli EXCEPT ![c] = @ - 1]
  /\ intr' = [intr EXCEPT ![c] = @ \/ intena[c]]
  /\ UNCHANGED intena

Popcli(c) ==
  /\ ncli' = [ncli EXCEPT ![c] = @ - 1]
  /\ intr' = [intr EXCEPT ![c] = @ \/ (ncli[c] = 1 /\ intena[c])]
  /\ UNCHANGED intena

(* acquire(): interrupts go off before the first xchg. *)
Spin(c, p, place) ==
  /\ Pushcli(c) /\ Goto(p, place)
  /\ UNCHANGED <<owner, proc, spc, state, asleepOn, saved>>

(* The xchg that finds the lock free.  A CPU that already holds the lock  *)
(* panics instead.                                                        *)
Take(c, p, from, to) ==
  /\ pc[p] = from /\ owner[Spinning[from]] = 0
  /\ owner' = [owner EXCEPT ![Spinning[from]] = c]
  /\ Goto(p, to)
  /\ UNCHANGED <<cpuVars, proc, spc, state, asleepOn, ret, saved>>

Release(c, l) ==
  /\ owner[l] = c
  /\ owner' = [owner EXCEPT ![l] = 0]
  /\ Popcli(c)

-----------------------------------------------------------------------------
(* sched() and scheduler() *)

(* What sched() insists on, else it panics. *)
SchedChecks(c) == owner["pt"] = c /\ ncli[c] = 1 /\ ~intr[c]

\* Slip: intena is not saved, as if it belonged to the CPU.
SchedNoSave(c, p) ==
  /\ SchedChecks(c)
  /\ proc' = [proc EXCEPT ![c] = None]
  /\ UNCHANGED <<owner, cpuVars, spc, ret, saved>>

(* p gives up its CPU with ptable.lock held; c is back in scheduler(). *)
Sched(c, p) ==
  /\ SchedChecks(c)
  /\ saved' = [saved EXCEPT ![p] = intena[c]]
  /\ proc' = [proc EXCEPT ![c] = None]
  /\ UNCHANGED <<owner, cpuVars, spc, ret>>

(* scheduler() starts acquire(&ptable.lock). *)
SchedSpin(c) ==
  /\ proc[c] = None /\ spc[c] = "idle"
  /\ Pushcli(c) /\ spc' = [spc EXCEPT ![c] = "spin"]
  /\ UNCHANGED <<owner, proc, procVars>>

SchedTake(c) ==
  /\ proc[c] = None /\ spc[c] = "spin" /\ owner["pt"] = 0
  /\ owner' = [owner EXCEPT !["pt"] = c]
  /\ spc' = [spc EXCEPT ![c] = "scan"]
  /\ UNCHANGED <<cpuVars, proc, procVars>>

(* swtch() to a RUNNABLE process: unless it is new, it returns into       *)
(* sched(), which gives it its intena back.                               *)
SchedRun(c, p) ==
  /\ proc[c] = None /\ spc[c] = "scan" /\ state[p] = "RUNNABLE"
  /\ proc' = [proc EXCEPT ![c] = p]
  /\ state' = [state EXCEPT ![p] = "RUNNING"]
  /\ intena' = [intena EXCEPT ![c] = IF pc[p] = "new" THEN @ ELSE saved[p]]
  /\ UNCHANGED <<owner, ncli, intr, spc, asleepOn, pc, ret, saved>>

(* The end of the scan, and sti() at the top of the loop. *)
SchedIdle(c) ==
  /\ proc[c] = None /\ spc[c] = "scan" /\ owner["pt"] = c
  /\ owner' = [owner EXCEPT !["pt"] = 0]
  /\ ncli' = [ncli EXCEPT ![c] = @ - 1]
  /\ intr' = [intr EXCEPT ![c] = TRUE]
  /\ spc' = [spc EXCEPT ![c] = "idle"]
  /\ UNCHANGED <<intena, proc, procVars>>

(* forkret() of a new process, and the return to user mode by iret. *)
Forkret(c, p) ==
  /\ pc[p] = "new" /\ owner["pt"] = c
  /\ owner' = [owner EXCEPT !["pt"] = 0]
  /\ ncli' = [ncli EXCEPT ![c] = @ - 1]
  /\ intr' = [intr EXCEPT ![c] = TRUE]
  /\ Goto(p, "out")
  /\ UNCHANGED <<intena, proc, spc, state, asleepOn, ret, saved>>

-----------------------------------------------------------------------------
(* yield() from a timer interrupt: the gate masks interrupts before       *)
(* acquire() looks at them, and iret unmasks them.                        *)

Interrupt(c, p) ==
  /\ intr[c]
  /\ intr' = [intr EXCEPT ![c] = FALSE]
  /\ ncli' = [ncli EXCEPT ![c] = @ + 1]
  /\ intena' = [intena EXCEPT ![c] = IF ncli[c] = 0 THEN FALSE ELSE @]
  /\ ret' = [ret EXCEPT ![p] = pc[p]]
  /\ Goto(p, "yield_spin")
  /\ UNCHANGED <<owner, proc, spc, state, asleepOn, saved>>

Yield(c, p) ==
  /\ pc[p] = "yield_set"
  /\ state' = [state EXCEPT ![p] = "RUNNABLE"]
  /\ Goto(p, "yield_back")
  /\ Sched(c, p) /\ UNCHANGED asleepOn

YieldBack(c, p) ==
  /\ pc[p] = "yield_back" /\ owner["pt"] = c
  /\ owner' = [owner EXCEPT !["pt"] = 0]
  /\ ncli' = [ncli EXCEPT ![c] = @ - 1]
  /\ intr' = [intr EXCEPT ![c] = TRUE]
  /\ Goto(p, ret[p])
  /\ UNCHANGED <<intena, proc, spc, state, asleepOn, ret, saved>>

-----------------------------------------------------------------------------
(* The monitor: entering, leaving, sleep(), wakeup(), kill(). *)

Enter(c, p) == pc[p] \in {"out", "relock"} /\ Spin(c, p, "lk_spin") /\ UNCHANGED ret

Leave(c, p) ==
  /\ pc[p] = "in" /\ Release(c, "lk") /\ Goto(p, "out")
  /\ UNCHANGED <<proc, spc, state, asleepOn, ret, saved>>

(* sleep(chan, lk) starts with acquire(&ptable.lock) ... *)
SleepStart(c, p) == pc[p] = "in" /\ Spin(c, p, "sleep_spin") /\ UNCHANGED ret

(* ... release(lk) ... *)
SleepRelease(c, p) ==
  /\ pc[p] = "sleep_rel" /\ Release(c, "lk") /\ Goto(p, "sleep_set")
  /\ UNCHANGED <<proc, spc, state, asleepOn, ret, saved>>

(* ... p->chan, p->state and sched() ... *)
SleepSet(c, p) ==
  /\ pc[p] = "sleep_set"
  /\ asleepOn' = [asleepOn EXCEPT ![p] = TRUE]
  /\ state' = [state EXCEPT ![p] = "SLEEPING"]
  /\ Goto(p, "sleep_back")
  /\ Sched(c, p)

\* Slip: lk is taken again before ptable.lock is released.
SleepBackHolding(c, p) ==
  /\ pc[p] = "sleep_back"
  /\ asleepOn' = [asleepOn EXCEPT ![p] = FALSE]
  /\ Pushcli(c) /\ Goto(p, "lk_spin")
  /\ UNCHANGED <<owner, proc, spc, state, ret, saved>>

(* ... and, when it is switched to again, p->chan = 0 and release. *)
SleepBack(c, p) ==
  /\ pc[p] = "sleep_back" /\ Release(c, "pt")
  /\ asleepOn' = [asleepOn EXCEPT ![p] = FALSE]
  /\ Goto(p, "relock")
  /\ UNCHANGED <<proc, spc, state, ret, saved>>

\* Slip: wakeup() scans the table without ptable.lock.
WakeStartNoLock(c, p) ==
  /\ pc[p] \in {"out", "in"}
  /\ ret' = [ret EXCEPT ![p] = pc[p]]
  /\ Spin(c, p, "wake")

WakeStart(c, p) ==
  /\ pc[p] \in {"out", "in"}
  /\ ret' = [ret EXCEPT ![p] = pc[p]]
  /\ Spin(c, p, "wake_spin")

Wakeup1(c, p) ==
  /\ pc[p] = "wake"
  /\ state' = [q \in Procs |-> IF state[q] = "SLEEPING" /\ asleepOn[q]
                                 THEN "RUNNABLE" ELSE state[q]]
  /\ Goto(p, "wake_done")
  /\ UNCHANGED <<owner, cpuVars, proc, spc, asleepOn, ret, saved>>

KillStart(c, p) ==
  /\ pc[p] = "out"
  /\ ret' = [ret EXCEPT ![p] = "out"]
  /\ Spin(c, p, "kill_spin")

Kill(c, p, q) ==
  /\ pc[p] = "kill"
  /\ state' = [state EXCEPT ![q] = IF @ = "SLEEPING" THEN "RUNNABLE" ELSE @]
  /\ Goto(p, "wake_done")
  /\ UNCHANGED <<owner, cpuVars, proc, spc, asleepOn, ret, saved>>

WakeDone(c, p) ==
  /\ pc[p] = "wake_done" /\ Release(c, "pt") /\ Goto(p, ret[p])
  /\ UNCHANGED <<proc, spc, state, asleepOn, ret, saved>>

-----------------------------------------------------------------------------
Step(c, p) ==
  \/ Forkret(c, p) \/ Interrupt(c, p) \/ Yield(c, p) \/ YieldBack(c, p)
  \/ Enter(c, p) \/ Leave(c, p)
  \/ SleepStart(c, p) \/ SleepRelease(c, p) \/ SleepSet(c, p) \/ SleepBack(c, p)
  \/ WakeStart(c, p) \/ Wakeup1(c, p) \/ KillStart(c, p) \/ WakeDone(c, p)
  \/ \E q \in Procs : Kill(c, p, q)
  \/ Take(c, p, "lk_spin", "in") \/ Take(c, p, "wake_spin", "wake")
  \/ Take(c, p, "kill_spin", "kill") \/ Take(c, p, "sleep_spin", "sleep_rel")
  \/ Take(c, p, "yield_spin", "yield_set")

Next ==
  \E c \in Cpus :
    \/ SchedSpin(c) \/ SchedTake(c) \/ SchedIdle(c)
    \/ \E p \in Procs : SchedRun(c, p) \/ (proc[c] = p /\ Step(c, p))

Spec == Init /\ [][Next]_vars

-----------------------------------------------------------------------------
(* Neither acquire(), release(), popcli() nor sched() ever panics: the    *)
(* CPU that spins does not hold the lock, the CPU that releases does, and *)
(* a process that gives up its CPU holds ptable.lock and nothing else     *)
(* (spinlock.c:28, 49, 119; proc.c:381-388).                              *)
NoPanic ==
  \A c \in Cpus, p \in Procs : proc[c] = p =>
    /\ pc[p] \in DOMAIN Spinning => owner[Spinning[pc[p]]] # c
    /\ pc[p] \in {"in", "sleep_rel"} => owner["lk"] = c /\ ~intr[c]
    /\ pc[p] \in {"wake_done", "sleep_back", "yield_back", "new"} =>
         owner["pt"] = c /\ ~intr[c]
    /\ pc[p] \in {"sleep_set", "yield_set"} => SchedChecks(c)

(* A process in a system call that holds no lock can be interrupted: the  *)
(* interrupt flag it had when it went to sleep follows it to whatever CPU *)
(* it wakes up on (the comment on sched(), proc.c:369-374).               *)
InterruptsComeBack ==
  \A c \in Cpus, p \in Procs :
    proc[c] = p /\ pc[p] \in {"out", "relock"} => intr[c] /\ ncli[c] = 0

(* The spinlocks are ordered: a CPU that holds ptable.lock never spins,   *)
(* and one that holds lk spins for ptable.lock only, so the CPUs cannot   *)
(* all wait for each other with interrupts off.                           *)
NoSpinDeadlock ==
  \A c \in Cpus, p \in Procs :
    proc[c] = p /\ pc[p] \in DOMAIN Spinning =>
      /\ owner["pt"] # c
      /\ owner["lk"] = c => Spinning[pc[p]] = "pt"

(* sleep() and wakeup() implement the monitor: the process is inside when *)
(* its CPU holds lk, and asleep from release(lk) on, because whoever      *)
(* wants to wake it needs the ptable.lock it still holds.                 *)
Abstract == INSTANCE Monitor WITH
  holder <- IF owner["lk"] = 0 THEN None ELSE proc[owner["lk"]],
  asleep <- {p \in Procs : state[p] = "SLEEPING" \/ pc[p] = "sleep_set"},
  waking <- {p \in Procs : pc[p] \in {"wake_spin", "wake"}}

(* "Atomically release lock and sleep on chan" (proc.c:425): every        *)
(* behaviour of the code is one of the monitor, hence no wakeup is missed.*)
AtomicSleep == Abstract!Spec

-----------------------------------------------------------------------------
(* The inductive invariant: where a process is says which locks its CPU   *)
(* holds, how deep its pushcli() calls are nested and whether interrupts  *)
(* come back with the outermost popcli().                                 *)

Unlocked == {"out", "relock"}
Yielding == {"yield_spin", "yield_set", "yield_back"}
Waking   == {"wake_spin", "wake", "wake_done"}
Killing  == {"kill_spin", "kill"}
Sleeping == {"sleep_spin", "sleep_rel", "sleep_set", "sleep_back"}
Places   == {"new", "in", "lk_spin"} \cup Unlocked \cup Yielding \cup Waking \cup Killing \cup Sleeping

TypeOK ==
  /\ owner \in [Locks -> 0..NCPU] /\ ncli \in [Cpus -> Nat]
  /\ intena \in [Cpus -> BOOLEAN] /\ intr \in [Cpus -> BOOLEAN]
  /\ proc \in [Cpus -> Procs \cup {None}] /\ spc \in [Cpus -> {"idle", "spin", "scan"}]
  /\ state \in [Procs -> {"RUNNABLE", "RUNNING", "SLEEPING"}] /\ asleepOn \in [Procs -> BOOLEAN]
  /\ pc \in [Procs -> Places] /\ ret \in [Procs -> {"out", "in", "relock"}] /\ saved \in [Procs -> BOOLEAN]

HoldsPt(p) ==
  pc[p] \in {"new", "yield_set", "yield_back", "sleep_rel", "sleep_set", "sleep_back", "wake", "wake_done", "kill"}

HoldsLk(p) == pc[p] \in {"in", "sleep_spin", "sleep_rel"} \/ (pc[p] \in Waking /\ ret[p] = "in")

Depth(p) == IF pc[p] \in Unlocked THEN 0 ELSE IF HoldsLk(p) /\ pc[p] # "in" THEN 2 ELSE 1

(* A CPU that executes scheduler(), and one that executes p. *)
InScheduler(c) ==
  /\ owner["pt"] = c <=> spc[c] = "scan"
  /\ owner["lk"] # c
  /\ ncli[c] = IF spc[c] = "idle" THEN 0 ELSE 1
  /\ intr[c] <=> spc[c] = "idle"

InProcess(c, p) ==
  /\ spc[c] = "scan" /\ state[p] = "RUNNING"
  /\ owner["pt"] = c <=> HoldsPt(p)
  /\ owner["lk"] = c <=> HoldsLk(p)
  /\ ncli[c] = Depth(p)
  /\ intr[c] <=> pc[p] \in Unlocked
  /\ intena[c] \/ pc[p] \in {"new"} \cup Unlocked \cup Yielding

CpuInv ==
  \A c \in Cpus :
    /\ proc[c] = None => InScheduler(c)
    /\ \A p \in Procs : proc[c] = p => InProcess(c, p) /\ \A d \in Cpus : proc[d] = p => d = c

ProcInv ==
  \A p \in Procs :
    /\ state[p] = "RUNNING" => \E c \in Cpus : proc[c] = p
    /\ state[p] = "RUNNABLE" => pc[p] \in {"new", "yield_back", "sleep_back"}
    /\ state[p] = "SLEEPING" => pc[p] = "sleep_back" /\ asleepOn[p]
    /\ state[p] # "RUNNING" /\ pc[p] = "sleep_back" => saved[p]
    /\ pc[p] \in Waking => ret[p] \in {"out", "in"}
    /\ pc[p] \in Killing => ret[p] = "out"
    /\ pc[p] \in Yielding => ret[p] \in Unlocked

IInv == TypeOK /\ CpuInv /\ ProcInv
=============================================================================
