----------------------------- MODULE SleepProofs -----------------------------
(***************************************************************************)
(* Proofs about sleep and wakeup, and about what waits with them.          *)
(*                                                                         *)
(* SleepWakeup: the kernel's locks, interrupts and sleep() keep their      *)
(* rules on any number of CPUs, and sleep() is atomic.                     *)
(*                                                                         *)
(* Mutex: user mutexes exclude each other for any number of processes and  *)
(* of mutexes, also while the first callers race to initialise the table.  *)
(*                                                                         *)
(* Devices: the ring of the console is the line discipline for every size  *)
(* of the buffer and however often r, w and e wrap, and sleep(n) lasts n   *)
(* ticks also when ticks wraps.  INPUT_BUF divides Wrap, so a character is *)
(* in the slot its unwrapped index leads to (SlotIs); at most INPUT_BUF    *)
(* characters are in the ring, so no two of them share a slot (Apart).     *)
(***************************************************************************)
EXTENDS SleepWakeup, Mutex, Devices, TLAPS

-----------------------------------------------------------------------------
(* SleepWakeup *)

(* CPUs are numbered from 1; 0 and None are none of them. *)
LEMMA Ranges ==
  /\ 0 \notin Cpus /\ Cpus \subseteq 0..NCPU /\ 0 \in 0..NCPU /\ None \notin Procs
BY MonitorAssumption DEF Cpus

(* Which lock is spun for where. *)
LEMMA SpinningFor ==
  /\ DOMAIN Spinning = {"lk_spin", "wake_spin", "kill_spin", "sleep_spin", "yield_spin"}
  /\ Spinning["lk_spin"] = "lk" /\ Spinning["wake_spin"] = "pt" /\ Spinning["kill_spin"] = "pt"
  /\ Spinning["sleep_spin"] = "pt" /\ Spinning["yield_spin"] = "pt"
BY Zenon DEF Spinning

(* All CPUs are in the scheduler, and no lock is held. *)
LEMMA InitIInv == Init => IInv
<1> SUFFICES ASSUME Init PROVE IInv
  BY Zenon
<1>1. TypeOK
  BY Ranges, Zenon DEF Init, TypeOK, Places, Unlocked
<1>2. CpuInv
  BY Ranges, Zenon DEF Init, CpuInv, InScheduler, Locks
<1>3. ProcInv
  BY Zenon DEF Init, ProcInv, Waking, Killing, Yielding
<1> QED BY <1>1, <1>2, <1>3, Zenon DEF IInv

(* What a step of p on c leaves alone: everything of the other CPUs and    *)
(* processes, and who runs where.                                          *)
Local(c, p) ==
  /\ proc' = proc /\ spc' = spc /\ state' = state /\ saved' = saved
  /\ \A q \in Procs \ {p} : pc'[q] = pc[q] /\ ret'[q] = ret[q] /\ asleepOn'[q] = asleepOn[q]
  /\ \A d \in Cpus \ {c} : ncli'[d] = ncli[d] /\ intena'[d] = intena[d] /\ intr'[d] = intr[d]
  /\ \A l \in Locks, d \in Cpus \ {c} : owner'[l] = d <=> owner[l] = d

ReturnsWell(p) ==
  /\ pc[p] \in Waking => ret[p] \in {"out", "in"}
  /\ pc[p] \in Killing => ret[p] = "out"
  /\ pc[p] \in Yielding => ret[p] \in Unlocked

(* For such a step only c and p have to be looked at. *)
LEMMA LocalStep ==
  ASSUME IInv, NEW c \in Cpus, NEW p \in Procs, proc[c] = p, Local(c, p), TypeOK',
         InProcess(c, p)', ReturnsWell(p)'
  PROVE  IInv'
<1>1. ASSUME NEW d \in Cpus, d # c, proc[d] = None PROVE InScheduler(d)'
  <2>1. InScheduler(d)
    BY <1>1, Zenon DEF IInv, CpuInv
  <2> QED BY <1>1, <2>1, Zenon DEF Local, InScheduler, Locks
<1>2. ASSUME NEW d \in Cpus, d # c, NEW q \in Procs, proc[d] = q PROVE InProcess(d, q)'
  <2>1. InProcess(d, q) /\ q # p
    BY <1>2, Zenon DEF IInv, CpuInv
  <2>2. HoldsPt(q)' = HoldsPt(q) /\ HoldsLk(q)' = HoldsLk(q) /\ Depth(q)' = Depth(q) /\ pc'[q] = pc[q]
    BY <2>1, Zenon DEF Local, HoldsPt, HoldsLk, Depth
  <2> QED BY <1>2, <2>1, <2>2 DEF Local, InProcess, Locks
<1>3. CpuInv'
  BY <1>1, <1>2, Ranges, Zenon DEF IInv, CpuInv, Local
<1>4. state[p] = "RUNNING"
  BY Zenon DEF IInv, CpuInv, InProcess
<1>5. ProcInv'
  BY <1>4 DEF IInv, ProcInv, Local, ReturnsWell
<1> QED BY <1>3, <1>5, Zenon DEF IInv

-----------------------------------------------------------------------------
(* forkret() releases ptable.lock, and iret unmasks interrupts. *)
LEMMA ForkretStep ==
  ASSUME IInv, NEW c \in Cpus, NEW p \in Procs, proc[c] = p, Forkret(c, p)
  PROVE  IInv' /\ Local(c, p)
<1>1. TypeOK /\ InProcess(c, p) /\ ReturnsWell(p)
  BY Zenon DEF IInv, CpuInv, ProcInv, ReturnsWell
<1>2. TypeOK'
  BY <1>1, Ranges DEF TypeOK, InProcess, ReturnsWell, Depth, Locks, cpuVars, Forkret, Goto, Places, Sleeping, Unlocked, Yielding, Waking, Killing
<1>3. Local(c, p)
  BY <1>1, Ranges, Zenon DEF TypeOK, Local, Locks, Forkret, Goto
<1>4. ReturnsWell(p)'
  BY <1>1, Zenon DEF TypeOK, InProcess, ReturnsWell, Forkret, Goto, Unlocked, Yielding, Waking, Killing
<1>5. InProcess(c, p)'
  BY <1>1, Ranges DEF TypeOK, InProcess, ReturnsWell, Locks, Forkret, Goto, HoldsPt, HoldsLk, Depth, Unlocked, Yielding, Waking, Killing
<1> QED BY <1>2, <1>3, <1>4, <1>5, LocalStep, Zenon

(* An interrupt finds p outside every critical section. *)
LEMMA InterruptStep ==
  ASSUME IInv, NEW c \in Cpus, NEW p \in Procs, proc[c] = p, Interrupt(c, p)
  PROVE  IInv' /\ Local(c, p)
<1>1. TypeOK /\ InProcess(c, p) /\ ReturnsWell(p)
  BY Zenon DEF IInv, CpuInv, ProcInv, ReturnsWell
<1>2. TypeOK'
  <2>1. pc[p] \in Unlocked /\ ncli[c] + 1 \in Nat /\ c \in Cpus
    BY <1>1 DEF TypeOK, InProcess, Interrupt
  <2>2. ret' \in [Procs -> {"out", "in", "relock"}] /\ pc' \in [Procs -> Places]
    BY <1>1, <2>1, Zenon DEF TypeOK, Interrupt, Goto, Places, Unlocked, Yielding
  <2> QED BY <1>1, <2>1, <2>2, Zenon DEF TypeOK, Interrupt
<1>3. Local(c, p)
  BY <1>1, Ranges, Zenon DEF TypeOK, Local, Locks, Interrupt, Goto
<1>4. ReturnsWell(p)'
  BY <1>1, Zenon DEF TypeOK, InProcess, ReturnsWell, Interrupt, Goto, Unlocked, Yielding, Waking, Killing
<1>5. InProcess(c, p)'
  BY <1>1, Ranges DEF TypeOK, InProcess, ReturnsWell, Locks, Interrupt, Goto, HoldsPt, HoldsLk, Depth, Unlocked, Yielding, Waking, Killing
<1> QED BY <1>2, <1>3, <1>4, <1>5, LocalStep, Zenon

(* The end of yield(): p goes on where the interrupt found it. *)
LEMMA YieldBackStep ==
  ASSUME IInv, NEW c \in Cpus, NEW p \in Procs, proc[c] = p, YieldBack(c, p)
  PROVE  IInv' /\ Local(c, p)
<1>1. TypeOK /\ InProcess(c, p) /\ ReturnsWell(p)
  BY Zenon DEF IInv, CpuInv, ProcInv, ReturnsWell
<1>2. TypeOK'
  BY <1>1, Ranges DEF TypeOK, InProcess, ReturnsWell, Depth, Locks, cpuVars, YieldBack, Goto, Places, Sleeping, Unlocked, Yielding, Waking, Killing
<1>3. Local(c, p)
  BY <1>1, Ranges, Zenon DEF TypeOK, Local, Locks, YieldBack, Goto
<1>4. ReturnsWell(p)'
  BY <1>1, Zenon DEF TypeOK, InProcess, ReturnsWell, YieldBack, Goto, Unlocked, Yielding, Waking, Killing
<1>5. InProcess(c, p)'
  BY <1>1, Ranges DEF TypeOK, InProcess, ReturnsWell, Locks, YieldBack, Goto, HoldsPt, HoldsLk, Depth, Unlocked, Yielding, Waking, Killing
<1> QED BY <1>2, <1>3, <1>4, <1>5, LocalStep, Zenon

(* acquire(lk) starts: interrupts were on and go off. *)
LEMMA EnterStep ==
  ASSUME IInv, NEW c \in Cpus, NEW p \in Procs, proc[c] = p, Enter(c, p)
  PROVE  IInv' /\ Local(c, p)
<1>1. TypeOK /\ InProcess(c, p) /\ ReturnsWell(p)
  BY Zenon DEF IInv, CpuInv, ProcInv, ReturnsWell
<1>2. TypeOK'
  BY <1>1, Ranges DEF TypeOK, InProcess, ReturnsWell, Depth, Locks, cpuVars, Enter, Spin, Pushcli, Goto, Places, Sleeping, Unlocked, Yielding, Waking, Killing
<1>3. Local(c, p)
  BY <1>1, Ranges, Zenon DEF TypeOK, Local, Locks, Enter, Spin, Pushcli, Goto
<1>4. ReturnsWell(p)'
  BY <1>1, Zenon DEF TypeOK, InProcess, ReturnsWell, Enter, Spin, Pushcli, Goto, Unlocked, Yielding, Waking, Killing
<1>5. InProcess(c, p)'
  BY <1>1, Ranges DEF TypeOK, InProcess, ReturnsWell, Locks, Enter, Spin, Pushcli, Goto, HoldsPt, HoldsLk, Depth, Unlocked, Yielding, Waking, Killing
<1> QED BY <1>2, <1>3, <1>4, <1>5, LocalStep, Zenon

(* release(lk) is the outermost: interrupts come back. *)
LEMMA LeaveStep ==
  ASSUME IInv, NEW c \in Cpus, NEW p \in Procs, proc[c] = p, Leave(c, p)
  PROVE  IInv' /\ Local(c, p)
<1>1. TypeOK /\ InProcess(c, p) /\ ReturnsWell(p)
  BY Zenon DEF IInv, CpuInv, ProcInv, ReturnsWell
<1>2. TypeOK'
  BY <1>1, Ranges DEF TypeOK, InProcess, ReturnsWell, Depth, Locks, cpuVars, Leave, Release, Popcli, Goto, Places, Sleeping, Unlocked, Yielding, Waking, Killing
<1>3. Local(c, p)
  BY <1>1, Ranges, Zenon DEF TypeOK, Local, Locks, Leave, Release, Popcli, Goto
<1>4. ReturnsWell(p)'
  BY <1>1, Zenon DEF TypeOK, InProcess, ReturnsWell, Leave, Release, Popcli, Goto, Unlocked, Yielding, Waking, Killing
<1>5. InProcess(c, p)'
  BY <1>1, Ranges DEF TypeOK, InProcess, ReturnsWell, Locks, Leave, Release, Popcli, Goto, HoldsPt, HoldsLk, Depth, Unlocked, Yielding, Waking, Killing
<1> QED BY <1>2, <1>3, <1>4, <1>5, LocalStep, Zenon

(* sleep() starts acquire(&ptable.lock) with lk held. *)
LEMMA SleepStartStep ==
  ASSUME IInv, NEW c \in Cpus, NEW p \in Procs, proc[c] = p, SleepStart(c, p)
  PROVE  IInv' /\ Local(c, p)
<1>1. TypeOK /\ InProcess(c, p) /\ ReturnsWell(p)
  BY Zenon DEF IInv, CpuInv, ProcInv, ReturnsWell
<1>2. TypeOK'
  BY <1>1, Ranges DEF TypeOK, InProcess, ReturnsWell, Depth, Locks, cpuVars, SleepStart, Spin, Pushcli, Goto, Places, Sleeping, Unlocked, Yielding, Waking, Killing
<1>3. Local(c, p)
  BY <1>1, Ranges, Zenon DEF TypeOK, Local, Locks, SleepStart, Spin, Pushcli, Goto
<1>4. ReturnsWell(p)'
  BY <1>1, Zenon DEF TypeOK, InProcess, ReturnsWell, SleepStart, Spin, Pushcli, Goto, Unlocked, Yielding, Waking, Killing
<1>5. InProcess(c, p)'
  BY <1>1, Ranges DEF TypeOK, InProcess, ReturnsWell, Locks, SleepStart, Spin, Pushcli, Goto, HoldsPt, HoldsLk, Depth, Unlocked, Yielding, Waking, Killing
<1> QED BY <1>2, <1>3, <1>4, <1>5, LocalStep, Zenon

(* sleep() releases lk and goes on with ptable.lock. *)
LEMMA SleepReleaseStep ==
  ASSUME IInv, NEW c \in Cpus, NEW p \in Procs, proc[c] = p, SleepRelease(c, p)
  PROVE  IInv' /\ Local(c, p)
<1>1. TypeOK /\ InProcess(c, p) /\ ReturnsWell(p)
  BY Zenon DEF IInv, CpuInv, ProcInv, ReturnsWell
<1>2. TypeOK'
  BY <1>1, Ranges DEF TypeOK, InProcess, ReturnsWell, Depth, Locks, cpuVars, SleepRelease, Release, Popcli, Goto, Places, Sleeping, Unlocked, Yielding, Waking, Killing
<1>3. Local(c, p)
  BY <1>1, Ranges, Zenon DEF TypeOK, Local, Locks, SleepRelease, Release, Popcli, Goto
<1>4. ReturnsWell(p)'
  BY <1>1, Zenon DEF TypeOK, InProcess, ReturnsWell, SleepRelease, Release, Popcli, Goto, Unlocked, Yielding, Waking, Killing
<1>5. InProcess(c, p)'
  BY <1>1, Ranges DEF TypeOK, InProcess, ReturnsWell, Locks, SleepRelease, Release, Popcli, Goto, HoldsPt, HoldsLk, Depth, Unlocked, Yielding, Waking, Killing
<1> QED BY <1>2, <1>3, <1>4, <1>5, LocalStep, Zenon

(* sleep() is switched to again and releases ptable.lock. *)
LEMMA SleepBackStep ==
  ASSUME IInv, NEW c \in Cpus, NEW p \in Procs, proc[c] = p, SleepBack(c, p)
  PROVE  IInv' /\ Local(c, p)
<1>1. TypeOK /\ InProcess(c, p) /\ ReturnsWell(p)
  BY Zenon DEF IInv, CpuInv, ProcInv, ReturnsWell
<1>2. TypeOK'
  BY <1>1, Ranges DEF TypeOK, InProcess, ReturnsWell, Depth, Locks, cpuVars, SleepBack, Release, Popcli, Goto, Places, Sleeping, Unlocked, Yielding, Waking, Killing
<1>3. Local(c, p)
  BY <1>1, Ranges, Zenon DEF TypeOK, Local, Locks, SleepBack, Release, Popcli, Goto
<1>4. ReturnsWell(p)'
  BY <1>1, Zenon DEF TypeOK, InProcess, ReturnsWell, SleepBack, Release, Popcli, Goto, Unlocked, Yielding, Waking, Killing
<1>5. InProcess(c, p)'
  BY <1>1, Ranges DEF TypeOK, InProcess, ReturnsWell, Locks, SleepBack, Release, Popcli, Goto, HoldsPt, HoldsLk, Depth, Unlocked, Yielding, Waking, Killing
<1> QED BY <1>2, <1>3, <1>4, <1>5, LocalStep, Zenon

(* wakeup() starts acquire(&ptable.lock), with or without lk. *)
LEMMA WakeStartStep ==
  ASSUME IInv, NEW c \in Cpus, NEW p \in Procs, proc[c] = p, WakeStart(c, p)
  PROVE  IInv' /\ Local(c, p)
<1>1. TypeOK /\ InProcess(c, p) /\ ReturnsWell(p)
  BY Zenon DEF IInv, CpuInv, ProcInv, ReturnsWell
<1>2. TypeOK'
  BY <1>1, Ranges DEF TypeOK, InProcess, ReturnsWell, Depth, Locks, cpuVars, WakeStart, Spin, Pushcli, Goto, Places, Sleeping, Unlocked, Yielding, Waking, Killing
<1>3. Local(c, p)
  BY <1>1, Ranges, Zenon DEF TypeOK, Local, Locks, WakeStart, Spin, Pushcli, Goto
<1>4. ReturnsWell(p)'
  BY <1>1, Zenon DEF TypeOK, InProcess, ReturnsWell, WakeStart, Spin, Pushcli, Goto, Unlocked, Yielding, Waking, Killing
<1>5. InProcess(c, p)'
  BY <1>1, Ranges DEF TypeOK, InProcess, ReturnsWell, Locks, WakeStart, Spin, Pushcli, Goto, HoldsPt, HoldsLk, Depth, Unlocked, Yielding, Waking, Killing
<1> QED BY <1>2, <1>3, <1>4, <1>5, LocalStep, Zenon

(* kill() starts acquire(&ptable.lock). *)
LEMMA KillStartStep ==
  ASSUME IInv, NEW c \in Cpus, NEW p \in Procs, proc[c] = p, KillStart(c, p)
  PROVE  IInv' /\ Local(c, p)
<1>1. TypeOK /\ InProcess(c, p) /\ ReturnsWell(p)
  BY Zenon DEF IInv, CpuInv, ProcInv, ReturnsWell
<1>2. TypeOK'
  BY <1>1, Ranges DEF TypeOK, InProcess, ReturnsWell, Depth, Locks, cpuVars, KillStart, Spin, Pushcli, Goto, Places, Sleeping, Unlocked, Yielding, Waking, Killing
<1>3. Local(c, p)
  BY <1>1, Ranges, Zenon DEF TypeOK, Local, Locks, KillStart, Spin, Pushcli, Goto
<1>4. ReturnsWell(p)'
  BY <1>1, Zenon DEF TypeOK, InProcess, ReturnsWell, KillStart, Spin, Pushcli, Goto, Unlocked, Yielding, Waking, Killing
<1>5. InProcess(c, p)'
  BY <1>1, Ranges DEF TypeOK, InProcess, ReturnsWell, Locks, KillStart, Spin, Pushcli, Goto, HoldsPt, HoldsLk, Depth, Unlocked, Yielding, Waking, Killing
<1> QED BY <1>2, <1>3, <1>4, <1>5, LocalStep, Zenon

(* wakeup() and kill() release ptable.lock and return. *)
LEMMA WakeDoneStep ==
  ASSUME IInv, NEW c \in Cpus, NEW p \in Procs, proc[c] = p, WakeDone(c, p)
  PROVE  IInv' /\ Local(c, p)
<1>1. TypeOK /\ InProcess(c, p) /\ ReturnsWell(p)
  BY Zenon DEF IInv, CpuInv, ProcInv, ReturnsWell
<1>2. TypeOK'
  BY <1>1, Ranges DEF TypeOK, InProcess, ReturnsWell, Depth, Locks, cpuVars, WakeDone, Release, Popcli, Goto, Places, Sleeping, Unlocked, Yielding, Waking, Killing
<1>3. Local(c, p)
  BY <1>1, Ranges, Zenon DEF TypeOK, Local, Locks, WakeDone, Release, Popcli, Goto
<1>4. ReturnsWell(p)'
  BY <1>1, Zenon DEF TypeOK, InProcess, ReturnsWell, WakeDone, Release, Popcli, Goto, Unlocked, Yielding, Waking, Killing
<1>5. InProcess(c, p)'
  BY <1>1, Ranges DEF TypeOK, InProcess, ReturnsWell, Locks, WakeDone, Release, Popcli, Goto, HoldsPt, HoldsLk, Depth, Unlocked, Yielding, Waking, Killing
<1> QED BY <1>2, <1>3, <1>4, <1>5, LocalStep, Zenon

(* The xchg that finds the lock free: p goes on as its owner. *)
LEMMA TakeStep ==
  ASSUME IInv, NEW c \in Cpus, NEW p \in Procs, proc[c] = p, NEW from, NEW to, Take(c, p, from, to),
         \/ from = "lk_spin" /\ to = "in"
         \/ from = "wake_spin" /\ to = "wake"
         \/ from = "kill_spin" /\ to = "kill"
         \/ from = "sleep_spin" /\ to = "sleep_rel"
         \/ from = "yield_spin" /\ to = "yield_set"
  PROVE  IInv' /\ Local(c, p)
<1>1. TypeOK /\ InProcess(c, p) /\ ReturnsWell(p)
  BY Zenon DEF IInv, CpuInv, ProcInv, ReturnsWell
<1>2. TypeOK'
  BY <1>1, Ranges, SpinningFor, Zenon DEF TypeOK, Locks, cpuVars, Take, Goto, Places, Sleeping, Unlocked, Yielding, Waking, Killing
<1>3. Local(c, p)
  BY <1>1, Ranges, SpinningFor DEF TypeOK, Local, Locks, cpuVars, Take, Goto
<1>4. ReturnsWell(p)'
  BY <1>1, Zenon DEF TypeOK, ReturnsWell, Take, Goto, Unlocked, Yielding, Waking, Killing
<1>5. InProcess(c, p)'
  BY <1>1, Ranges, SpinningFor DEF TypeOK, InProcess, ReturnsWell, Locks, cpuVars, Take, Goto, HoldsPt, HoldsLk, Depth, Unlocked, Yielding, Waking, Killing
<1> QED BY <1>2, <1>3, <1>4, <1>5, LocalStep, Zenon

-----------------------------------------------------------------------------
(* The other steps change who runs, or the state of other processes.  On a *)
(* CPU d that such a step leaves alone the invariant is kept.              *)
Elsewhere(d) ==
  /\ proc'[d] = proc[d] /\ spc'[d] = spc[d]
  /\ ncli'[d] = ncli[d] /\ intena'[d] = intena[d] /\ intr'[d] = intr[d]
  /\ \A l \in Locks : owner'[l] = d <=> owner[l] = d
  /\ \A q \in Procs : proc[d] = q => pc'[q] = pc[q] /\ ret'[q] = ret[q] /\ state'[q] = state[q]

(* Such a CPU keeps its part of the invariant. *)
LEMMA ElsewhereKeeps ==
  ASSUME IInv, NEW d \in Cpus, Elsewhere(d)
  PROVE  /\ proc'[d] = None => InScheduler(d)'
         /\ \A q \in Procs : proc'[d] = q => InProcess(d, q)'
<1>1. ASSUME proc[d] = None PROVE InScheduler(d)'
  <2>1. InScheduler(d)
    BY <1>1, Zenon DEF IInv, CpuInv
  <2> QED BY <2>1, Zenon DEF Elsewhere, InScheduler, Locks
<1>2. ASSUME NEW q \in Procs, proc[d] = q PROVE InProcess(d, q)'
  <2>1. InProcess(d, q)
    BY <1>2, Zenon DEF IInv, CpuInv
  <2>2. HoldsPt(q)' = HoldsPt(q) /\ HoldsLk(q)' = HoldsLk(q) /\ Depth(q)' = Depth(q) /\ pc'[q] = pc[q]
    BY <1>2, Zenon DEF Elsewhere, HoldsPt, HoldsLk, Depth
  <2> QED BY <1>2, <2>1, <2>2, Zenon DEF Elsewhere, InProcess, Locks
<1> QED BY <1>1, <1>2, Zenon DEF Elsewhere

(* scheduler() starts acquire(&ptable.lock). *)
LEMMA SchedSpinStep ==
  ASSUME IInv, NEW c \in Cpus, SchedSpin(c)
  PROVE  IInv'
<1>1. TypeOK /\ InScheduler(c)
  BY Zenon DEF IInv, CpuInv, SchedSpin
<1>2. TypeOK'
  BY <1>1 DEF TypeOK, SchedSpin, Pushcli, procVars
<1>3. \A d \in Cpus \ {c} : Elsewhere(d)
  BY <1>1, Zenon DEF TypeOK, Elsewhere, SchedSpin, Pushcli, procVars
<1>4. proc'[c] = None /\ InScheduler(c)'
  BY <1>1 DEF TypeOK, InScheduler, SchedSpin, Pushcli
<1>5. CpuInv'
  BY <1>3, <1>4, ElsewhereKeeps, Ranges, Zenon DEF IInv, CpuInv, SchedSpin
<1>6. ProcInv'
  BY Zenon DEF IInv, ProcInv, SchedSpin, procVars
<1> QED BY <1>2, <1>5, <1>6, Zenon DEF IInv

(* scheduler() has ptable.lock. *)
LEMMA SchedTakeStep ==
  ASSUME IInv, NEW c \in Cpus, SchedTake(c)
  PROVE  IInv'
<1>1. TypeOK /\ InScheduler(c)
  BY Zenon DEF IInv, CpuInv, SchedTake
<1>2. TypeOK'
  BY <1>1, Ranges, Zenon DEF TypeOK, SchedTake, cpuVars, procVars, Locks
<1>3. \A d \in Cpus \ {c} : Elsewhere(d)
  BY <1>1, Ranges, Zenon DEF TypeOK, Elsewhere, SchedTake, cpuVars, procVars, Locks
<1>4. proc'[c] = None /\ InScheduler(c)'
  BY <1>1, Zenon DEF TypeOK, InScheduler, SchedTake, cpuVars, Locks
<1>5. CpuInv'
  BY <1>3, <1>4, ElsewhereKeeps, Ranges, Zenon DEF IInv, CpuInv, SchedTake
<1>6. ProcInv'
  BY Zenon DEF IInv, ProcInv, SchedTake, procVars
<1> QED BY <1>2, <1>5, <1>6, Zenon DEF IInv

(* scheduler() found nothing more to run. *)
LEMMA SchedIdleStep ==
  ASSUME IInv, NEW c \in Cpus, SchedIdle(c)
  PROVE  IInv'
<1>1. TypeOK /\ InScheduler(c)
  BY Zenon DEF IInv, CpuInv, SchedIdle
<1>2. TypeOK'
  BY <1>1, Ranges DEF TypeOK, InScheduler, SchedIdle, procVars, Locks
<1>3. \A d \in Cpus \ {c} : Elsewhere(d)
  BY <1>1, Ranges, Zenon DEF TypeOK, Elsewhere, SchedIdle, procVars, Locks
<1>4. proc'[c] = None /\ InScheduler(c)'
  BY <1>1, Ranges DEF TypeOK, InScheduler, SchedIdle, Locks
<1>5. CpuInv'
  BY <1>3, <1>4, ElsewhereKeeps, Ranges, Zenon DEF IInv, CpuInv, SchedIdle
<1>6. ProcInv'
  BY Zenon DEF IInv, ProcInv, SchedIdle, procVars
<1> QED BY <1>2, <1>5, <1>6, Zenon DEF IInv

(* swtch() to a RUNNABLE process, which no CPU runs.  A process that comes *)
(* back into sleep() finds its interrupt flag on again.                    *)
LEMMA SchedRunStep ==
  ASSUME IInv, NEW c \in Cpus, NEW p \in Procs, SchedRun(c, p)
  PROVE  IInv'
<1>1. TypeOK /\ InScheduler(c)
  BY Zenon DEF IInv, CpuInv, SchedRun
<1>2. TypeOK'
  BY <1>1, Zenon DEF TypeOK, SchedRun
<1>3. \A d \in Cpus : proc[d] # p
  BY Zenon DEF IInv, CpuInv, InProcess, SchedRun
<1>4. \A d \in Cpus \ {c} : Elsewhere(d)
  BY <1>1, <1>3, Zenon DEF TypeOK, Elsewhere, SchedRun
<1>5. proc'[c] = p /\ \A d \in Cpus \ {c} : proc'[d] = proc[d]
  BY <1>1, Zenon DEF TypeOK, SchedRun
<1>6. pc[p] \in {"new", "yield_back", "sleep_back"} /\ (pc[p] = "sleep_back" => saved[p])
  BY Zenon DEF IInv, ProcInv, SchedRun
<1>7. InProcess(c, p)'
  BY <1>1, <1>6, Zenon DEF TypeOK, InScheduler, InProcess, SchedRun, HoldsPt, HoldsLk, Depth, Unlocked, Yielding, Waking
<1>8. CpuInv'
  BY <1>3, <1>4, <1>5, <1>7, ElsewhereKeeps, Ranges, Zenon DEF IInv, CpuInv
<1>9. ProcInv'
  <2>1. \A q \in Procs \ {p} : state'[q] = state[q]
    BY <1>1, Zenon DEF TypeOK, SchedRun
  <2>2. state'[p] = "RUNNING"
    BY <1>1, Zenon DEF TypeOK, SchedRun
  <2>3. ASSUME NEW q \in Procs, state'[q] = "RUNNING" PROVE \E d \in Cpus : proc'[d] = q
    <3>1. CASE q = p
      BY <3>1, <1>5, Zenon
    <3>2. CASE q # p
      <4>1. PICK d \in Cpus : proc[d] = q
        BY <3>2, <2>1, <2>3, Zenon DEF IInv, ProcInv
      <4>2. d # c
        BY <4>1, Ranges, Zenon DEF SchedRun
      <4> QED BY <4>1, <4>2, <1>5, Zenon
    <3> QED BY <3>1, <3>2, Zenon
  <2> QED BY <2>1, <2>2, <2>3 DEF IInv, ProcInv, SchedRun
<1> QED BY <1>2, <1>8, <1>9, Zenon DEF IInv

(* sched() out of yield() and sleep(): c is back in scheduler(), and only  *)
(* a process that held no other lock than ptable.lock gets here.  sleep()  *)
(* was entered with interrupts on, which is what sched() remembers.        *)
LEMMA SchedStep ==
  ASSUME IInv, NEW c \in Cpus, NEW p \in Procs, proc[c] = p, Sched(c, p), NEW st, NEW place,
         state' = [state EXCEPT ![p] = st], Goto(p, place),
         asleepOn' \in [Procs -> BOOLEAN], \A q \in Procs \ {p} : asleepOn'[q] = asleepOn[q],
         \/ pc[p] = "yield_set" /\ st = "RUNNABLE" /\ place = "yield_back"
         \/ pc[p] = "sleep_set" /\ st = "SLEEPING" /\ place = "sleep_back" /\ asleepOn'[p]
  PROVE  IInv'
<1>1. TypeOK /\ InProcess(c, p) /\ ReturnsWell(p)
  BY Zenon DEF IInv, CpuInv, ProcInv, ReturnsWell
<1>2. TypeOK'
  BY <1>1, Zenon DEF TypeOK, Sched, cpuVars, Goto, Places, Yielding, Sleeping
<1>3. \A d \in Cpus \ {c} : proc[d] # p
  BY Zenon DEF IInv, CpuInv
<1>4. \A d \in Cpus \ {c} : Elsewhere(d)
  BY <1>1, <1>3, Zenon DEF TypeOK, Elsewhere, Sched, cpuVars, Goto
<1>5. proc'[c] = None /\ \A d \in Cpus \ {c} : proc'[d] = proc[d]
  BY <1>1, Zenon DEF TypeOK, Sched
<1>6. InScheduler(c)'
  BY <1>1, Zenon DEF TypeOK, InProcess, InScheduler, Sched, SchedChecks, cpuVars, HoldsLk, Waking
<1>7. CpuInv'
  BY <1>3, <1>4, <1>5, <1>6, ElsewhereKeeps, Ranges DEF IInv, CpuInv
<1>8. ProcInv'
  <2>1. \A q \in Procs \ {p} : state'[q] = state[q] /\ pc'[q] = pc[q] /\ saved'[q] = saved[q]
    BY <1>1, Zenon DEF TypeOK, Sched, Goto
  <2>2. state'[p] = st /\ pc'[p] = place /\ saved'[p] = intena[c] /\ ret' = ret
    BY <1>1, Zenon DEF TypeOK, Sched, Goto
  <2>3. ASSUME NEW q \in Procs, state'[q] = "RUNNING" PROVE \E d \in Cpus : proc'[d] = q
    <3>1. q # p
      BY <2>2, <2>3, Zenon
    <3>2. PICK d \in Cpus : proc[d] = q
      BY <2>1, <2>3, <3>1 DEF IInv, ProcInv
    <3>3. d # c
      BY <3>1, <3>2, Zenon
    <3> QED BY <3>2, <3>3, <1>5, Zenon
  <2>4. place = "sleep_back" => intena[c]
    BY <1>1, Zenon DEF InProcess, Unlocked, Yielding
  <2>5. place = "yield_back" => ret[p] \in Unlocked
    BY <1>1, Zenon DEF ReturnsWell, Yielding
  <2> QED BY <2>1, <2>2, <2>3, <2>4, <2>5 DEF IInv, ProcInv, Waking, Killing, Yielding
<1> QED BY <1>2, <1>7, <1>8, Zenon DEF IInv

(* yield() enters the scheduler with a RUNNABLE process. *)
LEMMA YieldStep ==
  ASSUME IInv, NEW c \in Cpus, NEW p \in Procs, proc[c] = p, Yield(c, p)
  PROVE  IInv'
<1>1. asleepOn' \in [Procs -> BOOLEAN] /\ \A q \in Procs \ {p} : asleepOn'[q] = asleepOn[q]
  BY Zenon DEF IInv, TypeOK, Yield
<1> QED BY <1>1, SchedStep, Zenon DEF Yield

(* sleep() enters the scheduler with a SLEEPING process. *)
LEMMA SleepSetStep ==
  ASSUME IInv, NEW c \in Cpus, NEW p \in Procs, proc[c] = p, SleepSet(c, p)
  PROVE  IInv'
<1>1. /\ asleepOn' \in [Procs -> BOOLEAN] /\ asleepOn'[p]
      /\ \A q \in Procs \ {p} : asleepOn'[q] = asleepOn[q]
  BY Zenon DEF IInv, TypeOK, SleepSet
<1> QED BY <1>1, SchedStep, Zenon DEF SleepSet

(* wakeup1() and kill() make sleepers RUNNABLE, and nobody else. *)
LEMMA RunnableStep ==
  ASSUME IInv, NEW c \in Cpus, NEW p \in Procs, proc[c] = p, pc[p] \in {"wake", "kill"},
         Goto(p, "wake_done"), UNCHANGED <<owner, cpuVars, proc, spc, asleepOn, ret, saved>>,
         state' \in [Procs -> {"RUNNABLE", "RUNNING", "SLEEPING"}],
         \A q \in Procs : state'[q] = state[q] \/ (state[q] = "SLEEPING" /\ state'[q] = "RUNNABLE")
  PROVE  IInv'
<1>1. TypeOK /\ InProcess(c, p) /\ ReturnsWell(p)
  BY Zenon DEF IInv, CpuInv, ProcInv, ReturnsWell
<1>2. TypeOK'
  BY <1>1, Zenon DEF TypeOK, cpuVars, Goto, Places, Waking
<1>3. \A q \in Procs \ {p} : pc'[q] = pc[q]
  BY <1>1, Zenon DEF TypeOK, Goto
<1>4. \A q \in Procs : state[q] = "RUNNING" <=> state'[q] = "RUNNING"
  BY Zenon
<1>5. ASSUME NEW d \in Cpus, d # c PROVE Elsewhere(d)
  <2>1. ASSUME NEW q \in Procs, proc[d] = q PROVE q # p /\ state'[q] = state[q]
    <3>1. q # p
      BY <1>5, <2>1, Zenon DEF IInv, CpuInv
    <3>2. state[q] = "RUNNING"
      BY <2>1, Zenon DEF IInv, CpuInv, InProcess
    <3> QED BY <3>1, <3>2, Zenon
  <2> QED BY <1>3, <2>1, Zenon DEF Elsewhere, cpuVars
<1>6. InProcess(c, p)'
  BY <1>1, <1>4, Zenon DEF TypeOK, InProcess, ReturnsWell, cpuVars, Goto, HoldsPt, HoldsLk, Depth, Unlocked, Yielding, Waking, Killing
<1>7. CpuInv'
  BY <1>5, <1>6, ElsewhereKeeps, Ranges DEF IInv, CpuInv
<1>8. pc'[p] = "wake_done" /\ state'[p] = "RUNNING" /\ ret[p] \in {"out", "in"}
  BY <1>1, <1>4, Zenon DEF TypeOK, InProcess, ReturnsWell, Goto, Waking, Killing
<1>9. ProcInv'
  BY <1>3, <1>4, <1>8 DEF IInv, ProcInv, Waking, Killing, Yielding
<1> QED BY <1>2, <1>7, <1>9, Zenon DEF IInv

(* wakeup1() on behalf of wakeup(). *)
LEMMA Wakeup1Step ==
  ASSUME IInv, NEW c \in Cpus, NEW p \in Procs, proc[c] = p, Wakeup1(c, p)
  PROVE  IInv'
<1>1. /\ state' \in [Procs -> {"RUNNABLE", "RUNNING", "SLEEPING"}]
      /\ \A q \in Procs : state'[q] = state[q] \/ (state[q] = "SLEEPING" /\ state'[q] = "RUNNABLE")
  BY Zenon DEF IInv, TypeOK, Wakeup1
<1> QED BY <1>1, RunnableStep, Zenon DEF Wakeup1

(* kill() under ptable.lock. *)
LEMMA KillStep ==
  ASSUME IInv, NEW c \in Cpus, NEW p \in Procs, proc[c] = p, NEW q \in Procs, Kill(c, p, q)
  PROVE  IInv'
<1>1. /\ state' \in [Procs -> {"RUNNABLE", "RUNNING", "SLEEPING"}]
      /\ \A o \in Procs : state'[o] = state[o] \/ (state[o] = "SLEEPING" /\ state'[o] = "RUNNABLE")
  BY Zenon DEF IInv, TypeOK, Kill
<1> QED BY <1>1, RunnableStep, Zenon DEF Kill

(* Every step of the code keeps the invariant. *)
LEMMA NextIInv == IInv /\ [Next]_vars => IInv'
<1> SUFFICES ASSUME IInv, [Next]_vars PROVE IInv'
  BY Zenon
<1>1. CASE UNCHANGED vars
  BY <1>1 DEF vars, IInv, TypeOK, CpuInv, InScheduler, InProcess, ProcInv, HoldsPt, HoldsLk, Depth
<1>2. ASSUME NEW c \in Cpus, SchedSpin(c) \/ SchedTake(c) \/ SchedIdle(c) PROVE IInv'
  BY <1>2, SchedSpinStep, SchedTakeStep, SchedIdleStep, Zenon
<1>3. ASSUME NEW c \in Cpus, NEW p \in Procs, SchedRun(c, p) PROVE IInv'
  BY <1>3, SchedRunStep, Zenon
<1>4. ASSUME NEW c \in Cpus, NEW p \in Procs, proc[c] = p, Step(c, p) PROVE IInv'
  BY <1>4, ForkretStep, InterruptStep, YieldStep, YieldBackStep, EnterStep, LeaveStep, SleepStartStep,
     SleepReleaseStep, SleepSetStep, SleepBackStep, WakeStartStep, Wakeup1Step, KillStartStep, WakeDoneStep,
     KillStep, TakeStep, Zenon DEF Step
<1> QED BY <1>1, <1>2, <1>3, <1>4, Zenon DEF Next

-----------------------------------------------------------------------------
(* The invariant holds in every behaviour: the place a process has reached *)
(* tells which locks its CPU holds, its depth of pushcli() and whether     *)
(* interrupts are on.                                                      *)
THEOREM Inductive == Spec => []IInv
BY InitIInv, NextIInv, PTL DEF Spec

(* acquire(), release(), popcli() and sched() never panic.                 *)
THEOREM NeverPanics == Spec => []NoPanic
<1>1. IInv => NoPanic
  <2> SUFFICES ASSUME IInv, NEW c \in Cpus, NEW p \in Procs, proc[c] = p
               PROVE  /\ pc[p] \in DOMAIN Spinning => owner[Spinning[pc[p]]] # c
                      /\ pc[p] \in {"in", "sleep_rel"} => owner["lk"] = c /\ ~intr[c]
                      /\ pc[p] \in {"wake_done", "sleep_back", "yield_back", "new"} => owner["pt"] = c /\ ~intr[c]
                      /\ pc[p] \in {"sleep_set", "yield_set"} => SchedChecks(c)
    BY Zenon DEF NoPanic
  <2>1. InProcess(c, p) /\ ReturnsWell(p)
    BY Zenon DEF IInv, CpuInv, ProcInv, ReturnsWell
  <2> QED BY <2>1, SpinningFor DEF InProcess, ReturnsWell, HoldsPt, HoldsLk, Depth, SchedChecks, Unlocked, Waking
<1> QED BY <1>1, Inductive, PTL

(* A process outside every critical section can be interrupted.            *)
THEOREM Interruptible == Spec => []InterruptsComeBack
<1>1. IInv => InterruptsComeBack
  BY Zenon DEF IInv, CpuInv, InProcess, Depth, Unlocked, InterruptsComeBack
<1> QED BY <1>1, Inductive, PTL

(* lk comes before ptable.lock on every CPU.                               *)
THEOREM LocksOrdered == Spec => []NoSpinDeadlock
<1>1. IInv => NoSpinDeadlock
  <2> SUFFICES ASSUME IInv, NEW c \in Cpus, NEW p \in Procs, proc[c] = p, pc[p] \in DOMAIN Spinning
               PROVE  owner["pt"] # c /\ (owner["lk"] = c => Spinning[pc[p]] = "pt")
    BY Zenon DEF NoSpinDeadlock
  <2>1. InProcess(c, p)
    BY Zenon DEF IInv, CpuInv
  <2> QED BY <2>1, SpinningFor, Zenon DEF InProcess, HoldsPt, HoldsLk, Waking
<1> QED BY <1>1, Inductive, PTL

-----------------------------------------------------------------------------
(* The refinement.  What the monitor sees of a state. *)
Holder == IF owner["lk"] = 0 THEN None ELSE proc[owner["lk"]]
Asleep == {p \in Procs : state[p] = "SLEEPING" \/ pc[p] = "sleep_set"}
Calling == {p \in Procs : pc[p] \in {"wake_spin", "wake"}}

(* A step of p that keeps lk as it is and does not enter or leave the      *)
(* places the monitor looks at is a stuttering step of it.                 *)
LEMMA QuietStep ==
  ASSUME IInv, NEW c \in Cpus, NEW p \in Procs, proc[c] = p, Local(c, p), owner'["lk"] = owner["lk"],
         pc[p] # "sleep_set", pc'[p] # "sleep_set",
         pc[p] \in {"wake_spin", "wake"} <=> pc'[p] \in {"wake_spin", "wake"}
  PROVE  UNCHANGED <<Holder, Asleep, Calling>>
<1>1. Holder' = Holder
  BY Zenon DEF Local, Holder
<1>2. \A q \in Procs : pc[q] = "sleep_set" <=> pc'[q] = "sleep_set"
  BY Zenon DEF Local
<1>3. \A q \in Procs : pc[q] \in {"wake_spin", "wake"} <=> pc'[q] \in {"wake_spin", "wake"}
  BY Zenon DEF Local
<1> QED BY <1>1, <1>2, <1>3, Zenon DEF Local, Asleep, Calling

(* The steps that leave lk, the sleepers and the calls of wakeup() alone. *)
LEMMA StutterSteps ==
  ASSUME IInv, NEW c \in Cpus, NEW p \in Procs, proc[c] = p,
         \/ Forkret(c, p) \/ Interrupt(c, p) \/ YieldBack(c, p) \/ Enter(c, p)
         \/ SleepStart(c, p) \/ SleepBack(c, p) \/ KillStart(c, p) \/ WakeDone(c, p)
  PROVE  UNCHANGED <<Holder, Asleep, Calling>>
<1>1. TypeOK /\ InProcess(c, p) /\ ReturnsWell(p)
  BY Zenon DEF IInv, CpuInv, ProcInv, ReturnsWell
<1>2. CASE Forkret(c, p)
  <2>1. Local(c, p)
    BY <1>2, ForkretStep, Zenon
  <2>2. /\ owner'["lk"] = owner["lk"]
        /\ pc[p] \notin {"sleep_set", "wake_spin", "wake"} /\ pc'[p] \notin {"sleep_set", "wake_spin", "wake"}
    BY <1>1, <1>2, Zenon DEF TypeOK, InProcess, ReturnsWell, Locks, Forkret, Goto, Unlocked, Waking, Yielding
  <2> QED BY <2>1, <2>2, QuietStep, Zenon
<1>3. CASE Interrupt(c, p)
  <2>1. Local(c, p)
    BY <1>3, InterruptStep, Zenon
  <2>2. /\ owner'["lk"] = owner["lk"]
        /\ pc[p] \notin {"sleep_set", "wake_spin", "wake"} /\ pc'[p] \notin {"sleep_set", "wake_spin", "wake"}
    BY <1>1, <1>3, Zenon DEF TypeOK, InProcess, ReturnsWell, Locks, Interrupt, Goto, Unlocked, Waking, Yielding
  <2> QED BY <2>1, <2>2, QuietStep, Zenon
<1>4. CASE YieldBack(c, p)
  <2>1. Local(c, p)
    BY <1>4, YieldBackStep, Zenon
  <2>2. /\ owner'["lk"] = owner["lk"]
        /\ pc[p] \notin {"sleep_set", "wake_spin", "wake"} /\ pc'[p] \notin {"sleep_set", "wake_spin", "wake"}
    BY <1>1, <1>4, Zenon DEF TypeOK, InProcess, ReturnsWell, Locks, YieldBack, Goto, Unlocked, Waking, Yielding
  <2> QED BY <2>1, <2>2, QuietStep, Zenon
<1>5. CASE Enter(c, p)
  <2>1. Local(c, p)
    BY <1>5, EnterStep, Zenon
  <2>2. /\ owner'["lk"] = owner["lk"]
        /\ pc[p] \notin {"sleep_set", "wake_spin", "wake"} /\ pc'[p] \notin {"sleep_set", "wake_spin", "wake"}
    BY <1>1, <1>5, Zenon DEF TypeOK, InProcess, ReturnsWell, Locks, Enter, Spin, Goto, Unlocked, Waking, Yielding
  <2> QED BY <2>1, <2>2, QuietStep, Zenon
<1>6. CASE SleepStart(c, p)
  <2>1. Local(c, p)
    BY <1>6, SleepStartStep, Zenon
  <2>2. /\ owner'["lk"] = owner["lk"]
        /\ pc[p] \notin {"sleep_set", "wake_spin", "wake"} /\ pc'[p] \notin {"sleep_set", "wake_spin", "wake"}
    BY <1>1, <1>6, Zenon DEF TypeOK, InProcess, ReturnsWell, Locks, SleepStart, Spin, Goto, Unlocked, Waking, Yielding
  <2> QED BY <2>1, <2>2, QuietStep, Zenon
<1>7. CASE SleepBack(c, p)
  <2>1. Local(c, p)
    BY <1>7, SleepBackStep, Zenon
  <2>2. /\ owner'["lk"] = owner["lk"]
        /\ pc[p] \notin {"sleep_set", "wake_spin", "wake"} /\ pc'[p] \notin {"sleep_set", "wake_spin", "wake"}
    BY <1>1, <1>7, Zenon DEF TypeOK, InProcess, ReturnsWell, Locks, SleepBack, Release, Goto, Unlocked, Waking, Yielding
  <2> QED BY <2>1, <2>2, QuietStep, Zenon
<1>8. CASE KillStart(c, p)
  <2>1. Local(c, p)
    BY <1>8, KillStartStep, Zenon
  <2>2. /\ owner'["lk"] = owner["lk"]
        /\ pc[p] \notin {"sleep_set", "wake_spin", "wake"} /\ pc'[p] \notin {"sleep_set", "wake_spin", "wake"}
    BY <1>1, <1>8, Zenon DEF TypeOK, InProcess, ReturnsWell, Locks, KillStart, Spin, Goto, Unlocked, Waking, Yielding
  <2> QED BY <2>1, <2>2, QuietStep, Zenon
<1>9. CASE WakeDone(c, p)
  <2>1. Local(c, p)
    BY <1>9, WakeDoneStep, Zenon
  <2>2. /\ owner'["lk"] = owner["lk"]
        /\ pc[p] \notin {"sleep_set", "wake_spin", "wake"} /\ pc'[p] \notin {"sleep_set", "wake_spin", "wake"}
    BY <1>1, <1>9, Zenon DEF TypeOK, InProcess, ReturnsWell, Locks, WakeDone, Release, Goto, Unlocked, Waking, Yielding
  <2> QED BY <2>1, <2>2, QuietStep, Zenon
<1> QED BY <1>2, <1>3, <1>4, <1>5, <1>6, <1>7, <1>8, <1>9, Zenon

(* Taking ptable.lock shows nothing to the monitor. *)
LEMMA TakePtStutters ==
  ASSUME IInv, NEW c \in Cpus, NEW p \in Procs, proc[c] = p,
         \/ Take(c, p, "wake_spin", "wake") \/ Take(c, p, "kill_spin", "kill")
         \/ Take(c, p, "sleep_spin", "sleep_rel") \/ Take(c, p, "yield_spin", "yield_set")
  PROVE  UNCHANGED <<Holder, Asleep, Calling>>
<1>1. Local(c, p)
  BY TakeStep, Zenon
<1>2. /\ owner'["lk"] = owner["lk"] /\ pc[p] # "sleep_set" /\ pc'[p] # "sleep_set"
      /\ pc[p] \in {"wake_spin", "wake"} <=> pc'[p] \in {"wake_spin", "wake"}
  BY SpinningFor DEF IInv, TypeOK, Locks, Take, Goto
<1> QED BY <1>1, <1>2, QuietStep, Zenon

(* Neither do the steps of scheduler(): c holds no lk in it. *)
LEMMA SchedulerStutters ==
  ASSUME IInv, NEW c \in Cpus, SchedSpin(c) \/ SchedTake(c) \/ SchedIdle(c)
  PROVE  UNCHANGED <<Holder, Asleep, Calling>>
<1>1. owner'["lk"] = owner["lk"]
  BY Zenon DEF IInv, TypeOK, Locks, SchedSpin, SchedTake, SchedIdle
<1>2. proc' = proc /\ state' = state /\ pc' = pc
  BY Zenon DEF SchedSpin, SchedTake, SchedIdle, procVars
<1> QED BY <1>1, <1>2, Zenon DEF Holder, Asleep, Calling

(* So is the switch to a process. *)
LEMMA RunStutters ==
  ASSUME IInv, NEW c \in Cpus, NEW p \in Procs, SchedRun(c, p)
  PROVE  UNCHANGED <<Holder, Asleep, Calling>>
<1>1. TypeOK /\ InScheduler(c)
  BY Zenon DEF IInv, CpuInv, SchedRun
<1>2. Holder' = Holder
  BY <1>1 DEF TypeOK, InScheduler, SchedRun, Holder, Locks, Cpus
<1>3. \A q \in Procs : state'[q] = "SLEEPING" <=> state[q] = "SLEEPING"
  BY <1>1, Zenon DEF TypeOK, SchedRun
<1> QED BY <1>2, <1>3, Zenon DEF SchedRun, Asleep, Calling

(* A process that gives up its CPU does not hold lk, and one that sleeps   *)
(* was asleep for the monitor already.                                     *)
LEMMA GiveUpStutters ==
  ASSUME IInv, NEW c \in Cpus, NEW p \in Procs, proc[c] = p, Yield(c, p) \/ SleepSet(c, p)
  PROVE  UNCHANGED <<Holder, Asleep, Calling>>
<1>1. TypeOK /\ InProcess(c, p)
  BY Zenon DEF IInv, CpuInv
<1>2. owner["lk"] # c /\ state[p] = "RUNNING"
  BY <1>1, Zenon DEF InProcess, HoldsLk, Waking, Yield, SleepSet
<1>3. Holder' = Holder
  <2>1. owner["lk"] = 0 \/ owner["lk"] \in Cpus \ {c}
    BY <1>1, <1>2, MonitorAssumption DEF TypeOK, Locks, Cpus
  <2>2. owner' = owner /\ \A d \in Cpus \ {c} : proc'[d] = proc[d]
    BY <1>1, Zenon DEF TypeOK, Yield, SleepSet, Sched
  <2> QED BY <2>1, <2>2, Zenon DEF Holder
<1>4. \A q \in Procs : /\ (state'[q] = "SLEEPING" \/ pc'[q] = "sleep_set") <=> (state[q] = "SLEEPING" \/ pc[q] = "sleep_set")
                       /\ pc'[q] \in {"wake_spin", "wake"} <=> pc[q] \in {"wake_spin", "wake"}
  BY <1>1, <1>2 DEF TypeOK, Yield, SleepSet, Goto
<1> QED BY <1>3, <1>4, Zenon DEF Asleep, Calling

-----------------------------------------------------------------------------
(* While p executes with ptable.lock held, no other process is between     *)
(* release(lk) and sched() in sleep(): it would hold ptable.lock too.      *)
LEMMA NobodyFallsAsleep ==
  ASSUME IInv, NEW c \in Cpus, NEW p \in Procs, proc[c] = p, HoldsPt(p), NEW q \in Procs, q # p
  PROVE  pc[q] # "sleep_set"
<1> SUFFICES ASSUME pc[q] = "sleep_set" PROVE FALSE
  BY Zenon
<1>1. state[q] = "RUNNING"
  BY DEF IInv, TypeOK, ProcInv
<1>2. PICK d \in Cpus : proc[d] = q
  BY <1>1, Zenon DEF IInv, ProcInv
<1>3. owner["pt"] = d
  BY <1>2, Zenon DEF IInv, CpuInv, InProcess, HoldsPt
<1>4. owner["pt"] = c
  BY Zenon DEF IInv, CpuInv, InProcess
<1> QED BY <1>2, <1>3, <1>4, Zenon

(* acquire(lk) enters the monitor. *)
LEMMA EnterMaps ==
  ASSUME IInv, NEW c \in Cpus, NEW p \in Procs, proc[c] = p, Take(c, p, "lk_spin", "in")
  PROVE  Holder = None /\ p \notin Asleep /\ Holder' = p /\ UNCHANGED <<Asleep, Calling>>
<1>1. TypeOK /\ InProcess(c, p)
  BY Zenon DEF IInv, CpuInv
<1>2. Holder = None /\ Holder' = p
  BY <1>1, SpinningFor, Ranges, Zenon DEF TypeOK, Locks, Take, Holder
<1>3. \A q \in Procs : /\ pc'[q] = "sleep_set" <=> pc[q] = "sleep_set"
                       /\ pc'[q] \in {"wake_spin", "wake"} <=> pc[q] \in {"wake_spin", "wake"}
  BY <1>1, Zenon DEF TypeOK, Take, Goto
<1>4. p \notin Asleep
  BY <1>1, Zenon DEF InProcess, Take, Asleep
<1> QED BY <1>2, <1>3, <1>4, Zenon DEF Take, Asleep, Calling

(* release(lk) leaves it. *)
LEMMA LeaveMaps ==
  ASSUME IInv, NEW c \in Cpus, NEW p \in Procs, proc[c] = p, Leave(c, p)
  PROVE  Holder = p /\ Holder' = None /\ UNCHANGED <<Asleep, Calling>>
<1>1. TypeOK
  BY Zenon DEF IInv
<1>2. Holder = p /\ Holder' = None
  BY <1>1, Ranges, Zenon DEF TypeOK, Locks, Leave, Release, Holder
<1>3. \A q \in Procs : /\ pc'[q] = "sleep_set" <=> pc[q] = "sleep_set"
                       /\ pc'[q] \in {"wake_spin", "wake"} <=> pc[q] \in {"wake_spin", "wake"}
  BY <1>1, Zenon DEF TypeOK, Leave, Goto
<1> QED BY <1>2, <1>3, Zenon DEF Leave, Asleep, Calling

(* release(lk) in sleep() is the moment the process falls asleep. *)
LEMMA SleepMaps ==
  ASSUME IInv, NEW c \in Cpus, NEW p \in Procs, proc[c] = p, SleepRelease(c, p)
  PROVE  Holder = p /\ Holder' = None /\ Asleep' = Asleep \cup {p} /\ Calling' = Calling
<1>1. TypeOK
  BY Zenon DEF IInv
<1>2. Holder = p /\ Holder' = None
  BY <1>1, Ranges, Zenon DEF TypeOK, Locks, SleepRelease, Release, Holder
<1>3. \A q \in Procs : /\ pc'[q] = "sleep_set" <=> (pc[q] = "sleep_set" \/ q = p)
                       /\ pc'[q] \in {"wake_spin", "wake"} <=> pc[q] \in {"wake_spin", "wake"}
  BY <1>1, Zenon DEF TypeOK, SleepRelease, Goto
<1>4. state' = state
  BY Zenon DEF SleepRelease
<1> QED BY <1>2, <1>3, <1>4, Zenon DEF Asleep, Calling

(* wakeup() is called: it takes effect under ptable.lock. *)
LEMMA WakeCallMaps ==
  ASSUME IInv, NEW c \in Cpus, NEW p \in Procs, proc[c] = p, WakeStart(c, p)
  PROVE  p \notin Asleep \cup Calling /\ Calling' = Calling \cup {p} /\ UNCHANGED <<Holder, Asleep>>
<1>1. TypeOK /\ InProcess(c, p)
  BY Zenon DEF IInv, CpuInv
<1>2. \A q \in Procs : /\ pc'[q] = "sleep_set" <=> pc[q] = "sleep_set"
                       /\ pc'[q] \in {"wake_spin", "wake"} <=> (pc[q] \in {"wake_spin", "wake"} \/ q = p)
  BY <1>1, Zenon DEF TypeOK, WakeStart, Spin, Goto
<1>3. p \notin Asleep \cup Calling
  BY <1>1, Zenon DEF InProcess, WakeStart, Asleep, Calling
<1>4. state' = state /\ owner' = owner /\ proc' = proc
  BY Zenon DEF WakeStart, Spin
<1> QED BY <1>2, <1>3, <1>4, Zenon DEF Holder, Asleep, Calling

(* wakeup1() finds every sleeper, the one between release(lk) and sched()  *)
(* included: there is none while it holds ptable.lock.                     *)
LEMMA WakeAllMaps ==
  ASSUME IInv, NEW c \in Cpus, NEW p \in Procs, proc[c] = p, Wakeup1(c, p)
  PROVE  p \in Calling /\ Asleep' = {} /\ Calling' = Calling \ {p} /\ Holder' = Holder
<1>1. TypeOK /\ HoldsPt(p)
  BY Zenon DEF IInv, Wakeup1, HoldsPt
<1>2. \A q \in Procs : state'[q] # "SLEEPING"
  BY <1>1, Zenon DEF IInv, ProcInv, Wakeup1
<1>3. \A q \in Procs \ {p} : pc'[q] = pc[q] /\ pc[q] # "sleep_set"
  BY <1>1, NobodyFallsAsleep, Zenon DEF TypeOK, Wakeup1, Goto
<1>4. pc[p] = "wake" /\ pc'[p] = "wake_done" /\ owner' = owner /\ proc' = proc
  BY <1>1, Zenon DEF TypeOK, Wakeup1, Goto
<1> QED BY <1>2, <1>3, <1>4, Zenon DEF Holder, Asleep, Calling

(* kill() wakes q if it sleeps, else it shows nothing to the monitor. *)
LEMMA KillMaps ==
  ASSUME IInv, NEW c \in Cpus, NEW p \in Procs, proc[c] = p, NEW q \in Procs, Kill(c, p, q)
  PROVE  /\ UNCHANGED <<Holder, Calling>>
         /\ (q \in Asleep /\ Asleep' = Asleep \ {q}) \/ Asleep' = Asleep
<1>1. TypeOK
  BY Zenon DEF IInv
<1>2. \A o \in Procs : /\ pc'[o] = "sleep_set" <=> pc[o] = "sleep_set"
                       /\ pc'[o] \in {"wake_spin", "wake"} <=> pc[o] \in {"wake_spin", "wake"}
  BY <1>1, Zenon DEF TypeOK, Kill, Goto
<1>3. \A o \in Procs \ {q} : state'[o] = state[o]
  BY <1>1, Zenon DEF TypeOK, Kill
<1>4. owner' = owner /\ proc' = proc
  BY Zenon DEF Kill
<1>5. CASE state[q] = "SLEEPING"
  <2>1. state'[q] = "RUNNABLE" /\ pc[q] # "sleep_set"
    BY <1>1, <1>5 DEF IInv, TypeOK, ProcInv, Kill
  <2>2. q \in Asleep /\ Asleep' = Asleep \ {q}
    BY <1>2, <1>3, <1>5, <2>1, Zenon DEF Asleep
  <2> QED BY <1>2, <1>4, <2>2, Zenon DEF Holder, Calling
<1>6. CASE state[q] # "SLEEPING"
  <2>1. state'[q] = state[q]
    BY <1>1, <1>6, Zenon DEF TypeOK, Kill
  <2>2. Asleep' = Asleep
    BY <1>2, <1>3, <2>1 DEF Asleep
  <2> QED BY <1>2, <1>4, <2>2, Zenon DEF Holder, Calling
<1> QED BY <1>5, <1>6, Zenon

(* Every step of the code is a step of the monitor, or none. *)
LEMMA StepMaps ==
  ASSUME IInv, NEW c \in Cpus, NEW p \in Procs, proc[c] = p, Step(c, p)
  PROVE  [Abstract!Next]_(Abstract!vars)
<1>1. CASE UNCHANGED <<Holder, Asleep, Calling>>
  BY <1>1, Zenon DEF Holder, Asleep, Calling, Abstract!vars
<1>2. CASE Take(c, p, "lk_spin", "in")
  <2>1. Abstract!Enter(p)
    BY <1>2, EnterMaps, Zenon DEF Holder, Asleep, Calling, Abstract!Enter
  <2> QED BY <2>1, Zenon DEF Abstract!Next
<1>3. CASE Leave(c, p)
  <2>1. Abstract!Leave(p)
    BY <1>3, LeaveMaps, Zenon DEF Holder, Asleep, Calling, Abstract!Leave
  <2> QED BY <2>1, Zenon DEF Abstract!Next
<1>4. CASE SleepRelease(c, p)
  <2>1. Abstract!Sleep(p)
    BY <1>4, SleepMaps, Zenon DEF Holder, Asleep, Calling, Abstract!Sleep
  <2> QED BY <2>1, Zenon DEF Abstract!Next
<1>5. CASE WakeStart(c, p)
  <2>1. Abstract!WakeCall(p)
    BY <1>5, WakeCallMaps, Zenon DEF Holder, Asleep, Calling, Abstract!WakeCall
  <2> QED BY <2>1, Zenon DEF Abstract!Next
<1>6. CASE Wakeup1(c, p)
  <2>1. Abstract!WakeAll(p)
    BY <1>6, WakeAllMaps, Zenon DEF Holder, Asleep, Calling, Abstract!WakeAll
  <2> QED BY <2>1, Zenon DEF Abstract!Next
<1>7. ASSUME NEW q \in Procs, Kill(c, p, q) PROVE [Abstract!Next]_(Abstract!vars)
  <2>1. Abstract!WakeOne(q) \/ UNCHANGED <<Holder, Asleep, Calling>>
    BY <1>7, KillMaps, Zenon DEF Holder, Asleep, Calling, Abstract!WakeOne
  <2> QED BY <1>1, <2>1, Zenon DEF Abstract!Next
<1> QED BY <1>1, <1>2, <1>3, <1>4, <1>5, <1>6, <1>7, StutterSteps, TakePtStutters, GiveUpStutters, Zenon DEF Step

(* Every step is a step of Monitor or leaves it unchanged. *)
LEMMA NextMaps == IInv /\ [Next]_vars => [Abstract!Next]_(Abstract!vars)
<1> SUFFICES ASSUME IInv, [Next]_vars PROVE [Abstract!Next]_(Abstract!vars)
  BY Zenon
<1>1. CASE UNCHANGED vars
  BY <1>1, Zenon DEF vars, Abstract!vars
<1>2. ASSUME UNCHANGED <<Holder, Asleep, Calling>> PROVE UNCHANGED Abstract!vars
  BY <1>2, Zenon DEF Holder, Asleep, Calling, Abstract!vars
<1>3. ASSUME NEW c \in Cpus, SchedSpin(c) \/ SchedTake(c) \/ SchedIdle(c) PROVE [Abstract!Next]_(Abstract!vars)
  BY <1>2, <1>3, SchedulerStutters, Zenon
<1>4. ASSUME NEW c \in Cpus, NEW p \in Procs, SchedRun(c, p) PROVE [Abstract!Next]_(Abstract!vars)
  BY <1>2, <1>4, RunStutters, Zenon
<1> QED BY <1>1, <1>3, <1>4, StepMaps, Zenon DEF Next

(* sleep() atomically releases the lock and sleeps: the code implements    *)
(* the monitor, so no wakeup() that starts after release(lk) is missed.    *)
THEOREM SleepIsAtomic == Spec => AtomicSleep
<1>1. Init => Abstract!Init
  BY DEF Init, Abstract!Init, Locks
<1> QED BY <1>1, NextMaps, Inductive, PTL DEF Spec, AtomicSleep, Abstract!Spec

-----------------------------------------------------------------------------
(* Mutex *)

(* Before the first call nobody holds a mutex. *)
LEMMA MutexInitIInv == MutexInit => MutexIInv
<1>1. 1 \in Ids
  BY MutexAssumption DEF Ids
<1> SUFFICES ASSUME MutexInit PROVE MutexIInv
  BY Zenon
<1>2. "user" \in MutexPlaces
  BY Zenon DEF MutexPlaces
<1>3. MutexTypeOK
  BY <1>1, <1>2, Zenon DEF MutexInit, MutexTypeOK
<1>4. \A p \in Procs : holds[p] = {} /\ op[p] = "none" /\ pc[p] = "user"
  BY Zenon DEF MutexInit
<1>5. Kept
  BY <1>4 DEF Kept, Exclusive, Progress, Locking
<1> QED BY <1>3, <1>5, Zenon DEF MutexIInv

(* The steps of one process inside a system call, without the condition    *)
(* that it is awake.                                                       *)
KernelStep(p) ==
  \/ TableInit(p) \/ Acquire(p)
  \/ CreateScan(p) \/ CreateFound(p) \/ Refuse(p) \/ LockLook(p) \/ UnlockLook(p) \/ Own(p)
  \/ SetAllocated(p) \/ SetLocked(p) \/ SetPid(p)
  \/ ReleaseTable(p) \/ ReleaseUnlock(p) \/ LockSleep(p) \/ ReleasePanics(p) \/ WakeWaiters(p)

(* The tests change neither the lock nor the table. *)
LEMMA LookFrame ==
  ASSUME NEW p \in Procs, CreateScan(p) \/ CreateFound(p) \/ Refuse(p) \/ LockLook(p) \/ UnlockLook(p) \/ Own(p)
  PROVE  UNCHANGED <<inited, table, allocated, locked, pid, op, sleepsOn, holds>>
  BY Zenon DEF CreateScan, CreateFound, Refuse, LockLook, UnlockLook, Own, Inside, mutexes

(* Where the tests lead to. *)
LEMMA LookPlace ==
  ASSUME NEW p \in Procs, CreateScan(p) \/ CreateFound(p) \/ Refuse(p) \/ LockLook(p) \/ UnlockLook(p) \/ Own(p)
  PROVE  \E place \in Section : Goto(p, place)
<1>1. {"held", "set_allocated", "refuse", "sleep", "set_locked", "own"} \subseteq Section
  BY Zenon DEF Section
<1>2. CASE Own(p)
  BY <1>1, <1>2 DEF Own
<1>3. CASE LockLook(p)
  BY <1>1, <1>3 DEF LockLook, Inside
<1> QED BY <1>1, <1>2, <1>3, Zenon DEF CreateScan, CreateFound, Refuse, UnlockLook, Inside

(* A step of a process in the kernel moves only this process. *)
LEMMA KernelPlace ==
  ASSUME NEW p \in Procs, KernelStep(p)
  PROVE  \E place \in MutexPlaces : pc' = [pc EXCEPT ![p] = place]
<1>1. Section \subseteq MutexPlaces /\ {"user", "acquire", "wakeup", "panic", "held", "set_locked", "set_pid", "release"} \subseteq MutexPlaces
  BY DEF MutexPlaces, Section
<1>2. CASE CreateScan(p) \/ CreateFound(p) \/ Refuse(p) \/ LockLook(p) \/ UnlockLook(p) \/ Own(p)
  BY <1>1, <1>2, LookPlace, Zenon DEF Goto
<1>3. CASE TableInit(p) \/ Acquire(p) \/ SetAllocated(p) \/ SetLocked(p) \/ SetPid(p)
  BY <1>1, <1>3, Zenon DEF TableInit, Acquire, SetAllocated, SetLocked, SetPid, Goto
<1>4. CASE ReleaseTable(p) \/ ReleaseUnlock(p) \/ LockSleep(p) \/ ReleasePanics(p) \/ WakeWaiters(p)
  BY <1>1, <1>4, Zenon DEF ReleaseTable, ReleaseUnlock, LockSleep, ReleasePanics, WakeWaiters, Return, Goto
<1> QED BY <1>2, <1>3, <1>4, Zenon DEF KernelStep

(* The types, step by step. *)
LEMMA KernelTypes ==
  ASSUME MutexTypeOK, NEW p \in Procs, KernelStep(p)
  PROVE  MutexTypeOK'
<1>1. 1 \in Ids
  BY MutexAssumption DEF Ids
<1>2. pc' \in [Procs -> MutexPlaces]
  BY KernelPlace, Zenon DEF MutexTypeOK
<1>3. CASE CreateScan(p)
  <2>1. arg[p] + 1 \in Ids
    BY <1>3, MutexAssumption DEF CreateScan, MutexTypeOK, Ids
  <2> QED BY <1>2, <1>3, <2>1, LookFrame, Zenon DEF CreateScan, MutexTypeOK
<1>4. CASE CreateFound(p) \/ Refuse(p) \/ LockLook(p) \/ UnlockLook(p) \/ Own(p)
  <2>1. arg' = arg
    BY <1>4, Zenon DEF CreateFound, Refuse, LockLook, UnlockLook, Own
  <2> QED BY <1>2, <1>4, <2>1, LookFrame, Zenon DEF MutexTypeOK
<1>5. CASE TableInit(p) \/ Acquire(p) \/ ReleaseUnlock(p) \/ ReleasePanics(p)
  BY <1>2, <1>5, Zenon DEF TableInit, Acquire, ReleaseUnlock, ReleasePanics, MutexTypeOK, mutexes
<1>6. CASE SetAllocated(p)
  BY <1>2, <1>6, Zenon DEF SetAllocated, MutexTypeOK
<1>7. CASE SetLocked(p)
  <2>1. Locking(p) \in BOOLEAN
    BY DEF Locking
  <2> QED BY <1>2, <1>7, <2>1, Zenon DEF SetLocked, MutexTypeOK
<1>8. CASE SetPid(p)
  <2>1. (IF Locking(p) THEN p ELSE None) \in Procs \cup {None}
    BY Zenon
  <2> QED BY <1>2, <1>8, <2>1, Zenon DEF SetPid, MutexTypeOK
<1>9. CASE ReleaseTable(p)
  <2>1. holds[p] \cup {arg[p]} \in SUBSET Ids /\ holds[p] \in SUBSET Ids
    BY DEF MutexTypeOK
  <2>2. holds' \in [Procs -> SUBSET Ids]
    BY <1>9, <2>1, Zenon DEF ReleaseTable, MutexTypeOK
  <2> QED BY <1>1, <1>2, <1>9, <2>2, Zenon DEF ReleaseTable, Return, MutexTypeOK, mutexes
<1>10. CASE LockSleep(p)
  BY <1>2, <1>10, Zenon DEF LockSleep, MutexTypeOK, mutexes
<1>11. CASE WakeWaiters(p)
  BY <1>1, <1>2, <1>11, Zenon DEF WakeWaiters, Return, MutexTypeOK, mutexes
<1> QED BY <1>3, <1>4, <1>5, <1>6, <1>7, <1>8, <1>9, <1>10, <1>11, Zenon DEF KernelStep

(* The types, at the border of the kernel. *)
LEMMA BorderTypes ==
  ASSUME MutexTypeOK, NEW p \in Procs,
         \/ KillWakes(p) \/ ExitHolding(p)
         \/ \E o \in {"create", "lock", "unlock"}, i \in Ids : Call(p, o, i)
  PROVE  MutexTypeOK'
<1>1. {"init", "acquire", "gone"} \subseteq MutexPlaces
  BY Zenon DEF MutexPlaces
<1>2. CASE KillWakes(p) \/ ExitHolding(p)
  BY <1>1, <1>2, Zenon DEF KillWakes, ExitHolding, Goto, MutexTypeOK, mutexes
<1>3. CASE \E o \in {"create", "lock", "unlock"}, i \in Ids : Call(p, o, i)
  <2>1. PICK o \in {"create", "lock", "unlock"}, i \in Ids : Call(p, o, i)
    BY <1>3, Zenon
  <2>2. (IF inited THEN "acquire" ELSE "init") \in MutexPlaces
    BY <1>1, Zenon
  <2>3. pc' \in [Procs -> MutexPlaces]
    BY <2>1, <2>2, Zenon DEF Call, Goto, MutexTypeOK
  <2>4. holds[p] \ {i} \in SUBSET Ids /\ holds[p] \in SUBSET Ids
    BY Zenon DEF MutexTypeOK
  <2>5. holds' \in [Procs -> SUBSET Ids]
    BY <2>1, <2>4, Zenon DEF Call, MutexTypeOK
  <2> QED BY <2>1, <2>3, <2>5, Zenon DEF Call, MutexTypeOK, mutexes
<1> QED BY <1>2, <1>3, Zenon

(* The steps of the system, one process at a time. *)
LEMMA MutexSteps ==
  ASSUME MutexNext
  PROVE  \E p \in Procs : \/ KernelStep(p) \/ KillWakes(p) \/ ExitHolding(p)
                          \/ \E o \in {"create", "lock", "unlock"}, i \in Ids : Call(p, o, i)
<1>1. 1 \in Ids
  BY MutexAssumption DEF Ids
<1> QED BY <1>1, Zenon DEF MutexNext, MutexKernel, KernelStep

(* The steps of a process that is not in the section of the lock, or       *)
(* enters it, or leaves it, as far as the lock is concerned.               *)
LEMMA TableStep ==
  ASSUME MutexTypeOK, NEW p \in Procs,
         \/ KernelStep(p) \/ KillWakes(p) \/ ExitHolding(p)
         \/ \E o \in {"create", "lock", "unlock"}, i \in Ids : Call(p, o, i)
  PROVE  /\ \A q \in Procs \ {p} : pc'[q] = pc[q]
         /\ table' \in {table, None, p}
         /\ pc[p] = "panic" => pc'[p] = "panic"
         /\ pc[p] \in Section /\ table # p => pc'[p] = "panic" \/ (pc'[p] \in Section /\ table' = table)
<1> USE DEF MutexTypeOK
<1>1. CASE CreateScan(p) \/ CreateFound(p) \/ Refuse(p) \/ LockLook(p) \/ UnlockLook(p) \/ Own(p)
  <2>1. PICK place \in Section : Goto(p, place)
    BY <1>1, LookPlace, Zenon
  <2>2. table' = table
    BY <1>1, LookFrame, Zenon
  <2>3. pc[p] # "panic"
    BY <1>1 DEF CreateScan, CreateFound, Refuse, LockLook, UnlockLook, Own, Inside
  <2> QED BY <2>1, <2>2, <2>3, Zenon DEF Goto
<1>2. CASE SetAllocated(p) \/ SetLocked(p) \/ SetPid(p)
  <2>1. {"set_locked", "set_pid", "release"} \subseteq Section
    BY Zenon DEF Section
  <2> QED BY <1>2, <2>1 DEF SetAllocated, SetLocked, SetPid, Goto
<1>3. CASE TableInit(p) \/ Acquire(p) \/ WakeWaiters(p) \/ ExitHolding(p)
  BY <1>3 DEF TableInit, Acquire, WakeWaiters, ExitHolding, Return, Goto, Section
<1>4. CASE ReleaseTable(p) \/ ReleaseUnlock(p) \/ LockSleep(p) \/ ReleasePanics(p)
  BY <1>4 DEF ReleaseTable, ReleaseUnlock, LockSleep, ReleasePanics, Return, Goto
<1>5. CASE KillWakes(p)
  BY <1>5, Zenon DEF KillWakes
<1>6. CASE \E o \in {"create", "lock", "unlock"}, i \in Ids : Call(p, o, i)
  BY <1>6 DEF Call, Goto, Section
<1> QED BY <1>1, <1>2, <1>3, <1>4, <1>5, <1>6, Zenon DEF KernelStep

(* A process that lost the lock stays in the section until it panics: no   *)
(* later step gives the lock back to it.                                   *)
LEMMA LostStays ==
  ASSUME MutexTypeOK, LockLost, [MutexNext]_mutexVars
  PROVE  LockLost'
<1>1. CASE UNCHANGED mutexVars
  BY <1>1, Zenon DEF LockLost, mutexVars
<1>2. CASE MutexNext
  <2>1. PICK p \in Procs : \/ KernelStep(p) \/ KillWakes(p) \/ ExitHolding(p)
                           \/ \E o \in {"create", "lock", "unlock"}, i \in Ids : Call(p, o, i)
    BY <1>2, MutexSteps, Zenon
  <2>2. PICK q \in Procs : pc[q] = "panic" \/ (pc[q] \in Section /\ table # q)
    BY Zenon DEF LockLost
  <2>3. CASE q = p
    BY <2>1, <2>2, <2>3, TableStep, Zenon DEF LockLost
  <2>4. CASE q # p
    <3>1. pc'[q] = pc[q] /\ table' \in {table, None, p}
      BY <2>1, <2>4, TableStep, Zenon
    <3>2. q # None
      BY MutexAssumption, Zenon
    <3> QED BY <2>2, <2>4, <3>1, <3>2, Zenon DEF LockLost
  <2> QED BY <2>3, <2>4, Zenon
<1> QED BY <1>1, <1>2, Zenon

(* As long as nobody lost the lock, one process at most is inside. *)
LEMMA Alone ==
  ASSUME ~LockLost, NEW p \in Procs, NEW q \in Procs, pc[p] \in Section, pc[q] \in Section
  PROVE  p = q
  BY Zenon DEF LockLost

(* Whoever the table names is the only holder. *)
LEMMA NamedHolder ==
  ASSUME \A p \in Procs : \A i \in holds[p] : locked[i] /\ pid[i] = p
  PROVE  Exclusive
  BY Zenon DEF Exclusive

(* A step that leaves the mutexes alone, and after which p relies on no    *)
(* more mutexes than before, leaves it to p to know where it is.           *)
LEMMA MutexQuietStep ==
  ASSUME MutexTypeOK, Kept, NEW p \in Procs, UNCHANGED <<allocated, locked, pid>>,
         \A q \in Procs : holds'[q] \subseteq holds[q],
         \A q \in Procs \ {p} : pc'[q] = pc[q] /\ op'[q] = op[q] /\ arg'[q] = arg[q],
         Progress(p)'
  PROVE  Kept'
<1>1. (\A q \in Procs : \A i \in holds[q] : locked[i] /\ pid[i] = q)'
  BY Zenon DEF Kept, Exclusive
<1>2. Exclusive'
  BY <1>1 DEF Exclusive
<1>3. ASSUME NEW q \in Procs PROVE Progress(q)'
  <2>1. CASE q = p
    BY <2>1, Zenon
  <2>2. CASE q # p
    <3>1. pc'[q] = pc[q] /\ op'[q] = op[q] /\ arg'[q] = arg[q]
      BY <2>2, Zenon
    <3> QED BY <3>1, Zenon DEF Kept, Progress, Locking
  <2> QED BY <2>1, <2>2, Zenon
<1>4. \A q \in Procs : \A i \in holds'[q] : allocated'[i]
  BY Zenon DEF Kept
<1> QED BY <1>2, <1>3, <1>4, Zenon DEF Kept

(* The tests: nobody relies on an unallocated mutex, on one that is not    *)
(* locked, or on one that p locked and is about to unlock.                 *)
LEMMA LookStep ==
  ASSUME MutexTypeOK, Kept, NEW p \in Procs,
         CreateScan(p) \/ CreateFound(p) \/ Refuse(p) \/ LockLook(p) \/ UnlockLook(p) \/ Own(p)
  PROVE  Kept'
<1>1. UNCHANGED <<allocated, locked, pid, op, holds>>
  BY LookFrame, Zenon
<1>2. PICK place \in Section : Goto(p, place)
  BY LookPlace, Zenon
<1>3. \A q \in Procs \ {p} : pc'[q] = pc[q]
  BY <1>2, Zenon DEF Goto, MutexTypeOK
<1>4. \A q \in Procs \ {p} : arg'[q] = arg[q]
  BY Zenon DEF CreateScan, CreateFound, Refuse, LockLook, UnlockLook, Own, MutexTypeOK
<1>5. Progress(p)'
  <2>1. CASE CreateScan(p)
    BY <1>1, <2>1 DEF CreateScan, Inside, Goto, Progress, Locking, MutexTypeOK
  <2>2. CASE CreateFound(p)
    <3>1. \A q \in Procs : arg[p] \notin holds[q]
      BY <2>2, Zenon DEF CreateFound, Kept
    <3> QED BY <1>1, <2>2, <3>1 DEF CreateFound, Inside, Goto, Progress, Locking, MutexTypeOK
  <2>3. CASE Refuse(p)
    BY <1>1, <2>3 DEF Refuse, Inside, Goto, Progress, Locking, Kept, MutexTypeOK
  <2>4. CASE LockLook(p)
    <3>1. allocated[arg[p]]
      BY <2>4, Zenon DEF LockLook, Kept, Progress
    <3>2. ~locked[arg[p]] => \A q \in Procs : arg[p] \notin holds[q]
      BY Zenon DEF Kept, Exclusive
    <3>3. op' = op /\ arg' = arg /\ op[p] \in {"lock", "relock"} /\ pc'[p] = IF locked[arg[p]] THEN "sleep" ELSE "set_locked"
      BY <1>1, <2>4, Zenon DEF LockLook, Inside, Goto, MutexTypeOK
    <3>4. CASE locked[arg[p]]
      BY <1>1, <3>1, <3>3, <3>4 DEF Progress, Locking
    <3>5. CASE ~locked[arg[p]]
      BY <1>1, <3>1, <3>2, <3>3, <3>5 DEF Progress, Locking
    <3> QED BY <3>4, <3>5, Zenon
  <2>5. CASE UnlockLook(p)
    BY <1>1, <2>5 DEF UnlockLook, Inside, Goto, Progress, Locking, Kept, MutexTypeOK
  <2>6. CASE Own(p)
    <3>1. pid[arg[p]] = p /\ op[p] = "unlock" => \A q \in Procs : arg[p] \notin holds[q]
      BY Zenon DEF Kept, Progress, Exclusive
    <3> QED BY <1>1, <2>6, <3>1 DEF Own, Goto, Progress, Locking, Kept, MutexTypeOK
  <2> QED BY <2>1, <2>2, <2>3, <2>4, <2>5, <2>6, Zenon
<1> QED BY <1>1, <1>3, <1>4, <1>5, MutexQuietStep, Zenon

(* Steps outside the stores: the lock, sleep() and wakeup(), kill() and    *)
(* exit(), and a new call.                                                 *)
LEMMA OutsideStep ==
  ASSUME MutexTypeOK, Kept, NEW p \in Procs,
         \/ TableInit(p) \/ Acquire(p) \/ ReleaseUnlock(p) \/ LockSleep(p) \/ ReleasePanics(p) \/ WakeWaiters(p)
         \/ KillWakes(p) \/ ExitHolding(p)
         \/ \E o \in {"create", "lock", "unlock"}, i \in Ids : Call(p, o, i)
  PROVE  Kept'
<1> USE DEF MutexTypeOK
<1>1. Progress(p)
  BY Zenon DEF Kept
<1>2. CASE TableInit(p) \/ Acquire(p) \/ ReleaseUnlock(p) \/ ReleasePanics(p) \/ ExitHolding(p)
  <2>1. UNCHANGED <<allocated, locked, pid, op, arg, holds>>
    BY <1>2, Zenon DEF TableInit, Acquire, ReleaseUnlock, ReleasePanics, ExitHolding, mutexes
  <2>2. PICK place \in {"acquire", "held", "wakeup", "panic", "gone"} : pc' = [pc EXCEPT ![p] = place]
    BY <1>2, Zenon DEF TableInit, Acquire, ReleaseUnlock, ReleasePanics, ExitHolding, Goto
  <2>3. Progress(p)'
    BY <1>1, <2>1, <2>2 DEF Progress, Locking
  <2> QED BY <2>1, <2>2, <2>3, MutexQuietStep, Zenon
<1>3. CASE KillWakes(p)
  BY <1>1, <1>3, MutexQuietStep, Zenon DEF KillWakes, mutexes, Progress, Locking
<1>4. CASE LockSleep(p)
  <2>1. UNCHANGED <<allocated, locked, pid, arg, holds>> /\ op' = [op EXCEPT ![p] = "relock"] /\ pc' = [pc EXCEPT ![p] = "acquire"]
    BY <1>4, Zenon DEF LockSleep, mutexes, Goto
  <2>2. op[p] \in {"lock", "relock"} => allocated[arg[p]]
    BY <1>1, <1>4, Zenon DEF LockSleep, Progress, Locking
  <2>3. pc[p] = "sleep" => Locking(p)
    BY <1>1, Zenon DEF Progress
  <2>4. allocated[arg[p]]
    BY <1>4, <2>2, <2>3, Zenon DEF LockSleep, Locking
  <2>5. Progress(p)'
    BY <2>1, <2>4 DEF Progress, Locking
  <2> QED BY <2>1, <2>5, MutexQuietStep, Zenon
<1>5. CASE WakeWaiters(p)
  <2>1. UNCHANGED <<allocated, locked, pid, holds>> /\ op' = [op EXCEPT ![p] = "none"]
        /\ arg' = [arg EXCEPT ![p] = 1] /\ pc' = [pc EXCEPT ![p] = "user"]
    BY <1>5, Zenon DEF WakeWaiters, Return, mutexes, Goto
  <2>2. Progress(p)'
    BY <2>1 DEF Progress, Locking
  <2> QED BY <2>1, <2>2, MutexQuietStep, Zenon
<1>6. CASE \E o \in {"create", "lock", "unlock"}, i \in Ids : Call(p, o, i)
  <2>1. PICK o \in {"create", "lock", "unlock"}, i \in Ids : Call(p, o, i)
    BY <1>6, Zenon
  <2>2. UNCHANGED <<allocated, locked, pid>> /\ op' = [op EXCEPT ![p] = o] /\ arg' = [arg EXCEPT ![p] = i]
        /\ pc' = [pc EXCEPT ![p] = IF inited THEN "acquire" ELSE "init"]
        /\ holds' = [holds EXCEPT ![p] = IF o = "unlock" THEN @ \ {i} ELSE @]
    BY <2>1, Zenon DEF Call, Goto, mutexes
  <2>3. \A q \in Procs : holds'[q] \subseteq holds[q]
    BY <2>2, Zenon
  <2>4. o = "unlock" => i \notin holds'[p]
    BY <2>2, Zenon
  <2>5. pc'[p] \in {"acquire", "init"} /\ op'[p] = o /\ arg'[p] = i
    BY <2>2, Zenon
  <2>6. Progress(p)'
    BY <2>4, <2>5 DEF Progress, Locking
  <2> QED BY <2>2, <2>3, <2>6, MutexQuietStep, Zenon
<1> QED BY <1>2, <1>3, <1>4, <1>5, <1>6, Zenon

(* The stores change a mutex nobody relies on, and no other process is     *)
(* inside to be confused.                                                  *)
LEMMA StoreStep ==
  ASSUME MutexTypeOK, Kept, ~LockLost, NEW p \in Procs, SetAllocated(p) \/ SetLocked(p) \/ SetPid(p)
  PROVE  Kept'
<1> USE DEF MutexTypeOK
<1>1. Progress(p) /\ \A q \in Procs : arg[p] \notin holds[q]
  BY Zenon DEF Kept, Progress, SetAllocated, SetLocked, SetPid
<1>2. pc[p] \in {"set_allocated", "set_locked", "set_pid"}
  BY Zenon DEF SetAllocated, SetLocked, SetPid
<1>3. \A q \in Procs \ {p} : pc[q] \notin Section
  <2>1. pc[p] \in Section
    BY <1>2 DEF Section
  <2> QED BY <2>1, Alone, Zenon
<1>4. UNCHANGED <<op, arg, holds>>
  BY Zenon DEF SetAllocated, SetLocked, SetPid
<1>5. \A i \in Ids \ {arg[p]} : allocated'[i] = allocated[i] /\ locked'[i] = locked[i] /\ pid'[i] = pid[i]
  BY Zenon DEF SetAllocated, SetLocked, SetPid
<1>6. \A i \in Ids : allocated[i] => allocated'[i]
  BY Zenon DEF SetAllocated, SetLocked, SetPid
<1>7. (\A q \in Procs : \A i \in holds[q] : locked[i] /\ pid[i] = q)'
  <2> SUFFICES ASSUME NEW q \in Procs, NEW i \in holds[q] PROVE locked'[i] /\ pid'[i] = q
    BY <1>4, Zenon
  <2>1. i \in Ids \ {arg[p]}
    BY <1>1
  <2> QED BY <1>5, <2>1, Zenon DEF Kept, Exclusive
<1>8. Exclusive'
  BY <1>7, Zenon DEF Exclusive
<1>9. \A q \in Procs : \A i \in holds'[q] : allocated'[i]
  <2> SUFFICES ASSUME NEW q \in Procs, NEW i \in holds[q] PROVE allocated'[i]
    BY <1>4, Zenon
  <2>1. i \in Ids
    OBVIOUS
  <2> QED BY <1>6, <2>1, Zenon DEF Kept
<1>10. \A q \in Procs \ {p} : pc'[q] = pc[q]
  BY Zenon DEF SetAllocated, SetLocked, SetPid, Goto
<1>11. ASSUME NEW q \in Procs \ {p} PROVE Progress(q)'
  <2>1. pc'[q] = pc[q] /\ op'[q] = op[q] /\ arg'[q] = arg[q] /\ arg[q] \in Ids
    BY <1>4, <1>10
  <2>2. pc[q] \notin {"own", "sleep", "set_allocated", "set_locked", "set_pid", "release"}
    BY <1>3 DEF Section
  <2>3. Progress(q)
    BY Zenon DEF Kept
  <2> QED BY <1>4, <1>6, <2>1, <2>2, <2>3 DEF Progress, Locking
<1>12. Progress(p)'
  <2>1. CASE SetAllocated(p)
    BY <1>1, <1>4, <2>1 DEF SetAllocated, Goto, Progress, Locking
  <2>2. CASE SetLocked(p)
    BY <1>1, <1>4, <2>2 DEF SetLocked, Goto, Progress, Locking
  <2>3. CASE SetPid(p)
    BY <1>1, <1>4, <2>3 DEF SetPid, Goto, Progress, Locking
  <2> QED BY <2>1, <2>2, <2>3, Zenon
<1> QED BY <1>8, <1>9, <1>11, <1>12, Zenon DEF Kept

(* mutex_lock() returns with a mutex that nobody else relies on. *)
LEMMA ReleaseStep ==
  ASSUME MutexTypeOK, Kept, ~LockLost, NEW p \in Procs, ReleaseTable(p)
  PROVE  Kept'
<1> USE DEF MutexTypeOK
<1>1. /\ UNCHANGED <<allocated, locked, pid>> /\ pc' = [pc EXCEPT ![p] = "user"]
      /\ op' = [op EXCEPT ![p] = "none"] /\ arg' = [arg EXCEPT ![p] = 1]
  BY Zenon DEF ReleaseTable, Return, Goto, mutexes
<1>2. Progress(p)'
  BY <1>1 DEF Progress, Locking
<1>3. CASE ~(pc[p] = "release" /\ Locking(p))
  <2>1. holds' = holds
    BY <1>3 DEF ReleaseTable
  <2> QED BY <1>1, <1>2, <2>1, MutexQuietStep, Zenon
<1>4. CASE pc[p] = "release" /\ Locking(p)
  <2>1. Progress(p) /\ allocated[arg[p]] /\ locked[arg[p]] /\ pid[arg[p]] = p
    BY <1>4, Zenon DEF Kept, Progress
  <2>2. \A q \in Procs : arg[p] \notin holds[q]
    BY <1>4, <2>1, Zenon DEF Progress
  <2>3. holds' = [holds EXCEPT ![p] = @ \cup {arg[p]}]
    BY <1>4, Zenon DEF ReleaseTable
  <2>4. (\A q \in Procs : \A i \in holds[q] : locked[i] /\ pid[i] = q /\ allocated[i])'
    BY <1>1, <2>1, <2>3 DEF Kept, Exclusive
  <2>5. Exclusive'
    BY <2>4, Zenon DEF Exclusive
  <2>6. ASSUME NEW q \in Procs \ {p} PROVE Progress(q)'
    <3>1. pc'[q] = pc[q] /\ op'[q] = op[q] /\ arg'[q] = arg[q] /\ holds'[q] = holds[q]
      BY <1>1, <2>3
    <3>2. pc[q] \notin Section
      BY <1>4, Alone DEF Section
    <3>3. pc[q] \notin {"own", "sleep", "set_allocated", "set_locked", "set_pid", "release"}
      BY <3>2 DEF Section
    <3>4. Progress(q)
      BY Zenon DEF Kept
    <3> QED BY <1>1, <3>1, <3>3, <3>4 DEF Progress, Locking
  <2> QED BY <1>2, <2>4, <2>5, <2>6, Zenon DEF Kept
<1> QED BY <1>3, <1>4, Zenon

(* Every step keeps the invariant. *)
LEMMA MutexNextIInv == MutexIInv /\ [MutexNext]_mutexVars => MutexIInv'
<1> SUFFICES ASSUME MutexIInv, [MutexNext]_mutexVars PROVE MutexIInv'
  BY Zenon
<1>1. MutexTypeOK
  BY Zenon DEF MutexIInv
<1>2. MutexTypeOK'
  <2>1. CASE UNCHANGED mutexVars
    BY <1>1, <2>1, Zenon DEF MutexTypeOK, mutexVars
  <2>2. CASE MutexNext
    BY <1>1, <2>2, MutexSteps, KernelTypes, BorderTypes, Zenon
  <2> QED BY <2>1, <2>2, Zenon
<1>3. CASE LockLost
  BY <1>1, <1>2, <1>3, LostStays, Zenon DEF MutexIInv
<1>4. CASE ~LockLost /\ Kept
  <2> SUFFICES Kept'
    BY <1>2, Zenon DEF MutexIInv
  <2>1. CASE UNCHANGED mutexVars
    <3>1. UNCHANGED <<allocated, locked, pid, pc, op, arg, holds>>
      BY <2>1, Zenon DEF mutexVars
    <3>2. Exclusive'
      BY <1>4, <3>1, Zenon DEF Kept, Exclusive
    <3>3. \A p \in Procs : Progress(p)'
      BY <1>4, <3>1, Zenon DEF Kept, Progress, Locking
    <3> QED BY <1>4, <3>1, <3>2, <3>3, Zenon DEF Kept
  <2>2. CASE MutexNext
    <3>1. PICK p \in Procs : \/ KernelStep(p) \/ KillWakes(p) \/ ExitHolding(p)
                             \/ \E o \in {"create", "lock", "unlock"}, i \in Ids : Call(p, o, i)
      BY <2>2, MutexSteps, Zenon
    <3>2. CASE CreateScan(p) \/ CreateFound(p) \/ Refuse(p) \/ LockLook(p) \/ UnlockLook(p) \/ Own(p)
      BY <1>1, <1>4, <3>2, LookStep, Zenon
    <3>3. CASE SetAllocated(p) \/ SetLocked(p) \/ SetPid(p)
      BY <1>1, <1>4, <3>3, StoreStep, Zenon
    <3>4. CASE ReleaseTable(p)
      BY <1>1, <1>4, <3>4, ReleaseStep, Zenon
    <3> QED BY <1>1, <1>4, <3>1, <3>2, <3>3, <3>4, OutsideStep, Zenon DEF KernelStep
  <2> QED BY <2>1, <2>2, Zenon
<1> QED BY <1>3, <1>4, Zenon DEF MutexIInv

(* MutexIInv holds always: until a caller loses the spinlock of the table, *)
(* mutex_create, mutex_lock and mutex_unlock change only mutexes that      *)
(* nobody relies on.                                                       *)
THEOREM MutexInductive == MutexSpec => []MutexIInv
<1> QED BY MutexInitIInv, MutexNextIInv, PTL DEF MutexSpec

(* No two processes rely on one mutex, and the table names the holder      *)
(* (sysproc.c:365-429), unless a caller has lost the spinlock to the race  *)
(* of the first calls.                                                     *)
THEOREM Exclusion == MutexSpec => []MutexExclusion
<1>1. MutexIInv => MutexExclusion
  BY Zenon DEF MutexIInv, Kept, MutexExclusion
<1> QED BY <1>1, MutexInductive, PTL

(* Once the flag is set and nobody is left on the way to initlock(), the   *)
(* spinlock cannot be lost any more.                                       *)
LEMMA StaysSettled ==
  ASSUME MutexTypeOK, Settled, [MutexNext]_mutexVars
  PROVE  Settled'
<1>1. CASE UNCHANGED mutexVars
  BY <1>1, Zenon DEF Settled, LockLost, mutexVars
<1>2. CASE MutexNext
  <2> USE DEF MutexTypeOK
  <2>1. PICK p \in Procs : \/ KernelStep(p) \/ KillWakes(p) \/ ExitHolding(p)
                           \/ \E o \in {"create", "lock", "unlock"}, i \in Ids : Call(p, o, i)
    BY <1>2, MutexSteps, Zenon
  <2>2. pc[p] # "init" /\ inited /\ pc[p] # "panic" /\ (pc[p] \in Section => table = p)
    BY Zenon DEF Settled, LockLost
  <2>3. ~TableInit(p)
    BY <2>2, Zenon DEF TableInit
  <2>4. \A q \in Procs \ {p} : pc'[q] = pc[q]
    BY <2>1, TableStep, Zenon
  <2>5. /\ inited' /\ pc'[p] # "init" /\ pc'[p] # "panic"
        /\ pc'[p] \in Section => table' = p
        /\ table' # table => table = None \/ table = p
    <3>1. CASE CreateScan(p) \/ CreateFound(p) \/ Refuse(p) \/ LockLook(p) \/ UnlockLook(p) \/ Own(p)
      <4>1. pc[p] \in Section
        BY <3>1 DEF CreateScan, CreateFound, Refuse, LockLook, UnlockLook, Own, Inside, Section
      <4>2. inited' = inited /\ table' = table
        BY <3>1, LookFrame, Zenon
      <4>3. PICK place \in Section : Goto(p, place)
        BY <3>1, LookPlace, Zenon
      <4> QED BY <2>2, <4>1, <4>2, <4>3 DEF Goto, Section
    <3>2. CASE SetAllocated(p) \/ SetLocked(p) \/ SetPid(p)
      BY <2>2, <3>2 DEF SetAllocated, SetLocked, SetPid, Goto, Section
    <3>3. CASE Acquire(p)
      BY <2>2, <3>3 DEF Acquire, Goto
    <3>4. CASE ReleaseTable(p) \/ ReleaseUnlock(p) \/ LockSleep(p) \/ ReleasePanics(p)
      BY <2>2, <3>4 DEF ReleaseTable, ReleaseUnlock, LockSleep, ReleasePanics, Return, Goto, Section
    <3>5. CASE WakeWaiters(p) \/ ExitHolding(p)
      BY <2>2, <3>5 DEF WakeWaiters, ExitHolding, Return, Goto, Section
    <3>6. CASE KillWakes(p)
      BY <2>2, <3>6, Zenon DEF KillWakes
    <3>7. CASE \E o \in {"create", "lock", "unlock"}, i \in Ids : Call(p, o, i)
      BY <2>2, <3>7 DEF Call, Goto, Section
    <3> QED BY <2>1, <2>3, <3>1, <3>2, <3>3, <3>4, <3>5, <3>6, <3>7, Zenon DEF KernelStep
  <2>6. ASSUME NEW q \in Procs \ {p} PROVE pc'[q] # "init" /\ pc'[q] # "panic" /\ (pc'[q] \in Section => table' = q)
    <3>1. pc[q] # "init" /\ pc[q] # "panic" /\ (pc[q] \in Section => table = q) /\ q # None
      BY MutexAssumption, Zenon DEF Settled, LockLost
    <3> QED BY <2>4, <2>5, <3>1, Zenon
  <2> QED BY <2>5, <2>6, Zenon DEF Settled, LockLost
<1> QED BY <1>1, <1>2, Zenon

(* From the first moment at which the race of the first calls is over, and *)
(* for ever after, no two processes rely on one mutex.                     *)
THEOREM SettledExclusion == MutexSpec => [](Settled => []Exclusive)
<1>1. MutexIInv /\ Settled => Exclusive
  BY Zenon DEF MutexIInv, Kept, Settled
<1>2. MutexIInv /\ Settled /\ [MutexNext]_mutexVars => Settled'
  BY StaysSettled, Zenon DEF MutexIInv
<1> QED BY <1>1, <1>2, MutexInductive, PTL DEF MutexSpec


-----------------------------------------------------------------------------
(* Remainders *)

(* Quotient and remainder. *)
LEMMA QuotientRemainder ==
  ASSUME NEW m \in Nat \ {0}, NEW a \in Int
  PROVE  a % m \in 0..(m - 1) /\ a \div m \in Int /\ a = m * (a \div m) + (a % m)
  OBVIOUS

(* Only 0 is a multiple of m less than m away from 0. *)
LEMMA SmallMultiple ==
  ASSUME NEW m \in Nat \ {0}, NEW d \in Int, -m < m * d, m * d < m
  PROVE  d = 0
<1>1. d >= 1 => m * d >= m
  OBVIOUS
<1>2. d <= -1 => m * d <= -m
  OBVIOUS
<1> QED BY <1>1, <1>2

(* What is left below m is the remainder. *)
LEMMA RemainderIs ==
  ASSUME NEW m \in Nat \ {0}, NEW q \in Int, NEW x \in 0..(m - 1)
  PROVE  (m * q + x) % m = x
  OBVIOUS

(* Numbers less than m apart have different remainders. *)
LEMMA Apart ==
  ASSUME NEW m \in Nat \ {0}, NEW a \in Int, NEW b \in Int, a - b < m, b - a < m, a % m = b % m
  PROVE  a = b
<1> DEFINE qa == a \div m
           qb == b \div m
<1>1. qa \in Int /\ a % m \in Int /\ a = m * qa + (a % m)
  BY QuotientRemainder
<1>2. qb \in Int /\ b = m * qb + (b % m)
  BY QuotientRemainder, Zenon
<1> HIDE DEF qa, qb
<1>3. a - b = m * (qa - qb)
  BY <1>1, <1>2
<1>4. qa - qb = 0
  BY <1>1, <1>2, <1>3, SmallMultiple
<1> QED BY <1>3, <1>4

(* The constants, as the proofs use them. *)
LEMMA Constants ==
  /\ INPUT_BUF \in Nat \ {0} /\ Wrap \in Nat \ {0} /\ INPUT_BUF < Wrap
  /\ \E k \in Nat \ {0} : Wrap = k * INPUT_BUF
<1>1. PICK k \in 2..Wrap : Wrap = k * INPUT_BUF
  BY DevicesAssumption, Zenon
<1>2. INPUT_BUF \in Nat \ {0}
  BY DevicesAssumption, Zenon
<1>3. k \in Nat /\ k >= 2
  BY <1>1, <1>2
<1>4. k * INPUT_BUF >= 2 * INPUT_BUF /\ k * INPUT_BUF \in Nat
  BY <1>2, <1>3
<1> QED BY <1>1, <1>2, <1>3, <1>4

(* An unsigned difference is how far it is from i to j, forwards. *)
LEMMA Distance ==
  ASSUME NEW i \in Indices, NEW j \in Indices
  PROVE  (j - i) % Wrap = IF i <= j THEN j - i ELSE j - i + Wrap
<1>1. Wrap \in Nat \ {0} /\ i \in 0..(Wrap - 1) /\ j \in 0..(Wrap - 1)
  BY Constants, Zenon DEF Indices
<1>2. CASE i <= j
  <2>1. (Wrap * 0 + (j - i)) % Wrap = j - i
    BY <1>1, <1>2, RemainderIs
  <2> QED BY <1>1, <1>2, <2>1
<1>3. CASE ~(i <= j)
  <2>1. (Wrap * (-1) + (j - i + Wrap)) % Wrap = j - i + Wrap
    BY <1>1, <1>3, RemainderIs
  <2> QED BY <1>1, <1>3, <2>1
<1> QED BY <1>2, <1>3, Zenon

(* One step forwards or back, or up to a whole round. *)
LEMMA PlusIs ==
  ASSUME NEW i \in Indices, NEW d \in Int, -Wrap <= d, d <= Wrap
  PROVE  /\ Plus(i, d) \in Indices
         /\ Plus(i, d) = IF i + d < 0 THEN i + d + Wrap ELSE IF i + d < Wrap THEN i + d ELSE i + d - Wrap
<1>1. Wrap \in Nat \ {0} /\ i \in 0..(Wrap - 1)
  BY Constants, Zenon DEF Indices
<1>2. CASE i + d < 0
  <2>1. (Wrap * (-1) + (i + d + Wrap)) % Wrap = i + d + Wrap
    BY <1>1, <1>2, RemainderIs
  <2> QED BY <1>1, <1>2, <2>1 DEF Plus, Indices
<1>3. CASE 0 <= i + d /\ i + d < Wrap
  <2>1. (Wrap * 0 + (i + d)) % Wrap = i + d
    BY <1>1, <1>3, RemainderIs
  <2> QED BY <1>1, <1>3, <2>1 DEF Plus, Indices
<1>4. CASE i + d >= Wrap
  <2>1. (Wrap * 1 + (i + d - Wrap)) % Wrap = i + d - Wrap
    BY <1>1, <1>4, RemainderIs
  <2> QED BY <1>1, <1>4, <2>1 DEF Plus, Indices
<1> QED BY <1>1, <1>2, <1>3, <1>4

(* One step further is one more, short of a whole round. *)
LEMMA Advance ==
  ASSUME NEW i \in Indices, NEW j \in Indices
  PROVE  /\ Plus(j, 1) \in Indices
         /\ (j - i) % Wrap < Wrap - 1 => (Plus(j, 1) - i) % Wrap = ((j - i) % Wrap) + 1
<1> DEFINE h == Plus(j, 1)
           l == (j - i) % Wrap
           m == (h - i) % Wrap
<1>0. Wrap \in Nat \ {0} /\ i \in 0..(Wrap - 1) /\ j \in 0..(Wrap - 1) /\ 1 \in Int /\ -Wrap <= 1 /\ 1 <= Wrap
  BY Constants DEF Indices
<1>1. h \in Indices /\ h = IF j + 1 < Wrap THEN j + 1 ELSE j + 1 - Wrap
  <2>1. h = IF j + 1 < 0 THEN j + 1 + Wrap ELSE IF j + 1 < Wrap THEN j + 1 ELSE j + 1 - Wrap
    BY <1>0, PlusIs, Zenon
  <2> QED BY <1>0, <2>1, PlusIs
<1>2. ASSUME l < Wrap - 1 PROVE m = l + 1
  <2>1. l = (IF i <= j THEN j - i ELSE j - i + Wrap) /\ m = IF i <= h THEN h - i ELSE h - i + Wrap
    BY <1>1, Distance, Zenon
  <2> HIDE DEF h, l, m
  <2> QED BY <1>0, <1>1, <1>2, <2>1
<1> QED BY <1>1, <1>2, Zenon

(* Wrapping does not change the slot. *)
LEMMA SlotIs ==
  ASSUME NEW a \in Int
  PROVE  /\ (a % Wrap) % INPUT_BUF = a % INPUT_BUF
         /\ a % INPUT_BUF \in 0..(INPUT_BUF - 1)
<1>1. PICK k \in Nat \ {0} : Wrap = k * INPUT_BUF
  BY Constants, Zenon
<1>2. INPUT_BUF \in Nat \ {0} /\ Wrap \in Nat \ {0}
  BY Constants, Zenon
<1> DEFINE q == a \div Wrap
           s == a \div INPUT_BUF
           x == a % INPUT_BUF
<1>3. q \in Int /\ a % Wrap \in Int /\ a = Wrap * q + (a % Wrap)
  BY <1>2, QuotientRemainder
<1>4. s \in Int /\ x \in 0..(INPUT_BUF - 1) /\ a = INPUT_BUF * s + x
  BY <1>2, QuotientRemainder, Zenon
<1> HIDE DEF q, s, x
<1>5. s - k * q \in Int /\ a % Wrap = INPUT_BUF * (s - k * q) + x
  BY <1>1, <1>2, <1>3, <1>4
<1>6. (INPUT_BUF * (s - k * q) + x) % INPUT_BUF = x
  BY <1>2, <1>4, <1>5, RemainderIs, Zenon
<1> QED BY <1>4, <1>5, <1>6, Zenon DEF x

-----------------------------------------------------------------------------
(* The ring *)

Buffers == [0..(INPUT_BUF - 1) -> Keys \cup {None}]

(* The character of the buffer b that an index leads to, also one that did  *)
(* not wrap.                                                                *)
Slot(b, a) == b[a % INPUT_BUF]

(* Ring(i, j), of the buffer b. *)
Between(b, i, j) == [k \in 1..((j - i) % Wrap) |-> b[Plus(i, k - 1) % INPUT_BUF]]

(* It is a sequence, and its characters are where their index leads. *)
LEMMA BetweenIs ==
  ASSUME NEW b \in Buffers, NEW i \in Indices, NEW j \in Indices
  PROVE  LET s == Between(b, i, j) IN
         /\ (j - i) % Wrap \in 0..(Wrap - 1)
         /\ s \in Seq(Keys \cup {None}) /\ Len(s) = (j - i) % Wrap /\ DOMAIN s = 1..((j - i) % Wrap)
         /\ \A k \in 1..((j - i) % Wrap) : s[k] = Slot(b, i + k - 1)
<1> DEFINE s == Between(b, i, j)
           l == (j - i) % Wrap
<1>1. l \in 0..(Wrap - 1) /\ l \in Nat /\ i \in Int
  BY Distance, Constants DEF Indices
<1>2. s = [k \in 1..l |-> b[Plus(i, k - 1) % INPUT_BUF]]
  BY Zenon DEF Between
<1> HIDE DEF s, l
<1>3. ASSUME NEW k \in 1..l
      PROVE  Plus(i, k - 1) % INPUT_BUF = (i + k - 1) % INPUT_BUF /\ (i + k - 1) % INPUT_BUF \in 0..(INPUT_BUF - 1)
  <2>1. i + (k - 1) \in Int /\ i + k - 1 = i + (k - 1)
    BY <1>1
  <2> QED BY <2>1, SlotIs, Zenon DEF Plus
<1>4. \A k \in 1..l : s[k] = Slot(b, i + k - 1) /\ s[k] \in Keys \cup {None}
  BY <1>2, <1>3, Zenon DEF Buffers, Slot
<1>5. s \in [1..l -> Keys \cup {None}]
  BY <1>2, <1>4, Zenon
<1>6. s \in Seq(Keys \cup {None}) /\ Len(s) = l
  BY <1>1, <1>5
<1> QED BY <1>1, <1>2, <1>4, <1>6, Zenon DEF s, l

(* Two sequences with the same elements. *)
LEMMA SameElements ==
  ASSUME NEW S, NEW s \in Seq(S), NEW t \in Seq(S), Len(s) = Len(t), \A k \in 1..Len(s) : s[k] = t[k]
  PROVE  s = t
  OBVIOUS

(* One sequence after another. *)
LEMMA Concatenated ==
  ASSUME NEW S, NEW s \in Seq(S), NEW t \in Seq(S)
  PROVE  /\ s \o t \in Seq(S) /\ Len(s \o t) = Len(s) + Len(t)
         /\ \A k \in 1..(Len(s) + Len(t)) : (s \o t)[k] = IF k <= Len(s) THEN s[k] ELSE t[k - Len(s)]
  OBVIOUS

(* A reader that takes a character leaves the rest. *)
LEMMA TakeFirst ==
  ASSUME NEW b \in Buffers, NEW i \in Indices, NEW j \in Indices, i # j
  PROVE  /\ Plus(i, 1) \in Indices /\ (j - Plus(i, 1)) % Wrap = ((j - i) % Wrap) - 1
         /\ Between(b, i, j) # <<>> /\ Between(b, Plus(i, 1), j) = Tail(Between(b, i, j))
<1> DEFINE h == Plus(i, 1)
           s == Between(b, i, j)
           t == Between(b, h, j)
           l == (j - i) % Wrap
           m == (j - h) % Wrap
<1>0. Wrap \in Nat \ {0} /\ i \in 0..(Wrap - 1) /\ j \in 0..(Wrap - 1) /\ i \in Int /\ 1 \in Int /\ -Wrap <= 1 /\ 1 <= Wrap
  BY Constants DEF Indices
<1>1. h \in Indices /\ h = IF i + 1 < Wrap THEN i + 1 ELSE i + 1 - Wrap
  <2>1. h = IF i + 1 < 0 THEN i + 1 + Wrap ELSE IF i + 1 < Wrap THEN i + 1 ELSE i + 1 - Wrap
    BY <1>0, PlusIs, Zenon
  <2> QED BY <1>0, <2>1, PlusIs
<1>2. l \in Nat /\ l > 0 /\ m = l - 1
  <2>1. l = (IF i <= j THEN j - i ELSE j - i + Wrap) /\ m = IF h <= j THEN j - h ELSE j - h + Wrap
    BY <1>1, Distance, Zenon
  <2> HIDE DEF h, l, m
  <2> QED BY <1>0, <1>1, <2>1
<1>3. s \in Seq(Keys \cup {None}) /\ Len(s) = l /\ \A k \in 1..l : s[k] = Slot(b, i + k - 1)
  BY BetweenIs, Zenon
<1>4. t \in Seq(Keys \cup {None}) /\ Len(t) = m /\ \A k \in 1..m : t[k] = Slot(b, h + k - 1)
  BY <1>1, <1>2, BetweenIs, Zenon
<1>5. ASSUME NEW k \in 1..(l - 1) PROVE Slot(b, h + k - 1) = Slot(b, i + k)
  <2>1. i + k \in Int /\ h + k - 1 \in Int
    BY <1>1, <1>2 DEF Indices
  <2>2. (h + k - 1) % Wrap = (i + k) % Wrap
    BY <1>1, <1>2, Constants DEF Indices
  <2> QED BY <2>1, <2>2, SlotIs, Zenon DEF Slot
<1> HIDE DEF h, s, t, l, m
<1>6. s # <<>> /\ Tail(s) \in Seq(Keys \cup {None}) /\ Len(Tail(s)) = l - 1 /\ \A k \in 1..(l - 1) : Tail(s)[k] = s[k + 1]
  BY <1>2, <1>3
<1>7. \A k \in 1..(l - 1) : t[k] = Tail(s)[k]
  <2> SUFFICES ASSUME NEW k \in 1..(l - 1) PROVE t[k] = Tail(s)[k]
    BY Zenon
  <2>1. k + 1 \in 1..l /\ i + (k + 1) - 1 = i + k
    BY <1>2 DEF Indices
  <2> QED BY <1>2, <1>3, <1>4, <1>5, <1>6, <2>1, Zenon
<1>8. t = Tail(s)
  BY <1>2, <1>4, <1>6, <1>7, SameElements, Zenon
<1> QED BY <1>1, <1>2, <1>6, <1>8, Zenon DEF h, s, t, l, m

(* ^H removes the last character. *)
LEMMA DropLast ==
  ASSUME NEW b \in Buffers, NEW i \in Indices, NEW j \in Indices, i # j
  PROVE  /\ Plus(j, -1) \in Indices /\ (Plus(j, -1) - i) % Wrap = ((j - i) % Wrap) - 1
         /\ Between(b, i, j) # <<>>
         /\ Between(b, i, Plus(j, -1)) = SubSeq(Between(b, i, j), 1, Len(Between(b, i, j)) - 1)
<1> DEFINE h == Plus(j, -1)
           s == Between(b, i, j)
           t == Between(b, i, h)
           l == (j - i) % Wrap
           m == (h - i) % Wrap
<1>0. Wrap \in Nat \ {0} /\ i \in 0..(Wrap - 1) /\ j \in 0..(Wrap - 1) /\ -1 \in Int /\ -Wrap <= -1 /\ -1 <= Wrap
  BY Constants DEF Indices
<1>1. h \in Indices /\ h = IF j + -1 < 0 THEN j + -1 + Wrap ELSE j + -1
  <2>1. h = IF j + -1 < 0 THEN j + -1 + Wrap ELSE IF j + -1 < Wrap THEN j + -1 ELSE j + -1 - Wrap
    BY <1>0, PlusIs, Zenon
  <2> QED BY <1>0, <2>1, PlusIs
<1>2. l \in Nat /\ l > 0 /\ m = l - 1
  <2>1. l = (IF i <= j THEN j - i ELSE j - i + Wrap) /\ m = IF i <= h THEN h - i ELSE h - i + Wrap
    BY <1>1, Distance, Zenon
  <2> HIDE DEF h, l, m
  <2> QED BY <1>0, <1>1, <2>1
<1>3. s \in Seq(Keys \cup {None}) /\ Len(s) = l /\ \A k \in 1..l : s[k] = Slot(b, i + k - 1)
  BY BetweenIs, Zenon
<1>4. t \in Seq(Keys \cup {None}) /\ Len(t) = m /\ \A k \in 1..m : t[k] = Slot(b, i + k - 1)
  BY <1>1, <1>2, BetweenIs, Zenon
<1> HIDE DEF h, s, t, l, m
<1> DEFINE f == SubSeq(s, 1, l - 1)
<1>5. s # <<>> /\ f \in Seq(Keys \cup {None}) /\ Len(f) = l - 1 /\ \A k \in 1..(l - 1) : f[k] = s[k]
  BY <1>2, <1>3
<1> HIDE DEF f
<1>6. \A k \in 1..(l - 1) : t[k] = f[k]
  BY <1>2, <1>3, <1>4, <1>5
<1>7. t = f
  BY <1>2, <1>4, <1>5, <1>6, SameElements, Zenon
<1> QED BY <1>1, <1>2, <1>3, <1>5, <1>7, Zenon DEF h, s, t, l, m, f

(* Going once round leads to the same slot. *)
LEMMA Round ==
  ASSUME NEW a \in Int
  PROVE  (a + Wrap) % INPUT_BUF = a % INPUT_BUF
<1> DEFINE q == a \div Wrap
           x == a % Wrap
<1>0. Wrap \in Nat \ {0}
  BY Constants, Zenon
<1>1. (a + Wrap) % Wrap = a % Wrap
  <2>1. q \in Int /\ x \in 0..(Wrap - 1) /\ a = Wrap * q + x
    BY <1>0, QuotientRemainder, Zenon
  <2> HIDE DEF q, x
  <2>2. q + 1 \in Int /\ a + Wrap = Wrap * (q + 1) + x
    BY <1>0, <2>1
  <2>3. (Wrap * (q + 1) + x) % Wrap = x
    BY <1>0, <2>1, <2>2, RemainderIs, Zenon
  <2> QED BY <2>2, <2>3, Zenon DEF x
<1>2. a + Wrap \in Int
  BY <1>0
<1> QED BY <1>1, <1>2, SlotIs, Zenon

(* So one may as well count from i on. *)
LEMMA Onwards ==
  ASSUME NEW i \in Indices, NEW j \in Indices, NEW a \in Int
  PROVE  (i + ((j - i) % Wrap) + a) % INPUT_BUF = (j + a) % INPUT_BUF
<1> DEFINE l == (j - i) % Wrap
<1>1. i \in Int /\ j \in Int /\ Wrap \in Int /\ j + a \in Int
  BY Constants DEF Indices
<1>2. l = IF i <= j THEN j - i ELSE j - i + Wrap
  BY Distance, Zenon
<1> HIDE DEF l
<1>3. i + l + a = j + a \/ i + l + a = (j + a) + Wrap
  BY <1>1, <1>2
<1> QED BY <1>1, <1>3, Round, Zenon DEF l

Put(b, a, c) == [b EXCEPT ![a % INPUT_BUF] = c]

(* A character that is typed does not change one that is in the ring. *)
LEMMA Untouched ==
  ASSUME NEW b \in Buffers, NEW c \in Keys, NEW i \in Indices, NEW j \in Indices, NEW l \in Indices,
         ((j - i) % Wrap) + ((l - j) % Wrap) < INPUT_BUF
  PROVE  /\ Put(b, l, c) \in Buffers /\ Slot(Put(b, l, c), l) = c
         /\ Between(Put(b, l, c), i, j) = Between(b, i, j)
<1> DEFINE b2 == Put(b, l, c)
           x == (j - i) % Wrap
           y == (l - j) % Wrap
<1>1. b2 \in Buffers
  BY Zenon DEF Buffers, Put
<1>2. i \in Int /\ j \in Int /\ l \in Int /\ INPUT_BUF \in Nat \ {0}
  BY Constants DEF Indices
<1>3. l % INPUT_BUF \in 0..(INPUT_BUF - 1)
  BY <1>2, SlotIs, Zenon
<1>4. Slot(b2, l) = c
  BY <1>3, Zenon DEF Slot, Buffers, Put
<1>5. x \in Nat /\ y \in Nat /\ x + y < INPUT_BUF
  BY Distance, Constants DEF Indices
<1>6. (i + (x + y)) % INPUT_BUF = l % INPUT_BUF
  <2>1. (i + x + y) % INPUT_BUF = (j + y) % INPUT_BUF
    BY <1>5, Onwards
  <2>2. (j + y + 0) % INPUT_BUF = (l + 0) % INPUT_BUF
    BY Onwards
  <2> HIDE DEF x, y
  <2>3. i + x + y = i + (x + y) /\ j + y + 0 = j + y /\ l + 0 = l
    BY <1>2, <1>5
  <2> QED BY <2>1, <2>2, <2>3, Zenon
<1>7. ASSUME NEW k \in 1..x
      PROVE  Slot(b2, i + k - 1) = Slot(b, i + k - 1)
  <2> HIDE DEF x, y
  <2>1. /\ i + k - 1 \in Int /\ i + (x + y) \in Int
        /\ (i + k - 1) - (i + (x + y)) < INPUT_BUF /\ (i + (x + y)) - (i + k - 1) < INPUT_BUF
        /\ i + k - 1 # i + (x + y)
    BY <1>2, <1>5
  <2>2. (i + k - 1) % INPUT_BUF # l % INPUT_BUF
    BY <1>2, <1>6, <2>1, Apart, Zenon
  <2>3. (i + k - 1) % INPUT_BUF \in 0..(INPUT_BUF - 1)
    BY <2>1, SlotIs, Zenon
  <2>4. \A a \in 0..(INPUT_BUF - 1) : a # l % INPUT_BUF => b2[a] = b[a]
    BY Zenon DEF Buffers, Put
  <2> QED BY <2>2, <2>3, <2>4, Zenon DEF Slot
<1> DEFINE s == Between(b, i, j)
           t == Between(b2, i, j)
<1> HIDE DEF b2
<1>8. s \in Seq(Keys \cup {None}) /\ Len(s) = x /\ \A k \in 1..x : s[k] = Slot(b, i + k - 1)
  BY BetweenIs, Zenon
<1>9. t \in Seq(Keys \cup {None}) /\ Len(t) = x /\ \A k \in 1..x : t[k] = Slot(b2, i + k - 1)
  BY <1>1, BetweenIs, Zenon
<1> HIDE DEF s, t, x, y
<1>10. s = t
  BY <1>5, <1>7, <1>8, <1>9, SameElements, Zenon
<1> QED BY <1>1, <1>4, <1>10, Zenon DEF s, t, b2

(* The character after a part of the ring. *)
LEMMA OneMore ==
  ASSUME NEW b \in Buffers, NEW i \in Indices, NEW j \in Indices, (j - i) % Wrap < INPUT_BUF
  PROVE  /\ Plus(j, 1) \in Indices /\ (Plus(j, 1) - i) % Wrap = ((j - i) % Wrap) + 1
         /\ Between(b, i, Plus(j, 1)) = Append(Between(b, i, j), Slot(b, j))
<1> DEFINE h == Plus(j, 1)
           s == Between(b, i, j)
           t == Between(b, i, h)
           l == (j - i) % Wrap
           m == (h - i) % Wrap
<1>0. Wrap \in Nat \ {0} /\ j \in Int /\ i \in Int /\ l \in Nat /\ l < Wrap - 1
  BY Constants, Distance DEF Indices
<1>1. h \in Indices
  BY Advance, Zenon
<1>2. l \in Nat /\ m = l + 1
  BY <1>0, Advance, Zenon
<1>3. s \in Seq(Keys \cup {None}) /\ Len(s) = l /\ \A k \in 1..l : s[k] = Slot(b, i + k - 1)
  BY BetweenIs, Zenon
<1>4. t \in Seq(Keys \cup {None}) /\ Len(t) = m /\ \A k \in 1..m : t[k] = Slot(b, i + k - 1)
  BY <1>1, BetweenIs, Zenon
<1>5. Slot(b, i + l) = Slot(b, j)
  <2>1. (i + l + 0) % INPUT_BUF = (j + 0) % INPUT_BUF
    BY Onwards
  <2> HIDE DEF l
  <2>2. i + l + 0 = i + l /\ j + 0 = j
    BY <1>0, <1>2
  <2> QED BY <2>1, <2>2, Zenon DEF Slot
<1> DEFINE f == Append(s, Slot(b, j))
<1> HIDE DEF h, s, t, l, m
<1>6. t[m] = Slot(b, j)
  BY <1>0, <1>2, <1>4, <1>5
<1>7. Slot(b, j) \in Keys \cup {None}
  BY <1>2, <1>4, <1>6
<1>8. f \in Seq(Keys \cup {None}) /\ Len(f) = l + 1 /\ f[l + 1] = Slot(b, j) /\ \A k \in 1..l : f[k] = s[k]
  BY <1>2, <1>3, <1>7
<1> HIDE DEF f
<1>9. ASSUME NEW k \in 1..m PROVE t[k] = f[k]
  BY <1>2, <1>3, <1>4, <1>6, <1>8
<1>10. t = f
  BY <1>2, <1>4, <1>8, <1>9, SameElements, Zenon
<1> QED BY <1>1, <1>2, <1>10, Zenon DEF h, s, t, l, m, f

(* Two parts of the ring that meet. *)
LEMMA Join ==
  ASSUME NEW b \in Buffers, NEW i \in Indices, NEW j \in Indices, NEW l \in Indices,
         ((j - i) % Wrap) + ((l - j) % Wrap) <= INPUT_BUF
  PROVE  /\ (l - i) % Wrap = ((j - i) % Wrap) + ((l - j) % Wrap)
         /\ Between(b, i, l) = Between(b, i, j) \o Between(b, j, l)
<1> DEFINE x == (j - i) % Wrap
           y == (l - j) % Wrap
           z == (l - i) % Wrap
           s == Between(b, i, j)
           t == Between(b, j, l)
           f == Between(b, i, l)
<1>1. Wrap \in Nat /\ INPUT_BUF < Wrap /\ i \in 0..(Wrap - 1) /\ j \in 0..(Wrap - 1) /\ l \in 0..(Wrap - 1) /\ INPUT_BUF \in Nat
  BY Constants, Zenon DEF Indices
<1>2. /\ x = IF i <= j THEN j - i ELSE j - i + Wrap
      /\ y = IF j <= l THEN l - j ELSE l - j + Wrap
      /\ z = IF i <= l THEN l - i ELSE l - i + Wrap
      /\ x + y <= INPUT_BUF
  BY Distance, Zenon
<1>3. s \in Seq(Keys \cup {None}) /\ Len(s) = x /\ \A k \in 1..x : s[k] = Slot(b, i + k - 1)
  BY BetweenIs, Zenon
<1>4. t \in Seq(Keys \cup {None}) /\ Len(t) = y /\ \A k \in 1..y : t[k] = Slot(b, j + k - 1)
  BY BetweenIs, Zenon
<1>5. f \in Seq(Keys \cup {None}) /\ Len(f) = z /\ \A k \in 1..z : f[k] = Slot(b, i + k - 1)
  BY BetweenIs, Zenon
<1>6. ASSUME NEW k \in Int PROVE Slot(b, i + x + (k - 1)) = Slot(b, j + (k - 1))
  BY Onwards DEF Slot
<1> HIDE DEF x, y, z, s, t, f
<1>7. x \in Nat /\ y \in Nat /\ z = x + y
  BY <1>1, <1>2
<1> DEFINE g == s \o t
<1>8. g \in Seq(Keys \cup {None}) /\ Len(g) = z /\ \A k \in 1..z : g[k] = IF k <= x THEN s[k] ELSE t[k - x]
  <2>1. /\ g \in Seq(Keys \cup {None}) /\ Len(g) = Len(s) + Len(t)
        /\ \A k \in 1..(Len(s) + Len(t)) : g[k] = IF k <= Len(s) THEN s[k] ELSE t[k - Len(s)]
    BY <1>3, <1>4, Concatenated, Zenon
  <2> HIDE DEF g
  <2> QED BY <1>3, <1>4, <1>7, <2>1, Zenon
<1> HIDE DEF g
<1>9. ASSUME NEW k \in 1..z PROVE f[k] = g[k]
  <2>1. CASE k <= x
    BY <1>3, <1>5, <1>7, <1>8, <2>1
  <2>2. CASE ~(k <= x)
    <3>1. k - x \in 1..y /\ k - x \in Int
      BY <1>7, <2>2
    <3>2. i + x + ((k - x) - 1) = i + k - 1 /\ j + ((k - x) - 1) = j + (k - x) - 1
      BY <1>1, <1>7
    <3> QED BY <1>4, <1>5, <1>6, <1>8, <2>2, <3>1, <3>2, Zenon
  <2> QED BY <2>1, <2>2, Zenon
<1>10. f = g
  BY <1>5, <1>7, <1>8, <1>9, SameElements, Zenon
<1> QED BY <1>7, <1>10, Zenon DEF x, y, z, s, t, f, g

-----------------------------------------------------------------------------
(* The keys *)

(* Ring() in terms of the buffer, before and after a step. *)
LEMMA RingIs ==
  /\ Ring(r, w) = Between(buf, r, w) /\ Ring(r, w)' = Between(buf', r', w')
  /\ Ring(w, e) = Between(buf, w, e) /\ Ring(w, e)' = Between(buf', w', e')
  BY Zenon DEF Ring, At, Between, Plus

(* The state of the buffer as the proofs use it. *)
Input == buf \in Buffers /\ r \in Indices /\ w \in Indices /\ e \in Indices /\ InOrder /\ Typing

(* What a step does to the buffer is a step of the line discipline, or nothing. *)
InputStep == Input' /\ (Discipline!Next \/ UNCHANGED <<Ring(r, w), Ring(w, e)>>)

(* Before the first key the ring is empty. *)
LEMMA InputInit == DevicesInit => Input /\ Discipline!Init
<1> SUFFICES ASSUME DevicesInit PROVE Input /\ Discipline!Init
  BY Zenon
<1>1. buf \in Buffers /\ r = 0 /\ w = 0 /\ e = 0
  BY Zenon DEF DevicesInit, Buffers
<1>2. 0 \in Indices /\ (0 - 0) % Wrap = 0
  <2>1. 0 \in Indices
    BY Constants DEF Indices
  <2> QED BY <2>1, Distance DEF Indices
<1>3. InOrder
  BY <1>1, <1>2, Constants DEF InOrder
<1>4. Typing
  BY <1>1, <1>2 DEF Typing
<1>5. Between(buf, 0, 0) = <<>>
  <2>1. Between(buf, 0, 0) \in Seq(Keys \cup {None}) /\ Len(Between(buf, 0, 0)) = 0
    BY <1>1, <1>2, BetweenIs, Zenon
  <2> QED BY <2>1
<1>6. Discipline!Init
  BY <1>1, <1>5, RingIs, Zenon DEF Discipline!Init
<1> QED BY <1>1, <1>2, <1>3, <1>4, <1>6, Zenon DEF Input

(* Steps that leave the buffer alone. *)
LEMMA InputSame ==
  ASSUME Input, UNCHANGED input
  PROVE  InputStep
<1>1. UNCHANGED <<buf, r, w, e>>
  BY Zenon DEF input
<1>2. UNCHANGED <<Ring(r, w), Ring(w, e)>>
  BY <1>1, RingIs, Zenon
<1> QED BY <1>1, <1>2, Zenon DEF InputStep, Input, InOrder, Typing, Buffers

(* ^U goes back to w: the line being typed holds no newline. *)
LEMMA KillLineIs ==
  ASSUME Input
  PROVE  KillLine = w
<1> DEFINE l == (e - w) % Wrap
           P(i) == LET back == (e - i) % Wrap
                   IN  /\ back <= (e - w) % Wrap
                       /\ \A k \in 1..back : At(Plus(e, -k)) # NL
                       /\ back = (e - w) % Wrap \/ At(Plus(i, -1)) = NL
<1>0. buf \in Buffers /\ w \in Indices /\ e \in Indices /\ w \in Int /\ e \in Int /\ Wrap \in Nat
  BY Constants DEF Input, Indices
<1>1. l \in Nat /\ l <= INPUT_BUF /\ l < Wrap
  <2>1. l \in 0..(Wrap - 1) /\ (w - r) % Wrap \in 0..(Wrap - 1)
    BY <1>0, BetweenIs, Zenon DEF Input
  <2> QED BY <2>1, Constants DEF Input, InOrder
<1>2. NL \notin Letters
  BY DevicesAssumption, Zenon
<1>3. ASSUME NEW k \in 1..l PROVE At(Plus(e, -k)) # NL
  <2>1. l - k + 1 \in 1..l /\ l - k \in Int /\ -k \in Int /\ e + (-k) \in Int
    BY <1>0, <1>1
  <2>2. At(Plus(e, -k)) = Slot(buf, e + (-k))
    BY <2>1, SlotIs, Zenon DEF At, Plus, Slot
  <2>3. Slot(buf, w + l + (-k)) = Slot(buf, e + (-k))
    BY <1>0, <2>1, Onwards, Zenon DEF Slot
  <2>4. Ring(w, e)[l - k + 1] = Slot(buf, w + (l - k + 1) - 1)
    BY <1>0, <2>1, BetweenIs, RingIs, Zenon
  <2>5. Ring(w, e)[l - k + 1] \in Letters
    BY <2>1, Zenon DEF Input, Typing
  <2> HIDE DEF l
  <2>6. w + (l - k + 1) - 1 = w + l + (-k)
    BY <1>0, <1>1
  <2> QED BY <1>2, <2>2, <2>3, <2>4, <2>5, <2>6, Zenon
<1>4. P(w)
  BY <1>1, <1>3
<1>5. ASSUME NEW i \in 0..(Wrap - 1), P(i) PROVE i = w
  <2> DEFINE d == (e - i) % Wrap
  <2>1. i \in Indices /\ d \in Nat
    BY <1>0, <1>5, Distance DEF Indices
  <2>2. d = IF i <= e THEN e - i ELSE e - i + Wrap
    BY <1>0, <2>1, Distance, Zenon
  <2>3. l = IF w <= e THEN e - w ELSE e - w + Wrap
    BY <1>0, Distance, Zenon
  <2>4. d <= l /\ (d = l \/ At(Plus(i, -1)) = NL)
    BY <1>5, Zenon
  <2> HIDE DEF d, l, P
  <2>5. CASE d < l
    <3>1. d + 1 \in 1..l
      BY <1>1, <2>1, <2>5
    <3>2. Plus(e, -(d + 1)) = Plus(i, -1)
      <4>1. -(d + 1) \in Int /\ -Wrap <= -(d + 1) /\ -(d + 1) <= Wrap /\ -1 \in Int /\ -Wrap <= -1 /\ -1 <= Wrap
        BY <1>0, <1>1, <2>1, <2>5
      <4>2. Plus(e, -(d + 1)) = IF e + -(d + 1) < 0 THEN e + -(d + 1) + Wrap ELSE IF e + -(d + 1) < Wrap THEN e + -(d + 1) ELSE e + -(d + 1) - Wrap
        BY <1>0, <4>1, PlusIs, Zenon
      <4>3. Plus(i, -1) = IF i + -1 < 0 THEN i + -1 + Wrap ELSE IF i + -1 < Wrap THEN i + -1 ELSE i + -1 - Wrap
        BY <2>1, <4>1, PlusIs, Zenon
      <4> QED BY <1>0, <2>1, <2>2, <4>2, <4>3 DEF Indices
    <3>3. At(Plus(e, -(d + 1))) # NL
      BY <1>3, <3>1, Zenon
    <3>4. At(Plus(i, -1)) = NL
      BY <1>1, <2>1, <2>4, <2>5
    <3> QED BY <3>2, <3>3, <3>4, Zenon
  <2>6. CASE d = l
    BY <1>0, <2>1, <2>2, <2>3, <2>6 DEF Indices
  <2> QED BY <1>1, <2>1, <2>4, <2>5, <2>6
<1>6. KillLine = CHOOSE i \in 0..(Wrap - 1) : P(i)
  BY Zenon DEF KillLine
<1>7. w \in 0..(Wrap - 1)
  BY <1>0, Zenon DEF Indices
<1> HIDE DEF P
<1> QED BY <1>4, <1>5, <1>6, <1>7, Zenon

(* Nothing is between an index and itself. *)
LEMMA Nothing ==
  ASSUME NEW b \in Buffers, NEW i \in Indices
  PROVE  (i - i) % Wrap = 0 /\ Between(b, i, i) = <<>>
<1>1. (i - i) % Wrap = 0
  BY Distance DEF Indices
<1>2. Between(b, i, i) \in Seq(Keys \cup {None}) /\ Len(Between(b, i, i)) = 0
  BY <1>1, BetweenIs, Zenon
<1> QED BY <1>1, <1>2

(* ^U *)
LEMMA EraseLineStep ==
  ASSUME Input, e' = KillLine, UNCHANGED <<buf, r, w>>
  PROVE  InputStep
<1>1. buf \in Buffers /\ r \in Indices /\ w \in Indices /\ e' = w /\ buf' = buf /\ r' = r /\ w' = w
  BY KillLineIs, Zenon DEF Input
<1>2. (w - w) % Wrap = 0 /\ Between(buf, w, w) = <<>>
  BY <1>1, Nothing, Zenon
<1>3. InOrder'
  <2>1. (w - r) % Wrap \in Nat /\ (e - w) % Wrap \in Nat
    BY <1>1, BetweenIs DEF Input
  <2> QED BY <1>1, <1>2, <2>1, Constants DEF Input, InOrder
<1>4. Typing'
  BY <1>1, <1>2 DEF Typing
<1>5. Discipline!EraseLine
  BY <1>1, <1>2, RingIs, Zenon DEF Discipline!EraseLine
<1>6. Discipline!Next
  BY <1>5, Zenon DEF Discipline!Next
<1>7. Input'
  BY <1>1, <1>3, <1>4, Zenon DEF Input, Buffers, Indices
<1> QED BY <1>6, <1>7, Zenon DEF InputStep

(* ^H *)
LEMMA EraseStep ==
  ASSUME Input, e' = (IF e = w THEN e ELSE Plus(e, -1)), UNCHANGED <<buf, r, w>>
  PROVE  InputStep
<1>1. CASE e = w
  BY <1>1, InputSame, Zenon DEF input
<1>2. CASE e # w
  <2>1. buf \in Buffers /\ r \in Indices /\ w \in Indices /\ e \in Indices /\ buf' = buf /\ r' = r /\ w' = w /\ e' = Plus(e, -1)
    BY <1>2, Zenon DEF Input
  <2>2. /\ e' \in Indices /\ (e' - w) % Wrap = ((e - w) % Wrap) - 1
        /\ Between(buf, w, e) # <<>>
        /\ Between(buf, w, e') = SubSeq(Between(buf, w, e), 1, Len(Between(buf, w, e)) - 1)
    <3> DEFINE j == Plus(e, -1)
    <3>1. /\ j \in Indices /\ (j - w) % Wrap = ((e - w) % Wrap) - 1
          /\ Between(buf, w, e) # <<>>
          /\ Between(buf, w, j) = SubSeq(Between(buf, w, e), 1, Len(Between(buf, w, e)) - 1)
      BY <1>2, <2>1, DropLast, Zenon
    <3> QED BY <2>1, <3>1, Zenon
  <2> DEFINE l == (e - w) % Wrap
             s == Between(buf, w, e)
             t == Between(buf, w, e')
             x == (w - r) % Wrap
  <2>3. l \in Nat /\ s \in Seq(Keys \cup {None}) /\ Len(s) = l
    BY <2>1, BetweenIs
  <2>4. x \in Nat /\ x + l <= INPUT_BUF /\ INPUT_BUF \in Nat
    BY <2>1, BetweenIs, Constants DEF Input, InOrder
  <2>5. \A k \in 1..l : s[k] \in Letters
    BY RingIs, Zenon DEF Input, Typing
  <2>6. l - 1 \in Nat /\ t \in Seq(Keys \cup {None}) /\ Len(t) = l - 1
    <3>1. (e' - w) % Wrap \in Nat /\ t \in Seq(Keys \cup {None}) /\ Len(t) = (e' - w) % Wrap
      BY <2>1, <2>2, BetweenIs
    <3> QED BY <2>2, <3>1, Zenon
  <2>7. t = SubSeq(s, 1, l - 1)
    BY <2>2, <2>3, Zenon
  <2> HIDE DEF s, t
  <2>8. \A k \in 1..(l - 1) : t[k] = s[k]
    <3> HIDE DEF l
    <3> QED BY <2>3, <2>6, <2>7
  <2>9. \A k \in 1..(l - 1) : t[k] \in Letters
    <3> HIDE DEF l
    <3> QED BY <2>3, <2>5, <2>8
  <2>10. Typing'
    BY <2>1, <2>2, <2>9, RingIs, Zenon DEF Typing, t
  <2>11. InOrder'
    <3>1. ((w' - r') % Wrap) = x /\ ((e' - w') % Wrap) = l - 1
      BY <2>1, <2>2, Zenon
    <3> HIDE DEF l, x
    <3> QED BY <2>3, <2>4, <3>1 DEF InOrder
  <2>12. Input'
    BY <2>1, <2>2, <2>10, <2>11, Zenon DEF Input, Buffers, Indices
  <2>13. Discipline!Erase
    BY <2>1, <2>2, RingIs, Zenon DEF Discipline!Erase
  <2> QED BY <2>12, <2>13, Zenon DEF InputStep, Discipline!Next
<1> QED BY <1>1, <1>2, Zenon

(* A reader takes a character. *)
LEMMA TakeCharStep ==
  ASSUME Input, r # w, r' = Plus(r, 1), UNCHANGED <<buf, w, e>>
  PROVE  InputStep
<1>1. buf \in Buffers /\ r \in Indices /\ w \in Indices /\ e \in Indices /\ buf' = buf /\ w' = w /\ e' = e
  BY Zenon DEF Input
<1>2. /\ r' \in Indices /\ (w - r') % Wrap = ((w - r) % Wrap) - 1
      /\ Between(buf, r, w) # <<>> /\ Between(buf, r', w) = Tail(Between(buf, r, w))
  <2> DEFINE j == Plus(r, 1)
  <2>1. /\ j \in Indices /\ (w - j) % Wrap = ((w - r) % Wrap) - 1
        /\ Between(buf, r, w) # <<>> /\ Between(buf, j, w) = Tail(Between(buf, r, w))
    BY <1>1, TakeFirst, Zenon
  <2> QED BY <2>1, Zenon
<1>3. Typing'
  BY <1>1, RingIs, Zenon DEF Input, Typing
<1>4. InOrder'
  <2> DEFINE l == (e - w) % Wrap
             x == (w - r) % Wrap
  <2>1. x \in Nat /\ l \in Nat /\ x + l <= INPUT_BUF /\ INPUT_BUF \in Nat
    BY <1>1, BetweenIs, Constants DEF Input, InOrder
  <2>2. (w' - r') % Wrap = x - 1 /\ (e' - w') % Wrap = l
    BY <1>1, <1>2, Zenon
  <2> HIDE DEF l, x
  <2> QED BY <2>1, <2>2 DEF InOrder
<1>5. Input'
  BY <1>1, <1>2, <1>3, <1>4, Zenon DEF Input, Buffers, Indices
<1>6. Discipline!Take
  BY <1>1, <1>2, RingIs, Zenon DEF Discipline!Take
<1> QED BY <1>5, <1>6, Zenon DEF InputStep, Discipline!Next

(* How full the ring is, and when the next character fills it. *)
LEMMA Fullness ==
  ASSUME Input
  PROVE  LET x == (w - r) % Wrap  l == (e - w) % Wrap IN
         /\ x \in Nat /\ l \in Nat /\ x + l <= INPUT_BUF /\ (e - r) % Wrap = x + l
         /\ x + l < INPUT_BUF => (Plus(e, 1) = Plus(r, INPUT_BUF) <=> x + l + 1 = INPUT_BUF)
<1> DEFINE x == (w - r) % Wrap
           l == (e - w) % Wrap
           z == (e - r) % Wrap
<1>1. buf \in Buffers /\ r \in Indices /\ w \in Indices /\ e \in Indices
  BY Zenon DEF Input
<1>2. x \in Nat /\ l \in Nat /\ x + l <= INPUT_BUF
  BY <1>1, BetweenIs DEF Input, InOrder
<1>3. z = x + l
  BY <1>1, <1>2, Join, Zenon
<1>4. ASSUME x + l < INPUT_BUF PROVE Plus(e, 1) = Plus(r, INPUT_BUF) <=> x + l + 1 = INPUT_BUF
  <2>1. /\ Wrap \in Nat \ {0} /\ INPUT_BUF \in Nat \ {0} /\ INPUT_BUF < Wrap
        /\ r \in 0..(Wrap - 1) /\ e \in 0..(Wrap - 1)
    BY <1>1, Constants, Zenon DEF Indices
  <2>2. z = IF r <= e THEN e - r ELSE e - r + Wrap
    BY <1>1, Distance, Zenon
  <2>3. Plus(e, 1) = IF e + 1 < 0 THEN e + 1 + Wrap ELSE IF e + 1 < Wrap THEN e + 1 ELSE e + 1 - Wrap
    <3>1. 1 \in Int /\ -Wrap <= 1 /\ 1 <= Wrap
      BY <2>1
    <3> QED BY <1>1, <3>1, PlusIs, Zenon
  <2>4. Plus(r, INPUT_BUF) = IF r + INPUT_BUF < 0 THEN r + INPUT_BUF + Wrap
                             ELSE IF r + INPUT_BUF < Wrap THEN r + INPUT_BUF ELSE r + INPUT_BUF - Wrap
    <3>1. INPUT_BUF \in Int /\ -Wrap <= INPUT_BUF /\ INPUT_BUF <= Wrap
      BY <2>1
    <3> QED BY <1>1, <3>1, PlusIs, Zenon
  <2> HIDE DEF x, l, z
  <2> QED BY <1>2, <1>3, <1>4, <2>1, <2>2, <2>3, <2>4
<1> QED BY <1>2, <1>3, <1>4, Zenon

(* A character is typed. *)
LEMMA TypeStep ==
  ASSUME Input, NEW c \in Keys, Fits(c),
         buf' = [buf EXCEPT ![e % INPUT_BUF] = c], e' = Plus(e, 1), r' = r,
         w' = IF EndsLine(c) THEN e' ELSE w
  PROVE  InputStep
<1> DEFINE x == (w - r) % Wrap
           l == (e - w) % Wrap
           j == Plus(e, 1)
           b2 == Put(buf, e, c)
           q == Between(buf, r, w)
           s == Between(buf, w, e)
           a == Append(s, c)
<1>1. buf \in Buffers /\ r \in Indices /\ w \in Indices /\ e \in Indices /\ e \in Int /\ INPUT_BUF \in Nat /\ c \in Keys /\ buf' = b2 /\ e' = j
  BY Constants DEF Input, Indices, Put
<1>2. x \in Nat /\ l \in Nat /\ x + l < INPUT_BUF /\ (EndsLine(c) <=> c \in {NL, EOF} \/ x + l + 1 = INPUT_BUF)
  BY Fullness, Zenon DEF Fits, EndsLine
<1>3. b2 \in Buffers /\ Slot(b2, e) = c /\ Between(b2, r, w) = q
  <2>1. ((w - r) % Wrap) + ((e - w) % Wrap) < INPUT_BUF
    BY <1>2, Zenon
  <2> QED BY ONLY <1>1, <2>1, Untouched, Zenon
<1>4. Between(b2, w, e) = s
  <2>1. (e - e) % Wrap = 0
    BY <1>1, Nothing, Zenon
  <2>2. ((e - w) % Wrap) + ((e - e) % Wrap) < INPUT_BUF
    <3> HIDE DEF x, l
    <3>1. l + 0 < INPUT_BUF
      BY <1>1, <1>2
    <3> QED BY <2>1, <3>1, Zenon DEF l
  <2> QED BY ONLY <1>1, <2>2, Untouched, Zenon
<1>5. j \in Indices /\ (j - w) % Wrap = l + 1 /\ Between(b2, w, j) = a
  <2>1. (e - w) % Wrap < INPUT_BUF
    <3> HIDE DEF x, l
    <3>1. l < INPUT_BUF
      BY <1>1, <1>2
    <3> QED BY <3>1, Zenon DEF l
  <2>2. j \in Indices /\ (j - w) % Wrap = l + 1 /\ Between(b2, w, j) = Append(Between(b2, w, e), Slot(b2, e))
    BY <1>1, <1>3, <2>1, OneMore, Zenon
  <2> QED BY <1>3, <1>4, <2>2, Zenon
<1>6. q \in Seq(Keys \cup {None}) /\ Len(q) = x /\ s \in Seq(Keys \cup {None}) /\ Len(s) = l
  BY <1>1, BetweenIs, Zenon
<1>7. a \in Seq(Keys \cup {None}) /\ Len(a) = l + 1 /\ a[l + 1] = c /\ \A k \in 1..l : a[k] = s[k]
  <2> HIDE DEF s, l
  <2> QED BY <1>2, <1>6
<1>8. \A k \in 1..l : s[k] \in Letters
  BY RingIs, Zenon DEF Input, Typing
<1>9. Ring(r, w) = q /\ Ring(w, e) = s /\ Ring(r, w)' = Between(b2, r, w') /\ Ring(w, e)' = Between(b2, w', j)
  BY <1>1, RingIs, Zenon
<1> HIDE DEF b2, q, s, a, j
<1>10. CASE EndsLine(c)
  <2>1. w' = j
    BY <1>1, <1>10, Zenon
  <2>2. (j - j) % Wrap = 0 /\ Between(b2, j, j) = <<>>
    BY <1>3, <1>5, Nothing, Zenon
  <2>3. ((w - r) % Wrap) + ((j - w) % Wrap) <= INPUT_BUF
    <3> HIDE DEF x, l
    <3>1. x + (l + 1) <= INPUT_BUF
      BY <1>1, <1>2
    <3> QED BY <1>5, <3>1, Zenon DEF x
  <2>4. (j - r) % Wrap = x + (l + 1) /\ Between(b2, r, j) = q \o a
    <3>1. /\ (j - r) % Wrap = ((w - r) % Wrap) + ((j - w) % Wrap)
          /\ Between(b2, r, j) = Between(b2, r, w) \o Between(b2, w, j)
      BY <1>1, <1>3, <1>5, <2>3, Join, Zenon
    <3> QED BY <1>3, <1>5, <3>1, Zenon
  <2>5. InOrder'
    <3>1. (w' - r') % Wrap = x + (l + 1) /\ (e' - w') % Wrap = 0
      BY <1>1, <2>1, <2>2, <2>4, Zenon
    <3> HIDE DEF x, l
    <3> QED BY <1>1, <1>2, <3>1 DEF InOrder
  <2>6. Typing'
    <3>1. (e' - w') % Wrap = 0
      BY <1>1, <2>1, <2>2, Zenon
    <3> QED BY <3>1 DEF Typing
  <2>7. Input'
    BY <1>1, <1>3, <1>5, <2>1, <2>5, <2>6, Zenon DEF Input, Buffers, Indices
  <2>8. Discipline!Type(c)
    <3>1. Len(q) + Len(s) < INPUT_BUF /\ (c \in {NL, EOF} \/ Len(q) + Len(a) = INPUT_BUF)
      <4> HIDE DEF x, l
      <4> QED BY <1>1, <1>2, <1>6, <1>7, <1>10
    <3>2. Ring(r, w)' = q \o a /\ Ring(w, e)' = <<>>
      BY <1>9, <2>1, <2>2, <2>4, Zenon
    <3> QED BY <1>9, <3>1, <3>2, Zenon DEF Discipline!Type, a
  <2> QED BY <2>7, <2>8, Zenon DEF InputStep, Discipline!Next, Keys
<1>11. CASE ~EndsLine(c)
  <2>1. w' = w /\ c \in Letters
    BY <1>2, <1>11, Zenon DEF Keys
  <2>2. InOrder'
    <3>1. (w' - r') % Wrap = x /\ (e' - w') % Wrap = l + 1
      BY <1>1, <1>5, <2>1, Zenon
    <3> HIDE DEF x, l
    <3> QED BY <1>1, <1>2, <3>1 DEF InOrder
  <2>3. \A k \in 1..(l + 1) : a[k] \in Letters
    <3> HIDE DEF l
    <3> QED BY <1>2, <1>7, <1>8, <2>1
  <2>4. Typing'
    BY <1>1, <1>5, <1>9, <2>1, <2>3, Zenon DEF Typing
  <2>5. Input'
    BY <1>1, <1>3, <1>5, <2>1, <2>2, <2>4, Zenon DEF Input, Buffers, Indices
  <2>6. Discipline!Type(c)
    <3>1. Len(q) + Len(s) < INPUT_BUF /\ ~(c \in {NL, EOF} \/ Len(q) + Len(a) = INPUT_BUF)
      <4> HIDE DEF x, l
      <4> QED BY <1>1, <1>2, <1>6, <1>7, <1>11
    <3>2. Ring(r, w)' = q /\ Ring(w, e)' = a
      BY <1>3, <1>5, <1>9, <2>1, Zenon
    <3> QED BY <1>9, <3>1, <3>2, Zenon DEF Discipline!Type, a
  <2> QED BY <2>5, <2>6, Zenon DEF InputStep, Discipline!Next, Keys
<1> QED BY <1>10, <1>11, Zenon

(* consoleintr() *)
LEMMA ConsoleintrStep ==
  ASSUME Input, NEW c \in Letters \cup {NL, EOF, "^U", "^H", "^P"}, Consoleintr(c)
  PROVE  InputStep
<1>1. CASE UNCHANGED input
  BY <1>1, InputSame, Zenon
<1>2. CASE e' = KillLine /\ UNCHANGED <<buf, r, w>>
  BY <1>2, EraseLineStep, Zenon
<1>3. CASE e' = (IF e = w THEN e ELSE Plus(e, -1)) /\ UNCHANGED <<buf, r, w>>
  BY <1>3, EraseStep, Zenon
<1>4. CASE /\ c \in Keys /\ Fits(c) /\ buf' = [buf EXCEPT ![e % INPUT_BUF] = c] /\ e' = Plus(e, 1) /\ r' = r
           /\ IF EndsLine(c) THEN w' = e' ELSE w' = w
  BY <1>4, TypeStep, Zenon
<1> QED BY <1>1, <1>2, <1>3, <1>4, Zenon DEF Consoleintr, Keys

(* Every step does to the ring what the line discipline allows. *)
LEMMA NextInput == Input /\ [DevicesNext]_deviceVars => InputStep
<1> SUFFICES ASSUME Input, [DevicesNext]_deviceVars PROVE InputStep
  BY Zenon
<1>1. CASE UNCHANGED deviceVars
  BY <1>1, InputSame, Zenon DEF deviceVars, input
<1>2. CASE Tick
  BY <1>2, InputSame, Zenon DEF Tick
<1>3. ASSUME NEW c \in Letters \cup {NL, EOF, "^U", "^H", "^P"}, Consoleintr(c) PROVE InputStep
  BY <1>3, ConsoleintrStep, Zenon
<1>4. ASSUME NEW p \in Procs, Kernel(p) PROVE InputStep
  <2>1. CASE ReadChar(p)
    <3>1. CASE r' = r /\ UNCHANGED <<buf, w, e>>
      BY <3>1, InputSame, Zenon DEF input
    <3>2. CASE r # w /\ r' = Plus(r, 1) /\ UNCHANGED <<buf, w, e>>
      BY <3>2, TakeCharStep, Zenon
    <3> QED BY <2>1, <3>1, <3>2, Zenon DEF ReadChar, AfterEOF
  <2>2. CASE ReadEnds(p) \/ ReadWaits(p) \/ NapEnds(p) \/ NapWaits(p) \/ Sleep(p) \/ Resume(p) \/ Exit(p)
    <3>1. UNCHANGED input
      BY <2>2, Zenon DEF ReadEnds, ReadWaits, NapEnds, NapWaits, Sleep, Resume, Exit
    <3> QED BY <3>1, InputSame, Zenon
  <2> QED BY <1>4, <2>1, <2>2, Zenon DEF Kernel
<1>5. ASSUME NEW p \in Procs, KillOne(p) \/ (\E size \in ReadSizes : Consoleread(p, size)) \/ (\E delay \in Delays : SysSleep(p, delay))
      PROVE InputStep
  <2>1. UNCHANGED input
    BY <1>5, Zenon DEF KillOne, Consoleread, SysSleep
  <2> QED BY <2>1, InputSame, Zenon
<1> QED BY <1>1, <1>2, <1>3, <1>4, <1>5, Zenon DEF DevicesNext

-----------------------------------------------------------------------------
(* The processes and the clock *)

DevicePlaces == {"user", "gone"} \cup {"read", "read_sleep", "read_woken"} \cup {"nap", "nap_sleep", "nap_woken"}

(* The types of what is not in the buffer. *)
Types ==
  /\ cons \in Procs \cup {None} /\ tickslock \in Procs \cup {None} /\ ticks \in Indices
  /\ pc \in [Procs -> DevicePlaces] /\ asleep \in [Procs -> {None, "input", "ticks"}] /\ killed \in [Procs -> BOOLEAN]
  /\ n \in [Procs -> Int] /\ target \in [Procs -> Nat] /\ ticks0 \in [Procs -> Indices]
  /\ slept \in [Procs -> Nat]

(* DevicesIInv is about the buffer and about the rest. *)
LEMMA IInvIs == (DevicesIInv <=> Input /\ Types /\ Elapsed) /\ (DevicesIInv' <=> Input' /\ Types' /\ Elapsed')
  BY Zenon DEF DevicesIInv, DevicesTypeOK, Input, Types, Buffers, DevicePlaces

(* The rest, before the first step. *)
LEMMA InitTypes == DevicesInit => Types /\ Elapsed
<1> SUFFICES ASSUME DevicesInit PROVE Types /\ Elapsed
  BY Zenon
<1>1. 0 \in Indices
  BY Constants DEF Indices
<1>2. Types
  BY <1>1 DEF DevicesInit, Types, DevicePlaces
<1>3. Elapsed
  BY Zenon DEF DevicesInit, Elapsed, Counted, Napping
<1> QED BY <1>2, <1>3, Zenon

(* Where a process is decides whether its sleep is timed. *)
LEMMA CountedSame ==
  ASSUME NEW p \in Procs, Counted(p), ticks' = ticks, ticks0'[p] = ticks0[p], slept'[p] = slept[p],
         Napping(p)' <=> Napping(p), Napping(p) => n'[p] = n[p]
  PROVE  Counted(p)'
<1>1. CASE Napping(p)
  BY <1>1, Zenon DEF Counted
<1>2. CASE ~Napping(p)
  BY <1>2, Zenon DEF Counted
<1> QED BY <1>1, <1>2, Zenon

(* The same for all. *)
LEMMA ElapsedSame ==
  ASSUME Elapsed, UNCHANGED <<ticks, ticks0, slept>>,
         \A p \in Procs : (Napping(p)' <=> Napping(p)) /\ (Napping(p) => n'[p] = n[p])
  PROVE  Elapsed'
<1>1. ASSUME NEW p \in Procs PROVE Counted(p)'
  <2>1. Counted(p) /\ ticks' = ticks /\ ticks0'[p] = ticks0[p] /\ slept'[p] = slept[p]
    BY Zenon DEF Elapsed
  <2> QED BY <2>1, CountedSame, Zenon
<1> QED BY <1>1, Zenon DEF Elapsed

(* Keys do not touch the rest, except that they wake readers. *)
LEMMA ConsoleintrTypes ==
  ASSUME Types, Elapsed, NEW c, Consoleintr(c)
  PROVE  Types' /\ Elapsed'
<1>1. UNCHANGED <<cons, tickslock, ticks, slept, pc, n, target, ticks0, killed>>
  BY Zenon DEF Consoleintr, clock, locals
<1>2. asleep' = asleep \/ asleep' = [p \in Procs |-> IF asleep[p] = "input" THEN None ELSE asleep[p]]
  BY Zenon DEF Consoleintr, Wakeup
<1>3. Types'
  BY <1>1, <1>2, Zenon DEF Types
<1>4. \A p \in Procs : (Napping(p)' <=> Napping(p)) /\ n'[p] = n[p]
  BY <1>1, Zenon DEF Napping
<1> QED BY <1>1, <1>3, <1>4, ElapsedSame, Zenon

(* The timer: until a sleeper has waited long enough, which is less than a   *)
(* round, one more tick is one more in the difference.                       *)
LEMMA TickTypes ==
  ASSUME Types, Elapsed, Tick
  PROVE  Types' /\ Elapsed'
<1>1. /\ UNCHANGED <<cons, tickslock, pc, n, target, ticks0, killed>>
      /\ ticks' = Plus(ticks, 1) /\ ticks \in Indices /\ ticks0 \in [Procs -> Indices]
  BY Zenon DEF Tick, locals, Types
<1>2. ticks' \in Indices
  <2>1. Plus(ticks, 1) \in Indices
    BY <1>1, Advance, Zenon
  <2> QED BY <1>1, <2>1, Zenon
<1>3. /\ slept' \in [Procs -> Nat] /\ slept \in [Procs -> Nat] /\ n \in [Procs -> Int]
      /\ \A p \in Procs : slept'[p] = IF Napping(p) /\ slept[p] < n[p] % Wrap THEN slept[p] + 1 ELSE slept[p]
  BY DEF Tick, Types
<1>4. Types'
  BY <1>1, <1>2, <1>3, Zenon DEF Types, Tick, Wakeup
<1>5. \A p \in Procs : Napping(p)' <=> Napping(p)
  BY <1>1, Zenon DEF Napping
<1>6. ASSUME NEW p \in Procs PROVE Counted(p)'
  <2>1. n'[p] = n[p] /\ ticks0'[p] = ticks0[p] /\ slept[p] \in Nat /\ ticks0[p] \in Indices /\ n[p] \in Int /\ Counted(p)
    BY <1>1, <1>3, Zenon DEF Elapsed
  <2>2. CASE ~Napping(p)
    BY <1>3, <1>5, <2>1, <2>2, Zenon DEF Counted
  <2>3. CASE Napping(p) /\ slept[p] >= n[p] % Wrap
    <3>1. n[p] % Wrap \in 0..(Wrap - 1) /\ Wrap \in Nat \ {0}
      BY <2>1, Constants, QuotientRemainder, Zenon
    <3>2. ~(slept[p] < n[p] % Wrap)
      BY <2>1, <2>3, <3>1
    <3>3. slept'[p] = slept[p]
      BY <1>3, <3>2, Zenon
    <3> QED BY <1>5, <2>1, <2>3, <3>3, Zenon DEF Counted
  <2>4. CASE Napping(p) /\ ~(slept[p] >= n[p] % Wrap)
    <3>1. slept[p] = (ticks - ticks0[p]) % Wrap
      BY <2>1, <2>4, Zenon DEF Counted
    <3>2. n[p] % Wrap \in 0..(Wrap - 1) /\ Wrap \in Nat \ {0}
      BY <2>1, Constants, QuotientRemainder, Zenon
    <3>3. slept[p] < n[p] % Wrap /\ slept[p] < Wrap - 1
      BY <2>1, <2>4, <3>2
    <3>4. slept'[p] = slept[p] + 1
      BY <1>3, <2>4, <3>3, Zenon
    <3>5. (Plus(ticks, 1) - ticks0[p]) % Wrap = ((ticks - ticks0[p]) % Wrap) + 1
      BY <1>1, <2>1, <3>1, <3>3, Advance, Zenon
    <3>6. slept'[p] = (ticks' - ticks0'[p]) % Wrap
      BY <1>1, <2>1, <3>1, <3>4, <3>5, Zenon
    <3> QED BY <1>5, <2>1, <2>4, <3>6, Zenon DEF Counted
  <2> QED BY <2>2, <2>3, <2>4, Zenon
<1> QED BY <1>4, <1>6, Zenon DEF Elapsed

(* The steps of read(), kill() and exit(), and those between sleep() and the *)
(* next test of the clock, time nobody's sleep anew.                         *)
LEMMA ProcessTypes ==
  ASSUME Types, Elapsed, NEW p \in Procs,
         \/ ReadEnds(p) \/ ReadWaits(p) \/ ReadChar(p) \/ NapWaits(p) \/ Sleep(p) \/ Resume(p) \/ Exit(p) \/ KillOne(p)
         \/ \E size \in ReadSizes : Consoleread(p, size)
  PROVE  Types' /\ Elapsed'
<1>1. UNCHANGED <<ticks, ticks0, slept>>
  BY Zenon DEF ReadEnds, ReadWaits, ReadChar, NapWaits, Sleep, Resume, Exit, KillOne, Consoleread, clock, locals
<1>2. /\ cons' \in Procs \cup {None} /\ tickslock' \in Procs \cup {None}
      /\ killed' \in [Procs -> BOOLEAN]
  BY Zenon DEF Types, ReadEnds, ReadReturn, ReadWaits, ReadChar, NapWaits, Sleep, Resume, Exit, KillOne, Consoleread
<1>3. asleep' \in [Procs -> {None, "input", "ticks"}]
  BY DEF Types, ReadEnds, ReadWaits, ReadChar, NapWaits, Sleep, Resume, Exit, KillOne, Consoleread, Chan
<1>4. n' \in [Procs -> Int] /\ target' \in [Procs -> Nat]
  <2>1. \A q \in Procs : n[q] \in Int /\ n[q] - 1 \in Int
    BY DEF Types
  <2>2. ReadSizes \subseteq Nat
    BY DevicesAssumption, Zenon
  <2> QED BY <2>1, <2>2 DEF Types, ReadEnds, ReadReturn, ReadWaits, ReadChar, NapWaits, Sleep, Resume, Exit, KillOne, Consoleread, locals
<1>5. /\ pc' \in [Procs -> DevicePlaces] /\ (Napping(p)' <=> Napping(p))
      /\ \A q \in Procs \ {p} : pc'[q] = pc[q]
  <2>1. CASE ReadEnds(p) \/ ReadWaits(p) \/ ReadChar(p) \/ \E size \in ReadSizes : Consoleread(p, size)
    BY <2>1, Zenon DEF Types, DevicePlaces, Napping, ReadEnds, ReadReturn, ReadWaits, ReadChar, Consoleread, Calls, Goto
  <2>2. CASE NapWaits(p) \/ Resume(p) \/ Exit(p)
    BY <2>2, Zenon DEF Types, DevicePlaces, Napping, NapWaits, Resume, Exit, Goto
  <2>3. CASE Sleep(p)
    <3>1. pc[p] \in {"read_sleep", "nap_sleep"}
      BY <2>3, Zenon DEF Sleep, Chan
    <3>2. pc' = [pc EXCEPT ![p] = Woken[pc[p]]]
      BY <2>3, Zenon DEF Sleep, Goto
    <3>3. Woken["read_sleep"] = "read_woken" /\ Woken["nap_sleep"] = "nap_woken"
      BY Zenon DEF Woken
    <3> QED BY <3>1, <3>2, <3>3, Zenon DEF Types, DevicePlaces, Napping
  <2>4. CASE KillOne(p)
    BY <2>4, Zenon DEF Types, DevicePlaces, Napping, KillOne
  <2> QED BY <2>1, <2>2, <2>3, <2>4, Zenon
<1>6. Types'
  BY <1>1, <1>2, <1>3, <1>4, <1>5, Zenon DEF Types
<1>7. \A q \in Procs : Napping(q)' <=> Napping(q)
  BY <1>5, Zenon DEF Napping
<1>8. ASSUME NEW q \in Procs, Napping(q) PROVE n'[q] = n[q]
  <2>1. CASE ReadEnds(p) \/ ReadChar(p) \/ \E size \in ReadSizes : Consoleread(p, size)
    <3>1. ~Napping(p)
      BY <2>1 DEF ReadEnds, ReadChar, Consoleread, Calls, Napping
    <3>2. q # p
      BY <1>8, <3>1, Zenon
    <3> QED BY <2>1, <3>2, Zenon DEF Types, ReadEnds, ReadReturn, ReadChar, Consoleread
  <2>2. CASE ReadWaits(p) \/ NapWaits(p) \/ Sleep(p) \/ Resume(p) \/ Exit(p) \/ KillOne(p)
    BY <2>2, Zenon DEF ReadWaits, NapWaits, Sleep, Resume, Exit, KillOne, locals
  <2> QED BY <2>1, <2>2, Zenon
<1> QED BY <1>1, <1>6, <1>7, <1>8, ElapsedSame, Zenon

(* sys_sleep: its time starts at 0 and ends with it. *)
LEMMA NapTypes ==
  ASSUME Types, Elapsed, NEW p \in Procs, NapEnds(p) \/ \E delay \in Delays : SysSleep(p, delay)
  PROVE  Types' /\ Elapsed'
<1>1. UNCHANGED <<cons, ticks, asleep, target, killed>>
  BY Zenon DEF NapEnds, SysSleep, clock
<1>2. /\ tickslock' \in Procs \cup {None} /\ pc' \in [Procs -> DevicePlaces] /\ ticks0' \in [Procs -> Indices]
      /\ slept' \in [Procs -> Nat]
  <2>1. 0 \in Indices
    BY Constants DEF Indices
  <2> QED BY <2>1 DEF Types, DevicePlaces, NapEnds, SysSleep, Goto, clock
<1>3. n' \in [Procs -> Int]
  <2>1. Delays \subseteq Int
    BY DevicesAssumption, Zenon
  <2> QED BY <2>1 DEF Types, NapEnds, SysSleep
<1>4. Types'
  BY <1>1, <1>2, <1>3, Zenon DEF Types
<1>5. ASSUME NEW q \in Procs \ {p} PROVE Counted(q)'
  <2>1. pc'[q] = pc[q] /\ ticks0'[q] = ticks0[q] /\ slept'[q] = slept[q] /\ n'[q] = n[q]
    BY Zenon DEF Types, NapEnds, SysSleep, Goto, clock
  <2>2. Napping(q)' <=> Napping(q)
    BY <2>1, Zenon DEF Napping
  <2> QED BY <1>1, <2>1, <2>2, CountedSame, Zenon DEF Elapsed
<1>6. CASE NapEnds(p)
  <2>1. ~Napping(p)' /\ slept'[p] = 0
    BY <1>6, Zenon DEF NapEnds, Goto, Napping, Types
  <2>2. Counted(p)'
    BY <2>1, Zenon DEF Counted
  <2> QED BY <1>4, <1>5, <2>2, Zenon DEF Elapsed
<1>7. CASE \E delay \in Delays : SysSleep(p, delay)
  <2>1. ~Napping(p) /\ Napping(p)' /\ slept' = slept /\ ticks0'[p] = ticks /\ ticks' = ticks /\ ticks \in Indices
    BY <1>7, Zenon DEF SysSleep, Calls, Goto, Napping, Types, clock
  <2>2. slept'[p] = 0
    BY <2>1, Zenon DEF Elapsed, Counted
  <2>3. (ticks - ticks) % Wrap = 0
    BY <2>1, Distance DEF Indices
  <2>4. Counted(p)'
    BY <2>1, <2>2, <2>3, Zenon DEF Counted
  <2> QED BY <1>4, <1>5, <2>4, Zenon DEF Elapsed
<1> QED BY <1>6, <1>7, Zenon

-----------------------------------------------------------------------------
(* The theorems *)

(* Every step keeps the invariant. *)
LEMMA DevicesNextIInv == DevicesIInv /\ [DevicesNext]_deviceVars => DevicesIInv'
<1> SUFFICES ASSUME DevicesIInv, [DevicesNext]_deviceVars PROVE DevicesIInv'
  BY Zenon
<1>1. Input /\ Types /\ Elapsed
  BY IInvIs, Zenon
<1>2. Input'
  BY <1>1, NextInput, Zenon DEF InputStep
<1>3. CASE UNCHANGED deviceVars
  <2>1. Types'
    BY <1>1, <1>3, Zenon DEF deviceVars, Types
  <2>2. \A p \in Procs : (Napping(p)' <=> Napping(p)) /\ n'[p] = n[p]
    BY <1>3, Zenon DEF deviceVars, Napping
  <2>3. Elapsed'
    BY <1>1, <1>3, <2>2, ElapsedSame, Zenon DEF deviceVars
  <2> QED BY <1>2, <2>1, <2>3, IInvIs, Zenon
<1>4. CASE Tick
  BY <1>1, <1>2, <1>4, TickTypes, IInvIs, Zenon
<1>5. ASSUME NEW c \in Letters \cup {NL, EOF, "^U", "^H", "^P"}, Consoleintr(c) PROVE DevicesIInv'
  BY <1>1, <1>2, <1>5, ConsoleintrTypes, IInvIs, Zenon
<1>6. ASSUME NEW p \in Procs,
             \/ Kernel(p) \/ KillOne(p) \/ (\E size \in ReadSizes : Consoleread(p, size))
             \/ \E delay \in Delays : SysSleep(p, delay)
      PROVE  DevicesIInv'
  <2>1. CASE NapEnds(p) \/ \E delay \in Delays : SysSleep(p, delay)
    BY <1>1, <1>2, <2>1, NapTypes, IInvIs, Zenon
  <2>2. CASE \/ ReadEnds(p) \/ ReadWaits(p) \/ ReadChar(p) \/ NapWaits(p) \/ Sleep(p) \/ Resume(p) \/ Exit(p) \/ KillOne(p)
             \/ \E size \in ReadSizes : Consoleread(p, size)
    BY <1>1, <1>2, <2>2, ProcessTypes, IInvIs, Zenon
  <2> QED BY <1>6, <2>1, <2>2, Zenon DEF Kernel
<1> QED BY <1>3, <1>4, <1>5, <1>6, Zenon DEF DevicesNext

(* DevicesIInv holds always: r, w and e are in order and not more than INPUT_BUF  *)
(* apart, the line being typed holds nothing that ends a line, and the     *)
(* unsigned difference of two clock readings is the time between them, as  *)
(* long as sys_sleep needs to know it.                                     *)
THEOREM DevicesInductive == DevicesSpec => []DevicesIInv
<1>1. DevicesInit => DevicesIInv
  BY InputInit, InitTypes, IInvIs, Zenon
<1> QED BY <1>1, DevicesNextIInv, PTL DEF DevicesSpec

(* The console keeps what LineDiscipline promises, for every buffer size,  *)
(* any number of readers and all keys (console.c:181-271).                 *)
THEOREM Implements == DevicesSpec => InputDiscipline
<1>1. DevicesInit => Discipline!Init
  BY InputInit, Zenon
<1>2. DevicesIInv /\ [DevicesNext]_deviceVars => [Discipline!Next]_<<Ring(r, w), Ring(w, e)>>
  BY NextInput, IInvIs, Zenon DEF InputStep
<1> QED BY <1>1, <1>2, DevicesInductive, PTL DEF DevicesSpec, InputDiscipline, Discipline!Spec

(* sleep(n) does not return before its time unless the caller was killed   *)
(* (sysproc.c:60-72).                                                      *)
THEOREM LongEnough == DevicesSpec => SleepsLongEnough
<1> DEFINE A == \A p \in Procs : pc[p] = "nap" /\ pc'[p] = "user" /\ ~killed[p] => slept[p] >= n[p] % Wrap
<1>1. ASSUME DevicesIInv, [DevicesNext]_deviceVars, NEW p \in Procs, pc[p] = "nap", pc'[p] = "user", ~killed[p]
      PROVE  slept[p] >= n[p] % Wrap
  <2>1. Types /\ (slept[p] >= n[p] % Wrap \/ slept[p] = (ticks - ticks0[p]) % Wrap)
    BY <1>1, IInvIs, Zenon DEF Elapsed, Counted, Napping
  <2>2. NapEnds(p)
    <3>1. ~(UNCHANGED pc)
      BY <1>1, Zenon
    <3>2. ~Tick /\ ~(\E c : Consoleintr(c)) /\ ~UNCHANGED deviceVars
      BY <3>1, Zenon DEF Tick, Consoleintr, deviceVars
    <3>3. PICK q \in Procs : \/ Kernel(q) \/ KillOne(q)
                             \/ \E size \in ReadSizes : Consoleread(q, size)
                             \/ \E delay \in Delays : SysSleep(q, delay)
      BY <1>1, <3>2, Zenon DEF DevicesNext
    <3>4. q = p
      BY <1>1, <2>1, <3>3, Zenon DEF Types, Kernel, KillOne, Consoleread, SysSleep, ReadEnds, ReadReturn, ReadWaits, ReadChar,
                              NapEnds, NapWaits, Sleep, Resume, Exit, Goto
    <3> QED BY <1>1, <2>1, <3>1, <3>3, <3>4, Zenon DEF Types, Kernel, KillOne, Consoleread, SysSleep, Calls, ReadEnds, ReadWaits, ReadChar,
                              NapWaits, Sleep, Chan, Resume, Exit, Goto
  <2>3. Due(p)
    BY <1>1, <2>2, Zenon DEF NapEnds
  <2> QED BY <2>1, <2>3, Zenon DEF Due
<1>2. DevicesIInv /\ [DevicesNext]_deviceVars => [A]_deviceVars
  BY <1>1, Zenon
<1> QED BY <1>2, DevicesInductive, PTL DEF DevicesSpec, SleepsLongEnough
=============================================================================
