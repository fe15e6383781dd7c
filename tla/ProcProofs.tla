----------------------------- MODULE ProcProofs -----------------------------
(***************************************************************************)
(* The safety invariants of Proc hold for every number of slots and CPUs.  *)
(***************************************************************************)
EXTENDS Proc, WellFoundedInduction, TLAPS

(* A loop over the table that matches anything stops at a slot it matched. *)
LEMMA FirstInSet ==
  ASSUME NEW S, S \subseteq Nat, S # {}
  PROVE  First(S) \in S
<1> DEFINE R == OpToRel(<, Nat)
<1>1. \E q \in S : \A r \in S : ~(<<r, q>> \in R)
  BY NatLessThanWellFounded, WFMin, Zenon
<1>2. PICK q \in S : \A r \in S : ~(<<r, q>> \in R)
  BY <1>1, Zenon
<1>3. \A r \in S : q <= r
  <2> TAKE r \in S
  <2>1. q \in Nat /\ r \in Nat
    BY Zenon
  <2>2. ~(r < q)
    BY <1>2, <2>1, Zenon DEF OpToRel
  <2> QED BY <2>1, <2>2
<1> QED BY <1>3, Zenon DEF First

(* ... and it is a slot of the table. *)
LEMMA FirstSlot ==
  ASSUME NEW S, S \subseteq Slots, S # {}
  PROVE  First(S) \in S /\ First(S) \in Slots
<1>1. S \subseteq Nat
  BY DEF Slots
<1>2. First(S) \in S
  BY <1>1, FirstInSet, Zenon
<1> QED BY <1>2, Zenon

(* Facts about the ranges of slot and CPU numbers. *)
LEMMA Ranges ==
  /\ Slots \subseteq 0..NPROC /\ 0 \in 0..NPROC /\ 0 \notin Slots
  /\ Cpus \subseteq 0..NCPU /\ 0 \in 0..NCPU /\ 0 \notin Cpus
  /\ InitProc \in Slots /\ 1 \in Cpus
  /\ \A x \in 0..NPROC : x # 0 => x \in Slots
BY SizeAssumption DEF Slots, Cpus, InitProc

(* What sched() and the scheduler loop do to the table: at most one        *)
(* RUNNABLE process becomes RUNNING, and it is the one the CPU runs next.  *)
Switched(c, st) ==
  \/ state' = st /\ cpu' = [cpu EXCEPT ![c] = 0]
  \/ \E n \in Slots : /\ st[n] = "RUNNABLE"
                      /\ state' = [st EXCEPT ![n] = "RUNNING"]
                      /\ cpu' = [cpu EXCEPT ![c] = n]

(* sched() on a CPU is such a switch. *)
LEMMA SchedSwitches ==
  ASSUME TypeOK, NEW c \in Cpus, NEW st \in [Slots -> States], Sched(c, st)
  PROVE  /\ Switched(c, st)
         /\ state' \in [Slots -> States]
         /\ cpu' \in [Cpus -> 0..NPROC]
         /\ lock' \in 0..NCPU
<1> DEFINE R == RunnableAfter(st, cpu[c])
<1>1. CASE R = {}
  BY <1>1, Ranges DEF Sched, Switched, TypeOK
<1>2. CASE R # {}
  <2>1. First(R) \in R /\ First(R) \in Slots
    BY <1>2, FirstSlot, Zenon DEF RunnableAfter
  <2>2. st[First(R)] = "RUNNABLE"
    BY <2>1, Zenon DEF RunnableAfter
  <2>3. /\ state' = [st EXCEPT ![First(R)] = "RUNNING"]
        /\ cpu' = [cpu EXCEPT ![c] = First(R)]
        /\ lock' = c
    BY <1>2, Zenon DEF Sched
  <2>4. Switched(c, st)
    BY <2>1, <2>2, <2>3, Zenon DEF Switched
  <2>5. state' \in [Slots -> States]
    BY <2>3, Zenon DEF States
  <2>6. cpu' \in [Cpus -> 0..NPROC] /\ lock' \in 0..NCPU
    BY <2>1, <2>3, Ranges, Zenon DEF TypeOK
  <2> QED BY <2>4, <2>5, <2>6, Zenon
<1> QED BY <1>1, <1>2, Zenon

(* A CPU that gives up its process, in a table where nobody else started   *)
(* or stopped running, keeps "RUNNING" and "on a CPU" in step.             *)
LEMMA SwitchRunning ==
  ASSUME TypeOK, RunningOnOneCpu, NEW c \in Cpus, NEW st \in [Slots -> States],
         Switched(c, st),
         \A q \in Slots : q # cpu[c] => (st[q] = "RUNNING" <=> state[q] = "RUNNING"),
         cpu[c] # 0 => st[cpu[c]] # "RUNNING"
  PROVE  RunningOnOneCpu'
<1>1. CASE state' = st /\ cpu' = [cpu EXCEPT ![c] = 0]
  BY <1>1, Ranges DEF RunningOnOneCpu, TypeOK
<1>2. CASE \E n \in Slots : /\ st[n] = "RUNNABLE"
                            /\ state' = [st EXCEPT ![n] = "RUNNING"]
                            /\ cpu' = [cpu EXCEPT ![c] = n]
  <2>1. PICK n \in Slots : /\ st[n] = "RUNNABLE"
                           /\ state' = [st EXCEPT ![n] = "RUNNING"]
                           /\ cpu' = [cpu EXCEPT ![c] = n]
    BY <1>2, Zenon
  <2>2. \A d \in Cpus : d # c => cpu[d] # n
    <3> SUFFICES ASSUME NEW d \in Cpus, d # c, cpu[d] = n PROVE FALSE
      BY Zenon
    <3>1. state[n] = "RUNNING" /\ n # 0
      BY Ranges, Zenon DEF RunningOnOneCpu
    <3>2. n # cpu[c]
      BY <3>1, Zenon DEF RunningOnOneCpu
    <3> QED BY <2>1, <3>1, <3>2, Zenon
  <2> QED BY <2>1, <2>2, Ranges DEF RunningOnOneCpu, TypeOK
<1> QED BY <1>1, <1>2, Zenon DEF Switched

(* The same for an action that leaves the CPUs alone. *)
LEMMA StayRunning ==
  ASSUME TypeOK, RunningOnOneCpu, cpu' = cpu, state' \in [Slots -> States],
         \A q \in Slots : state'[q] = "RUNNING" <=> state[q] = "RUNNING"
  PROVE  RunningOnOneCpu'
BY Zenon DEF RunningOnOneCpu, TypeOK

(* How a step that goes through the scheduler may change one slot. *)
LEMMA SwitchedSlot ==
  ASSUME NEW c, NEW st \in [Slots -> States], Switched(c, st), NEW q \in Slots
  PROVE  state'[q] = st[q] \/ (st[q] = "RUNNABLE" /\ state'[q] = "RUNNING")
BY Zenon DEF Switched

-----------------------------------------------------------------------------
(* userinit(): the table holds one process, init. *)
LEMMA InitIInv == Init => IInv
<1> SUFFICES ASSUME Init PROVE IInv
  BY Zenon
<1> USE Ranges DEF Init
<1>1. TypeOK
  BY DEF TypeOK, States, Places
<1>2. PidsUnique
  BY DEF PidsUnique
<1>3. RunningOnOneCpu
  BY Zenon DEF RunningOnOneCpu
<1>4. ParentIsAlive
  BY Zenon DEF ParentIsAlive
<1>5. NoMissedWakeup
  BY Zenon DEF NoMissedWakeup
<1>6. ForkInv /\ InitInv
  BY Zenon DEF ForkInv, Forking, InitInv
<1> QED BY <1>1, <1>2, <1>3, <1>4, <1>5, <1>6, Zenon DEF IInv

(* scheduler() runs a process that is RUNNABLE. *)
LEMMA SchedulerStep ==
  ASSUME IInv, NEW c \in Cpus, Scheduler(c)
  PROVE  IInv'
<1> USE DEF IInv
<1>1. Switched(c, state) /\ state' \in [Slots -> States]
      /\ cpu' \in [Cpus -> 0..NPROC] /\ lock' \in 0..NCPU
  BY SchedSwitches, Zenon DEF Scheduler, TypeOK
<1>2. UNCHANGED <<ident, acct, clock, pc, loc, shell>>
  BY Zenon DEF Scheduler
<1>3. \A q \in Slots : state'[q] = state[q] \/ (state[q] = "RUNNABLE" /\ state'[q] = "RUNNING")
  BY <1>1, SwitchedSlot, Zenon DEF TypeOK
<1>4. TypeOK'
  BY <1>1, <1>2, Zenon DEF TypeOK, ident, acct, clock
<1>5. RunningOnOneCpu'
  BY <1>1, SwitchRunning, Zenon DEF TypeOK, Scheduler
<1>6. PidsUnique' 
  BY <1>2, Zenon DEF PidsUnique, ident
<1>7. ParentIsAlive'
  BY <1>2, <1>3, Ranges, Zenon DEF ParentIsAlive, ident, TypeOK
<1>8. NoMissedWakeup'
  BY <1>2, <1>3 DEF NoMissedWakeup, ident, TypeOK, Kids
<1>9. ForkInv' /\ InitInv'
  BY <1>2, <1>3, Ranges DEF ForkInv, InitInv, Forking, ident, TypeOK
<1> QED BY <1>4, <1>5, <1>6, <1>7, <1>8, <1>9, Zenon

(* The process of a CPU is RUNNING. *)
LEMMA RunsIsRunning ==
  ASSUME IInv, NEW c \in Cpus, NEW p \in Slots, cpu[c] = p
  PROVE  state[p] = "RUNNING"
BY Zenon DEF IInv, RunningOnOneCpu

(* A step that only touches the lock, the clock, the accounting or the     *)
(* priorities.                                                             *)
LEMMA QuietStep ==
  ASSUME IInv, TypeOK', UNCHANGED <<state, pid, parent, killed, nextpid, cpu, pc, loc>>
  PROVE  IInv'
<1> USE DEF IInv
<1>1. PidsUnique' /\ RunningOnOneCpu' /\ ParentIsAlive'
  BY Zenon DEF PidsUnique, RunningOnOneCpu, ParentIsAlive
<1>2. NoMissedWakeup' /\ ForkInv' /\ InitInv'
  BY DEF NoMissedWakeup, ForkInv, InitInv, Forking, Kids
<1> QED BY <1>1, <1>2, Zenon

(* A step in which a running process only moves its own pc and local, to a *)
(* place outside fork(), or is marked killed.                              *)
LEMMA LocalStep ==
  ASSUME IInv, TypeOK', UNCHANGED <<state, pid, parent, nextpid, cpu>>,
         NEW p \in Slots, state[p] = "RUNNING",
         NEW x \in Places \ {"fork_mem", "fork_run"}, p = InitProc => x # "exit",
         pc' = [pc EXCEPT ![p] = x],
         \A q \in Slots : q # p => loc'[q] = loc[q] /\ killed'[q] = killed[q]
  PROVE  IInv'
<1> USE DEF IInv
<1>1. PidsUnique' /\ RunningOnOneCpu' /\ ParentIsAlive'
  BY Zenon DEF PidsUnique, RunningOnOneCpu, ParentIsAlive
<1>2. NoMissedWakeup'
  BY DEF NoMissedWakeup, Kids, TypeOK
<1>3. ForkInv'
  BY DEF ForkInv, Forking, TypeOK
<1>4. InitInv'
  BY Ranges, Zenon DEF InitInv, TypeOK
<1> QED BY <1>1, <1>2, <1>3, <1>4, Zenon

(* ticks++ and update_rtime() leave the states alone. *)
LEMMA ClockSteps ==
  ASSUME IInv, Tick \/ UpdateRtime \/ TickReturn
  PROVE  IInv'
<1>1. UNCHANGED <<state, pid, parent, killed, nextpid, cpu, pc, loc>>
  BY Zenon DEF Tick, UpdateRtime, TickReturn, ident, run
<1>2. TypeOK'
  BY DEF IInv, TypeOK, Tick, UpdateRtime, TickReturn, ident, run, acct
<1> QED BY <1>1, <1>2, QuietStep, Zenon

(* A process that was switched to releases ptable.lock. *)
LEMMA ResumeStep ==
  ASSUME IInv, NEW c \in Cpus, NEW p \in Slots, Resume(c, p)
  PROVE  IInv'
<1>1. UNCHANGED <<state, pid, parent, killed, nextpid, cpu, pc, loc>>
  BY Zenon DEF Resume, ident
<1>2. TypeOK'
  BY Ranges, Zenon DEF IInv, TypeOK, Resume, ident, acct, clock
<1> QED BY <1>1, <1>2, QuietStep, Zenon

(* set_priority() writes a field nobody reads. *)
LEMMA SetPriorityStep ==
  ASSUME IInv, NEW c \in Cpus, NEW p \in Slots, NEW n \in 0..MaxPid,
         NEW prio \in Priorities, SetPriority(c, p, n, prio)
  PROVE  IInv'
<1>1. UNCHANGED <<state, pid, parent, killed, nextpid, cpu, pc, loc>>
  BY Zenon DEF SetPriority, run
<1>2. prio \in 0..100
  BY SizeAssumption, Zenon
<1>3. TypeOK'
  BY <1>1, <1>2, Zenon DEF IInv, TypeOK, SetPriority, acct, clock, run
<1> QED BY <1>1, <1>3, QuietStep, Zenon

(* yield() makes its process RUNNABLE and switches. *)
LEMMA YieldStep ==
  ASSUME IInv, NEW c \in Cpus, NEW p \in Slots, Yield(c, p)
  PROVE  IInv'
<1> USE DEF IInv
<1> DEFINE st == [state EXCEPT ![p] = "RUNNABLE"]
<1>0. st \in [Slots -> States] /\ cpu[c] = p /\ state[p] = "RUNNING"
  BY RunsIsRunning, Zenon DEF TypeOK, States, Yield
<1>1. Switched(c, st) /\ state' \in [Slots -> States]
      /\ cpu' \in [Cpus -> 0..NPROC] /\ lock' \in 0..NCPU
  BY <1>0, SchedSwitches, Zenon DEF Yield
<1>2. UNCHANGED <<ident, acct, ticks, pc, loc, shell>>
  BY Zenon DEF Yield
<1>3. \A q \in Slots : \/ state'[q] = state[q]
                       \/ /\ state[q] \in {"RUNNABLE", "RUNNING"}
                          /\ state'[q] \in {"RUNNABLE", "RUNNING"}
  <2>1. \A q \in Slots : state'[q] = st[q] \/ (st[q] = "RUNNABLE" /\ state'[q] = "RUNNING")
    <3> HIDE DEF st
    <3> QED BY <1>0, <1>1, SwitchedSlot, Zenon
  <2> QED BY <1>0, <2>1, Zenon DEF TypeOK
<1>4. TypeOK'
  BY <1>1, <1>2, Zenon DEF TypeOK, ident, acct, Yield
<1>5. RunningOnOneCpu'
  <2>1. \A q \in Slots : q # cpu[c] => (st[q] = "RUNNING" <=> state[q] = "RUNNING")
    BY <1>0, Zenon DEF TypeOK
  <2>2. cpu[c] # 0 => st[cpu[c]] # "RUNNING"
    BY <1>0, Zenon DEF TypeOK
  <2> HIDE DEF st
  <2> QED BY <1>0, <1>1, <2>1, <2>2, SwitchRunning, Zenon
<1>6. PidsUnique'
  BY <1>2, Zenon DEF PidsUnique, ident
<1>7. ParentIsAlive'
  BY <1>2, <1>3, Ranges, Zenon DEF ParentIsAlive, ident, TypeOK
<1>8. NoMissedWakeup'
  BY <1>2, <1>3, Zenon DEF NoMissedWakeup, ident, TypeOK, Kids
<1>9. ForkInv' /\ InitInv'
  BY <1>2, <1>3, Ranges DEF ForkInv, InitInv, Forking, ident, TypeOK
<1> QED BY <1>4, <1>5, <1>6, <1>7, <1>8, <1>9, Zenon

(* exit() begins: no lock is held yet. *)
LEMMA ExitStartStep ==
  ASSUME IInv, NEW c \in Cpus, NEW p \in Slots, ExitStart(c, p)
  PROVE  IInv'
<1> DEFINE x == IF p = InitProc THEN "panic" ELSE "exit"
<1>1. state[p] = "RUNNING"
  BY RunsIsRunning, Zenon DEF ExitStart, Runs
<1>2. x \in Places \ {"fork_mem", "fork_run"} /\ (p = InitProc => x # "exit")
  BY Zenon DEF Places
<1>3. UNCHANGED <<ident, acct, run, clock, state, loc, shell>> /\ pc' = [pc EXCEPT ![p] = x]
  BY Zenon DEF ExitStart, Goto
<1>4. TypeOK'
  BY <1>2, <1>3, Zenon DEF IInv, TypeOK, ident, acct, run, clock
<1>5. UNCHANGED <<state, pid, parent, nextpid, cpu, loc, killed>>
  BY <1>3, Zenon DEF ident, run
<1> HIDE DEF x
<1> QED BY <1>1, <1>2, <1>3, <1>4, <1>5, LocalStep, Zenon

(* trap() marks a process that faults as killed. *)
LEMMA FaultStep ==
  ASSUME IInv, NEW c \in Cpus, NEW p \in Slots, Fault(c, p)
  PROVE  IInv'
<1>1. state[p] = "RUNNING" /\ p # InitProc
  BY RunsIsRunning, Zenon DEF Fault, Runs
<1>2. "exit" \in Places \ {"fork_mem", "fork_run"}
  BY Zenon DEF Places
<1>3. pc' = [pc EXCEPT ![p] = "exit"] /\ killed' = [killed EXCEPT ![p] = TRUE]
      /\ UNCHANGED <<pid, parent, priority, nextpid, acct, run, clock, state, loc, shell>>
  BY Zenon DEF Fault, Goto
<1>4. TypeOK'
  BY <1>2, <1>3, Zenon DEF IInv, TypeOK, acct, run, clock
<1>5. UNCHANGED <<state, pid, parent, nextpid, cpu, loc>>
  BY <1>3, Zenon DEF run
<1>6. \A q \in Slots : q # p => loc'[q] = loc[q] /\ killed'[q] = killed[q]
  BY <1>3, Zenon DEF IInv, TypeOK
<1> QED BY <1>1, <1>2, <1>3, <1>4, <1>5, <1>6, LocalStep, Zenon

(* getppid() reads the parent, then its pid. *)
LEMMA GetppidSteps ==
  ASSUME IInv, NEW c \in Cpus, NEW p \in Slots, GetppidLoad(c, p) \/ GetppidReturn(c, p)
  PROVE  IInv'
<1>1. state[p] = "RUNNING"
  BY RunsIsRunning, Zenon DEF GetppidLoad, GetppidReturn, Calls, Runs
<1>2. PICK x \in {"getppid", "user"} : pc' = [pc EXCEPT ![p] = x]
  BY Zenon DEF GetppidLoad, GetppidReturn, Return, Goto
<1>3. x \in Places \ {"fork_mem", "fork_run"} /\ x # "exit"
  BY Zenon DEF Places
<1>4. parent[p] \in Nat /\ 0 \in Nat
  BY SizeAssumption DEF IInv, TypeOK
<1>5. PICK y \in Nat : loc' = [loc EXCEPT ![p] = y]
  BY <1>4, Zenon DEF GetppidLoad, GetppidReturn, Return
<1>6. UNCHANGED <<ident, acct, run, clock, state, shell>>
  BY Zenon DEF GetppidLoad, GetppidReturn
<1>7. TypeOK'
  BY <1>2, <1>3, <1>5, <1>6, Zenon DEF IInv, TypeOK, ident, acct, run, clock
<1>8. UNCHANGED <<state, pid, parent, nextpid, cpu, killed>>
  BY <1>6, Zenon DEF ident, run
<1>9. \A q \in Slots : q # p => loc'[q] = loc[q] /\ killed'[q] = killed[q]
  BY <1>5, <1>8, Zenon DEF IInv, TypeOK
<1> QED BY <1>1, <1>2, <1>3, <1>7, <1>8, <1>9, LocalStep, Zenon

(* kill() of a sleeper makes it RUNNABLE. *)
LEMMA KillStep ==
  ASSUME IInv, NEW c \in Cpus, NEW p \in Slots, NEW n \in 0..MaxPid, Kill(c, p, n)
  PROVE  IInv'
<1> USE DEF IInv
<1> DEFINE k == First(WithPid(n))
<1>1. k \in Slots
  BY FirstSlot, Zenon DEF Kill, WithPid
<1> HIDE DEF k
<1>2. /\ killed' = [killed EXCEPT ![k] = TRUE]
      /\ state' = [state EXCEPT ![k] = IF state[k] = "SLEEPING" THEN "RUNNABLE" ELSE state[k]]
      /\ UNCHANGED <<pid, parent, priority, nextpid, acct, run, clock, pc, loc, shell>>
  BY Zenon DEF Kill, SetKilled, k
<1>3. \A q \in Slots :
        \/ state'[q] = state[q] /\ (state[q] = "SLEEPING" => killed'[q] = killed[q])
        \/ state[q] = "SLEEPING" /\ state'[q] = "RUNNABLE"
  BY <1>1, <1>2, Zenon DEF TypeOK
<1>4. TypeOK'
  BY <1>1, <1>2, Zenon DEF TypeOK, States, acct, run, clock
<1>5. RunningOnOneCpu'
  BY <1>2, <1>3, <1>4, StayRunning, Zenon DEF run, TypeOK
<1>6. PidsUnique'
  BY <1>2, Zenon DEF PidsUnique
<1>7. ParentIsAlive'
  BY <1>2, <1>3, Ranges, Zenon DEF ParentIsAlive, TypeOK
<1>8. NoMissedWakeup'
  BY <1>2, <1>3 DEF NoMissedWakeup, TypeOK, Kids
<1>9. ForkInv' /\ InitInv'
  BY <1>2, <1>3, Ranges DEF ForkInv, InitInv, Forking, TypeOK
<1> QED BY <1>4, <1>5, <1>6, <1>7, <1>8, <1>9, Zenon

(* allocproc(): an EMBRYO that belongs to the caller. *)
LEMMA ForkAllocStep ==
  ASSUME IInv, NEW c \in Cpus, NEW p \in Slots, ForkAlloc(c, p)
  PROVE  IInv'
<1>1. state[p] = "RUNNING"
  BY RunsIsRunning, Zenon DEF ForkAlloc, Calls, Runs
<1>2. CASE ForkError(p) /\ UNCHANGED <<ident, acct, state, run, clock, shell>>
  <2>1. PICK x \in {"user", "panic"} : pc' = [pc EXCEPT ![p] = x]
    BY <1>2, Zenon DEF ForkError, Return, Goto
  <2>2. x \in Places \ {"fork_mem", "fork_run"} /\ x # "exit"
    BY Zenon DEF Places
  <2>3. loc' = [loc EXCEPT ![p] = 0] \/ loc' = loc
    BY <1>2, Zenon DEF ForkError, Return
  <2>4. TypeOK'
    BY <1>2, <2>1, <2>2, <2>3 DEF IInv, TypeOK, ident, acct, run, clock
  <2>5. UNCHANGED <<state, pid, parent, nextpid, cpu, killed>>
    BY <1>2, Zenon DEF ident, run
  <2>6. \A q \in Slots : q # p => loc'[q] = loc[q] /\ killed'[q] = killed[q]
    BY <2>3, <2>5, Zenon DEF IInv, TypeOK
  <2> QED BY <1>1, <2>1, <2>2, <2>4, <2>5, <2>6, LocalStep, Zenon
<1>3. CASE /\ Unused # {} /\ Allocproc(First(Unused))
           /\ loc' = [loc EXCEPT ![p] = First(Unused)]
           /\ Goto(p, "fork_mem") /\ UNCHANGED <<run, clock, shell>>
  <2> USE DEF IInv
  <2> DEFINE np == First(Unused)
  <2>1. np \in Slots /\ state[np] = "UNUSED"
    BY <1>3, FirstSlot DEF Unused
  <2> HIDE DEF np
  <2>2. /\ state' = [state EXCEPT ![np] = "EMBRYO"]
        /\ pid' = [pid EXCEPT ![np] = nextpid]
        /\ nextpid' = nextpid + 1
        /\ loc' = [loc EXCEPT ![p] = np]
        /\ pc' = [pc EXCEPT ![p] = "fork_mem"]
        /\ UNCHANGED <<parent, killed, run, clock, shell>>
    BY <1>3, Zenon DEF np, Allocproc, Goto
  <2>3. /\ priority' = [priority EXCEPT ![np] = 60]
        /\ ctime' = [ctime EXCEPT ![np] = ticks]
        /\ rtime' = [rtime EXCEPT ![np] = 0]
        /\ etime' = [etime EXCEPT ![np] = 0]
    BY <1>3, Zenon DEF np, Allocproc
  <2>4. np \in Nat /\ parent[np] = 0 /\ np # p
    BY <1>1, <2>1 DEF ForkInv, Slots
  <2>5. TypeOK'
    <3>1. state' \in [Slots -> States] /\ pc' \in [Slots -> Places]
      BY <2>2, Zenon DEF TypeOK, States, Places
    <3>2. nextpid \in Nat \ {0} /\ ticks \in Nat
      BY Zenon DEF TypeOK
    <3>3. pid' \in [Slots -> Nat]
      BY <2>2, <3>2, Zenon DEF TypeOK
    <3>4. loc' \in [Slots -> Nat]
      BY <2>2, <2>4, Zenon DEF TypeOK
    <3>5. nextpid' \in Nat \ {0}
      BY <2>2, <3>2
    <3>6. priority' \in [Slots -> 0..100]
      <4>1. 60 \in 0..100
        OBVIOUS
      <4> QED BY <2>3, <4>1, Zenon DEF TypeOK
    <3>7. ctime' \in [Slots -> Nat]
      BY <2>3, <3>2, Zenon DEF TypeOK
    <3>8. rtime' \in [Slots -> Nat] /\ etime' \in [Slots -> Nat]
      BY <2>3, Zenon DEF TypeOK
    <3> QED BY <2>2, <3>1, <3>3, <3>4, <3>5, <3>6, <3>7, <3>8, Zenon DEF TypeOK, run, clock
  <2>6. PidsUnique'
    BY <2>1, <2>2 DEF PidsUnique, TypeOK
  <2>7. RunningOnOneCpu'
    BY <2>1, <2>2, <2>5, StayRunning, Zenon DEF run, TypeOK
  <2>8. ParentIsAlive'
    BY <2>1, <2>2, <2>4, Ranges, Zenon DEF ParentIsAlive, TypeOK
  <2>9. NoMissedWakeup'
    BY <1>1, <2>1, <2>2, <2>4, Ranges DEF NoMissedWakeup, TypeOK, Kids
  <2>10. ForkInv'
    BY <2>1, <2>2, <2>4 DEF ForkInv, Forking, TypeOK
  <2>11. InitInv'
    BY <2>1, <2>2, Ranges, Zenon DEF InitInv, TypeOK
  <2> QED BY <2>5, <2>6, <2>7, <2>8, <2>9, <2>10, <2>11, Zenon
<1> QED BY <1>2, <1>3, Zenon DEF ForkAlloc

(* fork() fails and gives the slot back without the lock. *)
LEMMA ForkNoMemoryStep ==
  ASSUME IInv, NEW c \in Cpus, NEW p \in Slots, ForkNoMemory(c, p)
  PROVE  IInv'
<1> USE DEF IInv
<1> DEFINE np == loc[p]
<1>1. state[p] = "RUNNING"
  BY RunsIsRunning, Zenon DEF ForkNoMemory, Runs
<1>2. np \in Slots /\ state[np] = "EMBRYO" /\ parent[np] = 0
  BY Zenon DEF ForkNoMemory, ForkInv, Forking
<1>3. PICK x \in {"user", "panic"} : pc' = [pc EXCEPT ![p] = x]
  BY Zenon DEF ForkNoMemory, ForkError, Return, Goto
<1>4. loc' = [loc EXCEPT ![p] = 0] \/ loc' = loc
  BY Zenon DEF ForkNoMemory, ForkError, Return
<1>5. state' = [state EXCEPT ![np] = "UNUSED"]
      /\ UNCHANGED <<ident, acct, run, clock, shell>> /\ pc[p] = "fork_mem"
  BY Zenon DEF ForkNoMemory
<1>6. \A q \in Slots : q # p /\ Forking(q) => loc[q] # np
  BY <1>5, Zenon DEF ForkInv, Forking
<1> HIDE DEF np
<1>7. TypeOK'
  <2>1. state' \in [Slots -> States]
    BY <1>5, Zenon DEF TypeOK, States
  <2>2. pc' \in [Slots -> Places]
    BY <1>3, Zenon DEF TypeOK, Places
  <2>3. loc' \in [Slots -> Nat]
    BY <1>4 DEF TypeOK
  <2> QED BY <1>5, <2>1, <2>2, <2>3, Zenon DEF TypeOK, ident, acct, run, clock
<1>8. PidsUnique'
  BY <1>5, Zenon DEF PidsUnique, ident
<1>9. RunningOnOneCpu'
  BY <1>2, <1>5, <1>7, StayRunning, Zenon DEF run, TypeOK
<1>10. ParentIsAlive'
  BY <1>2, <1>5, Ranges, Zenon DEF ParentIsAlive, TypeOK, ident
<1>11. NoMissedWakeup'
  BY <1>1, <1>2, <1>3, <1>4, <1>5 DEF NoMissedWakeup, TypeOK, Kids, ident
<1>12. ForkInv'
  BY <1>2, <1>3, <1>4, <1>5, <1>6 DEF ForkInv, Forking, TypeOK, ident
<1>13. InitInv'
  BY <1>2, <1>3, <1>5, Ranges, Zenon DEF InitInv, TypeOK, ident
<1> QED BY <1>7, <1>8, <1>9, <1>10, <1>11, <1>12, <1>13, Zenon

(* fork() fills the EMBRYO in, its parent included. *)
LEMMA ForkCopyStep ==
  ASSUME IInv, NEW c \in Cpus, NEW p \in Slots, ForkCopy(c, p)
  PROVE  IInv'
<1> USE DEF IInv
<1> DEFINE np == loc[p]
<1>1. state[p] = "RUNNING"
  BY RunsIsRunning, Zenon DEF ForkCopy, Runs
<1>2. np \in Slots /\ state[np] = "EMBRYO" /\ parent[np] = 0 /\ np # p
  BY <1>1, Zenon DEF ForkCopy, ForkInv, Forking
<1>3. /\ parent' = [parent EXCEPT ![np] = p]
      /\ pc' = [pc EXCEPT ![p] = "fork_run", ![np] = "user"]
      /\ UNCHANGED <<pid, killed, nextpid, state, acct, run, clock, loc, shell>>
  BY Zenon DEF ForkCopy
<1>4. PICK prio \in Priorities \cup {priority[np]} : priority' = [priority EXCEPT ![np] = prio]
  BY Zenon DEF ForkCopy
<1>5. prio \in 0..100
  BY <1>2, <1>4, SizeAssumption DEF TypeOK
<1>6. \A q \in Slots : q # p /\ Forking(q) => loc[q] # np
  BY Zenon DEF ForkInv, Forking, ForkCopy
<1>7. pc[p] = "fork_mem"
  BY Zenon DEF ForkCopy
<1> HIDE DEF np
<1>8. TypeOK'
  BY <1>2, <1>3, <1>4, <1>5, Ranges, Zenon DEF TypeOK, Places, acct, run, clock
<1>9. PidsUnique' /\ RunningOnOneCpu'
  BY <1>3, Zenon DEF PidsUnique, RunningOnOneCpu, run
<1>10. ParentIsAlive'
  BY <1>1, <1>2, <1>3, Ranges, Zenon DEF ParentIsAlive, TypeOK
<1>11. NoMissedWakeup'
  <2>1. \A s \in Slots : state'[s] = "SLEEPING" =>
          s # p /\ s # np /\ pc'[s] = pc[s] /\ state[s] = "SLEEPING"
    BY <1>1, <1>2, <1>3, Zenon DEF TypeOK
  <2>2. \A s \in Slots : state'[s] = "SLEEPING" => Kids(s, loc[s])' = Kids(s, loc[s])
    BY <1>2, <1>3, <2>1, Ranges DEF TypeOK, Kids
  <2> QED BY <1>3, <2>1, <2>2, Zenon DEF NoMissedWakeup
<1>12. ForkInv'
  BY <1>2, <1>3, <1>6, <1>7 DEF ForkInv, Forking, TypeOK, np
<1>13. InitInv'
  BY <1>2, <1>3, Ranges, Zenon DEF InitInv, TypeOK
<1> QED BY <1>8, <1>9, <1>10, <1>11, <1>12, <1>13, Zenon

(* fork() makes the EMBRYO RUNNABLE. *)
LEMMA ForkRunStep ==
  ASSUME IInv, NEW c \in Cpus, NEW p \in Slots, ForkRun(c, p)
  PROVE  IInv'
<1> USE DEF IInv
<1> DEFINE np == loc[p]
<1>1. state[p] = "RUNNING" /\ pc[p] = "fork_run"
  BY RunsIsRunning, Zenon DEF ForkRun, Runs
<1>2. np \in Slots /\ state[np] = "EMBRYO" /\ parent[np] = p /\ np # p
  BY <1>1, Zenon DEF ForkRun, ForkInv, Forking
<1>3. /\ state' = [state EXCEPT ![np] = "RUNNABLE"]
      /\ pc' = [pc EXCEPT ![p] = "user"] /\ loc' = [loc EXCEPT ![p] = 0]
      /\ shell' = (IF p = InitProc THEN pid[np] ELSE shell)
      /\ UNCHANGED <<ident, acct, run, clock>>
  BY Zenon DEF ForkRun, Return, Goto
<1>4. \A q \in Slots : q # p /\ Forking(q) => loc[q] # np
  BY <1>1, Zenon DEF ForkInv, Forking
<1> HIDE DEF np
<1>5. TypeOK'
  BY <1>2, <1>3, Zenon DEF TypeOK, Places, States, ident, acct, run, clock
<1>6. PidsUnique'
  BY <1>3, Zenon DEF PidsUnique, ident
<1>7. RunningOnOneCpu'
  BY <1>2, <1>3, <1>5, StayRunning, Zenon DEF run, TypeOK
<1>8. ParentIsAlive'
  BY <1>1, <1>2, <1>3, Ranges, Zenon DEF ParentIsAlive, TypeOK, ident
<1>9. NoMissedWakeup'
  BY <1>1, <1>2, <1>3 DEF NoMissedWakeup, TypeOK, Kids, ident
<1>10. ForkInv'
  BY <1>2, <1>3, <1>4 DEF ForkInv, Forking, TypeOK, ident
<1>11. InitInv'
  BY <1>2, <1>3, Ranges, Zenon DEF InitInv, TypeOK, ident
<1> QED BY <1>5, <1>6, <1>7, <1>8, <1>9, <1>10, <1>11, Zenon

(* exit() hands the children to init and wakes both parents. *)
LEMMA ExitStep ==
  ASSUME IInv, NEW c \in Cpus, NEW p \in Slots, Exit(c, p)
  PROVE  IInv'
<1> USE DEF IInv
<1> DEFINE st == [q \in Slots |->
              CASE q = p -> "ZOMBIE"
                [] q # p /\ q \in Woken(p) /\ state[q] = "SLEEPING" -> "RUNNABLE"
                [] OTHER -> state[q]]
<1>1. cpu[c] = p /\ state[p] = "RUNNING" /\ pc[p] = "exit" /\ p # InitProc
  BY RunsIsRunning, Zenon DEF Exit, Runs, InitInv
<1>2. st \in [Slots -> States]
  BY Zenon DEF TypeOK, States
<1>3. st[p] = "ZOMBIE"
      /\ \A q \in Slots : q # p => st[q] = IF q \in Woken(p) /\ state[q] = "SLEEPING"
                                             THEN "RUNNABLE" ELSE state[q]
  BY Zenon
<1>4. Sched(c, st)
  BY Zenon DEF Exit
<1> HIDE DEF st
<1>5. Switched(c, st) /\ state' \in [Slots -> States]
      /\ cpu' \in [Cpus -> 0..NPROC] /\ lock' \in 0..NCPU
  BY <1>2, <1>4, SchedSwitches, Zenon
<1>6. /\ parent' = [q \in Slots |-> IF parent[q] = p THEN InitProc ELSE parent[q]]
      /\ etime' = [etime EXCEPT ![p] = ticks]
      /\ UNCHANGED <<pid, killed, priority, nextpid, ctime, rtime, clock, pc, loc, shell>>
  BY Zenon DEF Exit, Reparent
<1>7. state'[p] = "ZOMBIE" /\
      \A q \in Slots : q # p =>
        \/ state'[q] = state[q] /\ ~(q \in Woken(p) /\ state[q] = "SLEEPING")
        \/ /\ state[q] \in {"RUNNABLE", "SLEEPING"}
           /\ state'[q] \in {"RUNNABLE", "RUNNING"}
  BY <1>2, <1>3, <1>5, SwitchedSlot, Zenon
<1>8. TypeOK'
  <2>1. parent' \in [Slots -> 0..NPROC]
    BY <1>6, Ranges, Zenon DEF TypeOK
  <2>2. ticks \in Nat
    BY Zenon DEF TypeOK
  <2>3. etime' \in [Slots -> Nat]
    BY <1>6, <2>2, Zenon DEF TypeOK
  <2> QED BY <1>5, <1>6, <2>1, <2>3, Zenon DEF TypeOK, clock
<1>9. PidsUnique'
  BY <1>6, Zenon DEF PidsUnique
<1>10. RunningOnOneCpu'
  <2>1. \A q \in Slots : q # cpu[c] => (st[q] = "RUNNING" <=> state[q] = "RUNNING")
    BY <1>1, <1>3, Zenon
  <2>2. cpu[c] # 0 => st[cpu[c]] # "RUNNING"
    BY <1>1, <1>3, Zenon
  <2> QED BY <1>2, <1>5, <2>1, <2>2, SwitchRunning, Zenon
<1>11. ParentIsAlive'
  <2>1. \A q \in Slots : parent'[q] = IF parent[q] = p THEN InitProc ELSE parent[q]
    BY <1>6, Zenon
  <2>2. state[InitProc] \in {"RUNNING", "RUNNABLE", "SLEEPING"} /\ InitProc \in Slots
        /\ InitProc # 0
    BY Ranges, Zenon DEF InitInv
  <2>3. \A q \in Slots : q # p /\ state[q] \in {"RUNNING", "RUNNABLE", "SLEEPING"}
          => state'[q] \in {"RUNNING", "RUNNABLE", "SLEEPING"}
    BY <1>7, Zenon
  <2>4. \A q \in Slots : parent[q] \in 0..NPROC
    BY Zenon DEF TypeOK
  <2>5. \A q \in Slots : state'[q] \in {"RUNNING", "RUNNABLE", "SLEEPING", "ZOMBIE"}
          => state[q] \in {"RUNNING", "RUNNABLE", "SLEEPING", "ZOMBIE"}
    BY <1>1, <1>7, Zenon
  <2> QED BY <1>1, <2>1, <2>2, <2>3, <2>4, <2>5, Ranges DEF ParentIsAlive
<1>12. NoMissedWakeup'
  <2> SUFFICES ASSUME NEW s \in Slots, state'[s] = "SLEEPING"
               PROVE  /\ pc'[s] = "wait" /\ ~killed'[s]
                      /\ Kids(s, loc[s])' # {}
                      /\ \A q \in Kids(s, loc[s])' : state'[q] # "ZOMBIE"
    BY Zenon DEF NoMissedWakeup
  <2>1. s # p /\ state[s] = "SLEEPING" /\ s \notin Woken(p)
    BY <1>7, Zenon
  <2>2. pc[s] = "wait" /\ ~killed[s] /\ Kids(s, loc[s]) # {}
        /\ \A q \in Kids(s, loc[s]) : state[q] # "ZOMBIE"
    BY <2>1, Zenon DEF NoMissedWakeup
  <2>3. parent[p] # s
        /\ (s = InitProc => \A q \in Slots : parent[q] = p => state[q] # "ZOMBIE")
    BY <2>1, Zenon DEF Woken
  <2>4. \A q \in Slots : parent'[q] = IF parent[q] = p THEN InitProc ELSE parent[q]
    BY <1>6, Zenon
  <2>5. Kids(s, loc[s]) \subseteq Kids(s, loc[s])'
    BY <1>6, <2>1, <2>4, Zenon DEF Kids
  <2>6. \A q \in Kids(s, loc[s])' : state'[q] # "ZOMBIE"
    <3> SUFFICES ASSUME NEW q \in Slots, parent'[q] = s, state'[q] = "ZOMBIE",
                        loc[s] = 0 \/ pid[q] = loc[s]
                 PROVE  FALSE
      BY <1>6, Zenon DEF Kids
    <3>1. q # p
      BY <2>3, <2>4, Zenon DEF InitInv
    <3>2. state[q] = "ZOMBIE"
      BY <1>7, <3>1, Zenon
    <3>3. parent[q] = s
      BY <2>3, <2>4, <3>2, Zenon
    <3> QED BY <2>2, <3>2, <3>3, Zenon DEF Kids
  <2> QED BY <1>6, <2>2, <2>5, <2>6, Zenon
<1>13. ForkInv'
  <2>1. ~Forking(p) /\ \A q \in Slots : Forking(q)' = Forking(q) /\ (q # p => (state[q] = "EMBRYO" <=> state'[q] = "EMBRYO"))
    BY <1>1, <1>6, <1>7, Zenon DEF Forking
  <2>2. \A q \in Slots : Forking(q) => loc[q] # p
    BY <1>1, Zenon DEF ForkInv
  <2>3. \A q \in Slots : parent'[q] = IF parent[q] = p THEN InitProc ELSE parent[q]
    BY <1>6, Zenon
  <2>4. \A q \in Slots : state'[q] = "UNUSED" => state[q] = "UNUSED"
    BY <1>7, Zenon
  <2>5. p # 0 /\ loc' = loc /\ pc' = pc
    BY <1>6, Ranges, Zenon
  <2> QED BY <2>1, <2>2, <2>3, <2>4, <2>5 DEF ForkInv
<1>14. InitInv'
  BY <1>1, <1>6, <1>7, Ranges, Zenon DEF InitInv
<1> QED BY <1>8, <1>9, <1>10, <1>11, <1>12, <1>13, <1>14, Zenon

(* wait() reaps a zombie, fails or sleeps. *)
LEMMA WaitScanStep ==
  ASSUME IInv, NEW c \in Cpus, NEW p \in Slots, NEW w \in Nat,
         cpu[c] = p, WaitScan(c, p, w)
  PROVE  IInv'
<1> USE DEF IInv
<1> DEFINE zombies == {q \in Kids(p, w) : state[q] = "ZOMBIE"}
<1>1. state[p] = "RUNNING"
  BY RunsIsRunning, Zenon
<1>2. UNCHANGED <<priority, nextpid, acct, clock>>
  BY Zenon DEF WaitScan
<1>3. \A got \in Nat \cup {-1} : InitLoop(p, got) => shell' \in Nat
  BY DEF InitLoop, TypeOK
<1>4. CASE zombies # {} /\ Reap(First(zombies)) /\ InitLoop(p, pid[First(zombies)])
           /\ Return(p) /\ lock' = 0 /\ UNCHANGED cpu
  <2> DEFINE z == First(zombies)
  <2>1. z \in zombies /\ z \in Slots
    BY <1>4, FirstSlot, Zenon DEF Kids
  <2>2. parent[z] = p /\ state[z] = "ZOMBIE" /\ z # p
    BY <1>1, <2>1, Zenon DEF Kids
  <2>3. shell' \in Nat
    BY <1>3, <1>4, <2>1, Zenon DEF TypeOK
  <2>4. /\ state' = [state EXCEPT ![z] = "UNUSED"]
        /\ pid' = [pid EXCEPT ![z] = 0]
        /\ parent' = [parent EXCEPT ![z] = 0]
        /\ killed' = [killed EXCEPT ![z] = FALSE]
        /\ pc' = [pc EXCEPT ![p] = "user"]
        /\ loc' = [loc EXCEPT ![p] = 0]
        /\ lock' = 0 /\ cpu' = cpu
    BY <1>4, Zenon DEF Reap, Return, Goto
  <2> HIDE DEF z, zombies
  <2>5. TypeOK'
    <3>1. state' \in [Slots -> States] /\ pc' \in [Slots -> Places]
      BY <2>4, Zenon DEF TypeOK, States, Places
    <3>2. pid' \in [Slots -> Nat] /\ loc' \in [Slots -> Nat]
      BY <2>4, Zenon DEF TypeOK
    <3>3. parent' \in [Slots -> 0..NPROC] /\ killed' \in [Slots -> BOOLEAN] /\ lock' \in 0..NCPU
      BY <2>4, Ranges, Zenon DEF TypeOK
    <3> QED BY <1>2, <2>3, <2>4, <3>1, <3>2, <3>3, Zenon DEF TypeOK, acct, clock
  <2>6. PidsUnique'
    BY <1>2, <2>1, <2>4 DEF PidsUnique, TypeOK
  <2>7. RunningOnOneCpu'
    BY <2>2, <2>4, <2>5, StayRunning, Zenon DEF TypeOK
  <2>8. ParentIsAlive'
    BY <2>1, <2>2, <2>4, Ranges, Zenon DEF ParentIsAlive, TypeOK
  <2>9. NoMissedWakeup'
    <3>1. \A s \in Slots : state'[s] = "SLEEPING" =>
            s # p /\ s # z /\ pc'[s] = pc[s] /\ loc'[s] = loc[s]
            /\ state[s] = "SLEEPING" /\ killed'[s] = killed[s]
      BY <1>1, <2>1, <2>2, <2>4, Zenon DEF TypeOK
    <3>2. \A s \in Slots : s # p => Kids(s, loc[s])' = Kids(s, loc'[s])
      BY <2>1, <2>2, <2>4, Ranges, Zenon DEF TypeOK, Kids
    <3>3. \A q \in Slots : state'[q] = "ZOMBIE" => state[q] = "ZOMBIE"
      BY <2>4, Zenon DEF TypeOK
    <3>4. \A s \in Slots : Kids(s, loc[s]) \subseteq Slots
      BY Zenon DEF Kids
    <3>5. ASSUME NEW s \in Slots, state'[s] = "SLEEPING"
          PROVE  /\ pc'[s] = "wait" /\ ~killed'[s] /\ Kids(s, loc[s])' # {}
                 /\ \A q \in Kids(s, loc[s])' : state'[q] # "ZOMBIE"
      <4>1. Kids(s, loc[s])' = Kids(s, loc[s])
        BY <3>1, <3>2, <3>5, Zenon
      <4>2. /\ pc[s] = "wait" /\ ~killed[s] /\ Kids(s, loc[s]) # {}
            /\ \A q \in Kids(s, loc[s]) : state[q] # "ZOMBIE"
        BY <3>1, <3>5, Zenon DEF NoMissedWakeup
      <4>3. pc'[s] = "wait" /\ ~killed'[s]
        BY <3>1, <3>5, <4>2, Zenon
      <4>4. \A q \in Kids(s, loc[s]) : state'[q] # "ZOMBIE"
        BY <3>3, <3>4, <4>2, Zenon
      <4> QED BY <4>1, <4>2, <4>3, <4>4, Zenon
    <3> QED BY <3>5, Zenon DEF NoMissedWakeup
  <2>10. ForkInv'
    <3>1. \A q \in Slots : Forking(q) => loc[q] # z
      BY <2>2, Zenon DEF ForkInv
    <3> QED BY <2>1, <2>4, <3>1 DEF ForkInv, Forking, TypeOK
  <2>11. InitInv'
    BY <2>1, <2>2, <2>4, Ranges, Zenon DEF InitInv, TypeOK
  <2> QED BY <2>5, <2>6, <2>7, <2>8, <2>9, <2>10, <2>11, Zenon
<1>5. CASE InitLoop(p, -1) /\ Return(p) /\ lock' = 0
           /\ UNCHANGED <<pid, parent, killed, state, cpu>>
  <2>1. pc' = [pc EXCEPT ![p] = "user"] /\ loc' = [loc EXCEPT ![p] = 0]
    BY <1>5, Zenon DEF Return, Goto
  <2>2. "user" \in Places \ {"fork_mem", "fork_run"}
    BY Zenon DEF Places
  <2>3. TypeOK'
    BY <1>2, <1>3, <1>5, <2>1, <2>2, Ranges, Zenon DEF TypeOK, acct, clock
  <2>4. \A q \in Slots : q # p => loc'[q] = loc[q] /\ killed'[q] = killed[q]
    BY <1>5, <2>1, Zenon DEF TypeOK
  <2>5. UNCHANGED <<state, pid, parent, nextpid, cpu>>
    BY <1>2, <1>5, Zenon
  <2> QED BY <1>1, <2>1, <2>2, <2>3, <2>4, <2>5, LocalStep, Zenon
<1>6. CASE zombies = {} /\ Kids(p, w) # {} /\ ~killed[p]
           /\ Sched(c, [state EXCEPT ![p] = "SLEEPING"])
           /\ Goto(p, "wait") /\ loc' = [loc EXCEPT ![p] = w]
           /\ UNCHANGED <<pid, parent, killed, shell>>
  <2> DEFINE st == [state EXCEPT ![p] = "SLEEPING"]
  <2>1. st \in [Slots -> States]
    BY Zenon DEF TypeOK, States
  <2>2. st[p] = "SLEEPING" /\ \A q \in Slots : q # p => st[q] = state[q]
    BY Zenon DEF TypeOK
  <2>3. Sched(c, st)
    BY <1>6, Zenon
  <2> HIDE DEF st
  <2>4. Switched(c, st) /\ state' \in [Slots -> States]
        /\ cpu' \in [Cpus -> 0..NPROC] /\ lock' \in 0..NCPU
    BY <2>1, <2>3, SchedSwitches, Zenon
  <2>5. pc' = [pc EXCEPT ![p] = "wait"] /\ loc' = [loc EXCEPT ![p] = w]
    BY <1>6, Zenon DEF Goto
  <2>6. state'[p] = "SLEEPING" /\ \A q \in Slots : q # p =>
          state'[q] = state[q] \/ (state[q] = "RUNNABLE" /\ state'[q] = "RUNNING")
    BY <2>1, <2>2, <2>4, SwitchedSlot, Zenon
  <2>7. TypeOK'
    <3>1. pc' \in [Slots -> Places]
      BY <2>5, Zenon DEF TypeOK, Places
    <3>2. loc' \in [Slots -> Nat]
      BY <2>5, Zenon DEF TypeOK
    <3> QED BY <1>2, <1>6, <2>4, <3>1, <3>2, Zenon DEF TypeOK, acct, clock
  <2>8. PidsUnique'
    BY <1>2, <1>6, Zenon DEF PidsUnique
  <2>9. RunningOnOneCpu'
    <3>1. \A q \in Slots : q # cpu[c] => (st[q] = "RUNNING" <=> state[q] = "RUNNING")
      BY <2>2, Zenon
    <3>2. cpu[c] # 0 => st[cpu[c]] # "RUNNING"
      BY <2>2, Zenon
    <3> QED BY <2>1, <2>4, <3>1, <3>2, SwitchRunning, Zenon
  <2>10. ParentIsAlive'
    BY <1>1, <1>6, <2>6, Ranges, Zenon DEF ParentIsAlive, TypeOK
  <2>11. NoMissedWakeup'
    <3>1. pc'[p] = "wait" /\ loc'[p] = w /\ Kids(p, w)' = Kids(p, w)
      BY <1>6, <2>5, Zenon DEF TypeOK, Kids
    <3>2. \A q \in Kids(p, w) : state'[q] # "ZOMBIE"
      BY <1>6, <2>6, Zenon DEF Kids
    <3>3. \A s \in Slots : s # p => /\ pc'[s] = pc[s] /\ loc'[s] = loc[s]
                                    /\ Kids(s, loc[s])' = Kids(s, loc'[s])
      BY <1>6, <2>5, Zenon DEF TypeOK, Kids
    <3>4. \A q \in Slots : state'[q] = "ZOMBIE" => state[q] = "ZOMBIE"
      BY <2>6, Zenon
    <3>5. ASSUME NEW s \in Slots, state'[s] = "SLEEPING"
          PROVE  /\ pc'[s] = "wait" /\ ~killed'[s] /\ Kids(s, loc[s])' # {}
                 /\ \A q \in Kids(s, loc[s])' : state'[q] # "ZOMBIE"
      <4>1. CASE s = p
        BY <1>6, <3>1, <3>2, <4>1, Zenon
      <4>2. CASE s # p
        <5>1. state[s] = "SLEEPING" /\ Kids(s, loc[s])' = Kids(s, loc[s])
              /\ pc'[s] = pc[s]
          BY <2>6, <3>3, <3>5, <4>2, Zenon
        <5>2. /\ pc[s] = "wait" /\ ~killed[s] /\ Kids(s, loc[s]) # {}
              /\ \A q \in Kids(s, loc[s]) : state[q] # "ZOMBIE"
          BY <5>1, Zenon DEF NoMissedWakeup
        <5>3. \A q \in Kids(s, loc[s]) : state'[q] # "ZOMBIE"
          BY <3>4, <5>2, Zenon DEF Kids
        <5>4. pc'[s] = "wait" /\ ~killed'[s]
          BY <1>6, <5>1, <5>2, Zenon
        <5> QED BY <5>1, <5>2, <5>3, <5>4, Zenon
      <4> QED BY <4>1, <4>2, Zenon
    <3> QED BY <3>5, Zenon DEF NoMissedWakeup
  <2>12. ForkInv'
    BY <1>1, <1>6, <2>5, <2>6 DEF ForkInv, Forking, TypeOK
  <2>13. InitInv'
    BY <1>6, <2>5, <2>6, Ranges DEF InitInv, TypeOK
  <2> QED BY <2>7, <2>8, <2>9, <2>10, <2>11, <2>12, <2>13, Zenon
<1> QED BY <1>4, <1>5, <1>6, Zenon DEF WaitScan

-----------------------------------------------------------------------------
(* Every step keeps the invariant. *)
LEMMA NextIInv == IInv /\ [Next]_vars => IInv'
<1> SUFFICES ASSUME IInv, [Next]_vars PROVE IInv'
  BY Zenon
<1>1. CASE UNCHANGED vars
  <2>1. UNCHANGED <<state, pid, parent, killed, nextpid, cpu, pc, loc>> /\ TypeOK'
    BY <1>1, Zenon DEF vars, IInv, TypeOK
  <2> QED BY <2>1, QuietStep, Zenon
<1>2. CASE Tick \/ UpdateRtime \/ TickReturn
  BY <1>2, ClockSteps, Zenon
<1>3. ASSUME NEW c \in Cpus, Scheduler(c) PROVE IInv'
  BY <1>3, SchedulerStep, Zenon
<1>4. ASSUME NEW c \in Cpus, NEW p \in Slots, Kernel(c, p) PROVE IInv'
  <2>1. CASE Resume(c, p) \/ Yield(c, p)
    BY <2>1, ResumeStep, YieldStep, Zenon
  <2>2. CASE ForkAlloc(c, p) \/ ForkNoMemory(c, p) \/ ForkCopy(c, p) \/ ForkRun(c, p)
    BY <2>2, ForkAllocStep, ForkNoMemoryStep, ForkCopyStep, ForkRunStep, Zenon
  <2>3. CASE ExitStart(c, p) \/ Fault(c, p) \/ Exit(c, p)
    BY <2>3, ExitStartStep, FaultStep, ExitStep, Zenon
  <2>4. CASE GetppidLoad(c, p) \/ GetppidReturn(c, p)
    BY <2>4, GetppidSteps, Zenon
  <2>5. CASE WaitAgain(c, p)
    BY <2>5, WaitScanStep, Zenon DEF WaitAgain, IInv, TypeOK
  <2>6. ASSUME NEW w \in 0..MaxPid, Wait(c, p, w) PROVE IInv'
    <3>1. w \in Nat
      BY <2>6
    <3>2. cpu[c] = p /\ WaitScan(c, p, w)
      BY <2>6, Zenon DEF Wait, Calls, Runs
    <3> QED BY <3>1, <3>2, WaitScanStep, Zenon
  <2>7. ASSUME NEW w \in 0..MaxPid, Kill(c, p, w) PROVE IInv'
    BY <2>7, KillStep, Zenon
  <2>8. ASSUME NEW n \in 0..MaxPid, NEW prio \in Priorities, SetPriority(c, p, n, prio)
        PROVE  IInv'
    BY <2>8, SetPriorityStep, Zenon
  <2> QED BY <1>4, <2>1, <2>2, <2>3, <2>4, <2>5, <2>6, <2>7, <2>8, Zenon DEF Kernel
<1> QED BY <1>1, <1>2, <1>3, <1>4, Zenon DEF Next

(* The inductive invariant holds in every reachable state of the kernel.   *)
THEOREM Inductive == Spec => []IInv
BY InitIInv, NextIInv, PTL DEF Spec

(* Every variable of the process table keeps its type.                     *)
THEOREM TypeCorrect == Spec => []TypeOK
<1>1. IInv => TypeOK
  BY Zenon DEF IInv
<1> QED BY <1>1, Inductive, PTL

(* allocproc() never gives the same pid to two processes.                  *)
THEOREM UniquePids == Spec => []PidsUnique
<1>1. IInv => PidsUnique
  BY Zenon DEF IInv
<1> QED BY <1>1, Inductive, PTL

(* scheduler() never runs one process on two CPUs, and RUNNING means that  *)
(* some CPU runs the process.                                              *)
THEOREM OneCpuPerProcess == Spec => []RunningOnOneCpu
<1>1. IInv => RunningOnOneCpu
  BY Zenon DEF IInv
<1> QED BY <1>1, Inductive, PTL

(* exit() leaves no process with a parent that cannot wait for it.         *)
THEOREM LiveParents == Spec => []ParentIsAlive
<1>1. IInv => ParentIsAlive
  BY Zenon DEF IInv
<1> QED BY <1>1, Inductive, PTL

(* No process sleeps in wait() through the event it waits for.             *)
THEOREM WaitMissesNothing == Spec => []NoMissedWakeup
<1>1. IInv => NoMissedWakeup
  BY Zenon DEF IInv
<1> QED BY <1>1, Inductive, PTL

-----------------------------------------------------------------------------
(* Processor accounting. *)

Live(q) == state[q] \notin {"UNUSED", "ZOMBIE"}

(* Only allocproc() brings a slot to life. *)
LEMMA LiveStep ==
  ASSUME IInv, NEW c \in Cpus, Scheduler(c) \/ \E p \in Slots : Kernel(c, p),
         NEW q \in Slots, Live(q)'
  PROVE  Live(q) \/ \E p \in Slots : ForkAlloc(c, p) /\ Allocproc(q)
<1> USE DEF IInv, Live
<1>1. \A st \in [Slots -> States] : Sched(c, st) => st[q] \notin {"UNUSED", "ZOMBIE"}
  BY SchedSwitches, SwitchedSlot, Zenon
<1>2. CASE Scheduler(c)
  BY <1>1, <1>2, Zenon DEF Scheduler, TypeOK
<1>3. ASSUME NEW p \in Slots, Kernel(c, p)
      PROVE  Live(q) \/ (ForkAlloc(c, p) /\ Allocproc(q))
  <2>0. (Yield(c, p) \/ Exit(c, p) \/ WaitAgain(c, p) \/ (\E w \in 0..MaxPid : Wait(c, p, w)))
          => cpu[c] = p /\ state[p] = "RUNNING"
    BY RunsIsRunning, Zenon DEF Yield, Exit, WaitAgain, Wait, Calls, Runs
  <2>1. CASE Yield(c, p)
    <3> DEFINE st == [state EXCEPT ![p] = "RUNNABLE"]
    <3>1. st \in [Slots -> States] /\ Sched(c, st)
      BY <2>1, Zenon DEF Yield, TypeOK, States
    <3>2. st[q] \notin {"UNUSED", "ZOMBIE"}
      BY <1>1, <3>1, Zenon
    <3> QED BY <2>0, <2>1, <3>2, Zenon DEF TypeOK
  <2>2. CASE Exit(c, p)
    <3> DEFINE st == [r \in Slots |->
              CASE r = p -> "ZOMBIE"
                [] r # p /\ r \in Woken(p) /\ state[r] = "SLEEPING" -> "RUNNABLE"
                [] OTHER -> state[r]]
    <3>1. st \in [Slots -> States]
      BY Zenon DEF TypeOK, States
    <3>2. Sched(c, st)
      BY <2>2, Zenon DEF Exit
    <3>3. st[q] \in {"ZOMBIE", "RUNNABLE", state[q]}
          /\ (st[q] = "RUNNABLE" => state[q] \in {"SLEEPING", "RUNNABLE"})
      BY Zenon
    <3> HIDE DEF st
    <3>4. st[q] \notin {"UNUSED", "ZOMBIE"}
      BY <1>1, <3>1, <3>2, Zenon
    <3> QED BY <3>3, <3>4, Zenon
  <2>3. ASSUME NEW w, WaitScan(c, p, w), cpu[c] = p, state[p] = "RUNNING" PROVE Live(q)
    <3>1. CASE Sched(c, [state EXCEPT ![p] = "SLEEPING"])
      <4> DEFINE st == [state EXCEPT ![p] = "SLEEPING"]
      <4>1. st \in [Slots -> States] /\ Sched(c, st)
        BY <3>1, Zenon DEF TypeOK, States
      <4>2. st[q] \notin {"UNUSED", "ZOMBIE"}
        BY <1>1, <4>1, Zenon
      <4> QED BY <2>3, <4>2, Zenon DEF TypeOK
    <3>2. CASE UNCHANGED state
      BY <3>2, Zenon
    <3>3. CASE \E z \in Slots : Reap(z)
      BY <3>3, Zenon DEF Reap, TypeOK
    <3>4. {r \in Kids(p, w) : state[r] = "ZOMBIE"} # {}
            => First({r \in Kids(p, w) : state[r] = "ZOMBIE"}) \in Slots
      BY FirstSlot, Zenon DEF Kids
    <3> QED BY <2>3, <3>1, <3>2, <3>3, <3>4, Zenon DEF WaitScan
  <2>4. CASE WaitAgain(c, p) \/ \E w \in 0..MaxPid : Wait(c, p, w)
    BY <2>0, <2>3, <2>4, Zenon DEF WaitAgain, Wait
  <2>5. CASE ForkAlloc(c, p)
    <3>1. Unused # {} => First(Unused) \in Slots
      BY FirstSlot, Zenon DEF Unused
    <3>2. CASE UNCHANGED state
      BY <3>2, Zenon
    <3>3. CASE Unused # {} /\ Allocproc(First(Unused))
      <4>1. CASE q = First(Unused)
        BY <2>5, <3>3, <4>1, Zenon
      <4>2. CASE q # First(Unused)
        <5>1. state'[q] = state[q]
          BY <3>1, <3>3, <4>2, Zenon DEF Allocproc, TypeOK
        <5> QED BY <5>1, Zenon
      <4> QED BY <4>1, <4>2, Zenon
    <3> QED BY <2>5, <3>2, <3>3, Zenon DEF ForkAlloc
  <2>6. CASE ForkNoMemory(c, p)
    BY <2>6, Zenon DEF ForkNoMemory, ForkInv, Forking, TypeOK
  <2>7. CASE ForkRun(c, p)
    <3>1. loc[p] \in Slots /\ state[loc[p]] = "EMBRYO"
      BY <2>7, Zenon DEF ForkRun, ForkInv, Forking
    <3> QED BY <2>7, <3>1, Zenon DEF ForkRun, TypeOK
  <2>8. ASSUME NEW n, Kill(c, p, n) PROVE Live(q)
    <3>1. First(WithPid(n)) \in Slots
      BY <2>8, FirstSlot, Zenon DEF Kill, WithPid
    <3> QED BY <2>8, <3>1, Zenon DEF Kill, SetKilled, TypeOK
  <2>9. UNCHANGED state => Live(q)
    BY Zenon
  <2> QED BY <1>3, <2>1, <2>2, <2>4, <2>5, <2>6, <2>7, <2>8, <2>9, Zenon
          DEF Kernel, Resume, ForkCopy, ExitStart, Fault, GetppidLoad, GetppidReturn, SetPriority
<1> QED BY <1>2, <1>3, Zenon

(* The charge stays within one tick of the lifetime. *)
LEMMA AccountStep ==
  ASSUME IInv, RtimeOffByOne, [Next]_vars
  PROVE  RtimeOffByOne'
<1> USE DEF IInv
<1>1. CASE UNCHANGED vars
  BY <1>1, Zenon DEF vars, RtimeOffByOne
<1>2. CASE Tick
  BY <1>2 DEF Tick, RtimeOffByOne, TypeOK, acct
<1>3. CASE UpdateRtime
  BY <1>3 DEF UpdateRtime, RtimeOffByOne, TypeOK
<1>4. CASE TickReturn
  BY <1>4, Zenon DEF TickReturn, RtimeOffByOne, acct
<1>5. ASSUME NEW c \in Cpus, Scheduler(c) \/ \E p \in Slots : Kernel(c, p)
      PROVE  RtimeOffByOne'
  <2>1. ticks' = ticks /\ (irq' = "rtime" => irq = "rtime")
    BY <1>5, Zenon DEF Scheduler, Kernel, Resume, Yield, ForkAlloc, ForkNoMemory, ForkCopy, ForkRun,
                ExitStart, Fault, Exit, WaitAgain, Wait, WaitScan, Kill, SetPriority,
                GetppidLoad, GetppidReturn, clock
  <2>2. UNCHANGED <<ctime, rtime>> \/ \E p \in Slots : ForkAlloc(c, p)
    <3>1. CASE Scheduler(c)
      BY <3>1, Zenon DEF Scheduler, acct
    <3>2. ASSUME NEW p \in Slots, Kernel(c, p), ~ForkAlloc(c, p)
          PROVE  UNCHANGED <<ctime, rtime>>
      <4>1. CASE Resume(c, p) \/ Yield(c, p) \/ ForkNoMemory(c, p) \/ ForkCopy(c, p) \/ ForkRun(c, p)
        BY <4>1, Zenon DEF Resume, Yield, ForkNoMemory, ForkCopy, ForkRun, acct
      <4>2. CASE ExitStart(c, p) \/ Fault(c, p) \/ Exit(c, p)
        BY <4>2, Zenon DEF ExitStart, Fault, Exit, acct
      <4>3. CASE GetppidLoad(c, p) \/ GetppidReturn(c, p)
        BY <4>3, Zenon DEF GetppidLoad, GetppidReturn, acct
      <4>4. \A w : WaitScan(c, p, w) => UNCHANGED <<ctime, rtime>>
        BY Zenon DEF WaitScan, acct
      <4>5. ASSUME NEW w, WaitAgain(c, p) \/ Wait(c, p, w) PROVE UNCHANGED <<ctime, rtime>>
        BY <4>4, <4>5, Zenon DEF WaitAgain, Wait
      <4>6. ASSUME NEW w, Kill(c, p, w) PROVE UNCHANGED <<ctime, rtime>>
        BY <4>6, Zenon DEF Kill, acct
      <4>7. ASSUME NEW n, NEW prio, SetPriority(c, p, n, prio) PROVE UNCHANGED <<ctime, rtime>>
        BY <4>7, Zenon DEF SetPriority, acct
      <4> QED BY <3>2, <4>1, <4>2, <4>3, <4>5, <4>6, <4>7, Zenon DEF Kernel
    <3> QED BY <1>5, <3>1, <3>2, Zenon
  <2>3. ASSUME NEW q \in Slots, Live(q)'
        PROVE  rtime'[q] + (IF irq' = "rtime" THEN 1 ELSE 0) <= ticks' - ctime'[q] + 1
    <3>1. CASE Allocproc(q)
      BY <2>1, <3>1 DEF Allocproc, TypeOK
    <3>2. CASE Live(q) /\ UNCHANGED <<ctime, rtime>>
      BY <2>1, <3>2 DEF RtimeOffByOne, Live, TypeOK
    <3>3. ASSUME NEW p \in Slots, ForkAlloc(c, p), Live(q), ~Allocproc(q)
          PROVE  ctime'[q] = ctime[q] /\ rtime'[q] = rtime[q]
      <4>1. Unused # {} => First(Unused) \in Slots
        BY FirstSlot, Zenon DEF Unused
      <4>2. CASE UNCHANGED acct
        BY <4>2, Zenon DEF acct
      <4>3. CASE Unused # {} /\ Allocproc(First(Unused))
        BY <3>3, <4>1, <4>3, Zenon DEF Allocproc, TypeOK
      <4> QED BY <3>3, <4>2, <4>3, Zenon DEF ForkAlloc
    <3>4. Live(q) \/ Allocproc(q)
      BY <1>5, <2>3, LiveStep, Zenon
    <3>5. CASE Live(q) /\ ctime'[q] = ctime[q] /\ rtime'[q] = rtime[q]
      <4>1. rtime[q] + (IF irq = "rtime" THEN 1 ELSE 0) <= ticks - ctime[q] + 1
        BY <3>5, Zenon DEF RtimeOffByOne, Live
      <4>2. rtime[q] \in Int /\ ctime[q] \in Int /\ ticks \in Int
        BY DEF TypeOK
      <4> QED BY <2>1, <3>5, <4>1, <4>2
    <3> QED BY <2>2, <3>1, <3>2, <3>3, <3>4, <3>5, Zenon
  <2> QED BY <2>3, Zenon DEF RtimeOffByOne, Live
<1> QED BY <1>1, <1>2, <1>3, <1>4, <1>5, Zenon DEF Next

(* update_rtime() never charges a process more than one tick too many.     *)
THEOREM Accounting == Spec => []RtimeOffByOne
<1>1. Init => RtimeOffByOne
  BY DEF Init, RtimeOffByOne
<1> QED BY <1>1, AccountStep, Inductive, PTL DEF Spec

=============================================================================
