-------------------------------- MODULE Proc --------------------------------
(***************************************************************************)
(* The process table of the xv6 kernel: proc.c (allocproc, fork, fork2,    *)
(* exit, wait, scheduler, sched, yield, sleep, wakeup1, kill,              *)
(* update_rtime), the process system calls of sysproc.c (getppid,          *)
(* set_priority, waitx, waitpid, sigkill), the timer part of trap.c, and   *)
(* init.c, the program that reaps orphans.                                 *)
(*                                                                         *)
(* A critical section under ptable.lock is one action.  Two things keep    *)
(* the lock across actions and are therefore explicit in `lock': the       *)
(* scheduler switches to a process with ptable.lock held, and it is the    *)
(* process that releases it.  Everything the code does WITHOUT the lock    *)
(* (the failure paths of fork, the assignment of np->parent, getppid) is   *)
(* an action that does not look at `lock'.                                 *)
(***************************************************************************)
EXTENDS Integers, FiniteSets

CONSTANTS
  NPROC,       \* slots of the process table
  NCPU,        \* processors; CPU 1 is the one with cpuid() = 0
  MaxPid,      \* bound: the pids given out, the last of them only to init
  MaxTicks,    \* bound: the clock stops at MaxTicks (the timer does not)
  Priorities   \* the arguments tried for fork2 and set_priority

ASSUME SizeAssumption ==
  /\ NPROC \in Nat \ {0}
  /\ NCPU \in Nat \ {0}
  /\ MaxPid \in Nat \ {0}
  /\ MaxTicks \in Nat
  /\ Priorities \subseteq 0..100

VARIABLES
  state,       \* p->state
  pid,         \* p->pid; 0 in a slot that was never used or was reaped
  parent,      \* p->parent as a slot number, 0 for a null pointer
  killed,      \* p->killed
  priority,    \* p->priority
  ctime, rtime, etime,
  nextpid,
  cpu,         \* c->proc of each CPU as a slot number, 0 for none
  lock,        \* the CPU that holds ptable.lock between actions, 0 for none
  pc,          \* where the process is in the kernel ("user": not in it)
  loc,         \* the C local it carries: np, the pid waited for, a pointer
  ticks,
  irq,         \* how far the timer interrupt of CPU 1 has got
  shell        \* `pid' in init.c: the shell init waits for, 0 before fork

acct  == <<ctime, rtime, etime>>
ident == <<pid, parent, killed, priority, nextpid>>
clock == <<ticks, irq>>
run   == <<cpu, lock>>
vars  == <<state, pid, parent, killed, priority, ctime, rtime, etime, nextpid,
           cpu, lock, pc, loc, ticks, irq, shell>>

Slots == 1..NPROC
Cpus  == 1..NCPU
InitProc == 1                   \* initproc: the slot userinit() allocates
States == {"UNUSED", "EMBRYO", "SLEEPING", "RUNNABLE", "RUNNING", "ZOMBIE"}
Places == {"user", "fork_mem", "fork_run", "wait", "exit", "getppid", "panic"}

\* The loops over ptable.proc stop at the first slot they match.
First(S) == CHOOSE q \in S : \A r \in S : q <= r

-----------------------------------------------------------------------------
(* main() has run userinit() and every CPU has entered scheduler(). *)
Init ==
  /\ state = [q \in Slots |-> IF q = InitProc THEN "RUNNABLE" ELSE "UNUSED"]
  /\ pid = [q \in Slots |-> IF q = InitProc THEN 1 ELSE 0]
  /\ nextpid = 2
  /\ parent = [q \in Slots |-> 0]
  /\ killed = [q \in Slots |-> FALSE]
  /\ priority = [q \in Slots |-> IF q = InitProc THEN 60 ELSE 0]
  /\ ctime = [q \in Slots |-> 0] /\ rtime = ctime /\ etime = ctime
  /\ cpu = [c \in Cpus |-> 0] /\ lock = 0
  /\ pc = [q \in Slots |-> "user"] /\ loc = [q \in Slots |-> 0]
  /\ ticks = 0 /\ irq = "none" /\ shell = 0

(* p executes its own code on c: it was switched to, has released the     *)
(* lock the scheduler handed it, and is not inside the timer interrupt.   *)
Runs(c, p) == cpu[c] = p /\ lock # c /\ (c = 1 => irq = "none")

(* A system call of p starts: trap() turns a killed process away first.   *)
Calls(c, p) == Runs(c, p) /\ pc[p] = "user" /\ ~killed[p]

Goto(p, place) == pc' = [pc EXCEPT ![p] = place]

(* p is back in user mode, and its local is dead. *)
Return(p) == Goto(p, "user") /\ loc' = [loc EXCEPT ![p] = 0]

-----------------------------------------------------------------------------
(* Scheduling. *)

\* Slips the properties must notice: a scan that takes a process another CPU
\* is running; a scan that starts again from the first slot every time.
RunnableAfterRunning(st, q) == {r \in Slots : r > q /\ st[r] \in {"RUNNABLE", "RUNNING"}}
RunnableAfterRestart(st, q) == {r \in Slots : st[r] = "RUNNABLE"}

RunnableAfter(st, q) == {r \in Slots : r > q /\ st[r] = "RUNNABLE"}

(* sched() and the scheduler() loop it switches to: with ptable.lock held *)
(* and the table in state st, CPU c continues its scan after the slot it  *)
(* was running.  It switches to the first RUNNABLE process with the lock  *)
(* held, or finishes the scan and releases the lock.                      *)
Sched(c, st) ==
  LET R == RunnableAfter(st, cpu[c]) IN
  \/ /\ R = {}
     /\ state' = st
     /\ cpu' = [cpu EXCEPT ![c] = 0]
     /\ lock' = 0
  \/ /\ R # {}
     /\ state' = [st EXCEPT ![First(R)] = "RUNNING"]
     /\ cpu' = [cpu EXCEPT ![c] = First(R)]
     /\ lock' = c

(* An idle CPU takes the lock and scans from the first slot. *)
Scheduler(c) ==
  /\ cpu[c] = 0 /\ lock = 0 /\ (c = 1 => irq = "none")
  /\ RunnableAfter(state, 0) # {}
  /\ Sched(c, state)
  /\ UNCHANGED <<ident, acct, clock, pc, loc, shell>>

(* The end of yield(), and forkret(): the process switched to releases    *)
(* ptable.lock.  A process that slept in wait() keeps it: see WaitAgain.  *)
Resume(c, p) ==
  /\ cpu[c] = p /\ lock = c /\ pc[p] # "wait"
  /\ lock' = 0
  /\ UNCHANGED <<ident, acct, clock, pc, loc, shell, state, cpu>>

(* yield() from a timer interrupt.  The interrupt may hit kernel code     *)
(* that holds no lock, so pc stays where it is.  In user mode trap()      *)
(* makes a killed process exit instead.                                   *)
Yield(c, p) ==
  /\ cpu[c] = p /\ lock = 0
  /\ IF c = 1 THEN irq = "yield" /\ irq' = "none" ELSE UNCHANGED irq
  /\ pc[p] # "panic"
  /\ ~(pc[p] = "user" /\ killed[p])
  /\ Sched(c, [state EXCEPT ![p] = "RUNNABLE"])
  /\ UNCHANGED <<ident, acct, ticks, pc, loc, shell>>

-----------------------------------------------------------------------------
(* The timer interrupt of CPU 1, the only one that counts time. *)

(* ticks++ and wakeup(&ticks) (no process of this module sleeps there),   *)
(* under tickslock; interrupts are off while the CPU holds a spinlock and *)
(* after a panic.                                                         *)
Tick ==
  /\ irq = "none" /\ lock # 1
  /\ cpu[1] # 0 => pc[cpu[1]] # "panic"
  /\ \/ ticks < MaxTicks /\ ticks' = ticks + 1 /\ irq' = "rtime"
     \/ ticks = MaxTicks /\ ticks' = ticks /\ irq' = "yield"
  /\ UNCHANGED <<ident, acct, run, state, pc, loc, shell>>

(* update_rtime(), a critical section of its own. *)
UpdateRtime ==
  /\ irq = "rtime" /\ lock = 0
  /\ rtime' = [q \in Slots |-> IF state[q] = "RUNNING" THEN rtime[q] + 1
                                                        ELSE rtime[q]]
  /\ irq' = "yield"
  /\ UNCHANGED <<ident, ctime, etime, ticks, run, state, pc, loc, shell>>

(* The interrupt returns without yield(): CPU 1 had no process, or its    *)
(* process was killed in user mode and goes on to exit().                 *)
TickReturn ==
  /\ irq = "yield"
  /\ cpu[1] # 0 => pc[cpu[1]] = "user" /\ killed[cpu[1]]
  /\ irq' = "none"
  /\ UNCHANGED <<ident, acct, run, ticks, state, pc, loc, shell>>

-----------------------------------------------------------------------------
(* fork() and fork2(), in three steps: the locked part of allocproc(),    *)
(* the memory (kstack and copyuvm) without the lock, RUNNABLE under it.   *)

Unused == {q \in Slots : state[q] = "UNUSED"}

(* fork() returns -1: an ordinary program goes on, init.c calls exit().   *)
ForkError(p) == IF p = InitProc THEN Goto(p, "panic") /\ UNCHANGED loc ELSE Return(p)

\* Slip: rtime survives in the slot.
AllocprocKeepsRtime(np) ==
  /\ state' = [state EXCEPT ![np] = "EMBRYO"]
  /\ pid' = [pid EXCEPT ![np] = nextpid]
  /\ nextpid' = nextpid + 1
  /\ priority' = [priority EXCEPT ![np] = 60]
  /\ ctime' = [ctime EXCEPT ![np] = ticks]
  /\ etime' = [etime EXCEPT ![np] = 0]
  /\ UNCHANGED <<parent, killed, rtime>>

(* What allocproc() stores in the slot it found.  It leaves killed as it  *)
(* is, and the parent null.                                               *)
Allocproc(np) ==
  /\ state' = [state EXCEPT ![np] = "EMBRYO"]
  /\ pid' = [pid EXCEPT ![np] = nextpid]
  /\ nextpid' = nextpid + 1
  /\ priority' = [priority EXCEPT ![np] = 60]
  /\ ctime' = [ctime EXCEPT ![np] = ticks]
  /\ rtime' = [rtime EXCEPT ![np] = 0]
  /\ etime' = [etime EXCEPT ![np] = 0]
  /\ UNCHANGED <<parent, killed>>

ForkAlloc(c, p) ==
  /\ Calls(c, p) /\ lock = 0
  /\ IF p = InitProc THEN shell = 0 /\ nextpid <= MaxPid ELSE nextpid < MaxPid
  /\ \/ /\ Unused = {}
        /\ ForkError(p)
        /\ UNCHANGED <<ident, acct, state>>
     \/ /\ Unused # {}
        /\ LET np == First(Unused) IN
           Allocproc(np) /\ loc' = [loc EXCEPT ![p] = np]
        /\ Goto(p, "fork_mem")
  /\ UNCHANGED <<run, clock, shell>>

(* kalloc() or copyuvm() failed: the slot is given back without the lock, *)
(* and its pid (and killed) stay behind.                                  *)
ForkNoMemory(c, p) ==
  /\ Runs(c, p) /\ pc[p] = "fork_mem"
  /\ state' = [state EXCEPT ![loc[p]] = "UNUSED"]
  /\ ForkError(p)
  /\ UNCHANGED <<ident, acct, run, clock, shell>>

(* np->parent = curproc; fork2 also stores its priority.  Two stores in   *)
(* one step: what another process does between them (exit, getppid) looks *)
(* at the first only, or (set_priority) writes the second only.           *)
ForkCopy(c, p) ==
  /\ Runs(c, p) /\ pc[p] = "fork_mem"
  /\ parent' = [parent EXCEPT ![loc[p]] = p]
  /\ \E prio \in Priorities \cup {priority[loc[p]]} :
        priority' = [priority EXCEPT ![loc[p]] = prio]
  /\ pc' = [pc EXCEPT ![p] = "fork_run", ![loc[p]] = "user"]
  /\ UNCHANGED <<pid, killed, nextpid, state, acct, run, clock, loc, shell>>

ForkRun(c, p) ==
  /\ Runs(c, p) /\ pc[p] = "fork_run" /\ lock = 0
  /\ state' = [state EXCEPT ![loc[p]] = "RUNNABLE"]
  /\ shell' = IF p = InitProc THEN pid[loc[p]] ELSE shell
  /\ Return(p)
  /\ UNCHANGED <<ident, acct, run, clock>>

-----------------------------------------------------------------------------
(* exit() *)

(* The process starts to exit: by the system call, or because trap()      *)
(* found it killed.  The shipped init never calls exit() by itself here.  *)
ExitStart(c, p) ==
  /\ Runs(c, p) /\ pc[p] = "user"
  /\ p = InitProc => killed[p]
  /\ Goto(p, IF p = InitProc THEN "panic" ELSE "exit")
  /\ UNCHANGED <<ident, acct, run, clock, state, loc, shell>>

(* A fault in user space: trap() sets killed, without the lock, and calls *)
(* exit() before it returns.                                              *)
Fault(c, p) ==
  /\ Runs(c, p) /\ pc[p] = "user" /\ p # InitProc
  /\ killed' = [killed EXCEPT ![p] = TRUE]
  /\ Goto(p, "exit")
  /\ UNCHANGED <<pid, parent, priority, nextpid, acct, run, clock, state,
                 loc, shell>>

\* Slip: the wakeup1() of the parent is forgotten.
WokenInheritOnly(p) ==
  IF \E q \in Slots : parent[q] = p /\ state[q] = "ZOMBIE" THEN {InitProc} ELSE {}

(* The processes wakeup1() makes RUNNABLE in exit(): the parent, and init *)
(* when it inherits a zombie.                                             *)
Woken(p) ==
  {parent[p]} \cup
  (IF \E q \in Slots : parent[q] = p /\ state[q] = "ZOMBIE" THEN {InitProc} ELSE {})

\* Slip: the loop skips children that are already zombies.
ReparentLive(p) ==
  parent' = [q \in Slots |-> IF parent[q] = p /\ state[q] # "ZOMBIE"
                               THEN InitProc ELSE parent[q]]

Reparent(p) ==
  parent' = [q \in Slots |-> IF parent[q] = p THEN InitProc ELSE parent[q]]

Exit(c, p) ==
  /\ Runs(c, p) /\ pc[p] = "exit" /\ lock = 0
  /\ Reparent(p)
  /\ etime' = [etime EXCEPT ![p] = ticks]
  /\ Sched(c, [q \in Slots |->
       CASE q = p -> "ZOMBIE"
         [] q # p /\ q \in Woken(p) /\ state[q] = "SLEEPING" -> "RUNNABLE"
         [] OTHER -> state[q]])
  /\ UNCHANGED <<pid, killed, priority, nextpid, ctime, rtime, clock, pc, loc,
                 shell>>

-----------------------------------------------------------------------------
(* wait(), waitx() and waitpid(): w is the pid waited for, 0 for any.     *)

\* Slip: init waits for its shell only.
KidsShellOnly(p, w) ==
  {q \in Slots : parent[q] = p /\ IF p = InitProc THEN pid[q] = shell ELSE w \in {0, pid[q]}}

Kids(p, w) == {q \in Slots : parent[q] = p /\ (w = 0 \/ pid[q] = w)}

(* init.c leaves its wait loop when wait() fails or returns the shell.    *)
InitLoop(p, got) == shell' = IF p = InitProc /\ got \in {-1, shell} THEN 0 ELSE shell

Reap(q) ==
  /\ state' = [state EXCEPT ![q] = "UNUSED"]
  /\ pid' = [pid EXCEPT ![q] = 0]
  /\ parent' = [parent EXCEPT ![q] = 0]
  /\ killed' = [killed EXCEPT ![q] = FALSE]

(* One pass of the for(;;) loop with ptable.lock held.                    *)
WaitScan(c, p, w) ==
  LET zombies == {q \in Kids(p, w) : state[q] = "ZOMBIE"} IN
  /\ \/ /\ zombies # {}
        /\ Reap(First(zombies))
        /\ InitLoop(p, pid[First(zombies)])
        /\ Return(p) /\ lock' = 0
        /\ UNCHANGED cpu
     \/ /\ zombies = {} /\ (Kids(p, w) = {} \/ killed[p])
        /\ InitLoop(p, -1)
        /\ Return(p) /\ lock' = 0
        /\ UNCHANGED <<pid, parent, killed, state, cpu>>
     \/ /\ zombies = {} /\ Kids(p, w) # {} /\ ~killed[p]
        /\ Sched(c, [state EXCEPT ![p] = "SLEEPING"])
        /\ Goto(p, "wait")
        /\ loc' = [loc EXCEPT ![p] = w]
        /\ UNCHANGED <<pid, parent, killed, shell>>
  /\ UNCHANGED <<priority, nextpid, acct, clock>>

Wait(c, p, w) ==
  /\ Calls(c, p) /\ lock = 0
  /\ p = InitProc => shell # 0 /\ w = 0
  /\ WaitScan(c, p, w)

(* sleep() returns with ptable.lock still held: the loop goes round. *)
WaitAgain(c, p) ==
  /\ cpu[c] = p /\ lock = c /\ pc[p] = "wait"
  /\ WaitScan(c, p, loc[p])

-----------------------------------------------------------------------------
(* kill() and sigkill(); set_priority(); getppid() *)

(* The loops compare p->pid only: they look at slots in every state.      *)
WithPid(n) == {q \in Slots : pid[q] = n}

\* Slip: kill() only sets the flag.
SetKilledNoWake(q) == killed' = [killed EXCEPT ![q] = TRUE] /\ UNCHANGED state

SetKilled(q) ==
  /\ killed' = [killed EXCEPT ![q] = TRUE]
  /\ state' = [state EXCEPT ![q] = IF @ = "SLEEPING" THEN "RUNNABLE" ELSE @]

Kill(c, p, n) ==
  /\ Calls(c, p) /\ lock = 0 /\ p # InitProc
  /\ WithPid(n) # {}
  /\ SetKilled(First(WithPid(n)))
  /\ UNCHANGED <<pid, parent, priority, nextpid, acct, run, clock, pc, loc,
                 shell>>

SetPriority(c, p, n, prio) ==
  /\ Calls(c, p) /\ lock = 0 /\ p # InitProc
  /\ WithPid(n) # {}
  /\ priority' = [priority EXCEPT ![First(WithPid(n))] = prio]
  /\ UNCHANGED <<pid, parent, killed, nextpid, acct, run, clock, state, pc,
                 loc, shell>>

(* getppid() loads cur->parent, and then the pid found there, both        *)
(* without ptable.lock.                                                   *)
GetppidLoad(c, p) ==
  /\ Calls(c, p) /\ p # InitProc
  /\ loc' = [loc EXCEPT ![p] = parent[p]]
  /\ Goto(p, "getppid")
  /\ UNCHANGED <<ident, acct, run, clock, state, shell>>

GetppidReturn(c, p) ==
  /\ Runs(c, p) /\ pc[p] = "getppid"
  /\ Return(p)
  /\ UNCHANGED <<ident, acct, run, clock, state, shell>>

-----------------------------------------------------------------------------
Kernel(c, p) ==
  \/ Resume(c, p) \/ Yield(c, p) \/ ForkAlloc(c, p) \/ ForkNoMemory(c, p)
  \/ ForkCopy(c, p) \/ ForkRun(c, p) \/ ExitStart(c, p) \/ Fault(c, p)
  \/ Exit(c, p) \/ WaitAgain(c, p) \/ GetppidLoad(c, p) \/ GetppidReturn(c, p)
  \/ \E w \in 0..MaxPid : Wait(c, p, w) \/ Kill(c, p, w)
  \/ \E n \in 0..MaxPid, prio \in Priorities : SetPriority(c, p, n, prio)

Next ==
  \/ Tick \/ UpdateRtime \/ TickReturn
  \/ \E c \in Cpus : Scheduler(c) \/ \E p \in Slots : Kernel(c, p)

Spec == Init /\ [][Next]_vars

-----------------------------------------------------------------------------
(* Safety. *)

TypeOK ==
  /\ state \in [Slots -> States]
  /\ pid \in [Slots -> Nat] /\ nextpid \in Nat \ {0}
  /\ parent \in [Slots -> 0..NPROC]
  /\ killed \in [Slots -> BOOLEAN]
  /\ priority \in [Slots -> 0..100]
  /\ ctime \in [Slots -> Nat] /\ rtime \in [Slots -> Nat] /\ etime \in [Slots -> Nat]
  /\ cpu \in [Cpus -> 0..NPROC] /\ lock \in 0..NCPU
  /\ pc \in [Slots -> Places] /\ loc \in [Slots -> Nat]
  /\ ticks \in Nat /\ irq \in {"none", "rtime", "yield"} /\ shell \in Nat

(* Two processes never have the same pid, and no pid is ever given out    *)
(* twice (allocproc, proc.c:91-100).                                      *)
PidsUnique ==
  /\ \A q, r \in Slots : q # r /\ pid[q] = pid[r] => pid[q] = 0
  /\ \A q \in Slots : pid[q] < nextpid

(* A process is RUNNING exactly when one CPU runs it, and no two CPUs     *)
(* ever run the same process (scheduler, sched, exit, wait).              *)
RunningOnOneCpu ==
  /\ \A q \in Slots : state[q] = "RUNNING" <=> \E c \in Cpus : cpu[c] = q
  /\ \A c, d \in Cpus : c # d /\ cpu[c] = cpu[d] => cpu[c] = 0

(* The parent of a process is always a process that can still wait for    *)
(* it: never a zombie, a free slot or an embryo, although exit() and      *)
(* wait() recycle slots (exit passes abandoned children to init).         *)
ParentIsAlive ==
  \A q \in Slots :
    /\ parent[q] # 0 => state[parent[q]] \in {"RUNNING", "RUNNABLE", "SLEEPING"}
    /\ state[q] \in {"RUNNING", "RUNNABLE", "SLEEPING", "ZOMBIE"} /\ q # InitProc
         => parent[q] # 0

(* No missed wakeup in wait(), waitx() and waitpid(): a process asleep    *)
(* there has no zombie to reap, has the child it waits for, and was not   *)
(* killed, so nothing it sleeps through could have ended the sleep.       *)
NoMissedWakeup ==
  \A p \in Slots : state[p] = "SLEEPING" =>
    /\ pc[p] = "wait" /\ ~killed[p]
    /\ Kids(p, loc[p]) # {}
    /\ \A q \in Kids(p, loc[p]) : state[q] # "ZOMBIE"

(* The inductive invariant behind the properties above.  fork() works on  *)
(* its child without the lock: what protects it is that an embryo belongs *)
(* to exactly one fork and that every other path leaves embryos alone.    *)
Forking(p) == pc[p] \in {"fork_mem", "fork_run"}

ForkInv ==
  /\ \A p \in Slots : Forking(p) =>
       /\ loc[p] \in Slots /\ state[loc[p]] = "EMBRYO"
       /\ parent[loc[p]] = IF pc[p] = "fork_mem" THEN 0 ELSE p
  /\ \A p, q \in Slots : p # q /\ Forking(p) /\ Forking(q) => loc[p] # loc[q]
  /\ \A q \in Slots : state[q] = "UNUSED" => parent[q] = 0

InitInv ==
  /\ state[InitProc] \in {"RUNNING", "RUNNABLE", "SLEEPING"} /\ pc[InitProc] # "exit"
  /\ parent[InitProc] = 0
  /\ \A q \in Slots : parent[q] # q

IInv ==
  /\ TypeOK /\ PidsUnique /\ RunningOnOneCpu /\ ParentIsAlive /\ NoMissedWakeup
  /\ ForkInv /\ InitInv

(* The timer charges a process for at most the ticks of its lifetime,     *)
(* plus the one whose ticks++ came before its allocproc() and whose       *)
(* update_rtime() came after it: rtime is never off by more than one.     *)
RtimeOffByOne ==
  \A q \in Slots : state[q] \notin {"UNUSED", "ZOMBIE"} =>
    rtime[q] + (IF irq = "rtime" THEN 1 ELSE 0) <= ticks - ctime[q] + 1

-----------------------------------------------------------------------------
(* kill(pid) kills the process with that pid (proc.c:486), so a process   *)
(* that allocproc() has just given a fresh pid was never killed.          *)
NewProcessNotKilled ==
  [][\A q \in Slots : state[q] = "UNUSED" /\ state'[q] = "EMBRYO" => ~killed'[q]]_vars

-----------------------------------------------------------------------------
(* Liveness. *)

(* What a process does in the kernel without waiting for anyone else, and *)
(* what init.c does in user mode.                                         *)
Progress(c, p) ==
  \/ ForkNoMemory(c, p) \/ ForkCopy(c, p) \/ ForkRun(c, p)
  \/ GetppidReturn(c, p) \/ Exit(c, p)
  \/ killed[p] /\ ExitStart(c, p)
  \/ p = InitProc /\ (ForkAlloc(c, p) \/ Wait(c, p, 0))

(* A CPU that holds ptable.lock with interrupts off goes on until it      *)
(* releases it; the timer keeps interrupting CPU 1.  What needs the lock  *)
(* is strongly fair: acquire() spins until xchg finds the lock free.  A   *)
(* process that is run again and again gets its kernel code executed,     *)
(* wherever the timer interrupts it.                                      *)
Fairness ==
  /\ WF_vars(Tick) /\ SF_vars(UpdateRtime) /\ WF_vars(TickReturn)
  /\ \A c \in Cpus :
       /\ SF_vars(Scheduler(c))
       /\ WF_vars(\E p \in Slots : Resume(c, p) \/ WaitAgain(c, p))
       /\ SF_vars(\E p \in Slots : Yield(c, p))
  /\ \A p \in Slots : SF_vars(\E c \in Cpus : Progress(c, p))

FairSpec == Spec /\ Fairness

Panicked == pc[InitProc] = "panic"

(* A killed process exits, wherever kill() found it: running, preempted   *)
(* in the kernel, asleep in wait() or about to sleep there (trap.c:98).   *)
KilledExits ==
  \A p \in Slots :
    killed[p] /\ state[p] \in {"RUNNING", "RUNNABLE", "SLEEPING"}
      ~> state[p] \in {"ZOMBIE", "UNUSED"} \/ Panicked

(* A zombie that is init's, its own shell or one that exit() passed to    *)
(* it, is reaped by the loop of init.c, unless the bound on pids keeps    *)
(* init from forking its next shell.                                      *)
OrphansReaped ==
  \A q \in Slots :
    state[q] = "ZOMBIE" /\ parent[q] = InitProc
      ~> state[q] # "ZOMBIE" \/ Panicked \/ (shell = 0 /\ nextpid > MaxPid)

(* Round robin: every RUNNABLE process gets a CPU, however the CPUs       *)
(* interleave their scans of the table (scheduler, proc.c:339-365).       *)
NoStarvation ==
  \A p \in Slots : state[p] = "RUNNABLE" ~> state[p] # "RUNNABLE" \/ Panicked

=============================================================================
