------------------------------- MODULE Mutex -------------------------------
(***************************************************************************)
(* The user-level mutexes of sysproc.c: mutex_create, mutex_lock and       *)
(* mutex_unlock, and the spinlock of their table, which the first caller   *)
(* initialises.  sleep() atomically releases the spinlock and sleeps       *)
(* (module SleepWakeup); sys_mutex_unlock calls wakeup() after it released *)
(* the spinlock.                                                           *)
(***************************************************************************)
EXTENDS Naturals, FiniteSets, Processes

CONSTANT MaxMutexes   \* MAX_MUTEXES

ASSUME MutexAssumption ==
  /\ None \notin Procs /\ MaxMutexes \in Nat \ {0} /\ IsFiniteSet(Procs)

VARIABLES
  inited,      \* mutex_table_inited
  table,       \* mutex_table_lock: the process that acquired it, None if free
  allocated, locked, pid,      \* user_mutexes[]; pid is None for 0
  op, arg,     \* the system call each process is in ("relock": in lock, after sleep()), its argument
  sleepsOn,      \* the mutex each process sleeps on, None if it is awake
  holds        \* what user code relies on: from the return of mutex_lock to mutex_unlock

mutexes == <<allocated, locked, pid>>
mutexVars == <<inited, table, allocated, locked, pid, pc, op, arg, sleepsOn, holds>>

Ids == 1..MaxMutexes

MutexInit ==
  /\ inited = FALSE /\ table = None
  /\ allocated = [i \in Ids |-> FALSE]
  /\ locked = [i \in Ids |-> FALSE] /\ pid = [i \in Ids |-> None]
  /\ pc = [p \in Procs |-> "user"] /\ op = [p \in Procs |-> "none"]
  /\ arg = [p \in Procs |-> 1] /\ sleepsOn = [p \in Procs |-> None]
  /\ holds = [p \in Procs |-> {}]

(* A system call starts: mutex_table_init() reads the flag, and only      *)
(* later, if it was 0, runs initlock().  Whoever calls mutex_unlock() is   *)
(* done with the mutex.                                                    *)
Call(p, o, i) ==
  /\ pc[p] = "user"
  /\ op' = [op EXCEPT ![p] = o] /\ arg' = [arg EXCEPT ![p] = i]
  /\ Goto(p, IF inited THEN "acquire" ELSE "init")
  /\ holds' = [holds EXCEPT ![p] = IF o = "unlock" THEN @ \ {i} ELSE @]
  /\ UNCHANGED <<inited, table, mutexes, sleepsOn>>

(* initlock() frees the lock, whoever holds it. *)
TableInit(p) ==
  /\ pc[p] = "init"
  /\ table' = None /\ inited' = TRUE
  /\ Goto(p, "acquire")
  /\ UNCHANGED <<mutexes, op, arg, sleepsOn, holds>>

Acquire(p) ==
  /\ pc[p] = "acquire" /\ table = None
  /\ table' = p /\ Goto(p, "held")
  /\ UNCHANGED <<inited, mutexes, op, arg, sleepsOn, holds>>

(* Inside the critical section every store, and every test that a store    *)
(* of another process could change, is a step of its own: a caller that    *)
(* lost the lock to a late initlock() goes on to its release().            *)
Section == {"held", "own", "sleep", "set_allocated", "set_locked", "set_pid", "release", "refuse"}

Inside(p, place) ==
  /\ pc[p] = "held" /\ Goto(p, place)
  /\ UNCHANGED <<inited, table, mutexes, op, sleepsOn, holds>>

-----------------------------------------------------------------------------
(* mutex_create() looks at slot after slot, arg[p] is its i. *)
CreateScan(p) ==
  /\ op[p] = "create" /\ allocated[arg[p]] /\ arg[p] < MaxMutexes
  /\ Inside(p, "held") /\ arg' = [arg EXCEPT ![p] = @ + 1]

CreateFound(p) ==
  /\ op[p] = "create" /\ ~allocated[arg[p]]
  /\ Inside(p, "set_allocated") /\ UNCHANGED arg

(* A call that will return -1: mutex_create of a full table, mutex_lock of *)
(* an unallocated mutex, mutex_unlock of one that is not locked.           *)
Refuse(p) ==
  /\ \/ op[p] = "create" /\ allocated[arg[p]] /\ arg[p] = MaxMutexes
     \/ op[p] = "lock" /\ ~allocated[arg[p]]
     \/ op[p] = "unlock" /\ ~(allocated[arg[p]] /\ locked[arg[p]])
  /\ Inside(p, "refuse") /\ UNCHANGED arg

\* Slip: "if" for "while": a process that was woken does not look again.
LockLookIf(p) ==
  /\ op[p] \in {"lock", "relock"}
  /\ op[p] = "lock" => allocated[arg[p]]
  /\ Inside(p, IF op[p] = "lock" /\ locked[arg[p]] THEN "sleep" ELSE "set_locked")
  /\ UNCHANGED arg

(* The loop of mutex_lock(), which runs again after sleep() ("relock"). *)
LockLook(p) ==
  /\ op[p] \in {"lock", "relock"}
  /\ op[p] = "lock" => allocated[arg[p]]
  /\ Inside(p, IF locked[arg[p]] THEN "sleep" ELSE "set_locked")
  /\ UNCHANGED arg

UnlockLook(p) ==
  /\ op[p] = "unlock" /\ allocated[arg[p]] /\ locked[arg[p]]
  /\ Inside(p, "own") /\ UNCHANGED arg

(* mutex_unlock() then compares the pid. *)
Own(p) ==
  /\ pc[p] = "own" /\ Goto(p, IF pid[arg[p]] = p THEN "set_locked" ELSE "refuse")
  /\ UNCHANGED <<inited, table, mutexes, op, arg, sleepsOn, holds>>

(* The stores to user_mutexes[arg[p]]. *)
SetAllocated(p) ==
  /\ pc[p] = "set_allocated" /\ Goto(p, "set_locked")
  /\ allocated' = [allocated EXCEPT ![arg[p]] = TRUE]
  /\ UNCHANGED <<inited, table, locked, pid, op, arg, sleepsOn, holds>>

Locking(p) == op[p] \in {"lock", "relock"}

SetLocked(p) ==
  /\ pc[p] = "set_locked" /\ Goto(p, "set_pid")
  /\ locked' = [locked EXCEPT ![arg[p]] = Locking(p)]
  /\ UNCHANGED <<inited, table, allocated, pid, op, arg, sleepsOn, holds>>

SetPid(p) ==
  /\ pc[p] = "set_pid" /\ Goto(p, "release")
  /\ pid' = [pid EXCEPT ![arg[p]] = IF Locking(p) THEN p ELSE None]
  /\ UNCHANGED <<inited, table, allocated, locked, op, arg, sleepsOn, holds>>

-----------------------------------------------------------------------------
(* The call returns; what it was about is forgotten. *)
Return(p) ==
  Goto(p, "user") /\ op' = [op EXCEPT ![p] = "none"] /\ arg' = [arg EXCEPT ![p] = 1]

(* release() of the spinlock, at the end of a call... *)
ReleaseTable(p) ==
  /\ pc[p] = "refuse" \/ (pc[p] = "release" /\ op[p] # "unlock")
  /\ table = p /\ table' = None
  /\ holds' = [holds EXCEPT ![p] = IF pc[p] = "release" /\ Locking(p) THEN @ \cup {arg[p]} ELSE @]
  /\ Return(p) /\ UNCHANGED <<inited, mutexes, sleepsOn>>

(* ...and before the wakeup() of mutex_unlock(). *)
ReleaseUnlock(p) ==
  /\ pc[p] = "release" /\ op[p] = "unlock" /\ table = p /\ table' = None
  /\ Goto(p, "wakeup")
  /\ UNCHANGED <<inited, mutexes, op, arg, sleepsOn, holds>>

(* sleep(&user_mutexes[id], lock): releases the spinlock and sleeps.       *)
LockSleep(p) ==
  /\ pc[p] = "sleep" /\ table = p /\ table' = None
  /\ sleepsOn' = [sleepsOn EXCEPT ![p] = arg[p]]
  /\ op' = [op EXCEPT ![p] = "relock"]
  /\ Goto(p, "acquire")
  /\ UNCHANGED <<inited, mutexes, arg, holds>>

(* release(), here or in sleep(), panics when the caller does not hold the *)
(* lock.  panic() stops its own CPU only; the other processes go on.       *)
ReleasePanics(p) ==
  /\ pc[p] \in {"release", "refuse", "sleep"} /\ table # p
  /\ Goto(p, "panic")
  /\ UNCHANGED <<inited, table, mutexes, op, arg, sleepsOn, holds>>

\* Slip: wakeup() on the address of the spinlock, where nobody sleeps.
WakeupWrongChan(p) ==
  /\ pc[p] = "wakeup" /\ Return(p)
  /\ UNCHANGED <<inited, table, mutexes, sleepsOn, holds>>

(* wakeup(&user_mutexes[id]), after the spinlock was released. *)
WakeWaiters(p) ==
  /\ pc[p] = "wakeup" /\ Return(p)
  /\ sleepsOn' = [q \in Procs |-> IF sleepsOn[q] = arg[p] THEN None ELSE sleepsOn[q]]
  /\ UNCHANGED <<inited, table, mutexes, holds>>

-----------------------------------------------------------------------------
(* kill() by another process wakes a sleeper, which then looks at the     *)
(* mutex again: mutex_lock does not test p->killed.                       *)
KillWakes(p) ==
  /\ sleepsOn[p] # None
  /\ sleepsOn' = [sleepsOn EXCEPT ![p] = None]
  /\ UNCHANGED <<inited, table, mutexes, pc, op, arg, holds>>

(* exit() leaves the mutexes alone: what the process held stays locked.   *)
ExitHolding(p) ==
  /\ pc[p] = "user" /\ Goto(p, "gone")
  /\ UNCHANGED <<inited, table, mutexes, op, arg, sleepsOn, holds>>

Awake(p) == sleepsOn[p] = None

MutexKernel(p) ==
  Awake(p) /\ (\/ TableInit(p) \/ Acquire(p)
               \/ CreateScan(p) \/ CreateFound(p) \/ Refuse(p) \/ LockLook(p) \/ UnlockLook(p) \/ Own(p)
               \/ SetAllocated(p) \/ SetLocked(p) \/ SetPid(p)
               \/ ReleaseTable(p) \/ ReleaseUnlock(p) \/ LockSleep(p) \/ ReleasePanics(p) \/ WakeWaiters(p))

MutexNext ==
  \E p \in Procs :
    \/ MutexKernel(p) \/ KillWakes(p) \/ ExitHolding(p)
    \/ Call(p, "create", 1)
    \/ \E i \in Ids : Call(p, "lock", i) \/ Call(p, "unlock", i)

MutexSpec == MutexInit /\ [][MutexNext]_mutexVars

-----------------------------------------------------------------------------
(* Two processes never both rely on holding the same mutex, and the table  *)
(* agrees with whoever does.                                               *)
Exclusive ==
  \A p \in Procs : \A i \in holds[p] :
    /\ locked[i] /\ pid[i] = p
    /\ \A q \in Procs \ {p} : i \notin holds[q]

(* A process inside the section lost the spinlock to a late initlock(); it *)
(* will panic, or has.  Until then others may be inside together with it.  *)
LockLost ==
  \E p \in Procs : pc[p] = "panic" \/ (pc[p] \in Section /\ table # p)

(* The mutexes exclude, from the return of mutex_lock to the call of       *)
(* mutex_unlock (sysproc.c:365-429), as long as no caller has lost the     *)
(* spinlock of the table to the race of the first calls (sysproc.c:357).   *)
(* Exclusive alone does not hold: a caller that lost the spinlock still    *)
(* stores into the table before its release() panics.                      *)
MutexExclusion == LockLost \/ Exclusive

(* The race is over: nobody is left on the way to initlock(), and nobody   *)
(* was hurt by it.                                                         *)
Settled == inited /\ ~LockLost /\ \A p \in Procs : pc[p] # "init"

(* Where a process can be. *)
MutexPlaces == {"user", "init", "acquire", "wakeup", "gone", "panic"} \cup Section

MutexTypeOK ==
  /\ inited \in BOOLEAN /\ table \in Procs \cup {None}
  /\ allocated \in [Ids -> BOOLEAN] /\ locked \in [Ids -> BOOLEAN]
  /\ pid \in [Ids -> Procs \cup {None}]
  /\ pc \in [Procs -> MutexPlaces]
  /\ op \in [Procs -> {"none", "create", "lock", "relock", "unlock"}]
  /\ arg \in [Procs -> Ids] /\ sleepsOn \in [Procs -> Ids \cup {None}]
  /\ holds \in [Procs -> SUBSET Ids]

(* What a process knows of the mutex it works on: nobody relies on a slot  *)
(* that is about to be changed, and each store it made is still there.     *)
Progress(p) ==
  /\ op[p] = "unlock" => arg[p] \notin holds[p]
  /\ pc[p] = "own" => op[p] = "unlock"
  /\ pc[p] = "sleep" => Locking(p)
  /\ op[p] = "relock" => allocated[arg[p]]
  /\ pc[p] \in {"sleep", "set_locked", "set_pid", "release"} /\ Locking(p) => allocated[arg[p]]
  /\ pc[p] \in {"set_allocated", "set_locked", "set_pid", "release"} =>
       \A q \in Procs : arg[p] \notin holds[q]
  /\ pc[p] \in {"set_pid", "release"} /\ Locking(p) => locked[arg[p]]
  /\ pc[p] = "release" /\ Locking(p) => pid[arg[p]] = p

(* Exclusive is not inductive as it stands: it needs what the process      *)
(* inside the section knows, and that allocated mutexes stay so.           *)
Kept ==
  /\ Exclusive
  /\ \A p \in Procs : Progress(p) /\ \A i \in holds[p] : allocated[i]

MutexIInv == MutexTypeOK /\ (LockLost \/ Kept)

(* What TLC explores: nothing is claimed of what follows the loss of the   *)
(* lock, so of that only the part before anything is locked.               *)
Explored == LockLost => \A i \in Ids : ~locked[i]

(* A process inside a system call keeps running.  acquire() is a plain    *)
(* test-and-set loop: a process gets the lock only if it stays free.      *)
MutexFairSpec == MutexSpec /\ \A p \in Procs : WF_mutexVars(MutexKernel(p))

(* What others may do to keep mutex_table_lock busy. *)
Disturb ==
  \E p \in Procs :
    \/ KillWakes(p) \/ Call(p, "create", 1)
    \/ \E i \in Ids : Call(p, "lock", i) \/ Call(p, "unlock", i)

Waiting(p, i) == op[p] = "relock" /\ arg[p] = i

(* A mutex that has waiters does not stay free: once no new call competes *)
(* for the table, some waiter gets it (mutex_lock "blocks until the mutex *)
(* is free, then acquires it", sysproc.c:385).                            *)
FreeMutexTaken ==
  <>[][~Disturb]_mutexVars =>
    \A i \in Ids : (~locked[i] /\ \E p \in Procs : Waiting(p, i)) ~> locked[i] \/ LockLost

=============================================================================
