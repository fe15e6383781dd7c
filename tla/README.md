# TLA+ models of G19_OS_Lab_Project

The repository holds two programs. Project 1 is an xv6 kernel for x86
multiprocessors with added system calls: process control (`getppid`, `waitx`,
`waitpid`, `set_priority`, `fork2`, `sigkill`), shared memory (`shmem`,
`shmget`), user mutexes and typed message queues. Project 2 is a small Unix
shell with a set of file utilities. The interesting behaviour is in the kernel:
several CPUs, an interrupt that preempts at any instruction outside a critical
section, sleeping and waking, memory that is handed from one process to
another, and a file system that has to survive a crash. The shell and its
utilities meet the same difficulties from the other side: calls that do less
than they were asked to, fail or are interrupted. This directory models both and
checks them with TLC. For every part of the kernel but the contents of the disk the
safety properties are also proved with TLAPS, and with them the refinement of an
abstract specification by sleep and wakeup, the message queues, the console and
the log.

Paths below are relative to `src/G19_Project1_xv6CustomizeSystemCalls/` unless
they start with `custom_`, which are in `src/G19_Project2_1/src/`.

## 1. Inventory

| part | state | operations | hard part |
|---|---|---|---|
| process table (`proc.c`, `sysproc.c`, `trap.c`, `init.c`) | `ptable.proc[]`, `nextpid`, `ticks`, `cpu->proc` | allocproc, fork, fork2, exit, wait, waitx, waitpid, kill, sigkill, scheduler, yield, update_rtime, set_priority, getppid | fork works on its child without the lock; the scheduler hands the lock to the process it runs; wait and exit must not miss each other; slots and pids are recycled |
| locks and sleeping (`spinlock.c`, `proc.c`) | lock owners, `ncli`, `intena`, interrupt flag, process states | acquire, release, pushcli, popcli, sched, sleep, wakeup, kill | a wakeup between releasing the lock and sleeping; interrupts on a CPU that holds a lock; migration of `intena` |
| user mutexes (`sysproc.c:343-429`) | `user_mutexes[]`, the lock of the table | mutex_create, mutex_lock, mutex_unlock | lazy initialisation, wakeup outside the lock, kills and exits |
| message queues (`sysproc.c:437-709`) | linked lists of queues and nodes on kernel pages | msgget, msgsnd, msgrcv, msgctl | pointer surgery, two levels of locks, removal under the feet of others |
| user memory (`vm.c`, `kalloc.c`, `exec.c`, `sysproc.c:278-306`) | free list, address spaces, `shmtable`, `shm_pages` | copyuvm, allocuvm, deallocuvm, freevm, exec, shmget, shmem | frames mapped by several processes, an unlocked check-then-allocate |
| pipes (`pipe.c`) | ring buffer, `nread`, `nwrite`, open flags | pipewrite, piperead, pipeclose | two sleeps, wrap-around, kill |
| clock (`sysproc.c:53-85`) | `ticks` | sleep, uptime | unsigned arithmetic, kill |
| log (`log.c`) | header, log blocks, `outstanding`, `committing` | begin_op, end_op, log_write, commit, recovery | crash between any two disk writes; group commit |
| buffer cache, disk (`bio.c`, `sleeplock.c`, `ide.c`) | buffers, LRU list, request queue | bread, bwrite, brelse, iderw, ideintr | one buffer per block, completion by interrupt |
| inodes, files (`fs.c`, `file.c`, `sysfile.c`) | inode cache, link counts, file table | iget, iput, ialloc, link, unlink, create, open, close | reference counts against link counts |
| console (`console.c`) | input ring | consoleintr, consoleread | three indices modulo 2^32 |
| shell, utilities (`custom_*.c`) | descriptors, children, line buffers, files | pipelines, redirection, cat, head, tail, sort, wc, grep, cp, mv, rm, touch, chmod, ls | descriptors and children on failure paths; short reads and writes; ring of the last lines; a source that is removed after its copy |

The parts interact as follows. Every blocking operation (mutexes, queues,
pipes, clock, console, log, disk) uses `sleep`/`wakeup`, which module
`SleepWakeup` shows to be an atomic monitor; the other modules use it as one
step. Kernel memory (queue pages, shared frames, kernel stacks) comes from
`kalloc`. Exit and wait free what a process holds. The file system calls run
inside operations of the log, which `Log` shows to be atomic against a crash;
`Files` uses that promise. The log and the file system read blocks through the
buffer cache, which `Buffers` shows to return what was last put into a block,
and `Log` uses that.

## 2. Modules

| module | models | lines of the code |
|---|---|---|
| `Proc` | the process table, the scheduler, the clock interrupt and init | `proc.c`, `trap.c`, `sysproc.c:99-276`, `init.c` |
| `ProcProofs` | theorems about `Proc` | |
| `SleepWakeup` | spinlocks, interrupts, sched, sleep, wakeup, kill, one step per lock operation | `spinlock.c`, `proc.c:332-507` |
| `Monitor` | what sleep and wakeup promise: an atomic monitor | abstract |
| `Mutex` | user mutexes | `sysproc.c:343-429` |
| `Processes` | the processes, and where each is: shared by `SleepWakeup`, `Mutex` and `Devices` | `proc.h:38-56` |
| `SleepProofs` | theorems about `SleepWakeup`, `Mutex` and `Devices` | |
| `MsgQueue`, `MCMsgQueue` | message queues on kernel pages | `sysproc.c:437-709` |
| `MsgQueueProofs` | theorems about `MsgQueue` | |
| `TypedQueue` | what message queues promise: a FIFO per type | abstract |
| `Shm`, `MCShm` | frames, address spaces, both kinds of shared memory | `vm.c`, `kalloc.c`, `exec.c`, `sysproc.c:278-306` |
| `ShmProofs` | theorems about `Shm` | |
| `Pipe` | a pipe and the reference counts of its two files | `pipe.c`, `file.c:43-125` |
| `PipeProofs` | theorems about `Pipe` | |
| `Log`, `MCLog` | the redo log, crashes and recovery | `log.c`, `bio.c:58-106` |
| `LogProofs` | theorems about `Log` | |
| `AtomicDisk` | what the log promises: groups of operations are all or nothing | abstract |
| `Buffers` | buffer cache, sleep locks, disk queue and drive | `bio.c`, `sleeplock.c`, `ide.c` |
| `BuffersProofs` | theorems about `Buffers` | |
| `FsDisk` | blocks, inodes and directories on the disk, as pure operators; mkfs | `fs.c:41-236`, `fs.c:370-578`, `fs.h`, `mkfs.c` |
| `Files`, `MCFiles` | inode cache, path lookup and file system calls of several processes, with crashes | `fs.c:238-360`, `fs.c:583-670`, `sysfile.c`, `file.c` |
| `FilesProofs` | theorems about `Files` | |
| `Devices`, `MCDevices` | the console input ring, the clock and `sleep()` | `console.c:181-271`, `sysproc.c:53-73`, `trap.c:50-58` |
| `LineDiscipline` | what the console promises to its readers | abstract |
| `Session`, `MCSession` | one command line of the custom shell and the utilities it runs | `custom_*.c` |
| `Text` | what the utilities are meant to print | reference definitions |

`PROJECT.json` maps every definition to the lines it stands for. Definitions
introduced by a comment `Slip:` are not part of the model: each is a plausible
programming error in the operation that follows it, used to see that the
property it names in `PROJECT.json` notices it.

### Proc

The variables are the fields of `struct proc`, `nextpid`, `ticks`, the process
each CPU runs and the holder of `ptable.lock`. A critical section is one
action. The lock is explicit only where it is carried across a context switch:
`Scheduler` leaves it held, and `Resume` (the end of `yield`, `forkret` or
`sleep` in `wait`) releases it. What the code does without the lock is a step
of its own: `ForkAlloc`, `ForkNoMemory` (the failure path gives the slot back
without the lock and leaves its pid behind), `ForkCopy` (`np->parent`,
`np->priority`), `ForkRun`; `GetppidLoad` and `GetppidReturn`; `Tick`
(`ticks++`) and `UpdateRtime`. `InitLoop` is the program `init.c`: it forks a
shell and reaps orphans. The return value `-1` of init's fork leads, as in the
code, to `exit` of init and the panic `init exiting`; the liveness properties
exempt that state.

### SleepWakeup and Monitor

One lock `lk` with processes that enter, leave, sleep, wake and kill, and
`ptable.lock`. Each `acquire` is two steps (interrupts off, then the successful
`xchg`), each `release` one; `ncli`, `intena` and the interrupt flag are kept
per CPU. The refinement mapping calls a process asleep from `release(lk)` on,
although its state is set two steps later: whoever wants to wake it needs the
`ptable.lock` that the sleeper still holds.

### Mutex

A run starts before the first call, so the unlocked `mutex_table_init` races: a
late `initlock` frees the spinlock of the table under a caller that is inside. That
caller notices only in its `release`, which panics and stops one CPU; until then it
goes on testing and storing next to whoever takes the lock after it. So every store
into `user_mutexes[]`, and every test that another's store can change, is a step of
its own (`LockLook`, `Own`, `SetAllocated`, `SetLocked`, `SetPid`), and `LockLost`
says that a caller is inside without the lock or has panicked. `holds`
records what user code knows: what it locked and has not unlocked. Killing a
waiter wakes it, and it sleeps again, because `mutex_lock` does not test `killed`;
exit leaves mutexes locked.

### MsgQueue and TypedQueue

Pages hold queues or nodes with the code's `head`, `tail` and `next`. Looking
a queue up, allocating a node, appending, scanning, sleeping, copying, and the
three parts of a removal are separate steps. A process that follows a pointer to
a page that is no queue any more derails and is not followed further. The history
variable `late` holds the nodes that a sender appended after `msgctl` had drained
the queue and before it freed the page (`sysproc.c:698-700`), and that nobody has
taken out since: nobody will free them. A message is its type and its number; its
length, and the copy of `msgsz` bytes into the node, which `sysproc.c:555` makes
without comparing `msgsz` with the size of `data`, are not modelled. In
`TypedQueue` a message is first outgoing, then in the queue, then in the hands
of a receiver, then delivered, or dropped when the caller's buffer is refused
(`sysproc.c:625-629`).

### Shm

An address space is the sequence of frames mapped from address 0 up to `sz`;
sizes are whole pages. Fork copies every page, shared ones included. `deallocuvm`
and `freevm` free every frame that is mapped; when such a frame belongs to a
region the free list is corrupt from then on, and the model stops (`halt`).
`shmem` is four steps, since it takes no lock. The ghost `last` records what
user code wrote to a region, `lost` the frames that two racing first calls of
`shmem` leak.

### Pipe

One pipe shared by the descendants of one process. What is done under
`p->lock` up to the next sleep or return is one action: `Piperead`,
`PipereadEmpty`, `Pipewrite`, `PipewriteFull`. Going to sleep (`Sleep`) is a step
of its own with `p->lock` held, because `kill` takes only `ptable.lock`: a kill
between the test of `killed` and the sleep wakes nobody. `Fileclose` stops where
`ftable.lock` is released, and the closer of the last descriptor goes on to
`Pipeclose`. Byte number k has the value k, so that `Stream` sees any byte that
is lost, repeated or out of place. A process has at most one descriptor of each
end (no `dup`), and a slot is used once. `cut` records that a write failed
after it had put bytes into the ring (`pipe.c:86-89`); nobody is woken for those
bytes, and `NoMissedWakeup` exempts them until the next wakeup of the readers.

### Log and AtomicDisk

The state is the disk (home blocks, log blocks, header), the memory of `log.c`
and the buffer cache. `cache[b]` is what `bread` of block b returns; `Recycle`
replaces it by the block on disk, which must not be noticed, and is possible only
for buffers that are neither locked nor dirty. Each block written by `write_log`,
`write_head` and `install_trans` is one step (a block is one disk sector).
`log_write` is two steps, since it tests `lh.n` before it takes the lock. `Crash`
is enabled in every state, loses all memory and lets one process run
`recover_from_log`; it also stands for the restart after a panic. Under the
refinement mapping the stable disk of `AtomicDisk` is what recovery would make of
the real one (`Recovered`); the step that commits is `write_head`.
The log has `LOGSIZE - 1` data blocks (`mkfs.c:25`, `log.c:218`), one less than
`begin_op` reserves. At that limit `log_write` panics, or two processes pass its
test together and `write_log` reaches the block behind the log; the model
stops there (`halt`).

### Buffers

A critical section under `bcache.lock`, `idelock` or the spinlock of a sleep
lock is one action. `Bget` finds a buffer in the list or takes the least
recently used one that is free and not dirty, `Acquiresleep` waits for its lock,
`Bread` starts a transfer unless the buffer is valid, `LogWrite` and `Bwrite`
change its data (the first pins it by B_DIRTY, the second waits for the disk),
`Releasesleep` and `Brelse` give it back. The drive executes the command at the
head of `idequeue`, `DriveDone` finishes it and raises the interrupt, `Ideintr`
completes the request and starts the next. When the drive reports an error on a
read, `ideintr` leaves the old data in the buffer and marks it valid
(`ide.c:118-123`); the ghost `failed` remembers those buffers. A write always
succeeds in the model: `ideintr` does not look at the status of a write, and
completes one that failed like any other. The ghost `last`
is what was last put into each block.

### FsDisk and Files

`FsDisk` has no variables: its operators take a disk and return one, as the
functions of `fs.c` do while their caller holds the inode's lock. A disk is
a bitmap, inodes with direct and indirect addresses, and blocks of words; a word
is a directory entry, a byte of a file or a block number. A panic is a field of
the disk that stops everything.

In `Files` an action runs from one place where the code may wait for an inode
lock, or gives up `icache.lock`, to the next. `at[p]` holds the locals of a call:
`ip`, `dp`, the rest of the path, and `put`, the inode whose `iput` is in
progress. A path lookup is one `NamexNext` per element. `iput` is three actions,
because it drops and retakes `icache.lock` around its test (`fs.c:335-348`).
`create`, `link` and `unlink` lock, change and put one inode at a time, so that
two calls interleave as they can in the code. A name that a directory has leads to
`iget`, which panics when every entry of the cache is in use (`Found`); then the
directory stays locked, although the call has not got any further (`Stuck`).
`active` are the processes
between `begin_op` and `end_op`; `stable`, the disk a crash leaves, is replaced
when the last of them ends, which is what `AtomicDisk` promises. `Crash` takes
everything but `stable`. Every `open` is for reading and writing. A file holds at offset k the value k, so that
`ContentKept` sees a block that is lost, shared or stale.

### Devices and LineDiscipline

`Consoleintr` is the interrupt for one key: it stores, erases, or ends the line.
`Consoleread` is cut where it tests, sleeps and takes a character: `ReadEnds`,
`ReadWaits`, `ReadChar`. `sys_sleep` is cut in the same way: `SysSleep`,
`NapWaits`, `NapEnds`. Who holds `cons.lock` or `tickslock` between two of them
is explicit; going to sleep is a step of its own, as in `Pipe`. All indices and
`ticks` are modulo `Wrap`. `Tick` waits for nobody: the clock may go on, and even
round, before a process that it woke has run. `slept` counts the ticks a sleeper
has really waited, up to what it waits for. The refinement mapping reads the ring as two
sequences: from `r` to `w` what readers may take, from `w` to `e` the line being
typed.

### Session and Text

A behaviour is one command line, from the prompt to the prompt. The shell's steps
are `ReadLine`, the forks, `CloseEnds` and the two waits. A child applies its
redirections (`Setup`), checks its arguments (`Exec`) and then does one system
call per step: `OpenInput`, `Read`, `Eat` (what the utility does with the
chunk), `Write`, `EndOfFile` and so on. A read may return less than was asked
for and a write may take less than it was given; one call may fail (`MaxFaults`)
and one process may be interrupted. Files have inodes, contents and the owner's
permissions, so that `mv` across file systems, `cp` onto an existing file, `rm -r`
and `chmod` act on what the others see. `filter` stands for a program outside the
repository that copies its input to its output. `Text` says what each utility
should print for a file, independently of chunks and buffers.

## 3. What the runs check

| run | instance | result |
|---|---|---|
| `proc_safety` | 2 CPUs, 3 slots, 4 pids, 2 ticks, one priority | a process is RUNNING exactly when one CPU runs it; every process has a live parent; no one sleeps in wait over a zombie or a kill; a process is charged at most one tick more than it lived |
| `proc_live` | 2 CPUs, 3 slots, 4 pids | a killed process exits; zombies that `exit` hands to init, and init's own, are reaped; RUNNABLE processes run |
| `sleep_wakeup` | 2 CPUs, 3 processes | no panic, no deadlock, interrupts come back, refinement of `Monitor` |
| `mutex` | 3 processes, 2 mutexes | exclusion, unless a caller lost the spinlock to the race of the first calls; a free mutex with waiters is taken |
| `msg_queue` | 2 processes, 4 pages, 2 ids, 2 types, 3 messages | every node in exactly one place, but those appended to a drained queue; no missed message; FIFO per type until a removal |
| `shm` | 3 processes, 5 frames, 3 pages below KERNBASE | every frame is free, mapped or held, never two of these, and none leaks but those of racing `shmem` calls; shared data is kept until freed |
| `pipe` | 3 processes, 2 bytes in the ring, counters modulo 4, one kill | bytes in order and once, no missed wakeup, readers see the end of the file |
| `log` | 3 processes, 4 blocks, 1 block per operation, a log of 3, any number of crashes | atomic transactions, durability, no missed wakeup in `begin_op` |
| `buffers` | 2 processes, 2 buffers, 3 blocks, read errors | a buffer holds what was last put into its block; no sleeper is left behind; every request is served |
| `files` | 2 processes, 3 calls, 1 crash, 5 inodes, 12 blocks of 2 words, 1 direct block | blocks owned once, contents kept, no dangling name, exact reference counts, a coherent inode cache, no panic but for want of something or at a `..` that leads to a removed directory |
| `devices` | 2 processes, one of which also sleeps, a ring of 2, indices and clock modulo 4, delays 1 and -1, one kill | the ring implements `LineDiscipline`; no sleep is too short; no wait outlasts its cause |
| `session` | 49 command lines, texts of up to 3 characters and some longer ones, buffers of 3, one fault, one Ctrl-C | every utility prints what it should, no source is lost, nothing is left behind, the prompt comes back |

**Bounds.** A lost wakeup between a process and its parent needs two CPUs and
two processes besides init; two ticks let a slot be reused after it was charged.
An orphan takes three pids besides init's: a shell, its child, and the next shell. The
last pid is kept for init, which reaps orphans while it waits for a shell and so
must be able to start another when the one that left an orphan is gone;
`OrphansReaped` gives up only when the shell is gone and no pid is left.
Init asleep while it inherits a zombie needs a chain of four slots; that case is
left to the theorem `WaitMissesNothing`, which holds for any number of slots.
Mutexes and monitors need a holder, a waiter and a third process that
interferes. After the loss of the spinlock `mutex` follows only what happens before
something is locked (`Explored`): nothing is claimed of the rest, and the first
steps of it fire the panic. Four pages hold a queue and three messages, so that the first, a
middle and the last node can be taken out; two ids let a key be used again after
a removal. In `pipe` every write is one byte longer than the ring, reads take one
byte or two, and the bytes of overlapping writes take the counters past four,
where they wrap. `LOGSIZE` is three times `MAXOPBLOCKS` in `log`, as in `param.h`; a
transaction groups up to three operations, and one block more than the log holds
lets it overflow. Five frames allow two forks and still run out, which takes the
failure paths. Two buffers for three blocks make every miss recycle one. In `files`
a file of two blocks already uses the indirect block, a directory of two
entries is full and grows by a block, and the calls of `MCCalls` are chosen to
collide: they create, link, remove and enter the same two directories, one of
them as the current directory of a process; three calls are one process'
pair against another's call. In `devices` the ring fills, is emptied and wraps;
the delay 1, the longest an `int` as wide as that clock can hold, ends before and
after the clock wraps, and -1 is three ticks. In `session` a chunk is
shorter than the longest texts, a line can be longer than a utility's
line buffer, a pipe holds one character, and the lines take every usage error,
every redirection and every utility on both sides of a pipe. Processes, pages
and blocks that the code treats alike are declared symmetric in the `MC`
modules.

`CHECK_DEADLOCK` is off where everything may have stopped (bounds reached,
everybody exited, asleep on a mutex nobody unlocks, or in `files` waiting for each
other's inode locks, section 5). It is on in `sleep_wakeup`.

**Fairness.** In `Proc`, a CPU that holds `ptable.lock` has interrupts off and
goes on (weak fairness); whoever spins for the lock gets it if it becomes free
again and again (strong fairness), which the code leaves to the hardware:
`acquire` is a test-and-set loop without a queue. The timer keeps interrupting.
In `Mutex` only weak fairness is assumed, and the property is about the time
after which no new call competes for the lock of the table. In `Pipe` a process
that is inside the kernel goes on (weak fairness); processes in user code need
not call anything. In `Buffers` the drive finishes its command, its interrupt
is taken, and a process that was woken in `iderw` runs; nobody has to ask for or
release a buffer. In `Devices` the timer goes on and a process in the kernel
that is not asleep runs; `Tick` and `Resume` spin for their lock and need strong
fairness, as in `Proc`. Fairness does not say how soon a woken process runs, and the
time of a `sleep(n)` that is up is no longer up when the clock has gone round. So
the first part of `WaitsEnd` is about the behaviours in which that stops happening
to sleeps with n >= 0 (`Overtaken`): a RUNNABLE process would have to be left out
for 2^31 ticks. The parts about killed sleepers and about readers assume nothing of
the kind. Nobody has to press a key. In
`Session` the shell and each child go on when they can (weak fairness); faults
and Ctrl-C need not happen.

## 4. What is proved

Eight modules of proofs show that what the runs find on small instances holds for
every value of the constants. Each proves `Spec => []IInv` for an inductive
invariant `IInv` (theorem `Inductive`; `MutexIInv` and `DevicesIInv` in `SleepProofs`)
that is defined at the end of the module it is about, and derives the properties
from it. The proof that a step preserves
`IInv` has one lemma per action, and in it one step per conjunct the action can
disturb. The only assumptions are the `ASSUME`s of the modelled modules, which
say that names like `None` are not among the processes, pages, messages, keys or disk
commands, that sizes are not 0, that the processes (`Mutex`, `Shm`, `Pipe`,
`Buffers`, `Devices`, `Files`) or pages (`MsgQueue`) are finitely many, that the log
holds the blocks of one operation, and that the counters of a pipe and of the console
wrap at a multiple of the size of the ring, at least twice that (512 and 128 against
2^32 in `pipe.c` and `console.c`). The inode cache has at least two entries (50 in
`param.h`).

| module | theorem | states |
|---|---|---|
| `ProcProofs` | `OneCpuPerProcess`, `LiveParents`, `WaitMissesNothing`, `Accounting` | the four invariants of `proc_safety` |
| | `TypeCorrect`, `UniquePids` | the table is well typed; no two slots have the same pid (not repeated in a run) |
| `SleepProofs` | `NeverPanics`, `Interruptible`, `LocksOrdered` | the three invariants of `sleep_wakeup` |
| | `SleepIsAtomic` | `SleepWakeup` implements `Monitor` |
| | `Exclusion` | `MutexExclusion` of `Mutex` |
| | `SettledExclusion` | once nobody is left on the way to `initlock` and no caller has lost the spinlock, exclusion holds for good (not repeated in a run) |
| | `Implements`, `LongEnough` | `Devices` implements `LineDiscipline` (`InputDiscipline`); `SleepsLongEnough` |
| `MsgQueueProofs` | `NodesOwnedOnce`, `NoMessageMissed` | `NodeOwnedOnce` and `NoMissedMessage` |
| | `Implements` | `MsgQueue` implements `TypedQueue` until a queue is removed (`TypedFifo`) |
| `ShmProofs` | `FramesAccounted`, `RegionsKept` | `FramesExact` and `SharedUntilFreed` |
| `PipeProofs` | `StreamKept`, `NobodySleepsThrough` | `Stream` and `NoMissedWakeup` |
| | `FreedLast` | the page of a pipe outlives every use of it (not repeated in a run) |
| `BuffersProofs` | `DataIsFresh`, `NobodySleepsThrough` | `FreshData` and `NoMissedWakeup` |
| `FilesProofs` | `Refs` | `RefsExact` |
| | `Descriptors`, `Locks`, `Transactions` | the other parts of the invariant: `f->ref` counts descriptors, a lock has the holder its call says and an inode one entry, writes are inside operations of the log |
| | `EntriesStay` | an entry in use stays the entry of its inode (an action property) |
| `LogProofs` | `NobodyForgotten`, `AlwaysDurable` | `NoMissedWakeup` and `Durable` |
| | `CrashAtomic` | `Log` implements `AtomicDisk` |

Few of the properties are inductive by themselves.

* **Process table** (`SizeAssumption`). fork works on its child without the lock, so
  `IInv` adds `ForkInv`: an EMBRYO belongs to exactly one fork, its parent is null
  or that process, and the local `np` of a process in fork points to its own
  EMBRYO. exit hands children to init, so `InitInv` adds that init is never
  UNUSED, EMBRYO or ZOMBIE, has no parent, and that no process is its own parent.
* **Sleep and wakeup** (`MonitorAssumption`). That nothing panics depends on what
  each CPU holds, and a CPU that is switched holds what the process it switches
  to acquired elsewhere. `CpuInv` says, by where the process of a CPU is, which
  locks the CPU owns, how deep `pushcli` is nested and whether interrupts are on;
  `ProcInv` says where a process can be that is not running, and that the
  `intena` it takes along is set. For the refinement it is enough that every step
  changes the holder, the sleepers and the callers of wakeup as `Monitor` allows.
* **Mutexes** (`MutexAssumption`). Exclusion needs what the one process inside the
  section knows of the mutex it works on (`Progress`): nobody relies on a mutex that
  it is about to change, and the stores it has made are still there when it releases
  the spinlock. A mutex somebody holds or sleeps for is not created anew, hence it
  must stay allocated. All this holds until a caller loses the spinlock; `MutexIInv` is
  that disjunction. `StaysSettled` shows that no caller loses it once `inited` is set
  and nobody is left before `initlock`, which gives `SettledExclusion`.
* **Console and clock** (`DevicesAssumption`). `InOrder` says that r, w and e follow
  each other and are at most `INPUT_BUF` apart, `Typing` that the line being typed
  holds no end of a line, `Elapsed` that the difference of two readings of a clock
  that wraps is the time between them until that time is as long as the sleep was
  to be, after which the clock may go round. Since `INPUT_BUF` divides `Wrap`, a character
  is in the slot its unwrapped index leads to (`SlotIs`), and no two characters in
  the ring share a slot (`Apart`). With that, a key or a read changes the two
  sequences of the refinement mapping as `LineDiscipline` says; `^U` erases a
  line in one step of the code and of the specification.
* **Message queues** (`MsgAssumption`). `Lists` says what the pointers of a queue page
  mean: `head`, `next` and `tail` link its nodes, each once, and no two queues share
  one. `Hands` adds the nodes of senders before they append and of receivers after
  they unlink. `Listed` and `Pointers` handle removal: a queue is in the list under
  its own id or one process is removing it, and a pointer a process keeps across an
  unlock is good as long as its id is in the list. `Waiting` says that a sleeping
  receiver found nothing, and that nothing came since. `Owned` accounts for every
  node: it is in a queue, in a hand, or `late`, and the late ones in a queue are
  all the nodes of a queue that has been drained, so that freeing its page leaves
  behind only those. The nodes of a queue are the
  chain `Items` of its `head`, a recursive function over the number of pages; the
  lemmas `WalkExists`, `WalkFinds` and `ChainFinds` show that it is well defined and is
  the sequence `IsList` describes, from the least place where it would fail. With it,
  appending and unlinking are operations on sequences, and these are the steps of
  `TypedQueue`.
* **User memory** (`ShmAssumption`). `NothingLeaks` and `UsedOnce` state
  `FramesExact` frame by frame and add what keeps it: the frames of `shmem` keys
  and the lost ones are neither mapped nor of a region, the frame a process is
  about to zero is one of those, and a slot that is not in use maps nothing.
* **Pipes** (`PipeAssumption`). `Ring` numbers the bytes from the creation of the pipe:
  the counters are these numbers modulo `Wrap`, and byte k that is not read yet is
  in slot (k - 1) % PIPESIZE. Lemmas about `%` show that the difference of the
  counters is the fill of the ring although they wrap. `RefsCounted` ties
  the open ends to the descriptors of all processes, and `GoingToSleep` says that
  what a process found under `p->lock` still holds when it sleeps.
* **Buffers** (`BufAssumption`). That a reader has fresh data needs that a block is in
  one buffer only, that `refcnt` counts its users, so that it is not recycled under
  them (`Refs`), that the sleep lock has one owner (`Locks`), and that what the disk
  does not have yet is in a dirty buffer (`Fresh`), which `Unused` excludes
  from recycling. `Requests` and `Driving` say that the queue holds each
  request once, that its owner waits in `iderw`, and that the drive executes the
  first with the data of that buffer.
* **Files** (`FilesAssumption`, `FsAssumption`). `Frame` says, for each place of a call,
  which of `ip`, `dp` and `put` point into the inode cache; during an `iput` it is the
  place to which it returns that counts (`After`). `RefsExact` adds the pointers
  up, and `FilesCounted` the descriptors; a step changes the pointers of one process
  and one file, so each of the five sums changes by what they gain and lose
  (`PointersChange`, from the cardinality of sets that differ in one element).
  `LocksExact` says which locks a place implies (`Keeps`, `Frees`), in both
  directions: whoever holds a lock is at such a place. `OneEntry` needs that `iget`
  takes an empty entry only when the inode has none. `InOperation` and `Committed`
  are about `begin_op` and `end_op`. Every action is brought to one of a few shapes (a
  call that moves on, leaves for an `iput`, returns from it, opens or closes a
  file), and each shape has one lemma. The contents of the disk do not matter for
  any of this: the proofs hold for whatever a path lookup finds.
* **Log** (`LogAssumption`). `GroupInv` counts the operations and lets one commit or
  recovery run at a time; `CacheInv` says that a block that differs from the disk
  is pinned and named by the header in memory; `CommitInv` says, for each place of
  a commit or recovery, how far the log blocks, the header on disk and the home
  blocks have got. With it, the step that writes the header changes what recovery
  would find from the old state to the new one, and no other step of a commit
  changes it, which is the refinement.

The theorems about `Shm` and `Log` are about the models as they are: where `halt`
stops them (sections 2 and 6), the theorems say nothing of what the code does next.

Only model-checked:

* liveness, since TLAPS does not handle fairness and ENABLED: `KilledExits`,
  `OrphansReaped`, `NoStarvation`, `FreeMutexTaken`, `EndOfFile`, `RequestServed`,
  `WaitsEnd`, `PromptReturns`;
* `BlocksExact`, `ContentKept`, `NoDanglingName` and `PanicsExplained` of `Files`, and
  that a cached inode agrees with the disk (the second half of `CacheCoherent`; the
  first is `OneEntry`). They depend on what the loops of `writei`, `itrunc` and
  `dirlookup` do to the blocks, and `FsDisk` has these loops as folds: what a fold
  computes for every input needs induction over data, which is out of the
  prover's reach;
* `Session` and `Text`, whose operators on texts and argument lists are RECURSIVE.
  `SourceKept` also depends on which command lines are run together.

## 5. Disagreements met while modelling

Each of these is part of the models as the code has it. Where a formula is named,
it states what the quoted line says, TLC refutes it, and it can be seen by adding
it as an INVARIANT (`NewProcessNotKilled`: as a PROPERTY) to the configuration
named.

Kernel, processes and memory:

* `kill` finds a pid that a failed fork left in an UNUSED slot (`proc.c:496`) and sets
  `killed`, which `allocproc` does not reset, so a new process may be born killed;
  `proc.c:486`: "Kill the process with the given pid" (`NewProcessNotKilled`,
  `ProcSafety.cfg`);
* `msgctl` frees the page of a queue (`sysproc.c:700`) to which a sender or receiver
  still holds a pointer; `kalloc.c:67` fills freed pages "to catch dangling refs"
  (`NoDanglingQueue`, `MsgQueue.cfg`);
* a message that `msgsnd` appends after `msgctl` has emptied the queue and released its
  lock, and before it frees the queue (`sysproc.c:698-700`), is never freed: `late`
  in `MsgQueue`;
* a first `mutex_create` that loses the spinlock to a late `initlock` may have found a
  slot free that another process then creates and locks, and resets it: two
  processes hold one mutex until the `release` panics, and after
  (`sysproc.c:357-376`; `sysproc.c:385`: "blocks until the mutex is free, then
  acquires it"). `Exclusive` alone does not hold (`Mutex.cfg` without its CONSTRAINT);
* `deallocuvm` frees the frame of a shared region with its first user (`vm.c:275`);
  `shmtest.c:78` expects to read 99 from it after the child exited
  (`SharedDataKept`, `Shm.cfg`);
* `update_rtime` runs in a critical section after `ticks++` (`trap.c:53-56`), so
  `waitx` may report a waiting time of -1 (`RtimeOffByOne` is the exact bound);
* the scheduler never reads `priority`;
* `begin_op` reserves one block more than the log holds (`log.c:132`, `log.c:218`),
  and `log_write` tests the limit without the lock: see `Log` above;
* a kill is missed by a process that has tested `killed` and has not yet gone to
  sleep (`pipe.c:106`, `msgrcv`, `console.c:246-251`: it waits for the next byte,
  message or line; in `sys_sleep` the next tick ends it);
* `sleep(n)` with a negative n sleeps for nearly 2^32 ticks (`sysproc.c:62`
  compares unsigned), and if it does not run in the few ticks before the clock has
  gone round, for another round;
* `getppid` follows `parent` without the lock;
* `refcnt` of a shared region counts calls and never goes down;
* `shmget` panics in `mappages` when `sz` reaches KERNBASE;
* the locks of the mutex table and of the queue list are initialised lazily
  without a lock.

Kernel, file system:

* two processes that put an unlinked inode at the same time may both find the
  other's reference (`fs.c:335-341`) and then neither frees it; `fs.c:118-120`:
  "iput() frees if the reference and link counts have fallen to zero"
  (`FreedAtZero`, `Files.cfg`);
* `unlink` and `create` lock an entry while they hold its directory, and with
  `..` another call locks them in the other order: both wait for ever;
  `fs.c:149`: "The separation also helps avoid deadlock" (`NoLockCycle`, `Files.cfg`);
* the `..` of a directory that was removed while it was somebody's current
  directory may name a freed inode: `ilock: no type` (`fs.c:310`; the only panic
  that `PanicsExplained` allows besides running out of something, and only to a
  process that came by `..`);
* when the entries of the root directory fill its blocks exactly, `mkfs.c:161`
  sets its size one block too far;
* a read error of the drive sets B_VALID with the old data in the buffer
  (`ide.c:118-123`); `bio.c:17` says of B_VALID that "the buffer data has been read
  from the disk". The status of a write is not read at all.

Shell and utilities:

* a read error ends the copy of `mv` like the end of the file, and the source is
  removed (`custom_mv.c:43`);
* after a failed `fork` the shell keeps the pipe open and does not wait for the
  first child (`custom_shell.c:230`, `custom_shell.c:244`);
* a command that consists of redirections only makes `execvp` follow a null pointer
  (`custom_shell.c:202`), and the child dies of it;
* a builtin is recognised before `|`, `<` and `>` are looked for, and prints them;
* no utility reads its standard input, so the pipeline into `custom_grep` and the
  `custom_wc < listing.txt` of the README of Project 2 end with a usage message;
* `cp` of a file onto itself truncates it; `head` ignores short writes
  (`custom_head.c:92`); `tail` and `grep` split lines longer than their buffer; `sort`
  of a text without a final NL looks at the byte behind it (`custom_sort.c:147-150`);
* `touch` fails on the caller's own file if it is read-only (`custom_touch.c:17`);
  `ls` leaves out every name that starts with a dot, where its comment says `.`
  and `..` (`custom_ls.c:67`).

## 6. Not modelled

* Boot code, interrupt controllers, the keyboard tables, the UART, the screen,
  assembly and the ELF format: sequential device programming, or formats, with no
  state the properties could relate.
* The system call table and argument copying, beyond the failures that calls
  depend on; `cps`, `getprocs`, `procdump`, `uptime`, `fstat`: they only read.
* `memide.c`, the RAM disk that replaces `ide.c` in tests.
* The length of a message and the unbounded `memmove` of `msgsnd` (`sysproc.c:555`), the
  modes of `open` other than O_RDWR, and a drive that fails to write.
* Page directories and kernel stacks: `Shm` keeps the frames of user memory only.
* The commit that writes behind the end of the log, and what a process does after it
  followed a dangling queue pointer: the models stop there, since what
  comes next depends on the memory that is overwritten.
* `sh.c`, `umalloc.c`, `printf.c`, `ulib.c` and the user programs of xv6:
  sequential and private to one process. The test programs were read for what
  they expect.
* Times, group and other permissions, `malloc` failures and lines in which two
  utilities write to one file, in `Session`.
