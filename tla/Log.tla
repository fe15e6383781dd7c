-------------------------------- MODULE Log ---------------------------------
(***************************************************************************)
(* The redo log of the file system (log.c): operations of several          *)
(* processes are grouped into one transaction, which the last end_op()     *)
(* commits block by block; the machine may crash between any two steps,    *)
(* in recovery too.                                                        *)
(*                                                                         *)
(* A critical section under log.lock is one action, and so is the write of *)
(* one block to the disk.  cache[b] is what bread() of the home block b    *)
(* returns.                                                                *)
(***************************************************************************)
EXTENDS Integers, Sequences, FiniteSets, Functions

CONSTANTS
  Procs, None,
  Blocks, Values,       \* the home blocks and their contents
  MAXOPBLOCKS, LOGSIZE

ASSUME LogAssumption ==
  /\ None \notin Procs \cup Blocks /\ Procs # {}
  /\ MAXOPBLOCKS \in Nat \ {0} /\ LOGSIZE \in Nat /\ LOGSIZE >= MAXOPBLOCKS

VARIABLES
  disk, logd, head,     \* on disk: home blocks, log blocks, the log header
  cache, dirty,         \* the buffer cache, and the buffers with B_DIRTY
  lh, outstanding, committing,
  up,                   \* has recover_from_log() returned?
  pc, tail,             \* where each process is; its loop variable
  buf,                  \* the buffer of a home block it has locked
  wrote,                \* the blocks its operation has written
  asleep,               \* does it sleep on &log?
  halt                  \* "panic"; "overrun": see WriteLog

disks == <<disk, logd, head>>
bufs  == <<cache, dirty>>
mem   == <<lh, outstanding, committing>>
local == <<tail, buf, wrote>>
vars  == <<disks, bufs, mem, up, pc, local, asleep, halt>>

(* mkfs makes a log of nlog = LOGSIZE blocks, one of which is the header. *)
Size == LOGSIZE

At(p, places) == halt = "no" /\ pc[p] \in places

Goto(p, place) == pc' = [pc EXCEPT ![p] = place]

(* wakeup(&log) *)
Wakeup == asleep' = {}

Booting(first) == [p \in Procs |-> IF p = first THEN "boot" ELSE "user"]

(* A disk made by mkfs, and nothing in memory: the first process recovers. *)
Init ==
  /\ disk \in [Blocks -> Values] /\ head = <<>>
  /\ \E v \in Values : logd = [i \in 1..(Size - 1) |-> v]
  /\ cache = disk /\ dirty = {} /\ lh = <<>> /\ outstanding = 0 /\ committing = FALSE
  /\ up = FALSE /\ \E p \in Procs : pc = Booting(p)
  /\ tail = [p \in Procs |-> 1] /\ buf = [p \in Procs |-> None]
  /\ wrote = [p \in Procs |-> {}] /\ asleep = {} /\ halt = "no"

(* The machine stops and starts again, also after a panic. *)
Crash ==
  /\ halt # "overrun"
  /\ cache' = disk /\ dirty' = {} /\ lh' = <<>> /\ outstanding' = 0 /\ committing' = FALSE
  /\ up' = FALSE /\ \E p \in Procs : pc' = Booting(p)
  /\ tail' = [p \in Procs |-> 1] /\ buf' = [p \in Procs |-> None]
  /\ wrote' = [p \in Procs |-> {}] /\ asleep' = {} /\ halt' = "no"
  /\ UNCHANGED disks

-----------------------------------------------------------------------------
(* Operations *)

BeginOp(p) ==
  /\ At(p, {"user", "begin"}) /\ up /\ p \notin asleep
  /\ IF committing \/ Len(lh) + (outstanding + 1) * MAXOPBLOCKS > LOGSIZE
       THEN asleep' = asleep \cup {p} /\ Goto(p, "begin") /\ UNCHANGED <<outstanding, wrote>>
       ELSE /\ outstanding' = outstanding + 1 /\ Goto(p, "op")
            /\ wrote' = [wrote EXCEPT ![p] = {}] /\ UNCHANGED asleep
  /\ UNCHANGED <<disks, bufs, lh, committing, up, tail, buf, halt>>

Locked(b) == \E p \in Procs : buf[p] = b

(* bread() and a change of b->data. *)
Modify(p, b, v) ==
  /\ At(p, {"op"}) /\ ~Locked(b)
  /\ wrote' = [wrote EXCEPT ![p] = @ \cup {b}] /\ Cardinality(wrote'[p]) <= MAXOPBLOCKS
  /\ cache' = [cache EXCEPT ![b] = v] /\ buf' = [buf EXCEPT ![p] = b]
  /\ Goto(p, "log_write")
  /\ UNCHANGED <<disks, dirty, mem, up, tail, asleep, halt>>

(* The tests of log_write(), without the lock. *)
LogTest(p) ==
  /\ At(p, {"log_write"})
  /\ IF Len(lh) >= LOGSIZE \/ Len(lh) >= Size - 1 \/ outstanding < 1
       THEN halt' = "panic" /\ UNCHANGED pc
       ELSE Goto(p, "append") /\ UNCHANGED halt
  /\ UNCHANGED <<disks, bufs, mem, up, local, asleep>>

\* Slip: the search for the block takes any entry for it.
LogAppendAbsorb(p) ==
  /\ At(p, {"append"})
  /\ lh' = IF lh # <<>> THEN lh ELSE Append(lh, buf[p])
  /\ dirty' = dirty \cup {buf[p]} /\ buf' = [buf EXCEPT ![p] = None]
  /\ Goto(p, "op")
  /\ UNCHANGED <<disks, cache, outstanding, committing, up, tail, wrote, asleep, halt>>

(* The rest of log_write(), and brelse(). *)
LogAppend(p) ==
  /\ At(p, {"append"})
  /\ lh' = IF buf[p] \in Range(lh) THEN lh ELSE Append(lh, buf[p])
  /\ dirty' = dirty \cup {buf[p]} /\ buf' = [buf EXCEPT ![p] = None]
  /\ Goto(p, "op")
  /\ UNCHANGED <<disks, cache, outstanding, committing, up, tail, wrote, asleep, halt>>

(* bget() gives a buffer to another block; the next bread() of this one   *)
(* reads the disk.                                                        *)
Recycle(b) ==
  /\ halt = "no" /\ ~Locked(b) /\ b \notin dirty /\ up
  /\ cache' = [cache EXCEPT ![b] = disk[b]]
  /\ UNCHANGED <<disks, dirty, mem, up, pc, local, asleep, halt>>

\* Slip: only the commit wakes the processes that wait for space.
EndOpSilent(p) ==
  /\ At(p, {"op"}) /\ outstanding' = outstanding - 1
  /\ IF committing THEN halt' = "panic" /\ UNCHANGED <<committing, pc>>
     ELSE /\ committing' = (outstanding = 1) /\ UNCHANGED halt
          /\ Goto(p, IF outstanding > 1 THEN "user" ELSE IF lh = <<>> THEN "done" ELSE "write")
  /\ UNCHANGED <<disks, bufs, lh, up, local, asleep>>

EndOp(p) ==
  /\ At(p, {"op"}) /\ outstanding' = outstanding - 1
  /\ IF committing THEN halt' = "panic" /\ UNCHANGED <<committing, pc, asleep>>
     ELSE /\ committing' = (outstanding = 1) /\ UNCHANGED halt
          /\ IF outstanding = 1
               THEN Goto(p, IF lh = <<>> THEN "done" ELSE "write") /\ UNCHANGED asleep
               ELSE Goto(p, "user") /\ Wakeup
  /\ UNCHANGED <<disks, bufs, lh, up, local>>

-----------------------------------------------------------------------------
(* commit() and recover_from_log() *)

(* The end of a loop over the blocks of the header. *)
Loop(p, next) ==
  IF tail[p] < Len(lh)
    THEN tail' = [tail EXCEPT ![p] = @ + 1] /\ UNCHANGED pc
    ELSE tail' = [tail EXCEPT ![p] = 1] /\ Goto(p, next)

(* One block of write_log().  The block behind the last one of the log is  *)
(* the first inode block: the model stops before it is overwritten.        *)
WriteLog(p) ==
  /\ At(p, {"write"}) /\ ~Locked(lh[tail[p]])
  /\ IF tail[p] > Size - 1
       THEN halt' = "overrun" /\ UNCHANGED <<logd, pc, tail>>
       ELSE /\ logd' = [logd EXCEPT ![tail[p]] = cache[lh[tail[p]]]]
            /\ Loop(p, "head") /\ UNCHANGED halt
  /\ UNCHANGED <<disk, head, bufs, mem, up, buf, wrote, asleep>>

(* write_head(): the commit point. *)
WriteHead(p) ==
  /\ At(p, {"head"}) /\ head' = lh /\ Goto(p, "install")
  /\ UNCHANGED <<disk, logd, bufs, mem, up, local, asleep, halt>>

\* Slip: recovery clears the log without installing it.
ReadHeadOnly(p) ==
  /\ At(p, {"boot"}) /\ lh' = head
  /\ Goto(p, "clear")
  /\ UNCHANGED <<disks, bufs, outstanding, committing, up, local, asleep, halt>>

ReadHead(p) ==
  /\ At(p, {"boot"}) /\ lh' = head
  /\ Goto(p, IF head = <<>> THEN "clear" ELSE "install")
  /\ UNCHANGED <<disks, bufs, outstanding, committing, up, local, asleep, halt>>

(* One block of install_trans(). *)
InstallTrans(p) ==
  LET b == lh[tail[p]] IN
  /\ At(p, {"install"}) /\ ~Locked(b)
  /\ disk' = [disk EXCEPT ![b] = logd[tail[p]]] /\ cache' = [cache EXCEPT ![b] = disk'[b]]
  /\ dirty' = dirty \ {b} /\ Loop(p, "clear")
  /\ UNCHANGED <<logd, head, mem, up, buf, wrote, asleep, halt>>

(* log.lh.n = 0; write_head() *)
Clear(p) ==
  /\ At(p, {"clear"}) /\ lh' = <<>> /\ head' = <<>>
  /\ up' = TRUE /\ Goto(p, IF up THEN "done" ELSE "user")
  /\ UNCHANGED <<disk, logd, bufs, outstanding, committing, local, asleep, halt>>

(* end_op() after commit(). *)
Done(p) ==
  /\ At(p, {"done"}) /\ committing' = FALSE /\ Wakeup /\ Goto(p, "user")
  /\ UNCHANGED <<disks, bufs, lh, outstanding, up, local, halt>>

-----------------------------------------------------------------------------
Next ==
  \/ Crash
  \/ \E b \in Blocks : Recycle(b)
  \/ \E p \in Procs :
       \/ BeginOp(p) \/ LogTest(p) \/ LogAppend(p) \/ EndOp(p)
       \/ \E b \in Blocks, v \in Values : Modify(p, b, v)
       \/ WriteLog(p) \/ WriteHead(p) \/ ReadHead(p)
       \/ InstallTrans(p) \/ Clear(p) \/ Done(p)

Spec == Init /\ [][Next]_vars

-----------------------------------------------------------------------------
(* Nobody sleeps in begin_op() who could go on, and somebody is left who   *)
(* will wake the sleepers (log.c:130-135, 157-172).                        *)
NoMissedWakeup ==
  \A p \in asleep :
    /\ committing \/ outstanding > 0
    /\ committing \/ Len(lh) + (outstanding + 1) * MAXOPBLOCKS > LOGSIZE

(* What recovery would make of the disk. *)
Recovered ==
  [b \in Blocks |-> IF b \in Range(head)
                      THEN logd[CHOOSE i \in DOMAIN head : head[i] = b]
                      ELSE disk[b]]

(* When the last end_op() has returned, everything that was written        *)
(* survives a crash (log.c:145-174).                                       *)
Durable == up /\ outstanding = 0 /\ ~committing => Recovered = cache

Abstract == INSTANCE AtomicDisk WITH
  mem    <- IF up THEN cache ELSE Recovered,
  stable <- Recovered,
  active <- {p \in Procs : pc[p] \in {"op", "log_write", "append"}}

(* The log makes transactions atomic: whatever step a crash hits, in a     *)
(* commit or in recovery, all the writes of a group of operations are      *)
(* there afterwards, or none (log.c:9-15).                                 *)
AllOrNothing == Abstract!Spec

-----------------------------------------------------------------------------
(* The inductive invariant: what the log, the disk and the cache hold at   *)
(* each place of a commit or a recovery, of which there is one at a time.  *)

Ops     == {"op", "log_write", "append"}
Loops   == {"write", "install"}
Places  == {"user", "begin", "boot", "head", "clear", "done"} \cup Ops \cup Loops
Workers == {p \in Procs : pc[p] \in {"boot", "head", "clear", "done"} \cup Loops}
Active  == {p \in Procs : pc[p] \in Ops}

TypeOK ==
  /\ disk \in [Blocks -> Values] /\ cache \in [Blocks -> Values] /\ dirty \subseteq Blocks
  /\ logd \in [1..(Size - 1) -> Values] /\ head \in Seq(Blocks) /\ lh \in Seq(Blocks)
  /\ outstanding \in Nat /\ committing \in BOOLEAN /\ up \in BOOLEAN
  /\ pc \in [Procs -> Places]
  /\ tail \in [Procs -> Nat \ {0}] /\ buf \in [Procs -> Blocks \cup {None}]
  /\ asleep \subseteq Procs

(* outstanding counts the operations; a commit or a recovery runs alone. *)
GroupInv ==
  /\ IsFiniteSet(Active) /\ Cardinality(Active) = outstanding
  /\ \A p, q \in Workers : p = q
  /\ up => (committing <=> Workers # {})
  /\ committing => up /\ Active = {}
  /\ ~up => Active = {} /\ asleep = {}
  /\ \A p \in Procs : /\ pc[p] \in {"write", "head", "done"} => up
                      /\ pc[p] = "boot" => ~up
  /\ up /\ ~committing /\ outstanding = 0 => lh = <<>>

Distinct(s) == \A i, j \in DOMAIN s : s[i] = s[j] => i = j

(* A block that is not as it is on the disk is dirty or being changed, and *)
(* the header in memory names it.                                          *)
CacheInv ==
  /\ \A p \in Procs : buf[p] # None <=> pc[p] \in {"log_write", "append"}
  /\ \A b \in Blocks : b \in dirty \/ Locked(b) \/ cache[b] = disk[b]
  /\ dirty \subseteq Range(lh) /\ (~up => dirty = {})

Logged(n)    == \A i \in 1..n : i <= Size - 1 /\ logd[i] = cache[lh[i]]
Installed(n) == \A i \in 1..n : disk[lh[i]] = logd[i]

CommitAt(p) ==
  /\ IF pc[p] \in Loops THEN tail[p] \in 1..Len(lh) ELSE tail[p] = 1
  /\ pc[p] \in {"boot", "done"} => lh = <<>>
  /\ pc[p] = "write" => Logged(tail[p] - 1)
  /\ pc[p] = "head" => lh # <<>> /\ Logged(Len(lh))
  /\ pc[p] = "install" =>
       /\ head = lh /\ Installed(tail[p] - 1) /\ (up => Logged(Len(lh)))
       /\ \A b \in dirty : \E i \in tail[p]..Len(lh) : lh[i] = b
  /\ pc[p] = "clear" => head = lh /\ Installed(Len(lh)) /\ dirty = {}

CommitInv ==
  /\ Distinct(lh) /\ Distinct(head) /\ Len(head) <= Size - 1
  /\ head = <<>> \/ \E p \in Procs : pc[p] \in {"boot", "install", "clear"}
  /\ \A p \in Procs : CommitAt(p)

IInv == TypeOK /\ GroupInv /\ CacheInv /\ CommitInv /\ NoMissedWakeup

=============================================================================
