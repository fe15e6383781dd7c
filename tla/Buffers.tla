------------------------------ MODULE Buffers -------------------------------
(***************************************************************************)
(* The buffer cache (bio.c), the disk driver under it (ide.c) and the      *)
(* sleep locks (sleeplock.c): processes get, change and release buffers,   *)
(* and the drive works on one request at a time and interrupts.            *)
(*                                                                         *)
(* A critical section under bcache.lock, idelock or the spinlock of a      *)
(* sleep lock is one action; sleep() and wakeup() are what Monitor         *)
(* promises.  A process may be woken for another reason (kill()).          *)
(***************************************************************************)
EXTENDS Integers, Sequences, FiniteSets, Functions

CONSTANTS Procs, None, NBUF, Blocks, Values

Bufs == 1..NBUF

Chans == {"lock", "buf"} \X Bufs

Commands == [write : BOOLEAN, sector : Blocks, data : Values \cup {None}]

ASSUME BufAssumption ==
  /\ None \notin Procs \cup Blocks \cup Chans /\ None \notin Commands
  /\ NBUF \in Nat \ {0} /\ IsFiniteSet(Procs)

VARIABLES
  buf,         \* the struct bufs
  lru,         \* bcache.head's list, most recently used first
  queue,       \* idequeue
  disk, drive, \* the sectors; the command the drive executes, or None
  irq,         \* has the drive finished?
  pc, b,       \* of each process: where it is, and its buffer
  asleep,      \* the channel it sleeps on, or None
  last, failed \* what was last put into each block; buffers whose read failed

hw   == <<disk, drive, irq>>
hist == <<last, failed>>
vars == <<buf, lru, queue, hw, pc, b, asleep, hist>>

NoBuf == [blockno |-> None, valid |-> FALSE, dirty |-> FALSE, refcnt |-> 0, lock |-> None, data |-> None]

(* binit() puts every buffer in front of the list. *)
Init ==
  /\ buf = [i \in Bufs |-> NoBuf] /\ lru = [k \in Bufs |-> NBUF + 1 - k]
  /\ \E v \in Values : disk = [n \in Blocks |-> v]
  /\ queue = <<>> /\ drive = None /\ irq = FALSE
  /\ pc = [p \in Procs |-> "user"] /\ b = [p \in Procs |-> 0]
  /\ asleep = [p \in Procs |-> None] /\ last = disk /\ failed = {}

Goto(p, place) == pc' = [pc EXCEPT ![p] = place]

(* wakeup(chan) *)
Wakeup(chan) == asleep' = [p \in Procs |-> IF asleep[p] = chan THEN None ELSE asleep[p]]

(* kill() of a process that sleeps; the loops around sleep() look again. *)
Kill(p) ==
  /\ asleep[p] # None /\ asleep' = [asleep EXCEPT ![p] = None]
  /\ UNCHANGED <<buf, lru, queue, hw, pc, b, hist>>

-----------------------------------------------------------------------------
(* bget() *)

First(S) == CHOOSE k \in S : \A l \in S : k <= l

Last(S) == CHOOSE k \in S : \A l \in S : l <= k

(* Where in the list the buffers of block n are, *)
Cached(n) == {k \in Bufs : buf[lru[k]].blockno = n}

\* Slip: a buffer that log.c has modified is taken for an unused one.
UnusedPinned(i) == buf[i].refcnt = 0

Unused(i) == buf[i].refcnt = 0 /\ ~buf[i].dirty

(* and those that can be recycled. *)
Spare == {k \in Bufs : Unused(lru[k])}

Bget(p, n) ==
  LET hit == lru[First(Cached(n))]
      victim == lru[Last(Spare)]
  IN
  /\ pc[p] = "user"
  /\ IF Cached(n) # {}
       THEN /\ buf' = [buf EXCEPT ![hit].refcnt = @ + 1]
            /\ b' = [b EXCEPT ![p] = hit] /\ Goto(p, "lock") /\ UNCHANGED hist
       ELSE IF Spare # {}
         THEN /\ buf' = [buf EXCEPT ![victim] = [@ EXCEPT !.blockno = n, !.valid = FALSE, !.refcnt = 1]]
              /\ failed' = failed \ {victim} /\ UNCHANGED last
              /\ b' = [b EXCEPT ![p] = victim] /\ Goto(p, "lock")
         ELSE Goto(p, "panic") /\ UNCHANGED <<buf, b, hist>>
  /\ UNCHANGED <<lru, queue, hw, asleep>>

-----------------------------------------------------------------------------
(* Sleep locks *)

Acquiresleep(p) ==
  LET i == b[p] IN
  /\ pc[p] = "lock" /\ asleep[p] = None
  /\ IF buf[i].lock # None
       THEN asleep' = [asleep EXCEPT ![p] = <<"lock", i>>] /\ UNCHANGED <<buf, pc>>
       ELSE buf' = [buf EXCEPT ![i].lock = p] /\ Goto(p, "bread") /\ UNCHANGED asleep
  /\ UNCHANGED <<lru, queue, hw, b, hist>>

\* Slip: the lock is given up without a wakeup.
ReleasesleepSilent(p) ==
  /\ pc[p] = "have" /\ Goto(p, "brelse")
  /\ buf' = [buf EXCEPT ![b[p]].lock = None]
  /\ UNCHANGED <<lru, queue, hw, b, asleep, hist>>

(* The first half of brelse(). *)
Releasesleep(p) ==
  /\ pc[p] = "have" /\ Goto(p, "brelse")
  /\ buf' = [buf EXCEPT ![b[p]].lock = None] /\ Wakeup(<<"lock", b[p]>>)
  /\ UNCHANGED <<lru, queue, hw, b, hist>>

(* The list with buffer i unlinked and put in front. *)
InFront(i) ==
  LET k == CHOOSE k \in Bufs : lru[k] = i
  IN  [l \in Bufs |-> IF l = 1 THEN i ELSE IF l <= k THEN lru[l - 1] ELSE lru[l]]

(* The second half: the buffer moves to the front when nobody wants it. *)
Brelse(p) ==
  LET i == b[p] IN
  /\ pc[p] = "brelse" /\ Goto(p, "user")
  /\ buf' = [buf EXCEPT ![i].refcnt = @ - 1] /\ b' = [b EXCEPT ![p] = 0]
  /\ lru' = IF buf[i].refcnt = 1 THEN InFront(i) ELSE lru
  /\ UNCHANGED <<queue, hw, asleep, hist>>

-----------------------------------------------------------------------------
(* The driver *)

(* idestart(): the command, and with a write the data, go to the drive. *)
Idestart(bufs, i) ==
  drive' = [write |-> bufs[i].dirty, sector |-> bufs[i].blockno, data |-> bufs[i].data]

(* iderw(), up to its sleep(): the buffers are then `bufs'. *)
Iderw(p, bufs) ==
  /\ buf' = bufs /\ queue' = Append(queue, b[p])
  /\ IF queue = <<>> THEN Idestart(bufs, b[p]) ELSE UNCHANGED drive
  /\ asleep' = [asleep EXCEPT ![p] = <<"buf", b[p]>>] /\ Goto(p, "iderw")
  /\ UNCHANGED <<lru, disk, irq, b>>

(* The loop around it. *)
IderwWoken(p) ==
  /\ pc[p] = "iderw" /\ asleep[p] = None
  /\ IF buf[b[p]].valid /\ ~buf[b[p]].dirty THEN Goto(p, "have") /\ UNCHANGED asleep
     ELSE asleep' = [asleep EXCEPT ![p] = <<"buf", b[p]>>] /\ UNCHANGED pc
  /\ UNCHANGED <<buf, lru, queue, hw, b, hist>>

(* The drive: external. *)
DriveDone ==
  /\ drive # None /\ ~irq /\ irq' = TRUE
  /\ disk' = IF drive.write THEN [disk EXCEPT ![drive.sector] = drive.data] ELSE disk
  /\ UNCHANGED <<buf, lru, queue, drive, pc, b, asleep, hist>>

\* Slip: the next request waits for the next iderw().
IdeintrStop(ok) ==
  LET i == Head(queue)
      read == ~buf[i].dirty
  IN  /\ irq /\ irq' = FALSE /\ queue' = Tail(queue)
      /\ buf' = [buf EXCEPT ![i].valid = TRUE, ![i].dirty = FALSE,
                             ![i].data = IF read /\ ok THEN disk[drive.sector] ELSE buf[i].data]
      /\ failed' = IF read /\ ~ok THEN failed \cup {i} ELSE failed
      /\ Wakeup(<<"buf", i>>) /\ drive' = None
      /\ UNCHANGED <<lru, disk, pc, b, last>>

(* ideintr(); ok: idewait(1) reports no error.  An interrupt that finds    *)
(* the queue empty does nothing.                                           *)
Ideintr(ok) ==
  LET i == Head(queue)
      read == ~buf[i].dirty
  IN  /\ irq /\ irq' = FALSE /\ queue' = Tail(queue)
      /\ buf' = [buf EXCEPT ![i].valid = TRUE, ![i].dirty = FALSE,
                             ![i].data = IF read /\ ok THEN disk[drive.sector] ELSE buf[i].data]
      /\ failed' = IF read /\ ~ok THEN failed \cup {i} ELSE failed
      /\ Wakeup(<<"buf", i>>)
      /\ IF Tail(queue) # <<>> THEN Idestart(buf, queue[2]) ELSE drive' = None
      /\ UNCHANGED <<lru, disk, pc, b, last>>

-----------------------------------------------------------------------------
(* The users of a buffer *)

(* The end of bread(). *)
Bread(p) ==
  /\ pc[p] = "bread"
  /\ IF buf[b[p]].valid THEN Goto(p, "have") /\ UNCHANGED <<buf, lru, queue, hw, b, asleep>>
     ELSE Iderw(p, buf)
  /\ UNCHANGED hist

(* b->data is set to v: by log_write(), which pins the buffer, *)
Changed(p, v) == [buf EXCEPT ![b[p]] = [@ EXCEPT !.data = v, !.dirty = TRUE]]

Noted(p, v) == last' = [last EXCEPT ![buf[b[p]].blockno] = v] /\ failed' = failed \ {b[p]}

LogWrite(p, v) ==
  /\ pc[p] = "have" /\ buf' = Changed(p, v) /\ Noted(p, v)
  /\ UNCHANGED <<lru, queue, hw, pc, b, asleep>>

(* or by bwrite(), which waits until it is on the disk. *)
Bwrite(p, v) == pc[p] = "have" /\ Iderw(p, Changed(p, v)) /\ Noted(p, v)

Next ==
  \/ DriveDone \/ \E ok \in BOOLEAN : Ideintr(ok)
  \/ \E p \in Procs :
       \/ \E n \in Blocks : Bget(p, n)
       \/ Acquiresleep(p) \/ Bread(p) \/ IderwWoken(p) \/ Releasesleep(p) \/ Brelse(p) \/ Kill(p)
       \/ \E v \in Values : LogWrite(p, v) \/ Bwrite(p, v)

Spec == Init /\ [][Next]_vars

(* The drive finishes what it was told to do, its interrupt is taken, and  *)
(* a process that is not asleep runs.                                      *)
Fairness ==
  /\ WF_vars(DriveDone) /\ WF_vars(\E ok \in BOOLEAN : Ideintr(ok))
  /\ \A p \in Procs : WF_vars(IderwWoken(p))

FairSpec == Spec /\ Fairness

-----------------------------------------------------------------------------
(* Whoever holds a buffer sees what was last put into its block, by        *)
(* whichever process and however often the buffer was recycled since,      *)
(* unless the drive failed to read it (bget(), bread(), bwrite(),          *)
(* log_write()).                                                           *)
FreshData ==
  \A p \in Procs : pc[p] = "have" /\ b[p] \notin failed => buf[b[p]].data = last[buf[b[p]].blockno]

(* A process sleeps for a lock only while somebody holds it, and for the   *)
(* drive only while its request is queued; the drive always works on the   *)
(* head of the queue (acquiresleep(), releasesleep(), iderw(), ideintr()). *)
NoMissedWakeup ==
  /\ \A p \in Procs : asleep[p] # None =>
       IF asleep[p][1] = "lock" THEN buf[b[p]].lock # None ELSE b[p] \in Range(queue)
  /\ drive # None <=> queue # <<>>
  /\ drive # None => drive.sector = buf[Head(queue)].blockno /\ drive.write = buf[Head(queue)].dirty

(* Every request is served: iderw() returns, however many requests are     *)
(* queued before it and whatever else wakes the process.                   *)
RequestServed == \A p \in Procs : pc[p] = "iderw" ~> pc[p] # "iderw"
-----------------------------------------------------------------------------
(* The inductive invariant. *)

BufRecs ==
  [blockno : Blocks \cup {None}, valid : BOOLEAN, dirty : BOOLEAN, refcnt : Nat,
   lock : Procs \cup {None}, data : Values \cup {None}]

Places == {"user", "panic", "lock", "bread", "iderw", "have", "brelse"}

TypeOK ==
  /\ buf \in [Bufs -> BufRecs] /\ lru \in [Bufs -> Bufs] /\ queue \in Seq(Bufs)
  /\ disk \in [Blocks -> Values] /\ last \in [Blocks -> Values]
  /\ drive \in Commands \cup {None} /\ irq \in BOOLEAN
  /\ pc \in [Procs -> Places] /\ b \in [Procs -> 0..NBUF]
  /\ asleep \in [Procs -> Chans \cup {None}] /\ failed \subseteq Bufs

(* No buffer is missing from the list. *)
AllListed == \A i \in Bufs : \E k \in Bufs : lru[k] = i

Users(i) == {p \in Procs : b[p] = i}

(* refcnt counts the processes between bget() and brelse(); their buffer  *)
(* keeps its block, and no other buffer has that block.                   *)
Refs ==
  /\ \A i \in Bufs : buf[i].refcnt = Cardinality(Users(i))
  /\ \A p \in Procs : b[p] = 0 <=> pc[p] \in {"user", "panic"}
  /\ \A p \in Procs : b[p] # 0 => buf[b[p]].blockno \in Blocks
  /\ \A i, j \in Bufs : buf[i].blockno = buf[j].blockno /\ buf[i].blockno # None => i = j

(* The owner of a sleep lock is where it says. *)
Locks ==
  \A i \in Bufs, p \in Procs :
    buf[i].lock = p <=> b[p] = i /\ pc[p] \in {"bread", "iderw", "have"}

(* A valid buffer has what was last put into its block, and what the disk *)
(* does not have is in a buffer that says so.                             *)
Fresh ==
  /\ \A i \in Bufs :
       /\ buf[i].dirty => buf[i].valid /\ i \notin failed
       /\ buf[i].valid => buf[i].blockno \in Blocks
       /\ buf[i].valid /\ i \notin failed => buf[i].data = last[buf[i].blockno]
  /\ \A p \in Procs : pc[p] = "have" => buf[b[p]].valid
  /\ \A n \in Blocks : disk[n] = last[n] \/ \E i \in Bufs : buf[i].blockno = n /\ buf[i].dirty

Queued(i) == \E k \in DOMAIN queue : queue[k] = i

Done(i) == buf[i].valid /\ ~buf[i].dirty

(* The requests are those of processes in iderw(), one each, until done. *)
Requests ==
  /\ \A i \in Bufs : Queued(i) => ~Done(i) /\ \E p \in Procs : b[p] = i /\ pc[p] = "iderw"
  /\ \A p \in Procs : pc[p] = "iderw" => Queued(b[p]) \/ Done(b[p])
  /\ \A k, l \in DOMAIN queue : queue[k] = queue[l] => k = l

(* The drive executes the first of them, with the data of the buffer. *)
Driving ==
  /\ drive # None <=> queue # <<>>
  /\ drive # None =>
       LET i == Head(queue) IN
       /\ drive.sector = buf[i].blockno /\ drive.write = buf[i].dirty
       /\ drive.write => drive.data = buf[i].data
  /\ irq => drive # None /\ (drive.write => disk[drive.sector] = last[drive.sector])

Sleepers ==
  \A p \in Procs, i \in Bufs :
    /\ asleep[p] = <<"lock", i>> => b[p] = i /\ pc[p] = "lock" /\ buf[i].lock # None
    /\ asleep[p] = <<"buf", i>> => b[p] = i /\ pc[p] = "iderw" /\ Queued(i)

IInv == TypeOK /\ AllListed /\ Refs /\ Locks /\ Fresh /\ Requests /\ Driving /\ Sleepers
=============================================================================
