------------------------------ MODULE LogProofs -----------------------------
(***************************************************************************)
(* The redo log for any number of processes, blocks and log blocks: what   *)
(* is committed survives a crash at any moment, nothing is half done, and  *)
(* nobody sleeps in begin_op() for good.                                   *)
(***************************************************************************)
EXTENDS Log, FiniteSetTheorems, TLAPS

(* LOGSIZE leaves room for one operation. *)
LEMMA Sizes == Size \in Nat \ {0} /\ MAXOPBLOCKS \in Nat /\ MAXOPBLOCKS > 0 /\ MAXOPBLOCKS <= LOGSIZE
BY LogAssumption DEF Size

(* The invariant holds before the first boot. *)
LEMMA InitIInv == Init => IInv
<1> SUFFICES ASSUME Init PROVE IInv
  OBVIOUS
<1>1. PICK first \in Procs : pc = Booting(first)
  BY DEF Init
<1>2. pc \in [Procs -> Places]
  BY <1>1 DEF Booting, Places
<1>3. logd \in [1..(Size - 1) -> Values]
  BY DEF Init
<1>4. TypeOK
  <2>1. tail \in [Procs -> Nat \ {0}] /\ buf \in [Procs -> Blocks \cup {None}]
    BY DEF Init
  <2>2. lh \in Seq(Blocks) /\ head \in Seq(Blocks)
    BY DEF Init
  <2>3. committing \in BOOLEAN /\ up \in BOOLEAN
    BY DEF Init
  <2> QED BY <1>2, <1>3, <2>1, <2>2, <2>3 DEF TypeOK, Init
<1>5. Active = {} /\ Workers = {first}
  BY <1>1 DEF Active, Workers, Booting, Ops, Loops
<1>6. GroupInv
  BY <1>1, <1>5, FS_EmptySet DEF GroupInv, Booting, Init
<1>7. CacheInv
  BY <1>1 DEF CacheInv, Booting, Init
<1>8. CommitInv
  BY <1>1, Sizes DEF CommitInv, CommitAt, Booting, Loops, Distinct, Init
<1>9. NoMissedWakeup
  BY DEF NoMissedWakeup, Init
<1> QED BY <1>4, <1>6, <1>7, <1>8, <1>9 DEF IInv

(* Neither a crash nor the boot after it disturbs what is on the disk. *)
LEMMA CrashStep ==
  ASSUME IInv, Crash
  PROVE  IInv'
<1>1. PICK first \in Procs : pc' = Booting(first)
  BY DEF Crash
<1>2. pc' \in [Procs -> Places]
  BY <1>1 DEF Booting, Places
<1>3. TypeOK'
  <2>1. tail' \in [Procs -> Nat \ {0}] /\ buf' \in [Procs -> Blocks \cup {None}]
    BY DEF Crash
  <2>2. lh' \in Seq(Blocks)
    BY DEF Crash
  <2>3. committing' \in BOOLEAN /\ up' \in BOOLEAN
    BY DEF Crash
  <2> QED BY <1>2, <2>1, <2>2, <2>3 DEF IInv, TypeOK, Crash, disks
<1>4. Active' = {} /\ Workers' = {first}
  BY <1>1 DEF Active, Workers, Booting, Ops, Loops
<1>5. GroupInv'
  BY <1>1, <1>4, FS_EmptySet DEF GroupInv, Booting, Crash
<1>6. CacheInv'
  BY <1>1 DEF CacheInv, Booting, Crash, disks
<1>7. CommitInv'
  BY <1>1 DEF IInv, CommitInv, CommitAt, Booting, Loops, Distinct, Crash, disks
<1>8. NoMissedWakeup'
  BY DEF NoMissedWakeup, Crash
<1> QED BY <1>3, <1>5, <1>6, <1>7, <1>8 DEF IInv

(* The situation of a process inside an operation. *)
LEMMA InOperation ==
  ASSUME IInv, NEW p \in Procs, pc[p] \in Ops
  PROVE  /\ up /\ ~committing /\ Workers = {} /\ head = <<>>
         /\ p \in Active /\ outstanding \in Nat \ {0}
<1>1. p \in Active /\ IsFiniteSet(Active) /\ Cardinality(Active) = outstanding
  BY DEF IInv, GroupInv, Active
<1>2. up /\ ~committing /\ Workers = {}
  BY <1>1 DEF IInv, GroupInv
<1>3. head = <<>>
  BY <1>2 DEF IInv, CommitInv, CommitAt, Workers, Loops
<1>4. outstanding \in Nat \ {0}
  BY <1>1, FS_EmptySet DEF IInv, TypeOK
<1> QED BY <1>1, <1>2, <1>3, <1>4

(* The situation of the process that commits or recovers. *)
LEMMA Alone ==
  ASSUME IInv, NEW p \in Workers
  PROVE  /\ p \in Procs /\ Active = {} /\ outstanding = 0 /\ (committing <=> up)
         /\ \A q \in Procs \ {p} : pc[q] \in {"user", "begin"}
         /\ \A b \in Blocks : ~Locked(b)
<1>1. p \in Procs /\ (committing <=> up)
  BY DEF Workers, IInv, GroupInv, TypeOK
<1>2. Active = {}
  BY <1>1 DEF IInv, GroupInv
<1>3. outstanding = 0
  BY <1>2, FS_EmptySet DEF IInv, GroupInv
<1>4. \A q \in Procs : pc[q] \notin Ops
  BY <1>2 DEF Active
<1>5. \A q \in Procs \ {p} : pc[q] \in {"user", "begin"}
  BY <1>4 DEF IInv, GroupInv, TypeOK, Workers, Places
<1>6. \A q \in Procs : buf[q] = None
  BY <1>4 DEF IInv, CacheInv, Ops
<1>7. \A b \in Blocks : ~Locked(b)
  BY <1>6, LogAssumption DEF Locked
<1> QED BY <1>1, <1>2, <1>3, <1>5, <1>7

(* A step inside operations leaves commit and recovery alone. *)
LEMMA NoWorkers ==
  ASSUME IInv, Workers = {}, Workers' = {}, head' = head, tail' = tail, TypeOK', Distinct(lh')
  PROVE  CommitInv'
<1>1. \A p \in Procs : pc[p] \notin {"boot", "head", "clear", "done"} \cup Loops
  BY DEF Workers
<1>2. \A p \in Procs : pc'[p] \notin {"boot", "head", "clear", "done"} \cup Loops
  BY DEF Workers
<1>3. head = <<>> /\ \A p \in Procs : tail[p] = 1
  BY <1>1 DEF IInv, CommitInv, CommitAt, Loops
<1> QED BY <1>2, <1>3 DEF IInv, CommitInv, CommitAt, Distinct, Loops

-----------------------------------------------------------------------------
(* begin_op() enters or sleeps; it sleeps only while others are inside or  *)
(* commit.                                                                 *)
LEMMA BeginOpStep ==
  ASSUME IInv, NEW p \in Procs, BeginOp(p)
  PROVE  IInv'
<1>1. TypeOK /\ pc[p] \in {"user", "begin"} /\ up
  BY DEF IInv, BeginOp, At
<1>2. TypeOK'
  <2>1. outstanding' \in Nat /\ asleep' \subseteq Procs
    BY <1>1 DEF TypeOK, BeginOp
  <2>2. pc' \in [Procs -> Places]
    BY <1>1 DEF TypeOK, BeginOp, Goto, Places, Ops
  <2> QED BY <1>1, <2>1, <2>2 DEF TypeOK, BeginOp, disks, bufs
<1>3. CASE committing \/ Len(lh) + (outstanding + 1) * MAXOPBLOCKS > LOGSIZE
  <2>1. asleep' = asleep \cup {p} /\ Goto(p, "begin") /\ outstanding' = outstanding
    BY <1>3 DEF BeginOp
  <2>2. Active' = Active /\ Workers' = Workers
    BY <1>1, <2>1 DEF TypeOK, Goto, Active, Workers, Ops, Loops
  <2>3. GroupInv'
    BY <1>1, <2>1, <2>2 DEF IInv, TypeOK, GroupInv, BeginOp, Goto
  <2>4. CacheInv'
    BY <1>1, <2>1 DEF IInv, TypeOK, CacheInv, Locked, BeginOp, Goto, disks, bufs
  <2>5. CommitInv'
    BY <1>1, <2>1 DEF IInv, TypeOK, CommitInv, CommitAt, Logged, Installed, BeginOp, Goto, disks, bufs, Loops, Distinct
  <2>6. ~committing => outstanding > 0
    <3> SUFFICES ASSUME ~committing, outstanding = 0 PROVE FALSE
      BY <1>1 DEF TypeOK
    <3>1. Len(lh) = 0
      BY <1>1 DEF IInv, GroupInv
    <3> QED BY <1>3, <3>1, Sizes, LogAssumption
  <2>7. NoMissedWakeup'
    BY <1>3, <2>1, <2>6 DEF IInv, NoMissedWakeup, BeginOp
  <2> QED BY <1>2, <2>3, <2>4, <2>5, <2>7 DEF IInv
<1>4. CASE ~(committing \/ Len(lh) + (outstanding + 1) * MAXOPBLOCKS > LOGSIZE)
  <2>1. asleep' = asleep /\ Goto(p, "op") /\ outstanding' = outstanding + 1
    BY <1>4 DEF BeginOp
  <2>2. asleep = {}
    BY <1>4 DEF IInv, NoMissedWakeup
  <2>3. Workers = {} /\ Workers' = {}
    BY <1>1, <1>4, <2>1 DEF IInv, TypeOK, GroupInv, Workers, Goto, Loops
  <2>4. Active' = Active \cup {p} /\ p \notin Active
    BY <1>1, <2>1 DEF TypeOK, Active, Goto, Ops
  <2>5. IsFiniteSet(Active') /\ Cardinality(Active') = outstanding'
    BY <2>1, <2>4, FS_AddElement DEF IInv, GroupInv
  <2>6. GroupInv'
    BY <1>1, <1>4, <2>1, <2>2, <2>3, <2>5 DEF IInv, TypeOK, GroupInv, BeginOp, Workers, Loops
  <2>7. CacheInv'
    BY <1>1, <2>1 DEF IInv, TypeOK, CacheInv, Locked, BeginOp, Goto, disks, bufs
  <2>8. CommitInv'
    BY <1>2, <2>3, NoWorkers DEF IInv, CommitInv, CommitAt, BeginOp, disks, Distinct
  <2>9. NoMissedWakeup'
    BY <2>1, <2>2 DEF NoMissedWakeup
  <2> QED BY <1>2, <2>6, <2>7, <2>8, <2>9 DEF IInv
<1> QED BY <1>3, <1>4

(* The tests of log_write() change nothing but its place. *)
LEMMA LogTestStep ==
  ASSUME IInv, NEW p \in Procs, LogTest(p)
  PROVE  IInv'
<1>1. TypeOK /\ pc[p] = "log_write" /\ pc[p] \in Ops
  BY DEF IInv, LogTest, At, Ops
<1>2. Workers = {}
  BY <1>1, InOperation
<1>3. pc' = pc \/ Goto(p, "append")
  BY DEF LogTest
<1>4. TypeOK'
  <2>1. pc' \in [Procs -> Places]
    BY <1>1, <1>3 DEF TypeOK, Goto, Places, Ops
  <2> QED BY <1>1, <2>1 DEF TypeOK, LogTest, disks, bufs, mem, local
<1>5. Active' = Active /\ Workers' = Workers
  BY <1>1, <1>3 DEF TypeOK, Goto, Active, Workers, Ops, Loops
<1>6. GroupInv'
  BY <1>1, <1>3, <1>5 DEF IInv, TypeOK, GroupInv, LogTest, Goto, mem
<1>7. CacheInv'
  BY <1>1, <1>3 DEF IInv, TypeOK, CacheInv, Locked, LogTest, Goto, disks, bufs, mem, local
<1>8. CommitInv'
  BY <1>2, <1>4, <1>5, NoWorkers DEF IInv, CommitInv, CommitAt, LogTest, disks, mem, local, Distinct
<1>9. NoMissedWakeup'
  BY DEF IInv, NoMissedWakeup, LogTest, mem
<1> QED BY <1>4, <1>6, <1>7, <1>8, <1>9 DEF IInv

(* log_write() names the block in the header before the lock is released. *)
LEMMA LogAppendStep ==
  ASSUME IInv, NEW p \in Procs, LogAppend(p)
  PROVE  IInv'
<1>1. TypeOK /\ pc[p] = "append" /\ pc[p] \in Ops /\ buf[p] \in Blocks
  BY DEF IInv, TypeOK, CacheInv, LogAppend, At, Ops
<1>2. up /\ ~committing /\ Workers = {} /\ outstanding \in Nat \ {0}
  BY <1>1, InOperation
<1>3. /\ lh' \in Seq(Blocks) /\ Len(lh') >= Len(lh) /\ Distinct(lh')
      /\ Range(lh) \subseteq Range(lh') /\ buf[p] \in Range(lh')
  <2>1. CASE buf[p] \in Range(lh)
    BY <1>1, <2>1 DEF IInv, TypeOK, CommitInv, CommitAt, LogAppend
  <2>2. CASE buf[p] \notin Range(lh)
    <3>1. lh' = Append(lh, buf[p]) /\ lh \in Seq(Blocks) /\ Distinct(lh)
      BY <2>2 DEF IInv, TypeOK, CommitInv, CommitAt, LogAppend
    <3>2. /\ lh' \in Seq(Blocks) /\ Len(lh') = Len(lh) + 1 /\ Len(lh) \in Nat
          /\ lh'[Len(lh) + 1] = buf[p] /\ \A i \in 1..Len(lh) : lh'[i] = lh[i]
          /\ DOMAIN lh = 1..Len(lh) /\ DOMAIN lh' = 1..(Len(lh) + 1)
      BY <1>1, <3>1
    <3>3. Distinct(lh')
      BY <2>2, <3>1, <3>2 DEF Distinct, Range
    <3> QED BY <3>2, <3>3 DEF Range
  <2> QED BY <2>1, <2>2
<1>4. TypeOK'
  <2>1. pc' \in [Procs -> Places]
    BY <1>1 DEF TypeOK, LogAppend, Goto, Places, Ops
  <2>2. buf' \in [Procs -> Blocks \cup {None}] /\ dirty' \subseteq Blocks
    BY <1>1 DEF TypeOK, LogAppend
  <2> QED BY <1>1, <1>3, <2>1, <2>2 DEF TypeOK, LogAppend, disks
<1>5. Active' = Active /\ Workers' = Workers
  BY <1>1 DEF TypeOK, LogAppend, Goto, Active, Workers, Ops, Loops
<1>6. GroupInv'
  BY <1>1, <1>2, <1>5 DEF IInv, TypeOK, GroupInv, LogAppend, Goto
<1>7. CacheInv'
  <2>1. \A q \in Procs : buf'[q] # None <=> pc'[q] \in {"log_write", "append"}
    BY <1>1 DEF IInv, TypeOK, CacheInv, LogAppend, Goto
  <2>2. ASSUME NEW b \in Blocks, b # buf[p], Locked(b) PROVE Locked(b)'
    BY <1>1, <2>2 DEF TypeOK, Locked, LogAppend
  <2>3. \A b \in Blocks : b \in dirty' \/ Locked(b)' \/ cache'[b] = disk'[b]
    BY <2>2 DEF IInv, CacheInv, LogAppend, disks
  <2> QED BY <1>2, <1>3, <2>1, <2>3 DEF IInv, CacheInv, LogAppend
<1>8. CommitInv'
  BY <1>2, <1>3, <1>4, <1>5, NoWorkers DEF LogAppend, disks
<1>9. NoMissedWakeup'
  <2>1. Len(lh) \in Nat /\ Len(lh') \in Nat /\ (outstanding + 1) * MAXOPBLOCKS \in Nat /\ LOGSIZE \in Nat
    BY <1>1, <1>3, Sizes, LogAssumption DEF TypeOK
  <2> QED BY <1>3, <2>1 DEF IInv, NoMissedWakeup, LogAppend
<1> QED BY <1>4, <1>6, <1>7, <1>8, <1>9 DEF IInv

(* A block is changed while its buffer is locked. *)
LEMMA ModifyStep ==
  ASSUME IInv, NEW p \in Procs, NEW b \in Blocks, NEW v \in Values, Modify(p, b, v)
  PROVE  IInv'
<1>1. TypeOK /\ pc[p] = "op" /\ pc[p] \in Ops
  BY DEF IInv, Modify, At, Ops
<1>2. Workers = {}
  BY <1>1, InOperation
<1>3. TypeOK'
  <2>1. pc' \in [Procs -> Places]
    BY <1>1 DEF TypeOK, Modify, Goto, Places, Ops
  <2>2. buf' \in [Procs -> Blocks \cup {None}] /\ cache' \in [Blocks -> Values]
    BY <1>1 DEF TypeOK, Modify
  <2> QED BY <1>1, <2>1, <2>2 DEF TypeOK, Modify, disks, mem
<1>4. Active' = Active /\ Workers' = Workers
  BY <1>1 DEF TypeOK, Modify, Goto, Active, Workers, Ops, Loops
<1>5. GroupInv'
  BY <1>1, <1>4 DEF IInv, TypeOK, GroupInv, Modify, Goto, mem
<1>6. CacheInv'
  <2>1. \A q \in Procs : buf'[q] # None <=> pc'[q] \in {"log_write", "append"}
    BY <1>1, LogAssumption DEF IInv, TypeOK, CacheInv, Modify, Goto
  <2>2. buf[p] = None
    BY <1>1 DEF IInv, CacheInv
  <2>3. Locked(b)'
    BY <1>1 DEF TypeOK, Locked, Modify
  <2>4. ASSUME NEW a \in Blocks, Locked(a) PROVE Locked(a)'
    BY <1>1, <2>2, <2>4, LogAssumption DEF TypeOK, Locked, Modify
  <2>5. \A a \in Blocks \ {b} : cache'[a] = cache[a]
    BY <1>1 DEF TypeOK, Modify
  <2> QED BY <2>1, <2>3, <2>4, <2>5 DEF IInv, CacheInv, Modify, disks, mem
<1>7. CommitInv'
  BY <1>2, <1>3, <1>4, NoWorkers DEF IInv, CommitInv, CommitAt, Modify, disks, mem, Distinct
<1>8. NoMissedWakeup'
  BY DEF IInv, NoMissedWakeup, Modify, mem
<1> QED BY <1>3, <1>5, <1>6, <1>7, <1>8 DEF IInv

(* The last end_op() commits what the group has written; the others wake   *)
(* the processes that wait for room.                                       *)
LEMMA EndOpStep ==
  ASSUME IInv, NEW p \in Procs, EndOp(p)
  PROVE  IInv'
<1>1. TypeOK /\ pc[p] = "op" /\ pc[p] \in Ops
  BY DEF IInv, EndOp, At, Ops
<1>2. up /\ ~committing /\ Workers = {} /\ head = <<>> /\ p \in Active /\ outstanding \in Nat \ {0}
  BY <1>1, InOperation
<1>3. /\ outstanding' = outstanding - 1 /\ committing' = (outstanding = 1)
      /\ IF outstanding = 1
           THEN Goto(p, IF lh = <<>> THEN "done" ELSE "write") /\ asleep' = asleep
           ELSE Goto(p, "user") /\ asleep' = {}
  BY <1>2 DEF EndOp, Wakeup
<1>4. TypeOK'
  <2>1. pc' \in [Procs -> Places]
    BY <1>1, <1>3 DEF TypeOK, Goto, Places, Loops
  <2>2. outstanding' \in Nat /\ committing' \in BOOLEAN /\ asleep' \subseteq Procs
    BY <1>1, <1>2, <1>3 DEF TypeOK
  <2> QED BY <1>1, <2>1, <2>2 DEF TypeOK, EndOp, disks, bufs, local
<1>5. Active' = Active \ {p}
  BY <1>1, <1>3 DEF TypeOK, Goto, Active, Ops
<1>6. IsFiniteSet(Active') /\ Cardinality(Active') = outstanding'
  BY <1>2, <1>3, <1>5, FS_RemoveElement DEF IInv, GroupInv
<1>7. CacheInv'
  BY <1>1, <1>3 DEF IInv, TypeOK, CacheInv, Locked, EndOp, Goto, disks, bufs, local
<1>8. UNCHANGED <<disk, logd, head, cache, dirty, lh, up, tail>>
  BY DEF EndOp, disks, bufs, local
<1>9. CASE outstanding = 1
  <2>1. Active' = {}
    BY <1>3, <1>6, <1>9, FS_EmptySet
  <2>2. Workers' = {p}
    BY <1>1, <1>2, <1>3, <1>9 DEF TypeOK, Goto, Workers, Loops
  <2>3. GroupInv'
    <3>1. \A q \in Procs : pc'[q] # "boot"
      BY <1>1, <1>2, <1>3, <1>9 DEF TypeOK, Goto, Workers
    <3> QED BY <1>2, <1>3, <1>6, <1>8, <1>9, <2>1, <2>2, <3>1 DEF GroupInv
  <2>4. ASSUME NEW q \in Procs \ {p} PROVE CommitAt(q)'
    <3>1. pc'[q] = pc[q] /\ CommitAt(q)
      BY <1>1, <1>3, <1>9 DEF IInv, CommitInv, TypeOK, Goto
    <3> QED BY <3>1, <1>8 DEF CommitAt, Logged, Installed
  <2>5. CommitAt(p)'
    <3>1. tail[p] = 1
      BY <1>1 DEF IInv, CommitInv, CommitAt, Loops
    <3>2. lh # <<>> => Len(lh) \in Nat \ {0}
      BY <1>1 DEF TypeOK
    <3>3. pc'[p] = IF lh = <<>> THEN "done" ELSE "write"
      BY <1>1, <1>3, <1>9 DEF TypeOK, Goto
    <3> QED BY <1>8, <3>1, <3>2, <3>3 DEF CommitAt, Logged, Loops
  <2>6. CommitInv'
    BY <1>2, <1>8, <2>4, <2>5 DEF IInv, CommitInv, Distinct
  <2>7. NoMissedWakeup'
    BY <1>3, <1>9 DEF NoMissedWakeup
  <2> QED BY <1>4, <1>7, <2>3, <2>6, <2>7 DEF IInv
<1>10. CASE outstanding # 1
  <2>1. Workers' = {}
    BY <1>1, <1>2, <1>3, <1>10 DEF TypeOK, Goto, Workers, Loops
  <2>2. GroupInv'
    <3>1. \A q \in Procs : pc'[q] # "boot"
      BY <2>1 DEF Workers
    <3>2. outstanding' # 0
      BY <1>2, <1>3, <1>10
    <3>3. ~committing' /\ asleep' = {}
      BY <1>3, <1>10
    <3> QED BY <1>2, <1>6, <1>8, <2>1, <3>1, <3>2, <3>3 DEF GroupInv, Workers
  <2>3. CommitInv'
    BY <1>2, <1>4, <1>8, <2>1, NoWorkers DEF IInv, CommitInv
  <2>4. NoMissedWakeup'
    BY <1>3, <1>10 DEF NoMissedWakeup
  <2> QED BY <1>4, <1>7, <2>2, <2>3, <2>4 DEF IInv
<1> QED BY <1>9, <1>10

(* bget() takes a buffer only when nothing is lost with it. *)
LEMMA RecycleKeeps ==
  ASSUME IInv, NEW b \in Blocks, Recycle(b)
  PROVE  cache' = cache
BY DEF IInv, TypeOK, CacheInv, Recycle

(* The invariant speaks of these variables only. *)
LEMMA SameState ==
  ASSUME IInv, UNCHANGED <<disks, bufs, mem, up, pc, tail, buf, asleep>>
  PROVE  IInv'
<1>1. Active' = Active /\ Workers' = Workers
  BY DEF Active, Workers
<1>2. TypeOK'
  BY DEF IInv, TypeOK, disks, bufs, mem
<1>3. GroupInv'
  BY <1>1 DEF IInv, GroupInv, mem
<1>4. CacheInv'
  BY DEF IInv, CacheInv, Locked, disks, bufs, mem
<1>5. CommitInv'
  BY DEF IInv, CommitInv, CommitAt, Distinct, Logged, Installed, disks, bufs, mem
<1>6. NoMissedWakeup'
  BY DEF IInv, NoMissedWakeup, mem
<1> QED BY <1>2, <1>3, <1>4, <1>5, <1>6 DEF IInv

-----------------------------------------------------------------------------
(* A step of the process that commits or recovers: the others are outside  *)
(* operations and stay there.                                              *)
LEMMA WorkerStep ==
  ASSUME IInv, NEW p \in Workers, TypeOK', NEW place, pc' = [pc EXCEPT ![p] = place],
         place \in {"user", "head", "clear", "done"} \cup Loops,
         \A q \in Procs \ {p} : tail'[q] = tail[q],
         outstanding' = outstanding, buf' = buf,
         Distinct(lh'), Distinct(head'), Len(head') <= Size - 1,
         head' = <<>> \/ place \in {"install", "clear"},
         CommitAt(p)'
  PROVE  /\ Active' = {} /\ outstanding' = 0 /\ CommitInv'
         /\ Workers' = IF place = "user" THEN {} ELSE {p}
         /\ \A q \in Procs : buf'[q] # None <=> pc'[q] \in {"log_write", "append"}
         /\ \A q \in Procs : pc'[q] # "boot" /\ (pc'[q] \in {"write", "head", "done"} => q = p)
<1>1. /\ p \in Procs /\ Active = {} /\ outstanding = 0
      /\ \A q \in Procs \ {p} : pc[q] \in {"user", "begin"}
  BY Alone
<1>2. pc'[p] = place /\ (\A q \in Procs \ {p} : pc'[q] = pc[q])
  BY <1>1 DEF IInv, TypeOK
<1>3. \A q \in Procs : pc[q] \notin Ops /\ buf[q] = None
  BY <1>1 DEF IInv, CacheInv, Active, Ops
<1>4. Active' = {}
  BY <1>1, <1>2 DEF Active, Ops, Loops
<1>5. Workers' = IF place = "user" THEN {} ELSE {p}
  BY <1>1, <1>2 DEF Workers, Loops
<1>6. \A q \in Procs \ {p} : CommitAt(q)'
  BY <1>1, <1>2 DEF IInv, CommitInv, CommitAt, Loops
<1>7. CommitInv'
  BY <1>1, <1>2, <1>6 DEF CommitInv
<1>8. \A q \in Procs : /\ buf'[q] # None <=> pc'[q] \in {"log_write", "append"}
                       /\ pc'[q] # "boot" /\ (pc'[q] \in {"write", "head", "done"} => q = p)
  BY <1>1, <1>2, <1>3 DEF Loops
<1> QED BY <1>1, <1>4, <1>5, <1>7, <1>8

(* write_log() copies the blocks of the header, in order, to the log. *)
LEMMA WriteLogStep ==
  ASSUME IInv, NEW p \in Procs, WriteLog(p)
  PROVE  IInv'
<1>1. TypeOK /\ pc[p] = "write" /\ p \in Workers /\ CommitAt(p)
  BY DEF IInv, CommitInv, WriteLog, At, Workers, Loops
<1>2. CASE tail[p] > Size - 1
  BY <1>2, SameState DEF WriteLog, disks, bufs, mem
<1>3. CASE ~(tail[p] > Size - 1)
  <2>0. PICK n \in Nat : n = tail[p]
    BY <1>1 DEF TypeOK
  <2>1. /\ logd' = [logd EXCEPT ![n] = cache[lh[n]]] /\ Loop(p, "head")
        /\ UNCHANGED <<disk, head, bufs, mem, up, buf, asleep>>
    BY <1>3, <2>0 DEF WriteLog
  <2>2. n \in 1..Len(lh) /\ n \in 1..(Size - 1) /\ Len(lh) \in Nat /\ lh[n] \in Blocks
    BY <1>1, <1>3, <2>0, Sizes DEF TypeOK, CommitAt, Loops
  <2>3. logd' \in [1..(Size - 1) -> Values] /\ Logged(n)'
    <3>1. lh' = lh /\ cache' = cache
      BY <2>1 DEF bufs, mem
    <3>2. logd'[n] = cache[lh[n]] /\ \A i \in 1..(n - 1) : logd'[i] = logd[i]
      BY <1>1, <2>1, <2>2, Sizes DEF TypeOK
    <3>3. \A i \in 1..(n - 1) : i <= Size - 1 /\ logd[i] = cache[lh[i]]
      BY <1>1, <2>0 DEF CommitAt, Logged
    <3>4. Logged(n)'
      BY <2>2, <3>1, <3>2, <3>3, Sizes DEF Logged
    <3> QED BY <1>1, <2>1, <2>2, <3>4 DEF TypeOK
  <2>4. up /\ committing
    BY <1>1, Alone DEF IInv, GroupInv
  <2> DEFINE place == IF n < Len(lh) THEN "write" ELSE "head"
  <2>5. /\ pc' = [pc EXCEPT ![p] = place]
        /\ tail' = [tail EXCEPT ![p] = IF n < Len(lh) THEN n + 1 ELSE 1]
    BY <1>1, <2>0, <2>1 DEF TypeOK, Loop, Goto
  <2>6. TypeOK'
    <3>1. pc' \in [Procs -> Places] /\ tail' \in [Procs -> Nat \ {0}]
      BY <1>1, <2>2, <2>5 DEF TypeOK, Places, Loops
    <3> QED BY <1>1, <2>1, <2>3, <3>1 DEF TypeOK, bufs, mem
  <2>7. CommitAt(p)'
    <3>1. pc'[p] = place /\ tail'[p] = IF n < Len(lh) THEN n + 1 ELSE 1
      BY <1>1, <2>5 DEF TypeOK
    <3>2. lh' = lh /\ lh # <<>>
      BY <1>1, <2>1, <2>2 DEF mem, TypeOK
    <3>3. CASE n < Len(lh)
      <4>1. tail'[p] \in 1..Len(lh') /\ tail'[p] - 1 = n
        BY <2>2, <3>1, <3>2, <3>3
      <4> QED BY <2>3, <3>1, <3>3, <4>1 DEF CommitAt, Loops
    <3>4. CASE ~(n < Len(lh))
      <4>1. n = Len(lh')
        BY <2>2, <3>2, <3>4
      <4> QED BY <2>3, <3>1, <3>2, <3>4, <4>1 DEF CommitAt, Loops
    <3> QED BY <3>3, <3>4
  <2>8. head = <<>> /\ head' = <<>>
    BY <1>1, <2>1, Alone DEF IInv, CommitInv
  <2>9. /\ Active' = {} /\ outstanding' = 0 /\ CommitInv' /\ Workers' = {p}
        /\ \A q \in Procs : buf'[q] # None <=> pc'[q] \in {"log_write", "append"}
        /\ \A q \in Procs : pc'[q] # "boot" /\ (pc'[q] \in {"write", "head", "done"} => q = p)
    <3>1. Distinct(lh') /\ Distinct(head') /\ Len(head') <= Size - 1
      BY <2>1 DEF IInv, CommitInv, Distinct, mem
    <3>2. \A q \in Procs \ {p} : tail'[q] = tail[q]
      BY <1>1, <2>5 DEF TypeOK
    <3>3. outstanding' = outstanding /\ buf' = buf /\ place \in {"user", "head", "clear", "done"} \cup Loops
      BY <2>1 DEF mem, Loops
    <3> HIDE DEF place
    <3>4. place # "user"
      BY DEF place
    <3> QED BY <1>1, <2>5, <2>6, <2>7, <2>8, <3>1, <3>2, <3>3, <3>4, WorkerStep
  <2>10. GroupInv'
    BY <2>1, <2>4, <2>9, FS_EmptySet DEF GroupInv, mem
  <2>11. CacheInv'
    BY <2>1, <2>9 DEF IInv, CacheInv, Locked, bufs, mem
  <2>12. NoMissedWakeup'
    BY <2>1 DEF IInv, NoMissedWakeup, mem
  <2> QED BY <2>6, <2>9, <2>10, <2>11, <2>12 DEF IInv
<1> QED BY <1>2, <1>3

(* write_head() names the blocks of a log that is complete. *)
LEMMA WriteHeadStep ==
  ASSUME IInv, NEW p \in Procs, WriteHead(p)
  PROVE  IInv'
<1>1. TypeOK /\ pc[p] = "head" /\ p \in Workers /\ CommitAt(p)
  BY DEF IInv, CommitInv, WriteHead, At, Workers
<1>2. up /\ committing
  BY <1>1, Alone DEF IInv, GroupInv
<1>3. /\ pc' = [pc EXCEPT ![p] = "install"] /\ head' = lh
      /\ UNCHANGED <<disk, logd, cache, dirty, lh, outstanding, committing, up, tail, buf, asleep>>
  BY DEF WriteHead, Goto, bufs, mem, local
<1>4. TypeOK'
  <2>1. pc' \in [Procs -> Places]
    BY <1>1, <1>3 DEF TypeOK, Places, Loops
  <2> QED BY <1>1, <1>3, <2>1 DEF TypeOK
<1>5. Len(lh) \in Nat \ {0} /\ Len(lh) <= Size - 1 /\ tail[p] = 1 /\ pc'[p] = "install"
  BY <1>1, <1>3, Sizes DEF TypeOK, CommitAt, Logged, Loops
<1>6. CommitAt(p)'
  <2>1. Installed(tail[p] - 1)' /\ Logged(Len(lh))'
    <3>1. Logged(Len(lh))
      BY <1>1 DEF CommitAt
    <3>2. Logged(Len(lh))'
      BY <1>3, <3>1 DEF Logged
    <3>3. Installed(tail[p] - 1)'
      BY <1>3, <1>5 DEF Installed
    <3> QED BY <3>2, <3>3
  <2>2. \A b \in dirty : \E i \in 1..Len(lh) : lh[i] = b
    BY <1>1 DEF IInv, TypeOK, CacheInv, Range
  <2>3. tail'[p] = 1 /\ tail'[p] \in 1..Len(lh') /\ head' = lh'
    BY <1>3, <1>5
  <2>4. \A b \in dirty' : \E i \in tail'[p]..Len(lh') : lh'[i] = b
    BY <1>3, <2>2, <2>3
  <2> QED BY <1>5, <2>1, <2>3, <2>4 DEF CommitAt, Loops
<1>7. /\ Active' = {} /\ outstanding' = 0 /\ CommitInv' /\ Workers' = {p}
      /\ \A q \in Procs : buf'[q] # None <=> pc'[q] \in {"log_write", "append"}
      /\ \A q \in Procs : pc'[q] # "boot" /\ (pc'[q] \in {"write", "head", "done"} => q = p)
  <2>1. Distinct(lh') /\ Distinct(head') /\ Len(head') <= Size - 1
    BY <1>3, <1>5 DEF IInv, CommitInv, Distinct
  <2>2. PICK place : place = "install"
    OBVIOUS
  <2>3. place \in {"user", "head", "clear", "done"} \cup Loops /\ place # "user" /\ place \in {"install", "clear"}
    BY <2>2 DEF Loops
  <2> QED BY <1>1, <1>3, <1>4, <1>6, <2>1, <2>2, <2>3, WorkerStep
<1>8. GroupInv'
  BY <1>2, <1>3, <1>7, FS_EmptySet DEF GroupInv
<1>9. CacheInv'
  BY <1>3, <1>7 DEF IInv, CacheInv, Locked
<1>10. NoMissedWakeup'
  BY <1>3 DEF IInv, NoMissedWakeup
<1> QED BY <1>4, <1>7, <1>8, <1>9, <1>10 DEF IInv

(* Recovery starts with the header that is on the disk. *)
LEMMA ReadHeadStep ==
  ASSUME IInv, NEW p \in Procs, ReadHead(p)
  PROVE  IInv'
<1>1. TypeOK /\ pc[p] = "boot" /\ p \in Workers /\ CommitAt(p)
  BY DEF IInv, CommitInv, ReadHead, At, Workers
<1>2. ~up /\ ~committing /\ asleep = {} /\ dirty = {}
  BY <1>1 DEF IInv, GroupInv, CacheInv
<1> DEFINE place == IF head = <<>> THEN "clear" ELSE "install"
<1>3. /\ pc' = [pc EXCEPT ![p] = place] /\ lh' = head
      /\ UNCHANGED <<disk, logd, head, cache, dirty, outstanding, committing, up, tail, buf, asleep>>
  BY DEF ReadHead, Goto, disks, bufs, local
<1>4. TypeOK'
  <2>1. pc' \in [Procs -> Places]
    BY <1>1, <1>3 DEF TypeOK, Places, Loops
  <2> QED BY <1>1, <1>3, <2>1 DEF TypeOK
<1>5. pc'[p] = place /\ tail[p] = 1 /\ Len(head) \in Nat /\ (head # <<>> => Len(head) >= 1)
  BY <1>1, <1>3 DEF TypeOK, CommitAt, Loops
<1>6. CommitAt(p)'
  <2>1. CASE head = <<>>
    BY <1>2, <1>3, <1>5, <2>1 DEF CommitAt, Loops, Installed
  <2>2. CASE head # <<>>
    <3>1. tail'[p] \in 1..Len(lh') /\ Installed(tail[p] - 1)'
      BY <1>3, <1>5, <2>2 DEF Installed
    <3> QED BY <1>2, <1>3, <1>5, <2>2, <3>1 DEF CommitAt, Loops
  <2> QED BY <2>1, <2>2
<1>7. /\ Active' = {} /\ outstanding' = 0 /\ CommitInv' /\ Workers' = {p}
      /\ \A q \in Procs : buf'[q] # None <=> pc'[q] \in {"log_write", "append"}
      /\ \A q \in Procs : pc'[q] # "boot" /\ (pc'[q] \in {"write", "head", "done"} => q = p)
  <2>1. Distinct(lh') /\ Distinct(head') /\ Len(head') <= Size - 1
    BY <1>3 DEF IInv, CommitInv, Distinct
  <2>2. place \in {"install", "clear"} /\ place # "user" /\ place \in {"user", "head", "clear", "done"} \cup Loops
    BY DEF Loops
  <2> HIDE DEF place
  <2> QED BY <1>1, <1>3, <1>4, <1>6, <2>1, <2>2, WorkerStep
<1>8. GroupInv'
  <2>1. \A q \in Procs : pc'[q] \notin {"write", "head", "done"}
    BY <1>5, <1>7
  <2> QED BY <1>2, <1>3, <1>7, <2>1, FS_EmptySet DEF GroupInv
<1>9. CacheInv'
  BY <1>2, <1>3, <1>7 DEF IInv, CacheInv, Locked
<1>10. NoMissedWakeup'
  BY <1>2, <1>3 DEF NoMissedWakeup
<1> QED BY <1>4, <1>7, <1>8, <1>9, <1>10 DEF IInv

(* log.lh.n = 0 and write_head(): everything is where it belongs. *)
LEMMA ClearStep ==
  ASSUME IInv, NEW p \in Procs, Clear(p)
  PROVE  IInv'
<1>1. TypeOK /\ pc[p] = "clear" /\ p \in Workers /\ CommitAt(p)
  BY DEF IInv, CommitInv, Clear, At, Workers
<1>2. committing <=> up
  BY <1>1, Alone
<1> DEFINE place == IF up THEN "done" ELSE "user"
<1>3. /\ pc' = [pc EXCEPT ![p] = place] /\ lh' = <<>> /\ head' = <<>> /\ up' = TRUE
      /\ UNCHANGED <<disk, logd, cache, dirty, outstanding, committing, tail, buf, asleep>>
  BY DEF Clear, Goto, bufs, local
<1>4. TypeOK'
  <2>1. pc' \in [Procs -> Places]
    BY <1>1, <1>3 DEF TypeOK, Places
  <2>2. lh' \in Seq(Blocks) /\ head' \in Seq(Blocks)
    BY <1>3
  <2>3. up' \in BOOLEAN
    BY <1>3
  <2> QED BY <1>1, <1>3, <2>1, <2>2, <2>3 DEF TypeOK
<1>5. pc'[p] = place /\ tail[p] = 1 /\ dirty = {}
  BY <1>1, <1>3 DEF TypeOK, CommitAt, Loops
<1>6. CommitAt(p)'
  BY <1>3, <1>5 DEF CommitAt, Loops
<1>7. /\ Active' = {} /\ outstanding' = 0 /\ CommitInv' /\ Workers' = IF up THEN {p} ELSE {}
      /\ \A q \in Procs : buf'[q] # None <=> pc'[q] \in {"log_write", "append"}
      /\ \A q \in Procs : pc'[q] # "boot" /\ (pc'[q] \in {"write", "head", "done"} => q = p)
  <2>1. Distinct(lh') /\ Distinct(head') /\ Len(head') <= Size - 1
    BY <1>3, Sizes DEF Distinct
  <2>2. place \in {"user", "head", "clear", "done"} \cup Loops /\ (place = "user" <=> ~up)
    OBVIOUS
  <2> HIDE DEF place
  <2> QED BY <1>1, <1>3, <1>4, <1>6, <2>1, <2>2, WorkerStep
<1>8. GroupInv'
  <2>1. committing' <=> Workers' # {}
    BY <1>2, <1>3, <1>7
  <2>2. \A q, r \in Workers' : q = r
    BY <1>7
  <2> QED BY <1>3, <1>7, <2>1, <2>2, FS_EmptySet DEF GroupInv
<1>9. CacheInv'
  BY <1>3, <1>5, <1>7 DEF IInv, CacheInv, Locked
<1>10. NoMissedWakeup'
  <2>1. up \/ asleep = {}
    BY DEF IInv, GroupInv
  <2> QED BY <1>2, <1>3, <2>1 DEF NoMissedWakeup
<1> QED BY <1>4, <1>7, <1>8, <1>9, <1>10 DEF IInv

(* end_op() lets the next group in. *)
LEMMA DoneStep ==
  ASSUME IInv, NEW p \in Procs, Done(p)
  PROVE  IInv'
<1>1. TypeOK /\ pc[p] = "done" /\ p \in Workers /\ CommitAt(p) /\ up
  BY DEF IInv, GroupInv, CommitInv, Done, At, Workers
<1>2. /\ pc' = [pc EXCEPT ![p] = "user"] /\ ~committing' /\ committing' \in BOOLEAN /\ asleep' = {}
      /\ UNCHANGED <<disk, logd, head, cache, dirty, lh, outstanding, up, tail, buf>>
  BY DEF Done, Goto, Wakeup, disks, bufs, local
<1>3. TypeOK'
  <2>1. pc' \in [Procs -> Places]
    BY <1>1, <1>2 DEF TypeOK, Places
  <2> QED BY <1>1, <1>2, <2>1 DEF TypeOK
<1>4. pc'[p] = "user" /\ tail[p] = 1 /\ lh = <<>>
  BY <1>1, <1>2 DEF TypeOK, CommitAt, Loops
<1>5. CommitAt(p)'
  BY <1>2, <1>4 DEF CommitAt, Loops
<1>6. /\ Active' = {} /\ outstanding' = 0 /\ CommitInv' /\ Workers' = {}
      /\ \A q \in Procs : buf'[q] # None <=> pc'[q] \in {"log_write", "append"}
      /\ \A q \in Procs : pc'[q] # "boot" /\ (pc'[q] \in {"write", "head", "done"} => q = p)
  <2>1. Distinct(lh') /\ Distinct(head') /\ Len(head') <= Size - 1
    BY <1>2 DEF IInv, CommitInv, Distinct
  <2>2. head' = <<>>
    BY <1>1, <1>2, Alone DEF IInv, CommitInv
  <2> QED BY <1>1, <1>2, <1>3, <1>5, <2>1, <2>2, WorkerStep
<1>7. GroupInv'
  <2>1. \A q \in Procs : pc'[q] \notin {"write", "head", "done"}
    BY <1>4, <1>6
  <2> QED BY <1>1, <1>2, <1>4, <1>6, <2>1, FS_EmptySet DEF GroupInv
<1>8. CacheInv'
  BY <1>2, <1>6 DEF IInv, CacheInv, Locked
<1>9. NoMissedWakeup'
  BY <1>2 DEF NoMissedWakeup
<1> QED BY <1>3, <1>6, <1>7, <1>8, <1>9 DEF IInv

(* install_trans() puts one block where it belongs; the cache does not     *)
(* change when it installs what was just committed.                        *)
LEMMA InstallStep ==
  ASSUME IInv, NEW p \in Procs, InstallTrans(p)
  PROVE  IInv' /\ (up => cache' = cache)
<1>1. TypeOK /\ pc[p] = "install" /\ p \in Workers /\ CommitAt(p)
  BY DEF IInv, CommitInv, InstallTrans, At, Workers, Loops
<1>2. PICK n \in Nat : n = tail[p]
  BY <1>1 DEF TypeOK
<1>3. PICK b \in Blocks : b = lh[n]
  BY <1>1, <1>2 DEF TypeOK, CommitAt, Loops
<1>4. /\ n \in 1..Len(lh) /\ Len(lh) \in Nat /\ n \in 1..(Size - 1) /\ head = lh /\ Distinct(lh)
      /\ logd[n] \in Values
  <2>1. n \in 1..Len(lh) /\ head = lh
    BY <1>1, <1>2 DEF CommitAt, Loops
  <2>2. Len(lh) \in Nat /\ Distinct(lh) /\ Len(head) <= Size - 1
    BY <1>1 DEF IInv, TypeOK, CommitInv
  <2>3. n \in 1..(Size - 1)
    BY <2>1, <2>2, Sizes
  <2> QED BY <1>1, <2>1, <2>2, <2>3 DEF TypeOK
<1> DEFINE place == IF n < Len(lh) THEN "install" ELSE "clear"
<1>5. /\ disk' = [disk EXCEPT ![b] = logd[n]] /\ cache' = [cache EXCEPT ![b] = logd[n]]
      /\ dirty' = dirty \ {b}
      /\ UNCHANGED <<logd, head, lh, outstanding, committing, up, buf, asleep>>
  BY <1>1, <1>2, <1>3 DEF TypeOK, InstallTrans, mem
<1>6. /\ pc' = [pc EXCEPT ![p] = place]
      /\ tail' = [tail EXCEPT ![p] = IF n < Len(lh) THEN n + 1 ELSE 1]
  BY <1>1, <1>2 DEF TypeOK, InstallTrans, Loop, Goto
<1>7. TypeOK'
  <2>1. pc' \in [Procs -> Places] /\ tail' \in [Procs -> Nat \ {0}]
    BY <1>1, <1>4, <1>6 DEF TypeOK, Places, Loops
  <2>2. disk' \in [Blocks -> Values] /\ cache' \in [Blocks -> Values] /\ dirty' \subseteq Blocks
    BY <1>1, <1>4, <1>5 DEF TypeOK
  <2> QED BY <1>1, <1>5, <2>1, <2>2 DEF TypeOK
<1>8. up => cache' = cache
  BY <1>1, <1>3, <1>4, <1>5 DEF TypeOK, CommitAt, Logged
<1>9. Installed(n)'
  <2>1. \A i \in 1..(n - 1) : lh[i] # b /\ disk[lh[i]] = logd[i] /\ lh[i] \in Blocks
    <3>1. \A i \in 1..(n - 1) : i \in DOMAIN lh /\ n \in DOMAIN lh /\ i # n /\ lh[i] \in Blocks
      BY <1>1, <1>4 DEF TypeOK
    <3> QED BY <1>1, <1>2, <1>3, <1>4, <3>1 DEF CommitAt, Installed, Distinct
  <2>2. disk'[b] = logd[n] /\ \A a \in Blocks \ {b} : disk'[a] = disk[a]
    BY <1>1, <1>5 DEF TypeOK
  <2> QED BY <1>3, <1>4, <1>5, <2>1, <2>2 DEF Installed
<1>10. \A a \in dirty' : \E i \in (n + 1)..Len(lh) : lh[i] = a
  <2> SUFFICES ASSUME NEW a \in dirty, a # b PROVE \E i \in (n + 1)..Len(lh) : lh[i] = a
    BY <1>5
  <2>1. PICK i \in n..Len(lh) : lh[i] = a
    BY <1>1, <1>2 DEF CommitAt
  <2>2. i # n
    BY <1>3, <2>1
  <2> QED BY <1>4, <2>1, <2>2
<1>11. CommitAt(p)'
  <2>1. pc'[p] = place /\ tail'[p] = IF n < Len(lh) THEN n + 1 ELSE 1
    BY <1>1, <1>6 DEF TypeOK
  <2>2. up' => Logged(Len(lh))'
    BY <1>1, <1>5, <1>8 DEF CommitAt, Logged
  <2>3. CASE n < Len(lh)
    <3>1. tail'[p] \in 1..Len(lh') /\ tail'[p] - 1 = n /\ tail'[p] = n + 1
      <4>1. tail'[p] = n + 1 /\ lh' = lh
        BY <1>5, <2>1, <2>3
      <4> QED BY <1>4, <2>3, <4>1
    <3> QED BY <1>4, <1>5, <1>9, <1>10, <2>1, <2>2, <2>3, <3>1 DEF CommitAt, Loops
  <2>4. CASE ~(n < Len(lh))
    <3>1. n = Len(lh') /\ dirty' = {}
      BY <1>4, <1>5, <1>10, <2>4
    <3> QED BY <1>4, <1>5, <1>9, <2>1, <2>4, <3>1 DEF CommitAt, Loops
  <2> QED BY <2>3, <2>4
<1>12. /\ Active' = {} /\ outstanding' = 0 /\ CommitInv' /\ Workers' = {p}
       /\ \A q \in Procs : buf'[q] # None <=> pc'[q] \in {"log_write", "append"}
       /\ \A q \in Procs : pc'[q] # "boot" /\ (pc'[q] \in {"write", "head", "done"} => q = p)
  <2>1. Distinct(lh') /\ Distinct(head') /\ Len(head') <= Size - 1
    BY <1>5 DEF IInv, CommitInv, Distinct
  <2>2. place \in {"install", "clear"} /\ place # "user" /\ place \in {"user", "head", "clear", "done"} \cup Loops
    BY DEF Loops
  <2>3. \A q \in Procs \ {p} : tail'[q] = tail[q]
    BY <1>1, <1>6 DEF TypeOK
  <2> HIDE DEF place
  <2> QED BY <1>1, <1>5, <1>6, <1>7, <1>11, <2>1, <2>2, <2>3, WorkerStep
<1>13. GroupInv'
  <2>1. (committing <=> up) /\ (~up => asleep = {})
    BY <1>1, Alone DEF IInv, GroupInv
  <2>2. \A q \in Procs : pc'[q] \notin {"write", "head", "done"}
    <3>1. pc'[p] \in {"install", "clear"}
      BY <1>1, <1>6 DEF TypeOK
    <3>2. ASSUME NEW q \in Procs, pc'[q] \in {"write", "head", "done"} PROVE FALSE
      <4>1. q = p
        BY <1>12, <3>2
      <4> QED BY <3>1, <3>2, <4>1
    <3> QED BY <3>2
  <2>3. /\ IsFiniteSet(Active') /\ Cardinality(Active') = outstanding' /\ Active' = {}
        /\ Workers' = {p} /\ \A q \in Procs : pc'[q] # "boot"
    BY <1>12, FS_EmptySet
  <2> QED BY <1>5, <2>1, <2>2, <2>3 DEF GroupInv
<1>14. CacheInv'
  <2>1. \A a \in Blocks : cache'[a] = disk'[a] \/ a \in dirty'
    BY <1>1, <1>5, Alone DEF IInv, TypeOK, CacheInv
  <2>2. \A q \in Procs : buf'[q] # None <=> pc'[q] \in {"log_write", "append"}
    BY <1>12
  <2>3. dirty' \subseteq Range(lh') /\ (~up' => dirty' = {})
    BY <1>5 DEF IInv, CacheInv
  <2> QED BY <2>1, <2>2, <2>3 DEF CacheInv
<1>15. NoMissedWakeup'
  BY <1>5 DEF IInv, NoMissedWakeup
<1> QED BY <1>7, <1>8, <1>12, <1>13, <1>14, <1>15 DEF IInv

(* Every step of the code, and a crash, keeps the invariant. *)
LEMMA NextIInv == IInv /\ [Next]_vars => IInv'
<1> SUFFICES ASSUME IInv, [Next]_vars PROVE IInv'
  OBVIOUS
<1>1. CASE UNCHANGED vars
  BY <1>1, SameState DEF vars, local
<1>2. CASE Crash
  BY <1>2, CrashStep
<1>3. ASSUME NEW b \in Blocks, Recycle(b) PROVE IInv'
  BY <1>3, RecycleKeeps, SameState DEF Recycle, bufs, local
<1>4. ASSUME NEW p \in Procs, NEW b \in Blocks, NEW v \in Values, Modify(p, b, v) PROVE IInv'
  BY <1>4, ModifyStep
<1>5. ASSUME NEW p \in Procs,
             \/ BeginOp(p) \/ LogTest(p) \/ LogAppend(p) \/ EndOp(p) \/ WriteLog(p) \/ WriteHead(p)
             \/ ReadHead(p) \/ InstallTrans(p) \/ Clear(p) \/ Done(p)
      PROVE  IInv'
  BY <1>5, BeginOpStep, LogTestStep, LogAppendStep, EndOpStep, WriteLogStep, WriteHeadStep, ReadHeadStep,
     InstallStep, ClearStep, DoneStep
<1> QED BY <1>1, <1>2, <1>3, <1>4, <1>5 DEF Next

-----------------------------------------------------------------------------
(* The invariant holds in every behaviour, crashes in any place included:  *)
(* one commit or recovery at a time, the log complete before its header,   *)
(* the header cleared only when every block is installed.                  *)
THEOREM Inductive == Spec => []IInv
BY InitIInv, NextIInv, PTL DEF Spec

(* begin_op() never sleeps without somebody left to wake it, nor when it   *)
(* could go on.                                                            *)
THEOREM NobodyForgotten == Spec => []NoMissedWakeup
<1>1. IInv => NoMissedWakeup
  BY DEF IInv
<1> QED BY <1>1, Inductive, PTL

(* What recovery makes of the disk, block by block. *)
LEMMA RecoveredIs ==
  ASSUME IInv
  PROVE  /\ head = <<>> => Recovered = disk
         /\ \A i \in DOMAIN head : Recovered[head[i]] = logd[i]
         /\ \A b \in Blocks \ Range(head) : Recovered[b] = disk[b]
<1>1. TypeOK /\ Distinct(head)
  BY DEF IInv, CommitInv
<1>2. \A b \in Blocks \ Range(head) : Recovered[b] = disk[b]
  BY DEF Recovered
<1>3. ASSUME NEW i \in DOMAIN head PROVE Recovered[head[i]] = logd[i]
  <2>1. head[i] \in Blocks /\ head[i] \in Range(head)
    BY <1>1 DEF TypeOK, Range
  <2>2. \A j \in DOMAIN head : head[j] = head[i] => j = i
    BY <1>1 DEF Distinct
  <2>3. (CHOOSE j \in DOMAIN head : head[j] = head[i]) = i
    BY <2>2
  <2> QED BY <2>1, <2>3 DEF Recovered
<1>4. head = <<>> => Recovered = disk
  BY <1>1 DEF TypeOK, Recovered, Range
<1> QED BY <1>2, <1>3, <1>4

(* Outside operations and commits, memory and disk agree. *)
LEMMA Agree ==
  ASSUME IInv, dirty = {}, Active = {}
  PROVE  cache = disk
<1>1. \A p \in Procs : buf[p] = None
  BY DEF IInv, CacheInv, Active, Ops
<1>2. \A b \in Blocks : ~Locked(b)
  BY <1>1, LogAssumption DEF Locked
<1> QED BY <1>2 DEF IInv, TypeOK, CacheInv

(* When the last end_op() has returned, all that was written is on the     *)
(* disk.                                                                   *)
THEOREM AlwaysDurable == Spec => []Durable
<1>1. IInv => Durable
  <2> SUFFICES ASSUME IInv, up, outstanding = 0, ~committing PROVE Recovered = cache
    BY DEF Durable
  <2>1. Active = {} /\ Workers = {} /\ lh = <<>>
    BY FS_EmptySet DEF IInv, GroupInv
  <2>2. head = <<>> /\ dirty = {}
    BY <2>1 DEF IInv, CommitInv, CacheInv, Workers, Loops, Range
  <2> QED BY <2>1, <2>2, Agree, RecoveredIs
<1> QED BY <1>1, Inductive, PTL

-----------------------------------------------------------------------------
(* What the file system sees. *)
Mem == IF up THEN cache ELSE Recovered

(* Steps that change neither the disk nor the cache. *)
LEMMA SameBlocks ==
  ASSUME UNCHANGED <<disks, cache, up>>
  PROVE  Mem' = Mem /\ Recovered' = Recovered
BY DEF Mem, Recovered, disks

(* begin_op() waits, or starts an operation of AtomicDisk. *)
LEMMA BeginMaps ==
  ASSUME IInv, NEW p \in Procs, BeginOp(p)
  PROVE  /\ Mem' = Mem /\ Recovered' = Recovered
         /\ Active' = Active \/ (p \notin Active /\ Active' = Active \cup {p})
<1>1. Mem' = Mem /\ Recovered' = Recovered
  BY SameBlocks DEF BeginOp, bufs
<1>2. pc \in [Procs -> Places] /\ pc[p] \in {"user", "begin"} /\ (Goto(p, "begin") \/ Goto(p, "op"))
  BY DEF IInv, TypeOK, BeginOp, At
<1> QED BY <1>1, <1>2 DEF Goto, Active, Ops

(* A change of a buffer is a change of memory, and of nothing stable. *)
LEMMA WriteMaps ==
  ASSUME IInv, NEW p \in Procs, NEW b \in Blocks, NEW v \in Values, Modify(p, b, v)
  PROVE  p \in Active /\ Mem' = [Mem EXCEPT ![b] = v] /\ Recovered' = Recovered /\ Active' = Active
<1>1. TypeOK /\ pc[p] = "op" /\ pc[p] \in Ops
  BY DEF IInv, Modify, At, Ops
<1>2. up /\ up' = up /\ p \in Active
  BY <1>1, InOperation DEF Modify
<1>3. Recovered' = Recovered
  <2>1. disk' = disk /\ logd' = logd /\ head' = head
    BY DEF Modify, disks
  <2> QED BY <2>1 DEF Recovered
<1>4. Mem' = [Mem EXCEPT ![b] = v]
  BY <1>2 DEF Mem, Modify
<1> QED BY <1>1, <1>2, <1>3, <1>4 DEF TypeOK, Modify, Goto, Active, Ops

(* end_op() ends the operation; what it may commit comes later. *)
LEMMA EndMaps ==
  ASSUME IInv, NEW p \in Procs, EndOp(p)
  PROVE  p \in Active /\ Mem' = Mem /\ Recovered' = Recovered /\ Active' = Active \ {p}
<1>1. TypeOK /\ pc[p] = "op" /\ pc[p] \in Ops
  BY DEF IInv, EndOp, At, Ops
<1>2. ~committing /\ p \in Active
  BY <1>1, InOperation
<1>3. Goto(p, "user") \/ Goto(p, "done") \/ Goto(p, "write")
  BY <1>2 DEF EndOp
<1>4. Mem' = Mem /\ Recovered' = Recovered
  BY SameBlocks DEF EndOp, bufs
<1> QED BY <1>1, <1>2, <1>3, <1>4 DEF TypeOK, Goto, Active, Ops

(* The header is written when the log holds all that is not on the disk. *)
LEMMA CommitMaps ==
  ASSUME IInv, NEW p \in Procs, WriteHead(p)
  PROVE  Active = {} /\ Active' = {} /\ Mem' = Mem /\ Recovered' = Mem
<1>1. TypeOK /\ pc[p] = "head" /\ p \in Workers /\ CommitAt(p) /\ up
  BY DEF IInv, GroupInv, CommitInv, WriteHead, At, Workers
<1>2. Active = {} /\ \A b \in Blocks : ~Locked(b)
  BY <1>1, Alone
<1>3. Active' = {}
  BY <1>1, <1>2 DEF TypeOK, WriteHead, Goto, Active, Ops
<1>4. Mem' = cache /\ Mem = cache
  BY <1>1 DEF WriteHead, bufs, Mem
<1>5. IInv'
  BY WriteHeadStep
<1>6. head' = lh /\ logd' = logd /\ disk' = disk
  BY DEF WriteHead
<1>7. ASSUME NEW b \in Blocks PROVE Recovered'[b] = cache[b]
  <2>1. CASE b \in Range(lh)
    <3>1. PICK i \in DOMAIN lh : lh[i] = b
      BY <2>1 DEF Range
    <3>2. logd[i] = cache[b]
      <4>1. i \in 1..Len(lh)
        BY <1>1 DEF TypeOK
      <4>2. Logged(Len(lh))
        BY <1>1 DEF CommitAt
      <4> QED BY <3>1, <4>1, <4>2 DEF Logged
    <3>3. Distinct(lh)
      BY DEF IInv, CommitInv
    <3>4. (CHOOSE j \in DOMAIN lh : lh[j] = b) = i
      BY <3>1, <3>3 DEF Distinct
    <3> QED BY <1>6, <2>1, <3>2, <3>4 DEF Recovered
  <2>2. CASE b \notin Range(lh)
    <3>1. cache[b] = disk[b]
      BY <1>2, <2>2 DEF IInv, CacheInv
    <3> QED BY <1>6, <2>2, <3>1 DEF Recovered
  <2> QED BY <2>1, <2>2
<1>8. Recovered' = cache
  BY <1>1, <1>7 DEF TypeOK, Recovered
<1> QED BY <1>2, <1>3, <1>4, <1>8

(* Installing a block of the header changes neither view. *)
LEMMA InstallMaps ==
  ASSUME IInv, NEW p \in Procs, InstallTrans(p)
  PROVE  Mem' = Mem /\ Recovered' = Recovered
<1>1. TypeOK /\ pc[p] = "install" /\ CommitAt(p)
  BY DEF IInv, CommitInv, InstallTrans, At
<1>2. head = lh /\ tail[p] \in DOMAIN lh
  BY <1>1 DEF TypeOK, CommitAt, Loops
<1>3. UNCHANGED <<logd, head, up>> /\ \A b \in Blocks \ Range(head) : disk'[b] = disk[b]
  BY <1>1, <1>2 DEF TypeOK, InstallTrans, Range
<1>4. Recovered' = Recovered
  BY <1>3 DEF Recovered
<1>5. up => cache' = cache
  BY InstallStep
<1> QED BY <1>3, <1>4, <1>5 DEF Mem

(* Clearing the header changes neither view: every block is installed. *)
LEMMA ClearMaps ==
  ASSUME IInv, NEW p \in Procs, Clear(p)
  PROVE  Mem' = Mem /\ Recovered' = Recovered
<1>1. TypeOK /\ pc[p] = "clear" /\ CommitAt(p) /\ p \in Workers
  BY DEF IInv, CommitInv, Clear, At, Workers
<1>2. head = lh /\ Installed(Len(lh)) /\ dirty = {} /\ Active = {}
  BY <1>1, Alone DEF CommitAt
<1>3. cache = disk
  BY <1>2, Agree
<1>4. ASSUME NEW b \in Blocks PROVE Recovered[b] = disk[b]
  <2>1. CASE b \in Range(head)
    <3>1. PICK i \in DOMAIN head : head[i] = b
      BY <2>1 DEF Range
    <3>2. disk[b] = logd[i]
      BY <1>1, <1>2, <3>1 DEF TypeOK, Installed
    <3> QED BY <3>1, <3>2, RecoveredIs
  <2>2. CASE b \notin Range(head)
    BY <2>2, RecoveredIs
  <2> QED BY <2>1, <2>2
<1>5. Recovered = disk
  BY <1>1, <1>4 DEF TypeOK, Recovered
<1>6. head' = <<>> /\ disk' = disk /\ cache' = cache /\ up'
  BY DEF Clear, bufs
<1>7. Recovered' = disk
  BY <1>1, <1>6 DEF TypeOK, Recovered, Range
<1> QED BY <1>3, <1>5, <1>6, <1>7 DEF Mem

(* The other steps of a commit or a recovery. *)
LEMMA QuietMaps ==
  ASSUME IInv, NEW p \in Procs, WriteLog(p) \/ ReadHead(p) \/ LogTest(p) \/ LogAppend(p) \/ Done(p)
  PROVE  Mem' = Mem /\ Recovered' = Recovered
<1>1. CASE WriteLog(p)
  <2>1. head = <<>> /\ head' = head /\ disk' = disk /\ cache' = cache /\ up' = up
    <3>1. pc[p] = "write" /\ p \in Workers
      BY <1>1 DEF WriteLog, At, Workers, Loops
    <3>2. head = <<>>
      BY <3>1, Alone DEF IInv, CommitInv
    <3> QED BY <1>1, <3>2 DEF WriteLog, bufs
  <2>2. Recovered' = Recovered
    BY <2>1 DEF Recovered, Range
  <2> QED BY <2>1, <2>2 DEF Mem
<1>2. CASE ReadHead(p) \/ LogTest(p) \/ LogAppend(p) \/ Done(p)
  BY <1>2, SameBlocks DEF ReadHead, LogTest, LogAppend, Done, bufs
<1> QED BY <1>1, <1>2

(* ... and who is inside an operation. *)
LEMMA SameActive ==
  ASSUME IInv, NEW p \in Procs,
         \/ WriteLog(p) \/ ReadHead(p) \/ LogTest(p) \/ LogAppend(p) \/ Done(p)
         \/ InstallTrans(p) \/ Clear(p)
  PROVE  Active' = Active
<1>1. pc \in [Procs -> Places]
  BY DEF IInv, TypeOK
<1>2. CASE LogTest(p) \/ LogAppend(p)
  <2>1. pc[p] \in Ops /\ (pc' = pc \/ Goto(p, "append") \/ Goto(p, "op"))
    BY <1>2 DEF LogTest, LogAppend, At, Ops
  <2> QED BY <1>1, <2>1 DEF Goto, Active, Ops
<1>3. CASE WriteLog(p) \/ ReadHead(p) \/ Done(p) \/ InstallTrans(p) \/ Clear(p)
  <2>1. /\ pc[p] \notin Ops
        /\ \/ pc' = pc \/ Goto(p, "head") \/ Goto(p, "clear")
           \/ Goto(p, "install") \/ Goto(p, "done") \/ Goto(p, "user")
    BY <1>3 DEF WriteLog, ReadHead, Done, InstallTrans, Clear, Loop, At, Ops
  <2> QED BY <1>1, <2>1 DEF Goto, Active, Ops
<1> QED BY <1>2, <1>3

(* Every step of the code is a step of the atomic disk, or none. *)
LEMMA NextMaps == IInv /\ [Next]_vars => [Abstract!Next]_(Abstract!vars)
<1> SUFFICES ASSUME IInv, [Next]_vars PROVE [Abstract!Next]_(Abstract!vars)
  OBVIOUS
<1>1. ASSUME Mem' = Mem, Recovered' = Recovered, Active' = Active PROVE UNCHANGED Abstract!vars
  BY <1>1 DEF Mem, Active, Ops, Abstract!vars
<1>2. CASE UNCHANGED vars
  BY <1>1, <1>2, SameBlocks DEF vars, Active, bufs
<1>3. CASE Crash
  <2>1. Recovered' = Recovered /\ ~up'
    <3>1. disk' = disk /\ logd' = logd /\ head' = head /\ ~up'
      BY <1>3 DEF Crash, disks
    <3> QED BY <3>1 DEF Recovered
  <2>2. Active' = {}
    BY <1>3 DEF Crash, Active, Booting, Ops
  <2>3. Abstract!Crash
    BY <2>1, <2>2 DEF Abstract!Crash, Active, Ops
  <2> QED BY <2>3 DEF Abstract!Next
<1>4. ASSUME NEW b \in Blocks, Recycle(b) PROVE UNCHANGED Abstract!vars
  <2>1. UNCHANGED <<disks, cache, up, pc>>
    BY <1>4, RecycleKeeps DEF Recycle
  <2> QED BY <1>1, <2>1, SameBlocks DEF Active
<1>5. ASSUME NEW p \in Procs, BeginOp(p) PROVE [Abstract!Next]_(Abstract!vars)
  <2>1. CASE Active' = Active
    BY <1>1, <1>5, <2>1, BeginMaps
  <2>2. CASE Active' # Active
    <3>1. Abstract!Begin(p)
      BY <1>5, <2>2, BeginMaps DEF Mem, Active, Ops, Abstract!Begin
    <3> QED BY <3>1 DEF Abstract!Next
  <2> QED BY <2>1, <2>2
<1>6. ASSUME NEW p \in Procs, NEW b \in Blocks, NEW v \in Values, Modify(p, b, v) PROVE Abstract!Next
  <2>1. Abstract!Write(p, b, v)
    BY <1>6, WriteMaps DEF Mem, Active, Ops, Abstract!Write
  <2> QED BY <2>1 DEF Abstract!Next
<1>7. ASSUME NEW p \in Procs, EndOp(p) PROVE Abstract!Next
  <2>1. Abstract!End(p)
    BY <1>7, EndMaps DEF Mem, Active, Ops, Abstract!End
  <2> QED BY <2>1 DEF Abstract!Next
<1>8. ASSUME NEW p \in Procs, WriteHead(p) PROVE Abstract!Next
  <2>1. Abstract!Commit
    BY <1>8, CommitMaps DEF Mem, Active, Ops, Abstract!Commit
  <2> QED BY <2>1 DEF Abstract!Next
<1>9. ASSUME NEW p \in Procs,
             \/ WriteLog(p) \/ ReadHead(p) \/ LogTest(p) \/ LogAppend(p) \/ Done(p)
             \/ InstallTrans(p) \/ Clear(p)
      PROVE  UNCHANGED Abstract!vars
  BY <1>1, <1>9, SameActive, QuietMaps, InstallMaps, ClearMaps
<1> QED BY <1>2, <1>3, <1>4, <1>5, <1>6, <1>7, <1>8, <1>9 DEF Next

(* The log makes groups of operations atomic: whatever step a crash hits,  *)
(* in a commit or in a recovery, afterwards all their writes are there or  *)
(* none.                                                                   *)
THEOREM CrashAtomic == Spec => AllOrNothing
<1>1. Init => Abstract!Init
  <2> SUFFICES ASSUME Init PROVE Abstract!Init
    OBVIOUS
  <2>1. Recovered = disk /\ disk \in [Blocks -> Values] /\ ~up
    BY InitIInv, RecoveredIs DEF Init
  <2>2. Active = {}
    BY DEF Init, Active, Booting, Ops
  <2> QED BY <2>1, <2>2 DEF Abstract!Init, Active, Ops
<1> QED BY <1>1, NextMaps, Inductive, PTL DEF Spec, AllOrNothing, Abstract!Spec

=============================================================================
