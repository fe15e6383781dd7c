--------------------------- MODULE BuffersProofs ----------------------------
(***************************************************************************)
(* Proofs about Buffers: IInv is inductive, and with it whoever holds a    *)
(* buffer sees what was last put into its block, and no process sleeps for *)
(* a lock that is free or for a request that nobody serves.                *)
(***************************************************************************)
EXTENDS Buffers, SequenceTheorems, FiniteSetTheorems, WellFoundedInduction, TLAPS

-----------------------------------------------------------------------------
(* The list of buffers *)

(* A set of positions has a first one, and a last one. *)
LEMMA Extremes ==
  ASSUME NEW S, S \subseteq Bufs, S # {}
  PROVE  First(S) \in S /\ Last(S) \in S
<1>0. NBUF \in Nat
  BY BufAssumption, Zenon
<1>1. ASSUME NEW T, T \subseteq Nat, T # {}
      PROVE  \E q \in T : \A r \in T : q <= r
  <2> DEFINE R == OpToRel(<, Nat)
  <2>1. PICK q \in T : \A r \in T : ~(<<r, q>> \in R)
    BY <1>1, NatLessThanWellFounded, WFMin, Zenon
  <2>2. \A r \in T : q <= r
    <3> TAKE r \in T
    <3>1. q \in Nat /\ r \in Nat
      BY <1>1, Zenon
    <3>2. ~(r < q)
      BY <2>1, <3>1, Zenon DEF OpToRel
    <3> QED BY <3>1, <3>2
  <2> QED BY <2>2, Zenon
<1>2. \E q \in S : \A r \in S : q <= r
  <2>1. S \subseteq Nat
    BY <1>0 DEF Bufs
  <2> QED BY <1>1, <2>1, Zenon
<1>3. \E q \in S : \A r \in S : r <= q
  <2> DEFINE T == {NBUF - k : k \in S}
  <2>1. T \subseteq Nat /\ T # {}
    <3>1. \A k \in S : NBUF - k \in Nat
      BY <1>0 DEF Bufs
    <3> QED BY <3>1, Zenon
  <2>2. PICK t \in T : \A r \in T : t <= r
    BY <1>1, <2>1, Zenon
  <2>3. PICK q \in S : t = NBUF - q
    BY <2>2, Zenon
  <2>4. \A r \in S : NBUF - q <= NBUF - r
    BY <2>2, <2>3, Zenon
  <2>5. \A r \in S : r <= q
    BY <1>0, <2>4 DEF Bufs
  <2> QED BY <2>5, Zenon
<1>4. First(S) \in S
  BY <1>2, Zenon DEF First
<1>5. Last(S) \in S
  BY <1>3, Zenon DEF Last
<1> QED
  BY <1>4, <1>5, Zenon

(* Moving a buffer to the front loses none. *)
LEMMA InFrontLists ==
  ASSUME lru \in [Bufs -> Bufs], AllListed, NEW i \in Bufs
  PROVE  /\ InFront(i) \in [Bufs -> Bufs]
         /\ \A j \in Bufs : \E l \in Bufs : InFront(i)[l] = j
<1> DEFINE k == CHOOSE n \in Bufs : lru[n] = i
<1>0. NBUF \in Nat \ {0}
  BY BufAssumption, Zenon
<1>1. k \in Bufs /\ lru[k] = i
  BY Zenon DEF AllListed
<1>2. InFront(i) = [l \in Bufs |-> IF l = 1 THEN i ELSE IF l <= k THEN lru[l - 1] ELSE lru[l]]
  BY Zenon DEF InFront
<1> HIDE DEF k
<1>3. InFront(i) \in [Bufs -> Bufs]
  <2>1. ASSUME NEW l \in Bufs
        PROVE  (IF l = 1 THEN i ELSE IF l <= k THEN lru[l - 1] ELSE lru[l]) \in Bufs
    <3>1. l # 1 /\ l <= k => l - 1 \in Bufs
      BY ONLY <1>0, l \in Bufs DEF Bufs
    <3> QED BY <3>1, Zenon
  <2> QED BY <1>2, <2>1, Zenon
<1>4. ASSUME NEW j \in Bufs
      PROVE  \E l \in Bufs : InFront(i)[l] = j
  <2>1. PICK m \in Bufs : lru[m] = j
    BY Zenon DEF AllListed
  <2>2. CASE j = i
    <3>1. 1 \in Bufs
      BY <1>0 DEF Bufs
    <3> QED BY <1>2, <2>2, <3>1, Zenon
  <2>3. CASE j # i /\ m < k
    <3>1. m + 1 \in Bufs /\ m + 1 # 1 /\ m + 1 <= k /\ (m + 1) - 1 = m
      BY <1>0, <1>1, <2>3 DEF Bufs
    <3>2. InFront(i)[m + 1] = lru[(m + 1) - 1]
      BY <1>2, <3>1, Zenon
    <3> QED BY <2>1, <3>1, <3>2, Zenon
  <2>4. CASE j # i /\ ~(m < k)
    <3>1. m # k
      BY <1>1, <2>1, <2>4, Zenon
    <3>2. m # 1 /\ ~(m <= k)
      BY <1>0, <1>1, <2>4, <3>1 DEF Bufs
    <3>3. InFront(i)[m] = lru[m]
      BY <1>2, <3>2, Zenon
    <3> QED BY <2>1, <3>3, Zenon
  <2> QED BY <2>2, <2>3, <2>4, Zenon
<1> QED
  BY <1>3, <1>4, Zenon

-----------------------------------------------------------------------------
(* Frames: what each part of the invariant depends on *)

(* The constants, as the proofs use them. *)
LEMMA Constants ==
  /\ NBUF \in Nat \ {0} /\ 0 \notin Bufs /\ \A i \in 0..NBUF : i # 0 => i \in Bufs
  /\ Bufs \subseteq 0..NBUF /\ 0 \in 0..NBUF
  /\ None \notin Procs /\ None \notin Blocks /\ None \notin Chans /\ None \notin Commands
  /\ IsFiniteSet(Procs)
  /\ \A i \in Bufs : /\ <<"lock", i>> \in Chans /\ <<"buf", i>> \in Chans
                     /\ <<"lock", i>> # None /\ <<"buf", i>> # None
  /\ \A i, j \in Bufs : /\ <<"lock", i>> # <<"buf", j>> 
                        /\ <<"lock", i>> = <<"lock", j>> => i = j
                        /\ <<"buf", i>> = <<"buf", j>> => i = j
  /\ \A c \in Chans : \E i \in Bufs : c = <<"lock", i>> \/ c = <<"buf", i>>
<1>1. NBUF \in Nat \ {0} /\ 0 \notin Bufs /\ (\A i \in 0..NBUF : i # 0 => i \in Bufs)
      /\ Bufs \subseteq 0..NBUF /\ 0 \in 0..NBUF
  BY BufAssumption DEF Bufs
<1>2. None \notin Procs /\ None \notin Blocks /\ None \notin Chans /\ None \notin Commands /\ IsFiniteSet(Procs)
  BY BufAssumption, Zenon
<1>3. \A i \in Bufs : /\ <<"lock", i>> \in Chans /\ <<"buf", i>> \in Chans
                     /\ <<"lock", i>> # None /\ <<"buf", i>> # None
  <2>1. \A i \in Bufs : <<"lock", i>> \in Chans /\ <<"buf", i>> \in Chans
    BY Zenon DEF Chans
  <2> QED BY <1>2, <2>1, Zenon
<1>4. \A i, j \in Bufs : /\ <<"lock", i>> # <<"buf", j>> 
                         /\ <<"lock", i>> = <<"lock", j>> => i = j
                         /\ <<"buf", i>> = <<"buf", j>> => i = j
  BY Zenon
<1>5. \A c \in Chans : \E i \in Bufs : c = <<"lock", i>> \/ c = <<"buf", i>>
  BY DEF Chans
<1> QED
  BY <1>1, <1>2, <1>3, <1>4, <1>5, Zenon

Held == {"bread", "iderw", "have"}

SameData ==
  \A i \in Bufs : /\ buf'[i].blockno = buf[i].blockno /\ buf'[i].valid = buf[i].valid
                  /\ buf'[i].dirty = buf[i].dirty /\ buf'[i].data = buf[i].data

(* Taking or releasing the sleep lock of a buffer changes nothing else. *)
LEMMA LockChanged ==
  ASSUME NEW i \in Bufs, NEW x \in Procs \cup {None}, buf \in [Bufs -> BufRecs],
         buf' = [buf EXCEPT ![i].lock = x]
  PROVE  /\ buf' \in [Bufs -> BufRecs] /\ SameData
         /\ \A j \in Bufs : buf'[j].refcnt = buf[j].refcnt
         /\ \A j \in Bufs : j # i => buf'[j] = buf[j]
         /\ buf'[i].lock = x
<1>1. /\ buf'[i] = [buf[i] EXCEPT !.lock = x]
      /\ \A j \in Bufs : j # i => buf'[j] = buf[j]
      /\ buf' = [j \in Bufs |-> buf'[j]] /\ buf[i] \in BufRecs
  BY Zenon
<1>2. PICK r, t : r = buf[i] /\ t = buf'[i]
  BY Zenon
<1>3. /\ t.blockno = r.blockno /\ t.valid = r.valid /\ t.dirty = r.dirty
      /\ t.data = r.data /\ t.refcnt = r.refcnt /\ t.lock = x /\ t \in BufRecs
  BY ONLY <1>1, <1>2, x \in Procs \cup {None}, Zenon DEF BufRecs
<1>4. buf' \in [Bufs -> BufRecs]
  BY <1>1, <1>2, <1>3, Zenon
<1>5. SameData
  BY <1>1, <1>2, <1>3, Zenon DEF SameData
<1>6. \A j \in Bufs : buf'[j].refcnt = buf[j].refcnt
  BY <1>1, <1>2, <1>3, Zenon
<1> QED
  BY <1>1, <1>2, <1>3, <1>4, <1>5, <1>6, Zenon

(* Nor does counting a reference. *)
LEMMA RefcntChanged ==
  ASSUME NEW i \in Bufs, NEW x \in Nat, buf \in [Bufs -> BufRecs],
         buf' = [buf EXCEPT ![i].refcnt = x]
  PROVE  /\ buf' \in [Bufs -> BufRecs] /\ SameData
         /\ \A j \in Bufs : buf'[j].lock = buf[j].lock
         /\ \A j \in Bufs : j # i => buf'[j] = buf[j]
         /\ buf'[i].refcnt = x
<1>1. /\ buf'[i] = [buf[i] EXCEPT !.refcnt = x]
      /\ \A j \in Bufs : j # i => buf'[j] = buf[j]
      /\ buf' = [j \in Bufs |-> buf'[j]] /\ buf[i] \in BufRecs
  BY Zenon
<1>2. PICK r, t : r = buf[i] /\ t = buf'[i]
  BY Zenon
<1>3. /\ t.blockno = r.blockno /\ t.valid = r.valid /\ t.dirty = r.dirty
      /\ t.data = r.data /\ t.lock = r.lock /\ t.refcnt = x /\ t \in BufRecs
  BY ONLY <1>1, <1>2, x \in Nat, Zenon DEF BufRecs
<1>4. buf' \in [Bufs -> BufRecs]
  BY <1>1, <1>2, <1>3, Zenon
<1>5. SameData
  BY <1>1, <1>2, <1>3, Zenon DEF SameData
<1>6. \A j \in Bufs : buf'[j].lock = buf[j].lock
  BY <1>1, <1>2, <1>3, Zenon
<1> QED
  BY <1>1, <1>2, <1>3, <1>4, <1>5, <1>6, Zenon

(* The references stay counted when nobody gets or releases a buffer. *)
LEMMA RefsSame ==
  ASSUME Refs, UNCHANGED b,
         \A p \in Procs : pc'[p] \in {"user", "panic"} <=> pc[p] \in {"user", "panic"},
         \A i \in Bufs : buf'[i].refcnt = buf[i].refcnt /\ buf'[i].blockno = buf[i].blockno,
         b \in [Procs -> 0..NBUF]
  PROVE  Refs'
<1>1. \A i \in Bufs : Users(i)' = Users(i)
  BY Zenon DEF Users
<1>2. \A p \in Procs : b[p] # 0 => b[p] \in Bufs
  BY Constants, Zenon
<1> QED
  BY <1>1, <1>2, Zenon DEF Refs

(* The owners stay when nobody locks or unlocks. *)
LEMMA LocksSame ==
  ASSUME Locks, UNCHANGED b, \A p \in Procs : pc'[p] \in Held <=> pc[p] \in Held,
         \A i \in Bufs : buf'[i].lock = buf[i].lock
  PROVE  Locks'
BY DEF Locks, Held

(* The blocks stay fresh when no data moves. *)
LEMMA FreshSame ==
  ASSUME Fresh, SameData, UNCHANGED <<disk, last, failed>>, TypeOK, TypeOK',
         \A p \in Procs : pc'[p] = "have" => b'[p] \in Bufs /\ buf[b'[p]].valid
  PROVE  Fresh'
<1>1. \A i \in Bufs :
       /\ buf'[i].dirty => buf'[i].valid /\ i \notin failed'
       /\ buf'[i].valid => buf'[i].blockno \in Blocks
       /\ buf'[i].valid /\ i \notin failed' => buf'[i].data = last'[buf'[i].blockno]
  BY Zenon DEF Fresh, SameData
<1>2. \A p \in Procs : pc'[p] = "have" => buf'[b'[p]].valid
  BY Zenon DEF SameData
<1>3. \A n \in Blocks : disk'[n] = last'[n] \/ \E i \in Bufs : buf'[i].blockno = n /\ buf'[i].dirty
  BY Zenon DEF Fresh, SameData
<1> QED
  BY <1>1, <1>2, <1>3, Zenon DEF Fresh

(* The requests stay when no buffer is queued or done. *)
LEMMA RequestsSame ==
  ASSUME Requests, UNCHANGED queue, b \in [Procs -> 0..NBUF],
         \A i \in Bufs : Done(i)' <=> Done(i),
         \A p \in Procs : /\ pc[p] = "iderw" /\ ~(pc'[p] = "iderw") => Done(b[p])
                          /\ pc'[p] = "iderw" => pc[p] = "iderw" /\ b[p] \in Bufs
                          /\ pc[p] = "iderw" => b'[p] = b[p]
  PROVE  Requests'
<1>1. \A i : Queued(i)' <=> Queued(i)
  BY Zenon DEF Queued
<1>2. \A i \in Bufs : Queued(i)' => ~Done(i)' /\ \E p \in Procs : b'[p] = i /\ pc'[p] = "iderw"
  BY <1>1 DEF Requests
<1>3. \A p \in Procs : pc'[p] = "iderw" => Queued(b[p])' \/ Done(b[p])'
  BY <1>1, Zenon DEF Requests
<1>4. \A p \in Procs : pc'[p] = "iderw" => (Queued(b[p]) \/ Done(b[p]))'
  <2> SUFFICES ASSUME NEW p \in Procs, pc'[p] = "iderw"
               PROVE  (Queued(b[p]) \/ Done(b[p]))'
    BY Zenon
  <2> QED BY <1>3, Zenon
<1> QED
  BY <1>2, <1>4, Zenon DEF Requests

(* The drive's command stays that of the first request. *)
LEMMA DrivingSame ==
  ASSUME TypeOK, Driving, SameData, UNCHANGED <<queue, drive, irq, disk, last>>
  PROVE  Driving'
<1>1. drive # None => queue # <<>> /\ Head(queue) \in Bufs
  BY DEF Driving, TypeOK
<1> QED
  BY <1>1, Zenon DEF Driving, SameData

(* A process sleeps only in acquiresleep() and iderw(). *)
LEMMA Awake ==
  ASSUME IInv, NEW p \in Procs, pc[p] \notin {"lock", "iderw"}
  PROVE  asleep[p] = None
<1>1. asleep[p] \in Chans \cup {None}
  BY Zenon DEF IInv, TypeOK
<1>2. asleep[p] \in Chans => \E i \in Bufs : asleep[p] = <<"lock", i>> \/ asleep[p] = <<"buf", i>>
  BY Constants, Zenon
<1> QED
  BY <1>1, <1>2, Zenon DEF IInv, Sleepers

(* The buffer of a process that has one. *)
LEMMA HasBuffer ==
  ASSUME IInv, NEW p \in Procs, pc[p] \notin {"user", "panic"}
  PROVE  b[p] \in Bufs /\ buf[b[p]].blockno \in Blocks
<1>1. b[p] # 0 /\ b[p] \in 0..NBUF
  BY Zenon DEF IInv, Refs, TypeOK
<1> QED
  BY <1>1, Constants, Zenon DEF IInv, Refs

(* The cache starts empty. *)
LEMMA InitIInv == Init => IInv
<1> SUFFICES ASSUME Init
             PROVE  IInv
  BY Zenon
<1>0. NBUF \in Nat \ {0}
  BY Constants, Zenon
<1>1. TypeOK
  <2>1. NoBuf \in BufRecs
    BY Zenon DEF NoBuf, BufRecs
  <2>2. buf \in [Bufs -> BufRecs]
    BY <2>1, Zenon DEF Init
  <2>3. lru \in [Bufs -> Bufs]
    BY <1>0 DEF Init, Bufs
  <2>4. disk \in [Blocks -> Values] /\ last \in [Blocks -> Values]
    BY Zenon DEF Init
  <2>5. queue \in Seq(Bufs) /\ drive \in Commands \cup {None} /\ irq \in BOOLEAN /\ failed \subseteq Bufs
    <3>1. queue \in Seq(Bufs)
      BY DEF Init
    <3>2. drive \in Commands \cup {None} /\ failed \subseteq Bufs
      BY Zenon DEF Init
    <3>3. irq \in BOOLEAN
      BY Zenon DEF Init
    <3> QED BY <3>1, <3>2, <3>3, Zenon
  <2>6. pc \in [Procs -> Places] /\ b \in [Procs -> 0..NBUF] /\ asleep \in [Procs -> Chans \cup {None}]
    BY Constants, Zenon DEF Init, Places
  <2> QED BY <2>2, <2>3, <2>4, <2>5, <2>6, Zenon DEF TypeOK
<1>2. AllListed
  <2> SUFFICES ASSUME NEW i \in Bufs
               PROVE  \E k \in Bufs : lru[k] = i
    BY Zenon DEF AllListed
  <2>1. NBUF + 1 - i \in Bufs /\ NBUF + 1 - (NBUF + 1 - i) = i
    BY <1>0 DEF Bufs
  <2>2. lru[NBUF + 1 - i] = i
    BY <2>1, Zenon DEF Init
  <2> QED BY <2>1, <2>2, Zenon
<1>3. \A i \in Bufs : buf[i] = NoBuf
  BY Zenon DEF Init
<1>4. /\ NoBuf.blockno = None /\ NoBuf.valid = FALSE /\ NoBuf.dirty = FALSE
      /\ NoBuf.refcnt = 0 /\ NoBuf.lock = None
  BY Zenon DEF NoBuf
<1>5. Refs
  <2>1. \A i \in Bufs : Users(i) = {}
    BY Constants, Zenon DEF Users, Init
  <2>2. \A i \in Bufs : buf[i].refcnt = Cardinality(Users(i))
    BY <1>3, <1>4, <2>1, FS_EmptySet, Zenon
  <2>3. \A i, j \in Bufs : buf[i].blockno = buf[j].blockno /\ buf[i].blockno # None => i = j
    BY <1>3, <1>4, Zenon
  <2> QED BY <2>2, <2>3, Zenon DEF Refs, Init
<1>6. Locks
  BY <1>3, <1>4, Constants DEF Locks, Init
<1>7. Fresh
  BY <1>3, <1>4, Zenon DEF Fresh, Init
<1>8. DOMAIN queue = {}
  BY DEF Init
<1>9. Requests
  BY <1>8, Zenon DEF Requests, Queued, Init
<1>10. Driving
  BY Zenon DEF Driving, Init
<1>11. Sleepers
  BY Constants, Zenon DEF Sleepers, Init
<1> QED
  BY <1>1, <1>2, <1>5, <1>6, <1>7, <1>9, <1>10, <1>11, Zenon DEF IInv

-----------------------------------------------------------------------------
(* Steps that move no data *)

(* kill() of a sleeper. *)
LEMMA KillStep ==
  ASSUME IInv, NEW p \in Procs, Kill(p)
  PROVE  IInv'
<1> USE DEF IInv
<1>1. UNCHANGED <<buf, lru, queue, disk, drive, irq, pc, b, last, failed>>
  BY Zenon DEF Kill, hw, hist
<1>2. asleep' \in [Procs -> Chans \cup {None}]
      /\ \A q \in Procs : asleep'[q] = asleep[q] \/ asleep'[q] = None
  BY Zenon DEF Kill, TypeOK
<1>3. TypeOK'
  BY <1>1, <1>2, Zenon DEF TypeOK
<1>4. SameData
  BY <1>1, Zenon DEF SameData
<1>5. AllListed' /\ Refs' /\ Locks'
  BY <1>1 DEF AllListed, Refs, Users, Locks
<1>6. Fresh'
  BY <1>1, Zenon DEF Fresh
<1>7. Requests'
  BY <1>1, Zenon DEF Requests, Queued, Done
<1>8. Driving'
  BY <1>1, <1>4, DrivingSame, Zenon
<1>9. Sleepers'
  <2>1. \A i : Queued(i)' <=> Queued(i)
    BY <1>1, Zenon DEF Queued
  <2>2. \A q \in Procs, i \in Bufs :
          /\ asleep'[q] = <<"lock", i>> => asleep[q] = <<"lock", i>>
          /\ asleep'[q] = <<"buf", i>> => asleep[q] = <<"buf", i>>
    BY <1>2, Constants, Zenon
  <2> QED BY <1>1, <2>1, <2>2, Zenon DEF Sleepers
<1> QED
  BY <1>3, <1>5, <1>6, <1>7, <1>8, <1>9, Zenon

(* iderw() looks again: the request is done, or still queued. *)
LEMMA IderwWokenStep ==
  ASSUME IInv, NEW p \in Procs, IderwWoken(p)
  PROVE  IInv'
<1> USE DEF IInv
<1>1. /\ UNCHANGED <<buf, lru, queue, disk, drive, irq, b, last, failed>>
      /\ pc[p] = "iderw" /\ asleep[p] = None
  BY Zenon DEF IderwWoken, hw, hist
<1>2. b[p] \in Bufs
  BY <1>1, HasBuffer, Zenon
<1>3. \/ Done(b[p]) /\ pc' = [pc EXCEPT ![p] = "have"] /\ asleep' = asleep
      \/ ~Done(b[p]) /\ asleep' = [asleep EXCEPT ![p] = <<"buf", b[p]>>] /\ pc' = pc
  BY Zenon DEF IderwWoken, Done, Goto
<1>4. TypeOK'
  <2>1. pc' \in [Procs -> Places]
    BY <1>3, Zenon DEF TypeOK, Places
  <2>2. asleep' \in [Procs -> Chans \cup {None}]
    BY <1>2, <1>3, Constants, Zenon DEF TypeOK
  <2> QED BY <1>1, <2>1, <2>2, Zenon DEF TypeOK
<1>5. SameData
  BY <1>1, Zenon DEF SameData
<1>6. AllListed'
  BY <1>1, Zenon DEF AllListed
<1>7. \A q \in Procs : pc'[q] = pc[q] \/ (q = p /\ pc'[q] = "have" /\ Done(b[p]))
  BY <1>3, Zenon DEF TypeOK
<1>8. Refs'
  BY <1>1, <1>7, RefsSame, Zenon DEF TypeOK
<1>9. Locks'
  BY <1>1, <1>7, LocksSame, Zenon DEF Held
<1>10. Fresh'
  <2>1. \A q \in Procs : pc'[q] = "have" => b'[q] \in Bufs /\ buf[b'[q]].valid
    <3> SUFFICES ASSUME NEW q \in Procs, pc'[q] = "have"
                 PROVE  b[q] \in Bufs /\ buf[b[q]].valid
      BY <1>1, Zenon
    <3>1. CASE pc'[q] = pc[q]
      BY <3>1, HasBuffer, Zenon DEF Fresh
    <3>2. CASE q = p /\ Done(b[p])
      BY <1>2, <3>2, Zenon DEF Done
    <3> QED BY <1>7, <3>1, <3>2, Zenon
  <2> QED BY <1>1, <1>4, <1>5, <2>1, FreshSame, Zenon
<1>11. Requests'
  <2>1. \A i \in Bufs : Done(i)' <=> Done(i)
    BY <1>1, Zenon DEF Done
  <2>2. \A q \in Procs : pc[q] = "iderw" => b[q] \in Bufs
    BY HasBuffer, Zenon
  <2> QED BY <1>1, <1>7, <2>1, <2>2, RequestsSame, Zenon DEF TypeOK
<1>12. Driving'
  BY <1>1, <1>5, DrivingSame, Zenon
<1>13. Sleepers'
  <2>0. \A i : Queued(i)' <=> Queued(i)
    BY <1>1, Zenon DEF Queued
  <2> SUFFICES ASSUME NEW q \in Procs, NEW i \in Bufs
               PROVE  /\ asleep'[q] = <<"lock", i>> => b'[q] = i /\ pc'[q] = "lock" /\ buf'[i].lock # None
                      /\ asleep'[q] = <<"buf", i>> => b'[q] = i /\ pc'[q] = "iderw" /\ Queued(i)'
    BY Zenon DEF Sleepers
  <2>1. CASE q # p
    <3>1. asleep'[q] = asleep[q] /\ pc'[q] = pc[q]
      BY <1>3, <2>1, Zenon DEF TypeOK
    <3> QED BY <1>1, <2>0, <3>1 DEF Sleepers
  <2>2. CASE q = p /\ Done(b[p])
    <3>1. asleep'[p] = None
      BY <1>1, <1>3, <2>2, Zenon
    <3> QED BY <2>2, <3>1, Constants, Zenon
  <2>3. CASE q = p /\ ~Done(b[p])
    <3>1. asleep'[p] = <<"buf", b[p]>> /\ pc'[p] = "iderw" /\ Queued(b[p])
      BY <1>1, <1>3, <2>3, Zenon DEF TypeOK, Requests
    <3> QED BY <1>1, <1>2, <2>0, <2>3, <3>1, Constants, Zenon
  <2> QED BY <2>1, <2>2, <2>3, Zenon
<1> QED
  BY <1>4, <1>6, <1>8, <1>9, <1>10, <1>11, <1>12, <1>13, Zenon

(* Nobody sleeps for more than before, when only awake processes move. *)
LEMMA SleepersSame ==
  ASSUME TypeOK, Sleepers, \A i \in Bufs : Queued(i) => Queued(i)',
         \A q \in Procs : /\ asleep'[q] = asleep[q] \/ asleep'[q] = None
                          /\ asleep'[q] # None => b'[q] = b[q] /\ pc'[q] = pc[q],
         \A i \in Bufs : buf[i].lock # None => buf'[i].lock # None
  PROVE  Sleepers'
<1> SUFFICES ASSUME NEW q \in Procs, NEW i \in Bufs
             PROVE  /\ asleep'[q] = <<"lock", i>> => b'[q] = i /\ pc'[q] = "lock" /\ buf'[i].lock # None
                    /\ asleep'[q] = <<"buf", i>> => b'[q] = i /\ pc'[q] = "iderw" /\ Queued(i)'
  BY Zenon DEF Sleepers
<1>1. <<"lock", i>> # None /\ <<"buf", i>> # None
  BY Constants, Zenon
<1>2. asleep'[q] # None => asleep'[q] = asleep[q] /\ b'[q] = b[q] /\ pc'[q] = pc[q]
  BY Zenon
<1>3. asleep'[q] = <<"lock", i>> => asleep[q] = <<"lock", i>> /\ b'[q] = b[q] /\ pc'[q] = pc[q]
  BY <1>1, <1>2, Zenon
<1>4. asleep'[q] = <<"buf", i>> => asleep[q] = <<"buf", i>> /\ b'[q] = b[q] /\ pc'[q] = pc[q]
  BY <1>1, <1>2, Zenon
<1>5. asleep'[q] = <<"lock", i>> => b'[q] = i /\ pc'[q] = "lock" /\ buf'[i].lock # None
  BY <1>3, Zenon DEF Sleepers
<1>6. asleep'[q] = <<"buf", i>> => b'[q] = i /\ pc'[q] = "iderw" /\ Queued(i)'
  BY <1>4, Zenon DEF Sleepers
<1> QED
  BY <1>5, <1>6, Zenon

(* bread() of a buffer that is valid. *)
LEMMA BreadValidStep ==
  ASSUME IInv, NEW p \in Procs, Bread(p), buf[b[p]].valid
  PROVE  IInv'
<1> USE DEF IInv
<1>1. /\ UNCHANGED <<buf, lru, queue, disk, drive, irq, b, asleep, last, failed>>
      /\ pc[p] = "bread" /\ pc' = [pc EXCEPT ![p] = "have"]
  BY Zenon DEF Bread, Goto, hw, hist
<1>2. b[p] \in Bufs
  BY <1>1, HasBuffer, Zenon
<1>3. \A q \in Procs : q # p => pc'[q] = pc[q]
  BY <1>1, Zenon DEF TypeOK
<1>4. pc'[p] = "have" /\ pc' \in [Procs -> Places]
  BY <1>1, Zenon DEF TypeOK, Places
<1>5. TypeOK'
  BY <1>1, <1>4, Zenon DEF TypeOK
<1>6. SameData
  BY <1>1, Zenon DEF SameData
<1>7. AllListed'
  BY <1>1, Zenon DEF AllListed
<1>8. Refs'
  BY <1>1, <1>3, <1>4, RefsSame, Zenon DEF TypeOK
<1>9. Locks'
  BY <1>1, <1>3, <1>4, LocksSame, Zenon DEF Held
<1>10. Fresh'
  <2>1. \A q \in Procs : pc'[q] = "have" => b'[q] \in Bufs /\ buf[b'[q]].valid
    BY <1>1, <1>2, <1>3, HasBuffer, Zenon DEF Fresh
  <2> QED BY <1>1, <1>5, <1>6, <2>1, FreshSame, Zenon
<1>11. Requests'
  <2>1. \A i \in Bufs : Done(i)' <=> Done(i)
    BY <1>1, Zenon DEF Done
  <2>2. \A q \in Procs : pc[q] = "iderw" => b[q] \in Bufs
    BY HasBuffer, Zenon
  <2> QED BY <1>1, <1>3, <1>4, <2>1, <2>2, RequestsSame, Zenon DEF TypeOK
<1>12. Driving'
  BY <1>1, <1>6, DrivingSame, Zenon
<1>13. Sleepers'
  <2>1. asleep[p] = None
    BY <1>1, Awake, Zenon
  <2>2. \A i \in Bufs : Queued(i) => Queued(i)'
    BY <1>1, Zenon DEF Queued
  <2> QED BY <1>1, <1>3, <2>1, <2>2, SleepersSame, Zenon
<1> QED
  BY <1>5, <1>7, <1>8, <1>9, <1>10, <1>11, <1>12, <1>13, Zenon

(* acquiresleep() *)
LEMMA AcquiresleepStep ==
  ASSUME IInv, NEW p \in Procs, Acquiresleep(p)
  PROVE  IInv'
<1> USE DEF IInv
<1> DEFINE i == b[p]
<1>1. /\ UNCHANGED <<lru, queue, disk, drive, irq, b, last, failed>>
      /\ pc[p] = "lock" /\ asleep[p] = None
  BY Zenon DEF Acquiresleep, hw, hist
<1>2. i \in Bufs
  BY <1>1, HasBuffer, Zenon
<1>3. \/ /\ buf[i].lock # None /\ asleep' = [asleep EXCEPT ![p] = <<"lock", i>>] /\ buf' = buf /\ pc' = pc
      \/ /\ buf[i].lock = None /\ buf' = [buf EXCEPT ![i].lock = p]
         /\ pc' = [pc EXCEPT ![p] = "bread"] /\ asleep' = asleep
  BY Zenon DEF Acquiresleep, Goto
<1> HIDE DEF i
<1>4. /\ \A q \in Procs : q # p => pc'[q] = pc[q] /\ asleep'[q] = asleep[q]
      /\ \A j \in Bufs : j # i => buf'[j] = buf[j]
      /\ SameData /\ \A j \in Bufs : buf'[j].refcnt = buf[j].refcnt
      /\ pc'[p] \in {"lock", "bread"} /\ buf' \in [Bufs -> BufRecs]
  <2>1. CASE asleep' = [asleep EXCEPT ![p] = <<"lock", i>>] /\ buf' = buf /\ pc' = pc
    BY <1>1, <2>1, Zenon DEF TypeOK, SameData
  <2>2. CASE buf' = [buf EXCEPT ![i].lock = p] /\ pc' = [pc EXCEPT ![p] = "bread"] /\ asleep' = asleep
    <3>1. i \in Bufs /\ p \in Procs \cup {None} /\ buf \in [Bufs -> BufRecs]
      BY <1>2, Zenon DEF TypeOK
    <3>2. /\ buf' \in [Bufs -> BufRecs] /\ SameData
          /\ \A j \in Bufs : buf'[j].refcnt = buf[j].refcnt
          /\ \A j \in Bufs : j # i => buf'[j] = buf[j]
      BY ONLY <2>2, <3>1, LockChanged, Zenon
    <3> QED BY <2>2, <3>2, Zenon DEF TypeOK
  <2> QED BY <1>3, <2>1, <2>2, Zenon
<1>5. TypeOK'
  <2>1. pc' \in [Procs -> Places]
    BY <1>3, Zenon DEF TypeOK, Places
  <2>2. asleep' \in [Procs -> Chans \cup {None}]
    BY <1>2, <1>3, Constants, Zenon DEF TypeOK
  <2> QED BY <1>1, <1>4, <2>1, <2>2, Zenon DEF TypeOK
<1>6. AllListed'
  BY <1>1, Zenon DEF AllListed
<1>7. Refs'
  <2>1. \A j \in Bufs : buf'[j].refcnt = buf[j].refcnt /\ buf'[j].blockno = buf[j].blockno
    BY <1>4, Zenon DEF SameData
  <2>2. \A q \in Procs : pc'[q] \in {"user", "panic"} <=> pc[q] \in {"user", "panic"}
    BY <1>1, <1>4, Zenon
  <2> QED BY <1>1, <2>1, <2>2, RefsSame, Zenon DEF TypeOK
<1>8. Locks'
  <2>1. CASE buf' = buf /\ pc' = pc
    BY <1>1, <2>1, Zenon DEF Locks
  <2>2. CASE buf[i].lock = None /\ buf' = [buf EXCEPT ![i].lock = p] /\ pc' = [pc EXCEPT ![p] = "bread"]
    <3>1. buf'[i].lock = p /\ pc'[p] = "bread"
      BY <1>2, <2>2, Zenon DEF TypeOK, BufRecs
    <3>2. ASSUME NEW j \in Bufs, NEW q \in Procs
          PROVE  buf'[j].lock = q <=> b[q] = j /\ pc'[q] \in {"bread", "iderw", "have"}
      <4>1. CASE j = i
        <5>1. b[q] = i => pc[q] \notin {"bread", "iderw", "have"}
          BY <1>2, <2>2, Constants DEF Locks
        <5> QED BY <1>4, <3>1, <4>1, <5>1, Zenon DEF i
      <4>2. CASE j # i
        <5>1. buf'[j] = buf[j]
          BY <1>4, <4>2, Zenon
        <5>2. q = p => b[q] # j /\ buf[j].lock # q
          BY <4>2, Zenon DEF i, Locks
        <5>3. q # p => pc'[q] = pc[q]
          BY <1>4, Zenon
        <5> QED BY <5>1, <5>2, <5>3 DEF Locks
      <4> QED BY <4>1, <4>2, Zenon
    <3> QED BY <1>1, <3>2 DEF Locks
  <2> QED BY <1>3, <2>1, <2>2, Zenon
<1>9. Fresh'
  <2>1. \A q \in Procs : pc'[q] = "have" => pc[q] = "have" /\ b'[q] \in Bufs /\ buf[b'[q]].valid
    BY <1>1, <1>4, HasBuffer, Zenon DEF Fresh
  <2> QED BY <1>1, <1>4, <1>5, <2>1, FreshSame, Zenon
<1>10. Requests'
  <2>1. \A j \in Bufs : Done(j)' <=> Done(j)
    BY <1>4, Zenon DEF Done, SameData
  <2>2. \A q \in Procs : pc[q] = "iderw" => b[q] \in Bufs
    BY HasBuffer, Zenon
  <2> QED BY <1>1, <1>4, <2>1, <2>2, RequestsSame, Zenon DEF TypeOK
<1>11. Driving'
  BY <1>1, <1>4, DrivingSame, Zenon
<1>12. Sleepers'
  <2>1. \A j : Queued(j)' <=> Queued(j)
    BY <1>1, Zenon DEF Queued
  <2>2. CASE asleep' = asleep
    <3>1. \A j \in Bufs : buf[j].lock # None => buf'[j].lock # None
      <4>1. CASE buf' = buf
        BY <4>1, Zenon
      <4>2. CASE buf[i].lock = None
        BY <1>4, <4>2, Zenon
      <4> QED BY <1>3, <4>1, <4>2, Zenon
    <3> QED BY <1>1, <1>4, <2>1, <2>2, <3>1, SleepersSame, Zenon
  <2>3. CASE buf[i].lock # None /\ asleep' = [asleep EXCEPT ![p] = <<"lock", i>>] /\ buf' = buf /\ pc' = pc
    <3>1. asleep'[p] = <<"lock", i>>
      BY <2>3, Zenon DEF TypeOK
    <3>2. ASSUME NEW q \in Procs, NEW j \in Bufs
          PROVE  /\ asleep'[q] = <<"lock", j>> => b'[q] = j /\ pc'[q] = "lock" /\ buf'[j].lock # None
                 /\ asleep'[q] = <<"buf", j>> => b'[q] = j /\ pc'[q] = "iderw" /\ Queued(j)'
      <4>1. CASE q = p
        BY <1>1, <1>2, <2>3, <3>1, <4>1, Constants, Zenon DEF i
      <4>2. CASE q # p
        BY <1>1, <1>4, <2>1, <2>3, <4>2 DEF Sleepers
      <4> QED BY <4>1, <4>2, Zenon
    <3> QED BY <3>2, Zenon DEF Sleepers
  <2> QED BY <1>3, <2>2, <2>3, Zenon
<1> QED
  BY <1>5, <1>6, <1>7, <1>8, <1>9, <1>10, <1>11, <1>12, Zenon

(* releasesleep() wakes whoever waits for the lock. *)
LEMMA ReleasesleepStep ==
  ASSUME IInv, NEW p \in Procs, Releasesleep(p)
  PROVE  IInv'
<1> USE DEF IInv
<1> DEFINE i == b[p]
<1>1. /\ UNCHANGED <<lru, queue, disk, drive, irq, b, last, failed>>
      /\ pc[p] = "have" /\ pc' = [pc EXCEPT ![p] = "brelse"]
      /\ buf' = [buf EXCEPT ![i].lock = None]
      /\ asleep' = [q \in Procs |-> IF asleep[q] = <<"lock", i>> THEN None ELSE asleep[q]]
  BY Zenon DEF Releasesleep, hw, hist, Goto, Wakeup
<1>2. i \in Bufs
  BY <1>1, HasBuffer, Zenon
<1> HIDE DEF i
<1>3. /\ \A q \in Procs : q # p => pc'[q] = pc[q]
      /\ pc'[p] = "brelse" /\ pc' \in [Procs -> Places]
  BY <1>1, Zenon DEF TypeOK, Places
<1>4. /\ buf' \in [Bufs -> BufRecs] /\ SameData
      /\ \A j \in Bufs : buf'[j].refcnt = buf[j].refcnt
      /\ \A j \in Bufs : j # i => buf'[j] = buf[j]
      /\ buf'[i].lock = None
  <2>1. None \in Procs \cup {None} /\ buf \in [Bufs -> BufRecs] /\ buf' = [buf EXCEPT ![i].lock = None]
    BY <1>1, Zenon DEF TypeOK
  <2> QED BY ONLY <1>2, <2>1, LockChanged, Zenon
<1>5. /\ asleep' \in [Procs -> Chans \cup {None}]
      /\ \A q \in Procs : /\ asleep'[q] = asleep[q] \/ asleep'[q] = None
                          /\ asleep'[q] # <<"lock", i>>
  <2>1. <<"lock", i>> # None
    BY <1>2, Constants, Zenon
  <2> QED BY <1>1, <2>1, Zenon DEF TypeOK
<1>6. TypeOK'
  BY <1>1, <1>3, <1>4, <1>5, Zenon DEF TypeOK
<1>7. AllListed'
  BY <1>1, Zenon DEF AllListed
<1>8. Refs'
  <2>1. \A j \in Bufs : buf'[j].refcnt = buf[j].refcnt /\ buf'[j].blockno = buf[j].blockno
    BY <1>4, Zenon DEF SameData
  <2>2. \A q \in Procs : pc'[q] \in {"user", "panic"} <=> pc[q] \in {"user", "panic"}
    BY <1>1, <1>3, Zenon
  <2> QED BY <1>1, <2>1, <2>2, RefsSame, Zenon DEF TypeOK
<1>9. Locks'
  <2>1. ASSUME NEW j \in Bufs, NEW q \in Procs
        PROVE  buf'[j].lock = q <=> b[q] = j /\ pc'[q] \in {"bread", "iderw", "have"}
    <3>1. CASE q = p
      <4>1. buf'[j].lock # p
        <5>1. CASE j = i
          BY <1>4, <5>1, Constants, Zenon
        <5>2. CASE j # i
          BY <1>4, <5>2 DEF Locks, i
        <5> QED BY <5>1, <5>2, Zenon
      <4> QED BY <1>3, <3>1, <4>1, Zenon
    <3>2. CASE q # p /\ j # i
      <4>1. buf'[j] = buf[j] /\ pc'[q] = pc[q]
        BY <1>3, <1>4, <3>2, Zenon
      <4> QED BY <4>1 DEF Locks
    <3>3. CASE q # p /\ j = i
      <4>1. buf[i].lock = p
        BY <1>1, <1>2, Zenon DEF Locks, i
      <4>2. ~(b[q] = i /\ pc[q] \in {"bread", "iderw", "have"})
        BY <1>2, <3>3, <4>1, Zenon DEF Locks
      <4>3. buf'[i].lock # q
        BY <1>4, Constants, Zenon
      <4> QED BY <1>3, <3>3, <4>2, <4>3, Zenon
    <3> QED BY <3>1, <3>2, <3>3, Zenon
  <2> QED BY <1>1, <2>1, Zenon DEF Locks
<1>10. Fresh'
  <2>1. \A q \in Procs : pc'[q] = "have" => pc[q] = "have" /\ b'[q] \in Bufs /\ buf[b'[q]].valid
    BY <1>1, <1>3, HasBuffer, Zenon DEF Fresh
  <2> QED BY <1>1, <1>4, <1>6, <2>1, FreshSame, Zenon
<1>11. Requests'
  <2>1. \A j \in Bufs : Done(j)' <=> Done(j)
    BY <1>4, Zenon DEF Done, SameData
  <2>2. \A q \in Procs : pc[q] = "iderw" => b[q] \in Bufs
    BY HasBuffer, Zenon
  <2> QED BY <1>1, <1>3, <2>1, <2>2, RequestsSame, Zenon DEF TypeOK
<1>12. Driving'
  BY <1>1, <1>4, DrivingSame, Zenon
<1>13. Sleepers'
  <2>1. \A j : Queued(j)' <=> Queued(j)
    BY <1>1, Zenon DEF Queued
  <2>2. asleep[p] = None
    BY <1>1, Awake, Zenon
  <2>3. ASSUME NEW q \in Procs, NEW j \in Bufs
        PROVE  /\ asleep'[q] = <<"lock", j>> => b'[q] = j /\ pc'[q] = "lock" /\ buf'[j].lock # None
               /\ asleep'[q] = <<"buf", j>> => b'[q] = j /\ pc'[q] = "iderw" /\ Queued(j)'
    <3>1. asleep'[q] = <<"lock", j>> => asleep[q] = <<"lock", j>> /\ q # p /\ j # i
      BY <1>5, <2>2, Constants, Zenon
    <3>2. asleep'[q] = <<"buf", j>> => asleep[q] = <<"buf", j>> /\ q # p
      BY <1>5, <2>2, Constants, Zenon
    <3> QED BY <1>1, <1>3, <1>4, <2>1, <3>1, <3>2, Zenon DEF Sleepers
  <2> QED BY <2>3, Zenon DEF Sleepers
<1> QED
  BY <1>6, <1>7, <1>8, <1>9, <1>10, <1>11, <1>12, <1>13, Zenon

(* Users of a buffer are counted, so one that has none has no user. *)
LEMMA UsersCounted ==
  ASSUME TypeOK, Refs, NEW i \in Bufs
  PROVE  /\ IsFiniteSet(Users(i)) /\ buf[i].refcnt = Cardinality(Users(i))
         /\ buf[i].refcnt \in Nat
         /\ buf[i].refcnt = 0 => \A p \in Procs : b[p] # i
<1>1. Users(i) \subseteq Procs
  BY Zenon DEF Users
<1>2. IsFiniteSet(Users(i))
  BY <1>1, Constants, FS_Subset, Zenon
<1>3. buf[i].refcnt = Cardinality(Users(i)) /\ buf[i].refcnt \in Nat
  BY Zenon DEF Refs, TypeOK, BufRecs
<1>4. buf[i].refcnt = 0 => Users(i) = {}
  BY <1>2, <1>3, FS_EmptySet, Zenon
<1> QED
  BY <1>2, <1>3, <1>4, Zenon DEF Users

(* brelse(): the buffer loses a user, and may move to the front. *)
LEMMA BrelseStep ==
  ASSUME IInv, NEW p \in Procs, Brelse(p)
  PROVE  IInv'
<1> USE DEF IInv
<1>0. PICK i \in Bufs : i = b[p]
  BY HasBuffer, Zenon DEF Brelse
<1>1. /\ UNCHANGED <<queue, disk, drive, irq, asleep, last, failed>>
      /\ pc[p] = "brelse" /\ pc' = [pc EXCEPT ![p] = "user"]
      /\ buf' = [buf EXCEPT ![i].refcnt = @ - 1] /\ b' = [b EXCEPT ![p] = 0]
      /\ lru' = lru \/ lru' = InFront(i)
  BY <1>0, Zenon DEF Brelse, hw, hist, Goto
<1>3. /\ IsFiniteSet(Users(i)) /\ buf[i].refcnt = Cardinality(Users(i)) /\ buf[i].refcnt \in Nat
      /\ buf[i].refcnt # 0 /\ p \in Users(i)
  BY <1>0, UsersCounted, Zenon DEF Users
<1>4. /\ \A q \in Procs : q # p => pc'[q] = pc[q] /\ b'[q] = b[q]
      /\ pc'[p] = "user" /\ b'[p] = 0
      /\ pc' \in [Procs -> Places] /\ b' \in [Procs -> 0..NBUF]
  BY <1>1, Constants, Zenon DEF TypeOK, Places
<1>5. /\ buf' \in [Bufs -> BufRecs] /\ SameData
      /\ \A j \in Bufs : buf'[j].lock = buf[j].lock
      /\ \A j \in Bufs : j # i => buf'[j] = buf[j]
      /\ buf'[i].refcnt = buf[i].refcnt - 1
  <2>1. PICK x : x = buf[i].refcnt - 1
    BY Zenon
  <2>2. x \in Nat
    BY ONLY <1>3, <2>1
  <2>3. buf \in [Bufs -> BufRecs] /\ i \in Bufs /\ buf' = [buf EXCEPT ![i].refcnt = x]
    BY <1>1, <2>1, Zenon DEF TypeOK
  <2>4. /\ buf' \in [Bufs -> BufRecs] /\ SameData
        /\ \A j \in Bufs : buf'[j].lock = buf[j].lock
        /\ \A j \in Bufs : j # i => buf'[j] = buf[j]
        /\ buf'[i].refcnt = x
    BY ONLY <2>2, <2>3, RefcntChanged, Zenon
  <2> QED BY ONLY <2>1, <2>4, Zenon
<1>6. lru' \in [Bufs -> Bufs] /\ AllListed'
  <2>1. CASE lru' = lru
    BY <2>1, Zenon DEF TypeOK, AllListed
  <2>2. CASE lru' = InFront(i)
    BY <2>2, InFrontLists, Zenon DEF TypeOK, AllListed
  <2> QED BY <1>1, <2>1, <2>2, Zenon
<1>7. TypeOK'
  BY <1>1, <1>4, <1>5, <1>6, Zenon DEF TypeOK
<1>8. Refs'
  <2>1. ASSUME NEW j \in Bufs
        PROVE  buf'[j].refcnt = Cardinality(Users(j)')
    <3>1. CASE j = i
      <4>1. Users(i)' = Users(i) \ {p}
        BY <1>0, <1>4, Constants, Zenon DEF Users
      <4>2. Cardinality(Users(i) \ {p}) = Cardinality(Users(i)) - 1
        BY <1>3, FS_RemoveElement, Zenon
      <4> QED BY <1>3, <1>5, <3>1, <4>1, <4>2, Zenon
    <3>2. CASE j # i
      <4>1. Users(j)' = Users(j)
        BY <1>0, <1>4, <3>2, Constants, Zenon DEF Users
      <4>2. buf'[j] = buf[j]
        BY <1>5, <3>2, Zenon
      <4> QED BY <4>1, <4>2, Zenon DEF Refs
    <3> QED BY <3>1, <3>2, Zenon
  <2>2. \A q \in Procs : b'[q] = 0 <=> pc'[q] \in {"user", "panic"}
    BY <1>4, Zenon DEF Refs
  <2>3. \A q \in Procs : b'[q] # 0 => buf'[b'[q]].blockno \in Blocks
    <3> SUFFICES ASSUME NEW q \in Procs, b'[q] # 0
                 PROVE  buf'[b'[q]].blockno \in Blocks
      BY Zenon
    <3>1. b'[q] = b[q] /\ b[q] \in Bufs
      BY <1>4, Constants, Zenon DEF TypeOK
    <3> QED BY <1>5, <3>1, Constants DEF Refs, SameData
  <2>4. \A j, k \in Bufs : buf'[j].blockno = buf'[k].blockno /\ buf'[j].blockno # None => j = k
    BY <1>5 DEF Refs, SameData
  <2> QED BY <2>1, <2>2, <2>3, <2>4, Zenon DEF Refs
<1>9. Locks'
  <2>1. ASSUME NEW j \in Bufs, NEW q \in Procs
        PROVE  buf'[j].lock = q <=> b'[q] = j /\ pc'[q] \in {"bread", "iderw", "have"}
    <3>1. CASE q = p
      BY <1>1, <1>4, <1>5, <3>1 DEF Locks
    <3>2. CASE q # p
      BY <1>4, <1>5, <3>2 DEF Locks
    <3> QED BY <3>1, <3>2, Zenon
  <2> QED BY <2>1, Zenon DEF Locks
<1>10. Fresh'
  <2>1. \A q \in Procs : pc'[q] = "have" => pc[q] = "have" /\ b'[q] = b[q] /\ b[q] \in Bufs /\ buf[b[q]].valid
    BY <1>4, HasBuffer, Zenon DEF Fresh
  <2> QED BY <1>1, <1>5, <1>7, <2>1, FreshSame, Zenon
<1>11. Requests'
  <2>1. \A j \in Bufs : Done(j)' <=> Done(j)
    BY <1>5, Zenon DEF Done, SameData
  <2>2. \A q \in Procs : pc[q] = "iderw" => b[q] \in Bufs
    BY HasBuffer, Zenon
  <2> QED BY <1>1, <1>4, <2>1, <2>2, RequestsSame, Zenon DEF TypeOK
<1>12. Driving'
  BY <1>1, <1>5, DrivingSame, Zenon
<1>13. Sleepers'
  <2>1. asleep[p] = None
    BY <1>1, Awake, Zenon
  <2>2. \A j \in Bufs : Queued(j) => Queued(j)'
    BY <1>1, Zenon DEF Queued
  <2> QED BY <1>1, <1>4, <1>5, <2>1, <2>2, SleepersSame, Zenon
<1> QED
  BY <1>6, <1>7, <1>8, <1>9, <1>10, <1>11, <1>12, <1>13, Zenon

(* Every buffer is somewhere in the list that bget() goes through. *)
LEMMA NotCached ==
  ASSUME TypeOK, AllListed, NEW n, Cached(n) = {}
  PROVE  \A j \in Bufs : buf[j].blockno # n
BY Zenon DEF AllListed, Cached, TypeOK

(* bget() of a block that is cached. *)
LEMMA BgetHitStep ==
  ASSUME IInv, NEW p \in Procs, NEW n \in Blocks, Bget(p, n), Cached(n) # {}
  PROVE  IInv'
<1> USE DEF IInv
<1>0. PICK i \in Bufs : i = lru[First(Cached(n))] /\ buf[i].blockno = n
  <2>1. Cached(n) \subseteq Bufs
    BY Zenon DEF Cached
  <2>2. First(Cached(n)) \in Cached(n)
    BY <2>1, Extremes, Zenon
  <2>3. lru[First(Cached(n))] \in Bufs /\ buf[lru[First(Cached(n))]].blockno = n
    BY <2>1, <2>2, Zenon DEF TypeOK, Cached
  <2> QED BY <2>3, Zenon
<1>1. /\ UNCHANGED <<lru, queue, disk, drive, irq, asleep, last, failed>>
      /\ pc[p] = "user" /\ pc' = [pc EXCEPT ![p] = "lock"]
      /\ buf' = [buf EXCEPT ![i].refcnt = @ + 1] /\ b' = [b EXCEPT ![p] = i]
  BY <1>0, Zenon DEF Bget, hw, hist, Goto
<1>2. /\ \A q \in Procs : q # p => pc'[q] = pc[q] /\ b'[q] = b[q]
      /\ pc'[p] = "lock" /\ b'[p] = i
      /\ pc' \in [Procs -> Places] /\ b' \in [Procs -> 0..NBUF]
  BY <1>1, Constants, Zenon DEF TypeOK, Places
<1>3. b[p] = 0
  BY <1>1, Zenon DEF Refs
<1>4. /\ IsFiniteSet(Users(i)) /\ buf[i].refcnt = Cardinality(Users(i)) /\ buf[i].refcnt \in Nat
      /\ p \notin Users(i)
  BY <1>3, UsersCounted, Constants, Zenon DEF Users
<1>5. /\ buf' \in [Bufs -> BufRecs] /\ SameData
      /\ \A j \in Bufs : buf'[j].lock = buf[j].lock
      /\ \A j \in Bufs : j # i => buf'[j] = buf[j]
      /\ buf'[i].refcnt = buf[i].refcnt + 1
  <2>1. PICK x : x = buf[i].refcnt + 1
    BY Zenon
  <2>2. x \in Nat
    BY ONLY <1>4, <2>1
  <2>3. buf \in [Bufs -> BufRecs] /\ i \in Bufs /\ buf' = [buf EXCEPT ![i].refcnt = x]
    BY <1>1, <2>1, Zenon DEF TypeOK
  <2>4. /\ buf' \in [Bufs -> BufRecs] /\ SameData
        /\ \A j \in Bufs : buf'[j].lock = buf[j].lock
        /\ \A j \in Bufs : j # i => buf'[j] = buf[j]
        /\ buf'[i].refcnt = x
    BY ONLY <2>2, <2>3, RefcntChanged, Zenon
  <2> QED BY ONLY <2>1, <2>4, Zenon
<1>6. TypeOK' /\ AllListed'
  BY <1>1, <1>2, <1>5, Zenon DEF TypeOK, AllListed
<1>7. Refs'
  <2>1. ASSUME NEW j \in Bufs
        PROVE  buf'[j].refcnt = Cardinality(Users(j)')
    <3>1. CASE j = i
      <4>1. Users(i)' = Users(i) \cup {p}
        BY <1>2, Zenon DEF Users
      <4>2. Cardinality(Users(i) \cup {p}) = Cardinality(Users(i)) + 1
        BY <1>4, FS_AddElement, Zenon
      <4> QED BY <1>4, <1>5, <3>1, <4>1, <4>2, Zenon
    <3>2. CASE j # i
      <4>1. Users(j)' = Users(j)
        BY <1>2, <1>3, <3>2, Constants, Zenon DEF Users
      <4>2. buf'[j] = buf[j]
        BY <1>5, <3>2, Zenon
      <4> QED BY <4>1, <4>2, Zenon DEF Refs
    <3> QED BY <3>1, <3>2, Zenon
  <2>2. \A q \in Procs : b'[q] = 0 <=> pc'[q] \in {"user", "panic"}
    BY <1>2, Constants, Zenon DEF Refs
  <2>3. \A q \in Procs : b'[q] # 0 => buf'[b'[q]].blockno \in Blocks
    <3> SUFFICES ASSUME NEW q \in Procs, b'[q] # 0
                 PROVE  buf'[b'[q]].blockno \in Blocks
      BY Zenon
    <3>1. CASE q = p
      BY <1>0, <1>2, <1>5, <3>1, Zenon DEF SameData
    <3>2. CASE q # p
      <4>1. b'[q] = b[q] /\ b[q] \in Bufs
        BY <1>2, <3>2, Constants, Zenon DEF TypeOK
      <4>2. b[q] # 0
        BY ONLY <3>2, <4>1, b'[q] # 0, Zenon
      <4>3. buf[b[q]].blockno \in Blocks
        BY ONLY <4>2, Refs, q \in Procs, Zenon DEF Refs
      <4> QED BY ONLY <1>5, <4>1, <4>3, Zenon DEF SameData
    <3> QED BY <3>1, <3>2, Zenon
  <2>4. \A j, k \in Bufs : buf'[j].blockno = buf'[k].blockno /\ buf'[j].blockno # None => j = k
    BY ONLY <1>5, Refs DEF Refs, SameData
  <2> QED BY <2>1, <2>2, <2>3, <2>4, Zenon DEF Refs
<1>8. Locks'
  <2>1. ASSUME NEW j \in Bufs, NEW q \in Procs
        PROVE  buf'[j].lock = q <=> b'[q] = j /\ pc'[q] \in {"bread", "iderw", "have"}
    <3>1. CASE q = p
      BY <1>1, <1>2, <1>5, <3>1 DEF Locks
    <3>2. CASE q # p
      BY <1>2, <1>5, <3>2 DEF Locks
    <3> QED BY <3>1, <3>2, Zenon
  <2> QED BY <2>1, Zenon DEF Locks
<1>9. Fresh'
  <2>1. \A q \in Procs : pc'[q] = "have" => pc[q] = "have" /\ b'[q] = b[q] /\ b[q] \in Bufs /\ buf[b[q]].valid
    BY <1>2, HasBuffer, Zenon DEF Fresh
  <2> QED BY <1>1, <1>5, <1>6, <2>1, FreshSame, Zenon
<1>10. Requests'
  <2>1. \A j \in Bufs : Done(j)' <=> Done(j)
    BY <1>5, Zenon DEF Done, SameData
  <2>2. \A q \in Procs : pc[q] = "iderw" => b[q] \in Bufs
    BY HasBuffer, Zenon
  <2> QED BY <1>1, <1>2, <2>1, <2>2, RequestsSame, Zenon DEF TypeOK
<1>11. Driving'
  BY <1>1, <1>5, DrivingSame, Zenon
<1>12. Sleepers'
  <2>1. asleep[p] = None
    BY <1>1, Awake, Zenon
  <2>2. \A j \in Bufs : Queued(j) => Queued(j)'
    BY <1>1, Zenon DEF Queued
  <2> QED BY <1>1, <1>2, <1>5, <2>1, <2>2, SleepersSame, Zenon
<1> QED
  BY <1>6, <1>7, <1>8, <1>9, <1>10, <1>11, <1>12, Zenon

(* bget() that panics. *)
LEMMA BgetPanicStep ==
  ASSUME IInv, NEW p \in Procs, NEW n \in Blocks, Bget(p, n), Cached(n) = {}, Spare = {}
  PROVE  IInv'
<1> USE DEF IInv
<1>1. /\ UNCHANGED <<buf, b, lru, queue, disk, drive, irq, asleep, last, failed>>
      /\ pc[p] = "user" /\ pc' = [pc EXCEPT ![p] = "panic"]
  BY Zenon DEF Bget, hw, hist, Goto
<1>2. \A q \in Procs : q # p => pc'[q] = pc[q]
  BY <1>1, Zenon DEF TypeOK
<1>3. pc'[p] = "panic" /\ pc' \in [Procs -> Places]
  BY <1>1, Zenon DEF TypeOK, Places
<1>4. TypeOK' /\ AllListed' /\ SameData
  BY <1>1, <1>3, Zenon DEF TypeOK, AllListed, SameData
<1>5. Refs'
  BY <1>1, <1>2, <1>3, RefsSame, Zenon DEF TypeOK
<1>6. Locks'
  BY <1>1, <1>2, <1>3, LocksSame, Zenon DEF Held
<1>7. Fresh'
  <2>1. \A q \in Procs : pc'[q] = "have" => b'[q] \in Bufs /\ buf[b'[q]].valid
    BY <1>1, <1>2, <1>3, HasBuffer, Zenon DEF Fresh
  <2> QED BY <1>1, <1>4, <2>1, FreshSame, Zenon
<1>8. Requests'
  <2>1. \A i \in Bufs : Done(i)' <=> Done(i)
    BY <1>1, Zenon DEF Done
  <2>2. \A q \in Procs : pc[q] = "iderw" => b[q] \in Bufs
    BY HasBuffer, Zenon
  <2> QED BY <1>1, <1>2, <1>3, <2>1, <2>2, RequestsSame, Zenon DEF TypeOK
<1>9. Driving'
  BY <1>1, <1>4, DrivingSame, Zenon
<1>10. Sleepers'
  <2>1. asleep[p] = None
    BY <1>1, Awake, Zenon
  <2>2. \A i \in Bufs : Queued(i) => Queued(i)'
    BY <1>1, Zenon DEF Queued
  <2> QED BY <1>1, <1>2, <2>1, <2>2, SleepersSame, Zenon
<1> QED
  BY <1>4, <1>5, <1>6, <1>7, <1>8, <1>9, <1>10, Zenon

(* The request at the head of the queue is a queued one. *)
LEMMA QueueHead ==
  ASSUME TypeOK, queue # <<>>
  PROVE  /\ 1 \in DOMAIN queue /\ Head(queue) = queue[1] /\ Head(queue) \in Bufs /\ Queued(Head(queue))
         /\ Len(queue) \in Nat \ {0} /\ DOMAIN queue = 1..Len(queue)
         /\ \A k \in DOMAIN queue : queue[k] \in Bufs
<1>1. queue \in Seq(Bufs)
  BY Zenon DEF TypeOK
<1>2. Len(queue) \in Nat \ {0} /\ DOMAIN queue = 1..Len(queue)
  BY <1>1
<1>3. 1 \in DOMAIN queue /\ Head(queue) = queue[1] /\ \A k \in DOMAIN queue : queue[k] \in Bufs
  BY <1>1, <1>2
<1> QED
  BY <1>2, <1>3, Zenon DEF Queued

(* The drive goes on with a request whose buffer does not change. *)
LEMMA DrivingKept ==
  ASSUME TypeOK, Driving, UNCHANGED <<queue, drive, irq>>,
         queue # <<>> => /\ buf'[Head(queue)].blockno = buf[Head(queue)].blockno
                         /\ buf'[Head(queue)].dirty = buf[Head(queue)].dirty
                         /\ buf'[Head(queue)].data = buf[Head(queue)].data,
         irq /\ drive # None /\ drive.write => disk'[drive.sector] = last'[drive.sector]
  PROVE  Driving'
BY Zenon DEF Driving

(* bget() of a block that is not cached: an unused buffer is recycled. *)
LEMMA BgetVictimStep ==
  ASSUME IInv, NEW p \in Procs, NEW n \in Blocks, Bget(p, n), Cached(n) = {}, Spare # {}
  PROVE  IInv'
<1> USE DEF IInv
<1>0. PICK i \in Bufs : i = lru[Last(Spare)] /\ Unused(i)
  <2>1. Spare \subseteq Bufs
    BY Zenon DEF Spare
  <2>2. Last(Spare) \in Spare
    BY <2>1, Extremes, Zenon
  <2>3. lru[Last(Spare)] \in Bufs /\ Unused(lru[Last(Spare)])
    BY <2>1, <2>2, Zenon DEF TypeOK, Spare
  <2> QED BY <2>3, Zenon
<1>1. /\ UNCHANGED <<lru, queue, disk, drive, irq, asleep, last>> /\ failed' = failed \ {i}
      /\ pc[p] = "user" /\ pc' = [pc EXCEPT ![p] = "lock"]
      /\ buf' = [buf EXCEPT ![i] = [@ EXCEPT !.blockno = n, !.valid = FALSE, !.refcnt = 1]]
      /\ b' = [b EXCEPT ![p] = i]
  BY <1>0, Zenon DEF Bget, hw, Goto
<1>2. /\ \A q \in Procs : q # p => pc'[q] = pc[q] /\ b'[q] = b[q]
      /\ pc'[p] = "lock" /\ b'[p] = i
      /\ pc' \in [Procs -> Places] /\ b' \in [Procs -> 0..NBUF]
  BY <1>1, Constants, Zenon DEF TypeOK, Places
<1>3. /\ \A j \in Bufs : j # i => buf'[j] = buf[j]
      /\ buf'[i].blockno = n /\ buf'[i].valid = FALSE /\ buf'[i].refcnt = 1
      /\ buf'[i].dirty = buf[i].dirty /\ buf'[i].lock = buf[i].lock
      /\ buf' \in [Bufs -> BufRecs]
  <2>1. /\ buf'[i] = [buf[i] EXCEPT !.blockno = n, !.valid = FALSE, !.refcnt = 1]
        /\ \A j \in Bufs : j # i => buf'[j] = buf[j]
        /\ DOMAIN buf' = Bufs /\ buf' = [j \in Bufs |-> buf'[j]]
    BY <1>1, Zenon DEF TypeOK
  <2>2. buf[i] \in BufRecs
    BY Zenon DEF TypeOK
  <2>3. buf'[i] \in BufRecs
    <3>1. buf'[i] = [blockno |-> n, valid |-> FALSE, dirty |-> buf[i].dirty, refcnt |-> 1,
                     lock |-> buf[i].lock, data |-> buf[i].data]
      BY <2>1, <2>2, Zenon DEF BufRecs
    <3>2. buf[i].dirty \in BOOLEAN /\ buf[i].lock \in Procs \cup {None} /\ buf[i].data \in Values \cup {None}
      BY <2>2, Zenon DEF BufRecs
    <3> QED BY <3>1, <3>2 DEF BufRecs
  <2>4. /\ buf'[i].blockno = n /\ buf'[i].valid = FALSE /\ buf'[i].refcnt = 1
        /\ buf'[i].dirty = buf[i].dirty /\ buf'[i].lock = buf[i].lock
    BY <2>1, <2>2, Zenon DEF BufRecs
  <2>5. buf' \in [Bufs -> BufRecs]
    BY <2>1, <2>3, Zenon DEF TypeOK
  <2> QED BY <2>1, <2>4, <2>5, Zenon
<1>4. (\A q \in Procs : b[q] # i) /\ ~buf[i].dirty
  BY <1>0, UsersCounted, Zenon DEF Unused
<1>5. \A j \in Bufs : buf[j].blockno # n
  BY NotCached, Zenon
<1>6. ~Queued(i) /\ (\A j \in Bufs : Queued(j) => Queued(j)')
  BY <1>1, <1>4, Zenon DEF Requests, Queued
<1>7. TypeOK' /\ AllListed'
  BY <1>1, <1>2, <1>3, Zenon DEF TypeOK, AllListed
<1>8. Refs'
  <2>1. ASSUME NEW j \in Bufs
        PROVE  buf'[j].refcnt = Cardinality(Users(j)')
    <3>1. CASE j = i
      <4>1. Users(i)' = {p}
        BY <1>2, <1>4, Zenon DEF Users
      <4>2. Cardinality({p}) = 1
        BY FS_Singleton, Zenon
      <4> QED BY <1>3, <3>1, <4>1, <4>2, Zenon
    <3>2. CASE j # i
      <4>1. b[p] = 0
        BY <1>1, Zenon DEF Refs
      <4>2. Users(j)' = Users(j)
        BY <1>2, <3>2, <4>1, Constants, Zenon DEF Users
      <4>3. buf'[j] = buf[j]
        BY <1>3, <3>2, Zenon
      <4> QED BY <4>2, <4>3, Zenon DEF Refs
    <3> QED BY <3>1, <3>2, Zenon
  <2>2. \A q \in Procs : b'[q] = 0 <=> pc'[q] \in {"user", "panic"}
    BY <1>2, Constants, Zenon DEF Refs
  <2>3. \A q \in Procs : b'[q] # 0 => buf'[b'[q]].blockno \in Blocks
    <3> SUFFICES ASSUME NEW q \in Procs, b'[q] # 0
                 PROVE  buf'[b'[q]].blockno \in Blocks
      BY Zenon
    <3>1. CASE q = p
      BY <1>2, <1>3, <3>1, Zenon
    <3>2. CASE q # p
      <4>1. b'[q] = b[q] /\ b[q] \in Bufs /\ b[q] # i
        BY <1>2, <1>4, <3>2, Constants, Zenon DEF TypeOK
      <4> QED BY <1>3, <4>1, Constants, Zenon DEF Refs
    <3> QED BY <3>1, <3>2, Zenon
  <2>4. ASSUME NEW j \in Bufs, NEW k \in Bufs, buf'[j].blockno = buf'[k].blockno, buf'[j].blockno # None
        PROVE  j = k
    <3>1. CASE j # i /\ k # i
      <4>1. buf'[j] = buf[j] /\ buf'[k] = buf[k]
        BY <1>3, <3>1, Zenon
      <4> QED BY ONLY <2>4, <4>1, Refs, j \in Bufs, k \in Bufs, Zenon DEF Refs
    <3>2. CASE j = i \/ k = i
      BY <1>3, <1>5, <2>4, <3>2, Zenon
    <3> QED BY <3>1, <3>2, Zenon
  <2> QED BY <2>1, <2>2, <2>3, <2>4, Zenon DEF Refs
<1>9. Locks'
  <2>1. ASSUME NEW j \in Bufs, NEW q \in Procs
        PROVE  buf'[j].lock = q <=> b'[q] = j /\ pc'[q] \in {"bread", "iderw", "have"}
    <3>0. buf'[j].lock = buf[j].lock
      BY <1>3, Zenon
    <3>1. CASE q = p
      BY <1>1, <1>2, <3>0, <3>1 DEF Locks
    <3>2. CASE q # p
      BY <1>2, <3>0, <3>2 DEF Locks
    <3> QED BY <3>1, <3>2, Zenon
  <2> QED BY <2>1, Zenon DEF Locks
<1>10. Fresh'
  <2>1. ASSUME NEW j \in Bufs
        PROVE  /\ buf'[j].dirty => buf'[j].valid /\ j \notin failed'
               /\ buf'[j].valid => buf'[j].blockno \in Blocks
               /\ buf'[j].valid /\ j \notin failed' => buf'[j].data = last'[buf'[j].blockno]
    <3>1. CASE j = i
      BY <1>3, <1>4, <3>1, Zenon
    <3>2. CASE j # i
      <4>1. buf'[j] = buf[j] /\ last' = last /\ (j \in failed' <=> j \in failed)
        BY <1>1, <1>3, <3>2, Zenon
      <4> QED BY <4>1, Zenon DEF Fresh
    <3> QED BY <3>1, <3>2, Zenon
  <2>2. ASSUME NEW q \in Procs, pc'[q] = "have"
        PROVE  buf'[b'[q]].valid
    <3>1. q # p /\ pc[q] = "have" /\ b'[q] = b[q]
      BY <1>2, <2>2, Zenon
    <3>2. b[q] \in Bufs /\ b[q] # i /\ buf[b[q]].valid
      BY <1>4, <3>1, HasBuffer, Zenon DEF Fresh
    <3> QED BY <1>3, <3>1, <3>2, Zenon
  <2>3. ASSUME NEW m \in Blocks
        PROVE  disk'[m] = last'[m] \/ \E j \in Bufs : buf'[j].blockno = m /\ buf'[j].dirty
    <3>1. CASE disk[m] = last[m]
      BY <1>1, <3>1, Zenon
    <3>2. CASE disk[m] # last[m]
      <4>1. PICK j \in Bufs : buf[j].blockno = m /\ buf[j].dirty
        BY <3>2, Zenon DEF Fresh
      <4>2. buf'[j] = buf[j]
        BY <1>3, <1>4, <4>1, Zenon
      <4> QED BY <4>1, <4>2, Zenon
    <3> QED BY <3>1, <3>2, Zenon
  <2> QED BY <2>1, <2>2, <2>3, Zenon DEF Fresh
<1>11. Requests'
  <2>1. ASSUME NEW j \in Bufs, Queued(j)'
        PROVE  ~Done(j)' /\ \E q \in Procs : b'[q] = j /\ pc'[q] = "iderw"
    <3>1. Queued(j) /\ j # i
      BY <1>1, <1>6, <2>1, Zenon DEF Queued
    <3>2. PICK q \in Procs : b[q] = j /\ pc[q] = "iderw"
      BY <3>1, Zenon DEF Requests
    <3>3. b'[q] = j /\ pc'[q] = "iderw"
      BY <1>1, <1>2, <3>2, Zenon
    <3>4. ~Done(j)'
      BY <1>3, <3>1, Zenon DEF Requests, Done
    <3> QED BY <3>3, <3>4, Zenon
  <2>2. ASSUME NEW q \in Procs, pc'[q] = "iderw"
        PROVE  (Queued(b[q]) \/ Done(b[q]))'
    <3>1. pc[q] = "iderw" /\ b'[q] = b[q]
      BY <1>2, <2>2, Zenon
    <3>2. b[q] \in Bufs /\ b[q] # i
      BY <1>4, <3>1, HasBuffer, Zenon
    <3> QED BY <1>1, <1>3, <3>1, <3>2 DEF Requests, Done, Queued
  <2>3. \A k, l \in DOMAIN queue' : queue'[k] = queue'[l] => k = l
    BY <1>1, Zenon DEF Requests
  <2> QED BY <2>1, <2>2, <2>3, Zenon DEF Requests
<1>12. Driving'
  <2>1. queue # <<>> => Head(queue) \in Bufs /\ Head(queue) # i
    BY <1>6, QueueHead, Zenon
  <2>2. irq /\ drive # None /\ drive.write => disk'[drive.sector] = last'[drive.sector]
    BY <1>1, Zenon DEF Driving
  <2> QED BY <1>1, <1>3, <2>1, <2>2, DrivingKept, Zenon
<1>13. Sleepers'
  <2>1. asleep[p] = None
    BY <1>1, Awake, Zenon
  <2>2. \A j \in Bufs : buf'[j].lock = buf[j].lock
    BY <1>3, Zenon
  <2> QED BY <1>1, <1>2, <1>6, <2>1, <2>2, SleepersSame, Zenon
<1> QED
  BY <1>7, <1>8, <1>9, <1>10, <1>11, <1>12, <1>13, Zenon

(* The drive finishes. *)
LEMMA DriveDoneStep ==
  ASSUME IInv, DriveDone
  PROVE  IInv'
<1> USE DEF IInv
<1>1. /\ UNCHANGED <<buf, lru, queue, drive, pc, b, asleep, last, failed>>
      /\ drive # None /\ irq' = TRUE
      /\ disk' = IF drive.write THEN [disk EXCEPT ![drive.sector] = drive.data] ELSE disk
  BY Zenon DEF DriveDone, hist
<1>2. drive.sector \in Blocks /\ queue # <<>>
  BY <1>1, Zenon DEF TypeOK, Driving, Commands
<1>0. PICK i \in Bufs : i = Head(queue)
  BY <1>2, QueueHead, Zenon
<1>3. drive.sector = buf[i].blockno /\ drive.write = buf[i].dirty
  BY <1>0, <1>1, Zenon DEF Driving
<1>4. drive.write => drive.data = last[drive.sector]
  BY <1>0, <1>1, <1>3, Zenon DEF Driving, Fresh
<1>5. /\ disk' \in [Blocks -> Values]
      /\ drive.write => disk'[drive.sector] = last[drive.sector]
      /\ \A m \in Blocks : disk'[m] = disk[m] \/ disk'[m] = last[m]
  <2>1. CASE drive.write
    BY <1>1, <1>2, <1>4, <2>1, Zenon DEF TypeOK
  <2>2. CASE ~drive.write
    BY <1>1, <2>2, Zenon DEF TypeOK
  <2> QED BY <2>1, <2>2, Zenon
<1>6. TypeOK'
  <2>1. UNCHANGED <<buf, lru, queue, drive, pc, b, asleep, last, failed>> /\ irq' \in BOOLEAN
    BY ONLY <1>1, Zenon
  <2> QED BY ONLY <1>5, <2>1, TypeOK, Zenon DEF TypeOK
<1>7. AllListed' /\ Refs' /\ Locks'
  BY <1>1 DEF AllListed, Refs, Locks, Users
<1>8. Fresh'
  <2>1. UNCHANGED <<buf, pc, b, last, failed>>
    BY ONLY <1>1, Zenon
  <2>2. \A m \in Blocks : disk'[m] = last'[m] \/ \E j \in Bufs : buf'[j].blockno = m /\ buf'[j].dirty
    BY ONLY <1>5, <2>1, Fresh DEF Fresh
  <2> QED BY ONLY <2>1, <2>2, Fresh, Zenon DEF Fresh
<1>9. Requests' /\ Sleepers'
  BY <1>1 DEF Requests, Sleepers, Queued, Done
<1>10. Driving'
  BY <1>1, <1>5, Zenon DEF Driving
<1> QED
  BY <1>6, <1>7, <1>8, <1>9, <1>10, Zenon

(* A process that has a buffer has no request for it in the queue. *)
LEMMA NotQueued ==
  ASSUME IInv, NEW p \in Procs, pc[p] \in {"bread", "have"}
  PROVE  ~Queued(b[p]) /\ \A q \in Procs : b[q] = b[p] /\ q # p => pc[q] \notin Held
<1>1. b[p] \in Bufs
  BY HasBuffer, Zenon
<1>2. ASSUME NEW q \in Procs, b[q] = b[p], pc[q] \in Held
      PROVE  q = p
  BY <1>1, <1>2 DEF IInv, Locks, Held
<1>3. ~Queued(b[p])
  <2> SUFFICES ASSUME Queued(b[p])
               PROVE  FALSE
    BY Zenon
  <2>1. PICK q \in Procs : b[q] = b[p] /\ pc[q] = "iderw"
    BY <1>1, Zenon DEF IInv, Requests
  <2> QED BY <1>2, <2>1, Zenon DEF Held
<1> QED
  BY <1>2, <1>3, Zenon

(* What changing the data of buffer i to v does: it is fresh. *)
IsChanged(i, v) ==
  /\ \A j \in Bufs : j # i => buf'[j] = buf[j]
  /\ buf'[i].blockno = buf[i].blockno /\ buf'[i].valid = buf[i].valid
  /\ buf'[i].refcnt = buf[i].refcnt /\ buf'[i].lock = buf[i].lock
  /\ buf'[i].dirty = TRUE /\ buf'[i].data = v
  /\ buf' \in [Bufs -> BufRecs] /\ last' \in [Blocks -> Values] /\ failed' \subseteq Bufs
  /\ \A n \in Blocks : n # buf[i].blockno => last'[n] = last[n]
  /\ Fresh'

(* The holder of a buffer changes it so (log_write(), bwrite()). *)
LEMMA ChangedFresh ==
  ASSUME IInv, NEW p \in Procs, NEW v \in Values, NEW i \in Bufs, i = b[p], pc[p] = "have",
         buf' = Changed(p, v), Noted(p, v), UNCHANGED <<disk, b>>,
         \A q \in Procs : pc'[q] = "have" => pc[q] = "have"
  PROVE  IsChanged(i, v)
<1> USE DEF IInv
<1>1. /\ buf' = [buf EXCEPT ![i] = [@ EXCEPT !.data = v, !.dirty = TRUE]]
      /\ last' = [last EXCEPT ![buf[i].blockno] = v] /\ failed' = failed \ {i}
  BY Zenon DEF Changed, Noted
<1>2. buf[i] \in BufRecs /\ buf[i].blockno \in Blocks /\ buf[i].valid
  BY HasBuffer, Zenon DEF TypeOK, Fresh
<1>3. /\ buf'[i] = [buf[i] EXCEPT !.data = v, !.dirty = TRUE]
      /\ \A j \in Bufs : j # i => buf'[j] = buf[j]
      /\ buf' = [j \in Bufs |-> buf'[j]]
  BY <1>1, Zenon DEF TypeOK
<1>4. /\ buf'[i].blockno = buf[i].blockno /\ buf'[i].valid = buf[i].valid
      /\ buf'[i].refcnt = buf[i].refcnt /\ buf'[i].lock = buf[i].lock
      /\ buf'[i].dirty = TRUE /\ buf'[i].data = v
  BY <1>2, <1>3, Zenon DEF BufRecs
<1>5. buf' \in [Bufs -> BufRecs]
  <2>1. buf'[i] = [blockno |-> buf[i].blockno, valid |-> buf[i].valid, dirty |-> TRUE,
                   refcnt |-> buf[i].refcnt, lock |-> buf[i].lock, data |-> v]
    BY <1>2, <1>3, Zenon DEF BufRecs
  <2>2. /\ buf[i].valid \in BOOLEAN /\ buf[i].lock \in Procs \cup {None} /\ buf[i].refcnt \in Nat
        /\ v \in Values \cup {None} /\ buf[i].blockno \in Blocks \cup {None}
    BY <1>2, Zenon DEF BufRecs
  <2>3. buf'[i] \in BufRecs
    BY ONLY <2>1, <2>2 DEF BufRecs
  <2>4. \A j \in Bufs : buf'[j] \in BufRecs
    BY <1>3, <2>3, Zenon DEF TypeOK
  <2> QED BY ONLY <1>3, <2>4, Zenon
<1>6. /\ last' \in [Blocks -> Values] /\ failed' \subseteq Bufs /\ last'[buf[i].blockno] = v
      /\ \A n \in Blocks : n # buf[i].blockno => last'[n] = last[n]
  BY <1>1, <1>2, Zenon DEF TypeOK
<1>7. ASSUME NEW j \in Bufs
      PROVE  /\ buf'[j].dirty => buf'[j].valid /\ j \notin failed'
             /\ buf'[j].valid => buf'[j].blockno \in Blocks
             /\ buf'[j].valid /\ j \notin failed' => buf'[j].data = last'[buf'[j].blockno]
  <2>1. CASE j = i
    BY <1>1, <1>2, <1>4, <1>6, <2>1, Zenon
  <2>2. CASE j # i
    <3>1. buf'[j] = buf[j] /\ (j \in failed' <=> j \in failed)
      BY <1>1, <1>3, <2>2, Zenon
    <3>2. buf[j].valid => buf[j].blockno \in Blocks /\ buf[j].blockno # buf[i].blockno
      BY <1>2, <2>2, Constants, Zenon DEF Fresh, Refs
    <3>3. /\ buf[j].dirty => buf[j].valid /\ j \notin failed
          /\ buf[j].valid /\ j \notin failed => buf[j].data = last[buf[j].blockno]
      BY Zenon DEF Fresh
    <3>4. buf[j].valid => last'[buf[j].blockno] = last[buf[j].blockno]
      BY ONLY <1>6, <3>2, Zenon
    <3> QED BY ONLY <3>1, <3>2, <3>3, <3>4, Zenon
  <2> QED BY <2>1, <2>2, Zenon
<1>8. ASSUME NEW q \in Procs, pc'[q] = "have"
      PROVE  buf'[b'[q]].valid
  <2>1. pc[q] = "have" /\ b'[q] = b[q] /\ b[q] \in Bufs /\ buf[b[q]].valid
    BY <1>8, HasBuffer, Zenon DEF Fresh
  <2> QED BY <1>3, <1>4, <2>1, Zenon
<1>9. ASSUME NEW m \in Blocks
      PROVE  disk'[m] = last'[m] \/ \E j \in Bufs : buf'[j].blockno = m /\ buf'[j].dirty
  <2>1. CASE m = buf[i].blockno
    BY <1>4, <2>1, Zenon
  <2>2. CASE m # buf[i].blockno /\ disk[m] = last[m]
    BY <1>6, <2>2, Zenon
  <2>3. CASE m # buf[i].blockno /\ disk[m] # last[m]
    <3>1. PICK j \in Bufs : buf[j].blockno = m /\ buf[j].dirty
      BY <2>3, Zenon DEF Fresh
    <3>2. buf'[j] = buf[j]
      BY <1>3, <2>3, <3>1, Zenon
    <3> QED BY <3>1, <3>2, Zenon
  <2> QED BY <2>1, <2>2, <2>3, Zenon
<1>10. Fresh'
  BY <1>7, <1>8, <1>9, Zenon DEF Fresh
<1> QED
  BY <1>3, <1>4, <1>5, <1>6, <1>10, Zenon DEF IsChanged

(* log_write(): the change stays in the cache. *)
LEMMA LogWriteStep ==
  ASSUME IInv, NEW p \in Procs, NEW v \in Values, LogWrite(p, v)
  PROVE  IInv'
<1> USE DEF IInv
<1>0. PICK i \in Bufs : i = b[p] /\ buf[i].blockno \in Blocks
  BY HasBuffer, Zenon DEF LogWrite
<1>1. /\ UNCHANGED <<lru, queue, disk, drive, irq, pc, b, asleep>>
      /\ pc[p] = "have" /\ buf' = Changed(p, v) /\ Noted(p, v)
  BY Zenon DEF LogWrite, hw
<1>2. IsChanged(i, v)
  <2>1. /\ pc[p] = "have" /\ buf' = Changed(p, v) /\ Noted(p, v) /\ UNCHANGED <<disk, b>>
        /\ \A q \in Procs : pc'[q] = "have" => pc[q] = "have"
    BY <1>1, Zenon
  <2>2. i = b[p]
    BY <1>0, Zenon
  <2> HIDE DEF IInv
  <2> QED BY <2>1, <2>2, ChangedFresh, Zenon
<1> USE <1>2 DEF IsChanged
<1>3. ~Queued(i) /\ (\A q \in Procs : b[q] = i => pc[q] # "iderw")
  BY <1>0, <1>1, NotQueued, Zenon DEF Held
<1>4. TypeOK' /\ AllListed'
  BY <1>1, <1>2, Zenon DEF TypeOK, AllListed
<1>5. Refs'
  BY <1>1, <1>2, RefsSame, Zenon DEF TypeOK
<1>6. Locks'
  BY <1>1, <1>2, LocksSame, Zenon
<1>7. Requests'
  <2>1. ASSUME NEW j \in Bufs, Queued(j)'
        PROVE  ~Done(j)' /\ \E q \in Procs : b'[q] = j /\ pc'[q] = "iderw"
    <3>1. Queued(j) /\ j # i
      BY <1>1, <1>3, <2>1, Zenon DEF Queued
    <3>2. ~Done(j) /\ \E q \in Procs : b[q] = j /\ pc[q] = "iderw"
      BY <3>1, Zenon DEF Requests
    <3>3. buf'[j] = buf[j] /\ b' = b /\ pc' = pc
      BY <1>1, <1>2, <3>1, Zenon
    <3> QED BY ONLY <3>2, <3>3, Zenon DEF Done
  <2>2. ASSUME NEW q \in Procs, pc'[q] = "iderw"
        PROVE  (Queued(b[q]) \/ Done(b[q]))'
    <3>1. pc[q] = "iderw" /\ b'[q] = b[q] /\ b[q] \in Bufs /\ b[q] # i
      BY <1>1, <1>3, <2>2, HasBuffer, Zenon
    <3> QED BY <1>1, <1>2, <3>1, Zenon DEF Requests, Done, Queued
  <2>3. \A k, l \in DOMAIN queue' : queue'[k] = queue'[l] => k = l
    BY <1>1, Zenon DEF Requests
  <2> QED BY <2>1, <2>2, <2>3, Zenon DEF Requests
<1>8. Driving'
  <2>1. queue # <<>> => Head(queue) \in Bufs /\ Head(queue) # i
    BY <1>3, QueueHead, Zenon
  <2>2. irq /\ drive # None /\ drive.write => disk'[drive.sector] = last'[drive.sector]
    <3> SUFFICES ASSUME irq, drive # None, drive.write
                 PROVE  disk'[drive.sector] = last'[drive.sector]
      BY Zenon
    <3>1. queue # <<>> /\ drive.sector = buf[Head(queue)].blockno /\ disk[drive.sector] = last[drive.sector]
      BY Zenon DEF Driving
    <3>2. drive.sector \in Blocks
      BY Zenon DEF TypeOK, Commands
    <3>3. buf[i].blockno # None /\ Head(queue) \in Bufs /\ Head(queue) # i
      BY <1>0, <2>1, <3>1, Constants, Zenon
    <3>4. drive.sector # buf[i].blockno
      BY ONLY <3>1, <3>3, Refs, i \in Bufs, Zenon DEF Refs
    <3> QED BY <1>1, <1>2, <3>1, <3>2, <3>4, Zenon
  <2> QED BY <1>1, <1>2, <2>1, <2>2, DrivingKept, Zenon
<1>9. Sleepers'
  <2>1. \A j \in Bufs : buf'[j].lock = buf[j].lock
    BY <1>2, Zenon
  <2>2. \A j \in Bufs : Queued(j) => Queued(j)'
    BY <1>1, Zenon DEF Queued
  <2> QED BY <1>1, <2>1, <2>2, SleepersSame, Zenon
<1> QED
  BY <1>2, <1>4, <1>5, <1>6, <1>7, <1>8, <1>9, Zenon

(* A request goes to the end of the queue. *)
LEMMA Appended ==
  ASSUME queue \in Seq(Bufs), NEW i \in Bufs, queue' = Append(queue, i)
  PROVE  /\ queue' \in Seq(Bufs) /\ queue' # <<>>
         /\ Len(queue) \in Nat /\ DOMAIN queue = 1..Len(queue) /\ DOMAIN queue' = 1..(Len(queue) + 1)
         /\ queue'[Len(queue) + 1] = i /\ \A k \in 1..Len(queue) : queue'[k] = queue[k]
         /\ Head(queue') = IF queue = <<>> THEN i ELSE Head(queue)
         /\ \A j \in Bufs : Queued(j)' <=> Queued(j) \/ j = i
<1>1. /\ queue' \in Seq(Bufs) /\ queue' # <<>>
      /\ Len(queue) \in Nat /\ DOMAIN queue = 1..Len(queue) /\ Len(queue') = Len(queue) + 1
      /\ queue'[Len(queue) + 1] = i /\ \A k \in 1..Len(queue) : queue'[k] = queue[k]
  OBVIOUS
<1>2. DOMAIN queue' = 1..(Len(queue) + 1)
  BY <1>1
<1>3. Head(queue') = IF queue = <<>> THEN i ELSE Head(queue)
  <2>1. CASE queue = <<>>
    <3>1. Len(queue) = 0 /\ Head(queue') = queue'[1]
      BY <1>1, <2>1
    <3> QED BY <1>1, <2>1, <3>1
  <2>2. CASE queue # <<>>
    <3>1. Len(queue) # 0 /\ Head(queue') = queue'[1] /\ Head(queue) = queue[1]
      BY <1>1, <2>2
    <3>2. 1 \in 1..Len(queue)
      BY <1>1, <3>1
    <3> QED BY <1>1, <2>2, <3>1, <3>2, Zenon
  <2> QED BY <2>1, <2>2, Zenon
<1>4. ASSUME NEW j \in Bufs
      PROVE  Queued(j)' <=> Queued(j) \/ j = i
  <2>1. \A k \in 1..(Len(queue) + 1) : k \in 1..Len(queue) \/ k = Len(queue) + 1
    BY <1>1
  <2>2. (Len(queue) + 1) \in 1..(Len(queue) + 1) /\ 1..Len(queue) \subseteq 1..(Len(queue) + 1)
    BY <1>1
  <2>3. ASSUME Queued(j)' PROVE Queued(j) \/ j = i
    BY <1>1, <1>2, <2>1, <2>3, Zenon DEF Queued
  <2>4. ASSUME Queued(j) PROVE Queued(j)'
    BY <1>1, <1>2, <2>2, <2>4, Zenon DEF Queued
  <2>5. ASSUME j = i PROVE Queued(j)'
    BY <1>1, <1>2, <2>2, <2>5, Zenon DEF Queued
  <2> QED BY <2>3, <2>4, <2>5, Zenon
<1> QED
  BY <1>1, <1>2, <1>3, <1>4, Zenon

(* iderw() queues the buffer of its caller, who holds it, and waits. *)
LEMMA IderwStep ==
  ASSUME IInv, NEW p \in Procs, NEW i \in Bufs, i = b[p], pc[p] \in {"bread", "have"},
         Iderw(p, buf'), Fresh', ~(buf'[i].valid /\ ~buf'[i].dirty),
         \A j \in Bufs : j # i => buf'[j] = buf[j],
         buf'[i].blockno = buf[i].blockno, buf'[i].refcnt = buf[i].refcnt, buf'[i].lock = buf[i].lock,
         buf' \in [Bufs -> BufRecs], last' \in [Blocks -> Values], failed' \subseteq Bufs,
         \A n \in Blocks : n # buf[i].blockno => last'[n] = last[n]
  PROVE  IInv'
<1> USE DEF IInv
<1>1. /\ UNCHANGED <<lru, disk, irq, b>> /\ queue' = Append(queue, i)
      /\ asleep' = [asleep EXCEPT ![p] = <<"buf", i>>] /\ pc' = [pc EXCEPT ![p] = "iderw"]
      /\ IF queue = <<>> THEN drive' = [write |-> buf'[i].dirty, sector |-> buf'[i].blockno, data |-> buf'[i].data]
                         ELSE drive' = drive
  BY Zenon DEF Iderw, Idestart, Goto
<1>2. /\ \A q \in Procs : q # p => pc'[q] = pc[q] /\ asleep'[q] = asleep[q]
      /\ pc'[p] = "iderw" /\ asleep'[p] = <<"buf", i>>
      /\ pc' \in [Procs -> Places] /\ asleep' \in [Procs -> Chans \cup {None}]
  <2>1. <<"buf", i>> \in Chans
    BY Zenon DEF Chans
  <2>2. "iderw" \in Places
    BY Zenon DEF Places
  <2> QED BY <1>1, <2>1, <2>2, Zenon DEF TypeOK
<1>3. /\ queue' \in Seq(Bufs) /\ queue' # <<>>
      /\ Len(queue) \in Nat /\ DOMAIN queue = 1..Len(queue) /\ DOMAIN queue' = 1..(Len(queue) + 1)
      /\ queue'[Len(queue) + 1] = i /\ \A k \in 1..Len(queue) : queue'[k] = queue[k]
      /\ Head(queue') = IF queue = <<>> THEN i ELSE Head(queue)
      /\ \A j \in Bufs : Queued(j)' <=> Queued(j) \/ j = i
  BY <1>1, Appended, Zenon DEF TypeOK
<1>4. buf[i].blockno \in Blocks /\ buf[i].blockno # None
  BY HasBuffer, Constants, Zenon
<1>5. ~Queued(i) /\ (\A q \in Procs : b[q] = i /\ q # p => pc[q] # "iderw")
  BY NotQueued, Zenon DEF Held
<1>6. queue = <<>> => drive' \in Commands /\ drive' # None
  <2>1. buf'[i].dirty \in BOOLEAN /\ buf'[i].data \in Values \cup {None}
    BY Zenon DEF BufRecs
  <2>2. queue = <<>> => drive' = [write |-> buf'[i].dirty, sector |-> buf'[i].blockno, data |-> buf'[i].data]
    BY ONLY <1>1, Zenon
  <2>3. buf'[i].blockno \in Blocks
    BY <1>4, Zenon
  <2>4. queue = <<>> => drive' \in Commands
    BY ONLY <2>1, <2>2, <2>3 DEF Commands
  <2> QED BY ONLY <2>4, Constants, Zenon
<1>7. TypeOK' /\ AllListed'
  <2>1. drive' \in Commands \cup {None}
    BY <1>1, <1>6, Zenon DEF TypeOK
  <2>2. /\ buf' \in [Bufs -> BufRecs] /\ last' \in [Blocks -> Values] /\ failed' \subseteq Bufs
        /\ lru' = lru /\ disk' = disk /\ irq' = irq /\ b' = b
    BY <1>1, Zenon
  <2> QED BY ONLY <1>2, <1>3, <2>1, <2>2, TypeOK, AllListed, Zenon DEF TypeOK, AllListed
<1>8. Refs'
  <2>1. \A q \in Procs : pc'[q] \in {"user", "panic"} <=> pc[q] \in {"user", "panic"}
    BY <1>2, Zenon
  <2>2. \A j \in Bufs : buf'[j].refcnt = buf[j].refcnt /\ buf'[j].blockno = buf[j].blockno
    BY Zenon
  <2> QED BY <1>1, <2>1, <2>2, RefsSame, Zenon DEF TypeOK
<1>9. Locks'
  <2>1. \A q \in Procs : pc'[q] \in Held <=> pc[q] \in Held
    BY <1>2, Zenon DEF Held
  <2>2. \A j \in Bufs : buf'[j].lock = buf[j].lock
    BY Zenon
  <2> QED BY <1>1, <2>1, <2>2, LocksSame, Zenon
<1>10. Requests'
  <2>1. ASSUME NEW j \in Bufs, Queued(j)'
        PROVE  ~Done(j)' /\ \E q \in Procs : b'[q] = j /\ pc'[q] = "iderw"
    <3>1. CASE j = i
      BY <1>1, <1>2, <3>1, Zenon DEF Done
    <3>2. CASE j # i
      <4>1. Queued(j)
        BY <1>3, <2>1, <3>2, Zenon
      <4>2. PICK q \in Procs : b[q] = j /\ pc[q] = "iderw"
        BY <4>1, Zenon DEF Requests
      <4>3. b'[q] = j /\ pc'[q] = "iderw"
        BY <1>1, <1>2, <4>2, Zenon
      <4>4. ~Done(j)'
        BY <3>2, <4>1, Zenon DEF Requests, Done
      <4> QED BY <4>3, <4>4, Zenon
    <3> QED BY <3>1, <3>2, Zenon
  <2>2. ASSUME NEW q \in Procs, pc'[q] = "iderw"
        PROVE  (Queued(b[q]) \/ Done(b[q]))'
    <3>1. CASE q = p
      <4>1. \E k \in DOMAIN queue' : queue'[k] = b'[q]
        BY <1>1, <1>3, <3>1, Zenon DEF Queued
      <4> QED BY <4>1, Zenon DEF Queued
    <3>2. CASE q # p
      <4>1. pc[q] = "iderw" /\ b'[q] = b[q] /\ b[q] \in Bufs /\ b[q] # i
        BY <1>1, <1>2, <1>5, <2>2, <3>2, HasBuffer, Zenon
      <4>2. CASE Queued(b[q])
        <5>1. PICK k \in DOMAIN queue : queue[k] = b[q]
          BY <4>2, Zenon DEF Queued
        <5>2. k \in DOMAIN queue' /\ queue'[k] = b'[q]
          BY ONLY <1>3, <4>1, <5>1
        <5> QED BY ONLY <5>2, Zenon DEF Queued
      <4>3. CASE Done(b[q])
        BY <4>1, <4>3, Zenon DEF Done
      <4> QED BY <4>1, <4>2, <4>3, Zenon DEF Requests
    <3> QED BY <3>1, <3>2, Zenon
  <2>3. ASSUME NEW k \in DOMAIN queue', NEW l \in DOMAIN queue', queue'[k] = queue'[l]
        PROVE  k = l
    <3>1. \A m \in DOMAIN queue' : m \in 1..Len(queue) \/ m = Len(queue) + 1
      BY ONLY <1>3
    <3>2. \A m \in 1..Len(queue) : queue'[m] = queue[m] /\ queue[m] # i
      BY <1>3, <1>5, Zenon DEF Queued
    <3>3. CASE k \in 1..Len(queue) /\ l \in 1..Len(queue)
      <4>1. k \in DOMAIN queue /\ l \in DOMAIN queue /\ queue[k] = queue[l]
        BY ONLY <1>3, <2>3, <3>2, <3>3, Zenon
      <4> QED BY ONLY <4>1, Requests, Zenon DEF Requests
    <3>4. CASE k = Len(queue) + 1 \/ l = Len(queue) + 1
      BY <1>3, <2>3, <3>1, <3>2, <3>4, Zenon
    <3> QED BY <3>1, <3>3, <3>4, Zenon
  <2> QED BY <2>1, <2>2, <2>3, Zenon DEF Requests
<1>11. Driving'
  <2>1. CASE queue = <<>>
    <3>1. drive' # None /\ Head(queue') = i
      BY <1>3, <1>6, <2>1, Zenon
    <3>2. drive'.write = buf'[i].dirty /\ drive'.sector = buf'[i].blockno /\ drive'.data = buf'[i].data
      <4>1. drive' = [write |-> buf'[i].dirty, sector |-> buf'[i].blockno, data |-> buf'[i].data]
        BY ONLY <1>1, <2>1, Zenon
      <4> QED BY ONLY <4>1, Zenon
    <3>3. ~irq'
      BY <1>1, <2>1, Zenon DEF Driving
    <3> QED BY <1>3, <3>1, <3>2, <3>3, Zenon DEF Driving
  <2>2. CASE queue # <<>>
    <3>1. drive' = drive /\ Head(queue') = Head(queue) /\ drive # None
      BY <1>1, <1>3, <2>2, Zenon DEF Driving
    <3>2. Head(queue) \in Bufs /\ Head(queue) # i
      BY <1>5, <2>2, QueueHead, Zenon
    <3>3. buf'[Head(queue)] = buf[Head(queue)]
      BY <3>2, Zenon
    <3>4. drive.sector \in Blocks /\ drive.sector # buf[i].blockno
      <4>1. drive.sector = buf[Head(queue)].blockno
        BY ONLY <3>1, Driving, Zenon DEF Driving
      <4>2. drive.sector \in Blocks
        BY ONLY <3>1, TypeOK, Zenon DEF TypeOK, Commands
      <4> QED BY ONLY <1>4, <3>2, <4>1, <4>2, Refs, i \in Bufs, Zenon DEF Refs
    <3>5. disk'[drive.sector] = disk[drive.sector] /\ last'[drive.sector] = last[drive.sector]
      BY <1>1, <3>4, Zenon
    <3> QED BY <1>1, <1>3, <3>1, <3>3, <3>5, Zenon DEF Driving
  <2> QED BY <2>1, <2>2, Zenon
<1>12. Sleepers'
  <2> SUFFICES ASSUME NEW q \in Procs, NEW j \in Bufs
               PROVE  /\ asleep'[q] = <<"lock", j>> => b'[q] = j /\ pc'[q] = "lock" /\ buf'[j].lock # None
                      /\ asleep'[q] = <<"buf", j>> => b'[q] = j /\ pc'[q] = "iderw" /\ Queued(j)'
    BY Zenon DEF Sleepers
  <2>0. buf'[j].lock = buf[j].lock
    BY Zenon
  <2>1. CASE q = p
    BY <1>1, <1>2, <1>3, <2>1, Constants, Zenon
  <2>2. CASE q # p
    <3>1. b'[q] = b[q] /\ pc'[q] = pc[q] /\ asleep'[q] = asleep[q] /\ (Queued(j) => Queued(j)')
      BY <1>1, <1>2, <1>3, <2>2, Zenon
    <3>2. /\ asleep[q] = <<"lock", j>> => b[q] = j /\ pc[q] = "lock" /\ buf[j].lock # None
          /\ asleep[q] = <<"buf", j>> => b[q] = j /\ pc[q] = "iderw" /\ Queued(j)
      BY ONLY Sleepers, q \in Procs, j \in Bufs, Zenon DEF Sleepers
    <3> QED BY ONLY <2>0, <3>1, <3>2, Zenon
  <2> QED BY <2>1, <2>2, Zenon
<1> QED
  BY <1>7, <1>8, <1>9, <1>10, <1>11, <1>12, Zenon

(* bread() of a buffer that has to be read. *)
LEMMA BreadInvalidStep ==
  ASSUME IInv, NEW p \in Procs, Bread(p), ~buf[b[p]].valid
  PROVE  IInv'
<1>0. PICK i \in Bufs : i = b[p]
  BY HasBuffer, Zenon DEF Bread
<1>1. pc[p] = "bread" /\ Iderw(p, buf) /\ UNCHANGED <<last, failed>>
  BY Zenon DEF Bread, hist
<1>2. buf' = buf /\ disk' = disk /\ b' = b /\ pc' = [pc EXCEPT ![p] = "iderw"]
  BY <1>1, Zenon DEF Iderw, Goto
<1>3. Iderw(p, buf')
  BY <1>1, <1>2, Zenon
<1>4. ~(buf'[i].valid /\ ~buf'[i].dirty)
  BY <1>0, <1>2, Zenon
<1>5. \A q \in Procs : pc'[q] = "have" => pc[q] = "have"
  BY <1>2, Zenon DEF IInv, TypeOK
<1>6. Fresh'
  BY <1>1, <1>2, <1>5, Zenon DEF IInv, Fresh
<1>7. /\ buf' \in [Bufs -> BufRecs] /\ last' \in [Blocks -> Values] /\ failed' \subseteq Bufs
      /\ \A n \in Blocks : n # buf[i].blockno => last'[n] = last[n]
      /\ \A j \in Bufs : j # i => buf'[j] = buf[j]
      /\ buf'[i].blockno = buf[i].blockno /\ buf'[i].refcnt = buf[i].refcnt /\ buf'[i].lock = buf[i].lock
  BY <1>1, <1>2, Zenon DEF IInv, TypeOK
<1> QED
  BY <1>0, <1>1, <1>3, <1>4, <1>6, <1>7, IderwStep, Zenon

(* bwrite() of a changed buffer. *)
LEMMA BwriteStep ==
  ASSUME IInv, NEW p \in Procs, NEW v \in Values, Bwrite(p, v)
  PROVE  IInv'
<1>0. PICK i \in Bufs : i = b[p]
  BY HasBuffer, Zenon DEF Bwrite
<1>1. pc[p] = "have" /\ Iderw(p, Changed(p, v)) /\ Noted(p, v)
  BY Zenon DEF Bwrite
<1>2. buf' = Changed(p, v) /\ disk' = disk /\ b' = b /\ pc' = [pc EXCEPT ![p] = "iderw"]
  BY <1>1, Zenon DEF Iderw, Goto
<1>3. Iderw(p, buf')
  BY <1>1, <1>2, Zenon
<1>4. \A q \in Procs : pc'[q] = "have" => pc[q] = "have"
  BY <1>2, Zenon DEF IInv, TypeOK
<1>5. IsChanged(i, v)
  BY <1>0, <1>1, <1>2, <1>4, ChangedFresh, Zenon
<1>6. ~(buf'[i].valid /\ ~buf'[i].dirty)
  BY <1>5, Zenon DEF IsChanged
<1>7. /\ buf' \in [Bufs -> BufRecs] /\ last' \in [Blocks -> Values] /\ failed' \subseteq Bufs
      /\ \A n \in Blocks : n # buf[i].blockno => last'[n] = last[n]
      /\ \A j \in Bufs : j # i => buf'[j] = buf[j]
      /\ buf'[i].blockno = buf[i].blockno /\ buf'[i].refcnt = buf[i].refcnt /\ buf'[i].lock = buf[i].lock
      /\ Fresh'
  BY <1>5, Zenon DEF IsChanged
<1> QED
  BY <1>0, <1>1, <1>3, <1>6, <1>7, IderwStep, Zenon

(* The first request leaves the queue; no other one is for its buffer. *)
LEMMA Removed ==
  ASSUME TypeOK, Requests, queue # <<>>, NEW i \in Bufs, i = Head(queue), queue' = Tail(queue)
  PROVE  /\ queue' \in Seq(Bufs)
         /\ queue' # <<>> => /\ 2 \in DOMAIN queue /\ Head(queue') = queue[2]
                             /\ queue[2] \in Bufs /\ queue[2] # i
         /\ \A j \in Bufs : Queued(j)' <=> Queued(j) /\ j # i
         /\ \A k, l \in DOMAIN queue' : queue'[k] = queue'[l] => k = l
<1>1. /\ queue \in Seq(Bufs) /\ Len(queue) \in Nat \ {0} /\ DOMAIN queue = 1..Len(queue)
      /\ queue[1] = i /\ 1 \in DOMAIN queue
      /\ \A k \in DOMAIN queue : queue[k] \in Bufs
  BY QueueHead, Zenon DEF TypeOK
<1>2. /\ queue' \in Seq(Bufs) /\ Len(queue') = Len(queue) - 1 /\ DOMAIN queue' = 1..Len(queue')
      /\ \A k \in DOMAIN queue' : queue'[k] = queue[k + 1]
  BY <1>1
<1>3. \A k \in DOMAIN queue' : (k + 1) \in DOMAIN queue /\ k + 1 # 1
  BY <1>1, <1>2
<1>4. \A k \in DOMAIN queue : k # 1 => (k - 1) \in DOMAIN queue' /\ (k - 1) + 1 = k
  BY <1>1, <1>2
<1>5. queue' # <<>> => /\ 2 \in DOMAIN queue /\ Head(queue') = queue[2]
                       /\ queue[2] \in Bufs /\ queue[2] # i
  <2> SUFFICES ASSUME queue' # <<>>
               PROVE  /\ 2 \in DOMAIN queue /\ Head(queue') = queue[2]
                      /\ queue[2] \in Bufs /\ queue[2] # i
    BY Zenon
  <2>1. Len(queue') # 0 /\ Head(queue') = queue'[1]
    BY <1>2
  <2>2. 1 \in DOMAIN queue' /\ 2 \in DOMAIN queue
    BY <1>1, <1>2, <2>1
  <2>3. queue'[1] = queue[2]
    BY <1>2, <2>2
  <2> QED BY <1>1, <2>1, <2>2, <2>3 DEF Requests
<1>6. ASSUME NEW j \in Bufs
      PROVE  Queued(j)' <=> Queued(j) /\ j # i
  <2>1. ASSUME Queued(j)' PROVE Queued(j) /\ j # i
    <3>1. PICK k \in DOMAIN queue' : queue'[k] = j
      BY <2>1, Zenon DEF Queued
    <3>2. (k + 1) \in DOMAIN queue /\ k + 1 # 1 /\ queue[k + 1] = j
      BY <1>2, <1>3, <3>1, Zenon
    <3> QED BY <1>1, <3>2, Zenon DEF Queued, Requests
  <2>2. ASSUME Queued(j), j # i PROVE Queued(j)'
    <3>1. PICK k \in DOMAIN queue : queue[k] = j
      BY <2>2, Zenon DEF Queued
    <3>2. k # 1
      BY <1>1, <2>2, <3>1, Zenon
    <3>3. (k - 1) \in DOMAIN queue' /\ queue'[k - 1] = j
      BY <1>2, <1>4, <3>1, <3>2, Zenon
    <3> QED BY <3>3, Zenon DEF Queued
  <2> QED BY <2>1, <2>2, Zenon
<1>7. ASSUME NEW k \in DOMAIN queue', NEW l \in DOMAIN queue', queue'[k] = queue'[l]
      PROVE  k = l
  <2>1. queue[k + 1] = queue[l + 1] /\ (k + 1) \in DOMAIN queue /\ (l + 1) \in DOMAIN queue
    BY <1>2, <1>3, <1>7, Zenon
  <2>2. k + 1 = l + 1
    BY <2>1, Zenon DEF Requests
  <2>3. k \in Nat /\ l \in Nat
    BY <1>2
  <2> QED BY <2>2, <2>3
<1> QED
  BY <1>2, <1>5, <1>6, <1>7, Zenon

(* ideintr(): the first request is done, and the next one starts. *)
LEMMA IdeintrStep ==
  ASSUME IInv, NEW ok \in BOOLEAN, Ideintr(ok)
  PROVE  IInv'
<1> USE DEF IInv
<1>1. irq /\ drive # None /\ queue # <<>>
  BY Zenon DEF Ideintr, Driving
<1>0. PICK i \in Bufs : i = Head(queue)
  BY <1>1, QueueHead, Zenon
<1>2. /\ UNCHANGED <<lru, disk, pc, b, last>> /\ irq' = FALSE /\ queue' = Tail(queue)
      /\ buf' = [buf EXCEPT ![i].valid = TRUE, ![i].dirty = FALSE,
                   ![i].data = IF ~buf[i].dirty /\ ok THEN disk[drive.sector] ELSE buf[i].data]
      /\ failed' = IF ~buf[i].dirty /\ ~ok THEN failed \cup {i} ELSE failed
      /\ asleep' = [q \in Procs |-> IF asleep[q] = <<"buf", i>> THEN None ELSE asleep[q]]
  BY <1>0, Zenon DEF Ideintr, Wakeup
<1>3. IF queue' # <<>> THEN drive' = [write |-> buf[queue[2]].dirty, sector |-> buf[queue[2]].blockno,
                                      data |-> buf[queue[2]].data]
                       ELSE drive' = None
  BY <1>2, Zenon DEF Ideintr, Idestart
<1>4. /\ drive.sector = buf[i].blockno /\ drive.write = buf[i].dirty
      /\ drive.sector \in Blocks /\ buf[i].blockno # None
      /\ buf[i].dirty => disk[buf[i].blockno] = last[buf[i].blockno]
  <2>1. /\ drive.sector = buf[i].blockno /\ drive.write = buf[i].dirty
        /\ drive.write => disk[drive.sector] = last[drive.sector]
    BY ONLY <1>0, <1>1, Driving, Zenon DEF Driving
  <2>2. drive.sector \in Blocks
    BY ONLY <1>1, TypeOK, Zenon DEF TypeOK, Commands
  <2> QED BY ONLY <2>1, <2>2, Constants, Zenon
<1>5. /\ queue' \in Seq(Bufs)
      /\ queue' # <<>> => /\ 2 \in DOMAIN queue /\ Head(queue') = queue[2]
                          /\ queue[2] \in Bufs /\ queue[2] # i
      /\ \A j \in Bufs : Queued(j)' <=> Queued(j) /\ j # i
      /\ \A k, l \in DOMAIN queue' : queue'[k] = queue'[l] => k = l
  BY <1>0, <1>1, <1>2, Removed, Zenon
<1>6. ~buf[i].dirty => disk[buf[i].blockno] = last[buf[i].blockno]
  <2> SUFFICES ASSUME ~buf[i].dirty, disk[buf[i].blockno] # last[buf[i].blockno]
               PROVE  FALSE
    BY Zenon
  <2>1. PICK j \in Bufs : buf[j].blockno = buf[i].blockno /\ buf[j].dirty
    BY <1>4, Zenon DEF Fresh
  <2>2. j = i
    BY <1>4, <2>1, Zenon DEF Refs
  <2> QED BY <2>1, <2>2, Zenon
<1>7. /\ buf' \in [Bufs -> BufRecs]
      /\ \A j \in Bufs : j # i => buf'[j] = buf[j]
      /\ buf'[i].blockno = buf[i].blockno /\ buf'[i].refcnt = buf[i].refcnt /\ buf'[i].lock = buf[i].lock
      /\ buf'[i].valid = TRUE /\ buf'[i].dirty = FALSE
      /\ buf'[i].data = IF ~buf[i].dirty /\ ok THEN disk[drive.sector] ELSE buf[i].data
  <2>0. buf[i] \in BufRecs
    BY Zenon DEF TypeOK
  <2> DEFINE d == IF ~buf[i].dirty /\ ok THEN disk[drive.sector] ELSE buf[i].data
  <2>1. /\ buf'[i] = [buf[i] EXCEPT !.valid = TRUE, !.dirty = FALSE, !.data = d]
        /\ \A j \in Bufs : j # i => buf'[j] = buf[j]
        /\ buf' = [j \in Bufs |-> buf'[j]]
    <3>1. buf' = [buf EXCEPT ![i].valid = TRUE, ![i].dirty = FALSE, ![i].data = d]
      BY <1>2, Zenon
    <3> HIDE DEF d
    <3> QED BY <3>1, Zenon DEF TypeOK
  <2>2. d \in Values \cup {None}
    BY <1>4, <2>0, Zenon DEF TypeOK, BufRecs
  <2>3. /\ buf'[i].blockno = buf[i].blockno /\ buf'[i].refcnt = buf[i].refcnt /\ buf'[i].lock = buf[i].lock
        /\ buf'[i].valid = TRUE /\ buf'[i].dirty = FALSE /\ buf'[i].data = d
    BY <2>0, <2>1, Zenon DEF BufRecs
  <2>4. buf'[i] = [blockno |-> buf[i].blockno, valid |-> TRUE, dirty |-> FALSE,
                   refcnt |-> buf[i].refcnt, lock |-> buf[i].lock, data |-> d]
    BY <2>0, <2>1, Zenon DEF BufRecs
  <2> HIDE DEF d
  <2>5. /\ buf[i].lock \in Procs \cup {None} /\ buf[i].refcnt \in Nat
        /\ buf[i].blockno \in Blocks \cup {None}
    BY <2>0, Zenon DEF BufRecs
  <2>6. buf'[i] \in BufRecs
    BY <2>2, <2>4, <2>5 DEF BufRecs
  <2>7. buf' \in [Bufs -> BufRecs]
    BY <2>1, <2>6, Zenon DEF TypeOK
  <2> QED BY <2>1, <2>3, <2>7, Zenon DEF d
<1>8. queue' # <<>> => drive' \in Commands /\ drive' # None
  <2> SUFFICES ASSUME queue' # <<>>
               PROVE  drive' \in Commands /\ drive' # None
    BY Zenon
  <2>1. PICK j \in Bufs : j = queue[2] /\ Queued(j)
    BY <1>5, Zenon DEF Queued
  <2>2. PICK q \in Procs : b[q] = j /\ pc[q] = "iderw"
    BY <2>1, Zenon DEF Requests
  <2>3. buf[j].blockno \in Blocks
    BY <2>2, HasBuffer, Zenon
  <2>4. buf[j].dirty \in BOOLEAN /\ buf[j].data \in Values \cup {None}
    BY Zenon DEF TypeOK, BufRecs
  <2>5. drive' = [write |-> buf[j].dirty, sector |-> buf[j].blockno, data |-> buf[j].data]
    BY <1>3, <2>1, Zenon
  <2>6. drive' \in Commands
    BY <2>3, <2>4, <2>5, Zenon DEF Commands
  <2> QED BY <2>6, Constants, Zenon
<1>9. TypeOK' /\ AllListed'
  <2>1. drive' \in Commands \cup {None}
    BY <1>3, <1>8, Zenon
  <2>2. asleep' \in [Procs -> Chans \cup {None}]
    BY <1>2, Zenon DEF TypeOK
  <2>3. failed' \subseteq Bufs
    BY <1>2, Zenon DEF TypeOK
  <2>4. irq' \in BOOLEAN
    BY <1>2, Zenon
  <2> QED BY <1>2, <1>5, <1>7, <2>1, <2>2, <2>3, <2>4, Zenon DEF TypeOK, AllListed
<1>10. Refs'
  BY <1>2, <1>7, RefsSame, Zenon DEF TypeOK
<1>11. Locks'
  BY <1>2, <1>7, LocksSame, Zenon
<1>12. Fresh'
  <2>1. ASSUME NEW j \in Bufs
        PROVE  /\ buf'[j].dirty => buf'[j].valid /\ j \notin failed'
               /\ buf'[j].valid => buf'[j].blockno \in Blocks
               /\ buf'[j].valid /\ j \notin failed' => buf'[j].data = last'[buf'[j].blockno]
    <3>1. CASE j = i
      <4>1. ~buf'[j].dirty /\ buf'[j].blockno \in Blocks
        BY <1>4, <1>7, <3>1, Zenon
      <4>2. j \notin failed' => buf'[j].data = last'[buf'[j].blockno]
        <5>1. CASE buf[i].dirty
          BY <1>2, <1>7, <3>1, <5>1 DEF Fresh
        <5>2. CASE ~buf[i].dirty /\ ok
          BY <1>2, <1>4, <1>6, <1>7, <3>1, <5>2
        <5>3. CASE ~buf[i].dirty /\ ~ok
          BY <1>2, <3>1, <5>3, Zenon
        <5> QED BY <5>1, <5>2, <5>3, Zenon
      <4> QED BY <4>1, <4>2, Zenon
    <3>2. CASE j # i
      <4>1. buf'[j] = buf[j] /\ last' = last /\ (j \in failed' <=> j \in failed)
        BY <1>2, <1>7, <3>2, Zenon
      <4> QED BY <4>1, Zenon DEF Fresh
    <3> QED BY <3>1, <3>2, Zenon
  <2>2. ASSUME NEW q \in Procs, pc'[q] = "have"
        PROVE  buf'[b'[q]].valid
    <3>1. pc[q] = "have" /\ b'[q] = b[q] /\ b[q] \in Bufs /\ buf[b[q]].valid
      BY <1>2, <2>2, HasBuffer, Zenon DEF Fresh
    <3> QED BY <1>7, <3>1
  <2>3. ASSUME NEW m \in Blocks
        PROVE  disk'[m] = last'[m] \/ \E j \in Bufs : buf'[j].blockno = m /\ buf'[j].dirty
    <3>1. CASE disk[m] = last[m]
      BY <1>2, <3>1, Zenon
    <3>2. CASE disk[m] # last[m]
      <4>1. PICK j \in Bufs : buf[j].blockno = m /\ buf[j].dirty
        BY <3>2, Zenon DEF Fresh
      <4>2. j # i
        BY <1>4, <3>2, <4>1, Zenon
      <4> QED BY <1>7, <4>1, <4>2, Zenon
    <3> QED BY <3>1, <3>2, Zenon
  <2> QED BY <2>1, <2>2, <2>3, Zenon DEF Fresh
<1>13. Requests'
  <2>1. ASSUME NEW j \in Bufs, Queued(j)'
        PROVE  ~Done(j)' /\ \E q \in Procs : b'[q] = j /\ pc'[q] = "iderw"
    <3>1. Queued(j) /\ j # i
      BY <1>5, <2>1, Zenon
    <3> QED BY <1>2, <1>7, <3>1 DEF Requests, Done
  <2>2. ASSUME NEW q \in Procs, pc'[q] = "iderw"
        PROVE  (Queued(b[q]) \/ Done(b[q]))'
    <3>1. PICK j \in Bufs : b[q] = j /\ b'[q] = j /\ pc[q] = "iderw"
      BY <1>2, <2>2, HasBuffer, Zenon
    <3>2. CASE j = i
      BY <1>7, <3>1, <3>2, Zenon DEF Done
    <3>3. CASE j # i /\ Done(j)
      BY <1>7, <3>1, <3>3, Zenon DEF Done
    <3>4. CASE j # i /\ Queued(j)
      <4>1. Queued(j)'
        BY <1>5, <3>4, Zenon
      <4> QED BY <3>1, <4>1, Zenon DEF Queued
    <3> QED BY <3>1, <3>2, <3>3, <3>4, Zenon DEF Requests
  <2> QED BY <1>5, <2>1, <2>2, Zenon DEF Requests
<1>14. Driving'
  <2>1. CASE queue' = <<>>
    BY <1>2, <1>3, <2>1, Zenon DEF Driving
  <2>2. CASE queue' # <<>>
    <3>1. PICK j \in Bufs : j = queue[2] /\ j = Head(queue') /\ j # i
      BY <1>5, <2>2, Zenon
    <3>2. drive' = [write |-> buf[j].dirty, sector |-> buf[j].blockno, data |-> buf[j].data]
      BY <1>3, <2>2, <3>1, Zenon
    <3>3. buf'[j] = buf[j]
      BY <1>7, <3>1, Zenon
    <3>4. drive'.write = buf'[j].dirty /\ drive'.sector = buf'[j].blockno /\ drive'.data = buf'[j].data
      BY <3>2, <3>3, Zenon
    <3> QED BY <1>2, <1>8, <2>2, <3>1, <3>4, Zenon DEF Driving
  <2> QED BY <2>1, <2>2, Zenon
<1>15. Sleepers'
  <2> SUFFICES ASSUME NEW q \in Procs, NEW j \in Bufs
               PROVE  /\ asleep'[q] = <<"lock", j>> => b'[q] = j /\ pc'[q] = "lock" /\ buf'[j].lock # None
                      /\ asleep'[q] = <<"buf", j>> => b'[q] = j /\ pc'[q] = "iderw" /\ Queued(j)'
    BY Zenon DEF Sleepers
  <2>0. buf'[j].lock = buf[j].lock
    BY <1>7, Zenon
  <2>1. CASE asleep[q] = <<"buf", i>>
    <3>1. asleep'[q] = None
      BY <1>2, <2>1, Zenon
    <3> QED BY <3>1, Constants, Zenon
  <2>2. CASE asleep[q] # <<"buf", i>>
    <3>1. asleep'[q] = asleep[q]
      BY <1>2, <2>2, Zenon
    <3> QED BY <1>2, <1>5, <2>0, <2>2, <3>1 DEF Sleepers
  <2> QED BY <2>1, <2>2, Zenon
<1> QED
  BY <1>9, <1>10, <1>11, <1>12, <1>13, <1>14, <1>15, Zenon

-----------------------------------------------------------------------------
(* What the invariant says of the properties. *)
LEMMA Enough == IInv => FreshData /\ NoMissedWakeup
<1> SUFFICES ASSUME IInv
             PROVE  FreshData /\ NoMissedWakeup
  BY Zenon
<1> USE DEF IInv
<1>1. FreshData
  <2> SUFFICES ASSUME NEW p \in Procs, pc[p] = "have", b[p] \notin failed
               PROVE  buf[b[p]].data = last[buf[b[p]].blockno]
    BY Zenon DEF FreshData
  <2> QED BY HasBuffer, Zenon DEF Fresh
<1>2. ASSUME NEW p \in Procs, asleep[p] # None
      PROVE  IF asleep[p][1] = "lock" THEN buf[b[p]].lock # None ELSE b[p] \in Range(queue)
  <2>1. PICK c \in {"lock", "buf"}, i \in Bufs : asleep[p] = <<c, i>>
    <3>1. asleep[p] \in Chans
      BY <1>2, Zenon DEF TypeOK
    <3> QED BY <3>1 DEF Chans
  <2>2. CASE c = "lock"
    <3>1. asleep[p] = <<"lock", i>> /\ asleep[p][1] = "lock"
      BY <2>1, <2>2
    <3> QED BY <3>1 DEF Sleepers
  <2>3. CASE c = "buf"
    <3>1. asleep[p] = <<"buf", i>> /\ asleep[p][1] = "buf"
      BY <2>1, <2>3
    <3>2. b[p] = i /\ Queued(i)
      BY <3>1, Zenon DEF Sleepers
    <3>3. b[p] \in Range(queue)
      BY <3>2, Zenon DEF Queued, Range
    <3> QED BY <3>1, <3>3, Zenon
  <2> QED BY <2>1, <2>2, <2>3, Zenon
<1>3. /\ drive # None <=> queue # <<>>
      /\ drive # None => drive.sector = buf[Head(queue)].blockno /\ drive.write = buf[Head(queue)].dirty
  BY Zenon DEF Driving
<1> QED
  BY <1>1, <1>2, <1>3, Zenon DEF NoMissedWakeup

(* Every step keeps the invariant. *)
LEMMA NextStep == IInv /\ [Next]_vars => IInv'
<1> SUFFICES ASSUME IInv, [Next]_vars
             PROVE  IInv'
  BY Zenon
<1>1. CASE DriveDone
  BY <1>1, DriveDoneStep, Zenon
<1>2. CASE \E ok \in BOOLEAN : Ideintr(ok)
  BY <1>2, IdeintrStep, Zenon
<1>3. ASSUME NEW p \in Procs, NEW n \in Blocks, Bget(p, n)
      PROVE  IInv'
  BY <1>3, BgetHitStep, BgetVictimStep, BgetPanicStep, Zenon
<1>4. ASSUME NEW p \in Procs, Bread(p)
      PROVE  IInv'
  BY <1>4, BreadValidStep, BreadInvalidStep, Zenon
<1>5. ASSUME NEW p \in Procs,
             Acquiresleep(p) \/ IderwWoken(p) \/ Releasesleep(p) \/ Brelse(p) \/ Kill(p)
      PROVE  IInv'
  BY <1>5, AcquiresleepStep, IderwWokenStep, ReleasesleepStep, BrelseStep, KillStep, Zenon
<1>6. ASSUME NEW p \in Procs, NEW v \in Values, LogWrite(p, v) \/ Bwrite(p, v)
      PROVE  IInv'
  BY <1>6, LogWriteStep, BwriteStep, Zenon
<1>7. CASE UNCHANGED vars
  <2>1. UNCHANGED <<buf, lru, queue, disk, drive, irq, pc, b, asleep, last, failed>>
    BY <1>7, Zenon DEF vars, hw, hist
  <2>2. TypeOK' /\ AllListed' /\ Locks'
    BY ONLY <2>1, IInv, Zenon DEF IInv, TypeOK, AllListed, Locks
  <2>3. Refs'
    BY ONLY <2>1, IInv, Zenon DEF IInv, Refs, Users
  <2>4. Fresh' /\ Driving'
    BY ONLY <2>1, IInv, Zenon DEF IInv, Fresh, Driving
  <2>5. Requests'
    BY ONLY <2>1, IInv, Zenon DEF IInv, Requests, Queued, Done
  <2>6. Sleepers'
    BY ONLY <2>1, IInv, Zenon DEF IInv, Sleepers, Queued
  <2> QED BY ONLY <2>2, <2>3, <2>4, <2>5, <2>6, Zenon DEF IInv
<1> QED
  BY <1>1, <1>2, <1>3, <1>4, <1>5, <1>6, <1>7, Zenon DEF Next

(* The invariant holds for any number of processes, buffers and blocks    *)
(* (bio.c, ide.c, sleeplock.c).                                           *)
THEOREM Inductive == Spec => []IInv
<1> QED
  BY InitIInv, NextStep, PTL DEF Spec

(* Whoever holds a buffer sees what was last put into its block, however  *)
(* often bget() recycled the buffers meanwhile.                           *)
THEOREM DataIsFresh == Spec => []FreshData
<1> QED
  BY Inductive, Enough, PTL

(* Nobody sleeps for a lock that is free or a request that is done, and   *)
(* the drive works whenever a request is queued, on the first one         *)
(* (acquiresleep(), releasesleep(), iderw(), ideintr()).                  *)
THEOREM NobodySleepsThrough == Spec => []NoMissedWakeup
<1> QED
  BY Inductive, Enough, PTL
=============================================================================
