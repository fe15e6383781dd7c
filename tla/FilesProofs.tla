----------------------------- MODULE FilesProofs -----------------------------
(***************************************************************************)
(* Proofs about Files: the reference counts of the inode cache and of the  *)
(* file table are exact, an inode has one entry and an entry in use keeps  *)
(* its inode, an inode's lock has one holder, and a crash between the      *)
(* operations of the log loses nothing.                                    *)
(***************************************************************************)
EXTENDS Files, FiniteSetTheorems, TLAPS

(* A leaf is Zenon's unless it names SMT. *)
USE Zenon

-----------------------------------------------------------------------------
(* Numbers and sets *)

One(b) == IF b THEN 1 ELSE 0

(* A set of numbers that is not empty has a least element. *)
LEMMA FirstIs ==
  ASSUME NEW S, S \subseteq Nat, S # {}
  PROVE  First(S) \in S
<1>1. PICK x \in S : \A y \in S : ~(<<y, x>> \in OpToRel(<, Nat))
  BY NatLessThanWellFounded, WFMin
<1>2. \A y \in S : x <= y
  <2> TAKE y \in S
  <2>1. ~(y < x)
    BY <1>1 DEF OpToRel
  <2> QED BY <2>1, SMT
<1> QED
  BY <1>2 DEF First

(* Two sets that differ in one element have sizes that differ in it. *)
OneOff(S, T, x) ==
  /\ Cardinality(S) \in Nat /\ Cardinality(T) \in Nat
  /\ Cardinality(T) + One(x \in S) = Cardinality(S) + One(x \in T)

(* Two finite sets that agree outside one element are OneOff. *)
LEMMA CardChange ==
  ASSUME NEW P, IsFiniteSet(P), NEW S, NEW T, S \subseteq P, T \subseteq P, NEW x, S \ {x} = T \ {x}
  PROVE  OneOff(S, T, x)
<1>1. IsFiniteSet(S) /\ IsFiniteSet(T)
  BY FS_Subset
<1>2. Cardinality(S) \in Nat /\ Cardinality(T) \in Nat
  BY <1>1, FS_CardinalityType
<1>3. CASE (x \in S) <=> (x \in T)
  <2>1. S = T
    BY <1>3, SMT
  <2> QED BY <1>2, <2>1, SMT DEF One, OneOff
<1>4. CASE x \in S /\ x \notin T
  <2>1. S = T \cup {x}
    BY <1>4
  <2>2. Cardinality(S) = Cardinality(T) + 1
    BY <1>1, <1>4, <2>1, FS_AddElement
  <2> QED BY <1>2, <1>4, <2>2, SMT DEF One, OneOff
<1>5. CASE x \in T /\ x \notin S
  <2>1. T = S \cup {x}
    BY <1>5
  <2>2. Cardinality(T) = Cardinality(S) + 1
    BY <1>1, <1>5, <2>1, FS_AddElement
  <2> QED BY <1>2, <1>5, <2>2, SMT DEF One, OneOff
<1> QED BY <1>3, <1>4, <1>5

(* Slots and descriptors are numbered from 1. *)
LEMMA Numbers ==
  /\ Slots \subseteq Nat /\ 0 \notin Slots /\ 1 \in Slots /\ 2 \in Slots
  /\ Fds \subseteq Nat /\ 0 \notin Fds /\ 1..NFILE \subseteq Nat /\ 0 \notin 1..NFILE
  /\ IsFiniteSet(Fds) /\ IsFiniteSet(1..NFILE) /\ IsFiniteSet(Procs) /\ IsFiniteSet(Procs \X Fds)
<1>1. NINODE \in Nat /\ NFILE \in Nat /\ NOFILE \in Nat /\ NINODE > 1
  BY FilesAssumption, SMT
<1>2. IsFiniteSet(1..NOFILE) /\ IsFiniteSet(1..NFILE)
  BY <1>1, FS_Interval, SMT
<1>3. IsFiniteSet(Fds)
  BY <1>2, SMT DEF Fds
<1>4. IsFiniteSet(Procs \X Fds)
  BY <1>3, FilesAssumption, FS_Product
<1> QED BY <1>1, <1>2, <1>3, <1>4, FilesAssumption, SMT DEF Slots, Fds

-----------------------------------------------------------------------------
(* The fields of the records *)

(* An entry of the inode cache has the fields of NoInode. *)
LEMMA EntryFields == DOMAIN NoInode = {"inum", "ref", "valid", "lock", "ip"}
BY SMT DEF NoInode

(* An entry of the file table has the fields of NoFile. *)
LEMMA FileFields == DOMAIN NoFile = {"ref", "ip", "off"}
BY SMT DEF NoFile

(* The frame of a call has the fields of User. *)
LEMMA FrameFields ==
  DOMAIN User = {"pc", "op", "path", "new", "name", "via", "ip", "dp", "put", "then", "buf", "fd"}
BY SMT DEF User

-----------------------------------------------------------------------------
(* What the operations on the cache do *)

Held(me) == Keeps(me) \cup Frees(me)
Distinct(c) == \A s, t \in Slots : c[s].ref > 0 /\ c[t].ref > 0 /\ c[s].inum = c[t].inum => s = t
InumsKept(c, d) == \A s \in Slots : c[s].ref > 0 => d[s].inum = c[s].inum
SameRefs(c, d) == \A s \in Slots : d[s].ref = c[s].ref
SameLocks(c, d) == \A s \in Slots : d[s].lock = c[s].lock
LockSet(c, d, s, x) == \A t \in Slots : d[t].lock = IF t = s THEN x ELSE c[t].lock
RefAdded(c, d, s) == \A t \in Slots : d[t].ref = c[t].ref + One(t = s)

(* What every operation on a cache keeps. *)
Kept(c, d) == IsCache(d) /\ InumsKept(c, d) /\ (Distinct(c) => Distinct(d))

(* An operation that leaves inum, and does not count up from zero, keeps it. *)
LEMMA KeptIf ==
  ASSUME NEW c, NEW d, IsCache(c), IsCache(d),
         \A s \in Slots : d[s].inum = c[s].inum /\ (d[s].ref > 0 => c[s].ref > 0)
  PROVE  Kept(c, d)
BY SMT DEF Kept, InumsKept, Distinct

(* Operations follow each other. *)
LEMMA KeptTwice ==
  ASSUME NEW c, NEW d, NEW e, Kept(c, d), SameRefs(c, d), Kept(d, e)
  PROVE  Kept(c, e)
<1>1. ASSUME NEW s \in Slots, c[s].ref > 0
      PROVE  e[s].inum = c[s].inum
  <2>1. d[s].inum = c[s].inum /\ d[s].ref > 0
    BY <1>1, SMT DEF Kept, InumsKept, SameRefs
  <2> QED BY <2>1, SMT DEF Kept, InumsKept
<1> QED BY <1>1, SMT DEF Kept, InumsKept

(* An assignment to one entry. *)
Updated(c, d, s, x) == d = [t \in Slots |-> IF t = s THEN x ELSE c[t]]

(* A cache in which one entry is replaced by an entry is a cache. *)
LEMMA SetIs ==
  ASSUME NEW c, IsCache(c), NEW s, NEW d, NEW x, Updated(c, d, s, x), s \in Slots => IsEntry(x)
  PROVE  IsCache(d)
<1>1. \A t \in Slots : d[t] = IF t = s THEN x ELSE c[t]
  BY SMT DEF Updated
<1>2. d = [t \in Slots |-> d[t]]
  BY SMT DEF Updated
<1>3. \A t \in Slots : IsEntry(d[t])
  BY <1>1, SMT DEF IsCache
<1> QED BY <1>2, <1>3 DEF IsCache

(* ilock() and iunlock() in one action: only the copy of the inode changes. *)
LEMMA TouchIs ==
  ASSUME NEW c, IsCache(c), NEW s, NEW ip, NEW d, d = Touch(c, s, ip)
  PROVE  Kept(c, d) /\ SameRefs(c, d) /\ SameLocks(c, d)
<1> DEFINE x == [c[s] EXCEPT !.valid = TRUE, !.ip = ip]
<1>1. s \in Slots => /\ IsEntry(x) /\ x.ref = c[s].ref
                      /\ x.inum = c[s].inum /\ x.lock = c[s].lock
  <2>1. s \in Slots => IsEntry(c[s])
    BY SMT DEF IsCache
  <2> QED BY <2>1, EntryFields DEF IsEntry
<1>2. Updated(c, d, s, x)
  BY DEF Updated, IsCache, Touch
<1> HIDE DEF x
<1>3. IsCache(d)
  BY <1>1, <1>2, SetIs
<1>4. \A t \in Slots : d[t] = IF t = s THEN x ELSE c[t]
  BY <1>2, SMT DEF Updated
<1>5. Kept(c, d)
  BY <1>1, <1>3, <1>4, KeptIf, SMT
<1> QED BY <1>1, <1>4, <1>5, SMT DEF SameRefs, SameLocks

(* ilock() *)
LEMMA IlockIs ==
  ASSUME NEW c, IsCache(c), NEW s \in Slots, NEW p, NEW ip, NEW d, d = Ilock(c, s, p, ip)
  PROVE  Kept(c, d) /\ SameRefs(c, d) /\ LockSet(c, d, s, p)
<1> DEFINE x == [c[s] EXCEPT !.lock = p, !.valid = TRUE, !.ip = ip]
<1>1. IsEntry(x) /\ x.ref = c[s].ref /\ x.inum = c[s].inum /\ x.lock = p
  <2>1. IsEntry(c[s])
    BY SMT DEF IsCache
  <2> QED BY <2>1, EntryFields DEF IsEntry
<1>2. Updated(c, d, s, x)
  BY SMT DEF Updated, IsCache, Ilock
<1> HIDE DEF x
<1>3. IsCache(d)
  BY <1>1, <1>2, SetIs
<1>4. \A t \in Slots : d[t] = IF t = s THEN x ELSE c[t]
  BY <1>2, SMT DEF Updated
<1>5. Kept(c, d)
  BY <1>1, <1>3, <1>4, KeptIf, SMT
<1> QED BY <1>1, <1>4, <1>5, SMT DEF SameRefs, LockSet

(* An assignment to the lock, as in iunlock(). *)
LEMMA LockIs ==
  ASSUME NEW c, IsCache(c), NEW s \in Slots, NEW p, NEW d, d = [c EXCEPT ![s].lock = p]
  PROVE  Kept(c, d) /\ SameRefs(c, d) /\ LockSet(c, d, s, p)
<1> DEFINE x == [c[s] EXCEPT !.lock = p]
<1>1. IsEntry(x) /\ x.ref = c[s].ref /\ x.inum = c[s].inum /\ x.lock = p
  <2>1. IsEntry(c[s])
    BY SMT DEF IsCache
  <2> QED BY <2>1, EntryFields, SMT DEF IsEntry
<1>2. Updated(c, d, s, x)
  BY SMT DEF Updated, IsCache
<1> HIDE DEF x
<1>3. IsCache(d)
  BY <1>1, <1>2, SetIs
<1>4. \A t \in Slots : d[t] = IF t = s THEN x ELSE c[t]
  BY <1>2, SMT DEF Updated
<1>5. Kept(c, d)
  BY <1>1, <1>3, <1>4, KeptIf
<1> QED BY <1>1, <1>4, <1>5, SMT DEF SameRefs, LockSet

(* The lock given back by an iput() that frees the inode. *)
LEMMA InvalidIs ==
  ASSUME NEW c, IsCache(c), NEW s \in Slots, NEW d, d = [c EXCEPT ![s].valid = FALSE, ![s].lock = None]
  PROVE  Kept(c, d) /\ SameRefs(c, d) /\ LockSet(c, d, s, None)
<1> DEFINE x == [c[s] EXCEPT !.valid = FALSE, !.lock = None]
<1>1. IsEntry(x) /\ x.ref = c[s].ref /\ x.inum = c[s].inum /\ x.lock = None
  <2>1. IsEntry(c[s])
    BY SMT DEF IsCache
  <2> QED BY <2>1, EntryFields DEF IsEntry
<1>2. Updated(c, d, s, x)
  BY SMT DEF Updated, IsCache
<1> HIDE DEF x
<1>3. IsCache(d)
  BY <1>1, <1>2, SetIs
<1>4. \A t \in Slots : d[t] = IF t = s THEN x ELSE c[t]
  BY <1>2 DEF Updated
<1>5. Kept(c, d)
  BY <1>1, <1>3, <1>4, KeptIf
<1>6. SameRefs(c, d)
  BY <1>1, <1>4 DEF SameRefs
<1>7. LockSet(c, d, s, None)
  BY ONLY <1>1, <1>4 DEF LockSet
<1> QED BY <1>5, <1>6, <1>7

(* An assignment to the copy of the inode. *)
LEMMA CopyIs ==
  ASSUME NEW c, IsCache(c), NEW s \in Slots, NEW ip, NEW d, d = [c EXCEPT ![s].ip = ip]
  PROVE  Kept(c, d) /\ SameRefs(c, d) /\ SameLocks(c, d)
<1> DEFINE x == [c[s] EXCEPT !.ip = ip]
<1>1. IsEntry(x) /\ x.ref = c[s].ref /\ x.inum = c[s].inum /\ x.lock = c[s].lock
  <2>1. IsEntry(c[s])
    BY SMT DEF IsCache
  <2> QED BY <2>1, EntryFields, SMT DEF IsEntry
<1>2. Updated(c, d, s, x)
  BY SMT DEF Updated, IsCache
<1> HIDE DEF x
<1>3. IsCache(d)
  BY <1>1, <1>2, SetIs
<1>4. \A t \in Slots : d[t] = IF t = s THEN x ELSE c[t]
  BY <1>2, SMT DEF Updated
<1>5. Kept(c, d)
  BY <1>1, <1>3, <1>4, KeptIf
<1> QED BY <1>1, <1>4, <1>5, SMT DEF SameRefs, SameLocks

(* idup() of an entry in use. *)
LEMMA IdupIs ==
  ASSUME NEW c, IsCache(c), NEW s \in Slots, c[s].ref > 0, NEW d, d = [c EXCEPT ![s].ref = @ + 1]
  PROVE  Kept(c, d) /\ RefAdded(c, d, s) /\ SameLocks(c, d)
<1> DEFINE x == [c[s] EXCEPT !.ref = @ + 1]
<1>1. IsEntry(x) /\ x.ref = c[s].ref + 1 /\ x.inum = c[s].inum /\ x.lock = c[s].lock
  <2>1. IsEntry(c[s])
    BY SMT DEF IsCache
  <2> QED BY <2>1, EntryFields, SMT DEF IsEntry
<1>2. Updated(c, d, s, x)
  BY SMT DEF Updated, IsCache
<1> HIDE DEF x
<1>3. IsCache(d)
  BY <1>1, <1>2, SetIs
<1>4. \A t \in Slots : d[t] = IF t = s THEN x ELSE c[t]
  BY <1>2, SMT DEF Updated
<1>5. Kept(c, d)
  BY <1>1, <1>3, <1>4, KeptIf
<1>6. \A t \in Slots : c[t].ref \in Nat
  BY SMT DEF IsCache, IsEntry
<1> QED BY <1>1, <1>4, <1>5, <1>6, SMT DEF RefAdded, SameLocks, One

(* The end of iput(): a reference less. *)
LEMMA DerefIs ==
  ASSUME NEW c, IsCache(c), NEW s \in Slots, c[s].ref > 0, NEW d, d = [c EXCEPT ![s].ref = @ - 1]
  PROVE  Kept(c, d) /\ RefAdded(d, c, s) /\ SameLocks(c, d)
<1> DEFINE x == [c[s] EXCEPT !.ref = @ - 1]
<1>1. IsEntry(x) /\ x.ref + 1 = c[s].ref /\ x.inum = c[s].inum /\ x.lock = c[s].lock
  <2>1. IsEntry(c[s])
    BY SMT DEF IsCache
  <2> QED BY <2>1, EntryFields, SMT DEF IsEntry
<1>2. Updated(c, d, s, x)
  BY SMT DEF Updated, IsCache
<1> HIDE DEF x
<1>3. IsCache(d)
  BY <1>1, <1>2, SetIs
<1>4. \A t \in Slots : d[t] = IF t = s THEN x ELSE c[t]
  BY <1>2, SMT DEF Updated
<1>5. Kept(c, d)
  BY <1>1, <1>3, <1>4, KeptIf
<1>6. \A t \in Slots : c[t].ref \in Nat
  BY SMT DEF IsCache, IsEntry
<1> QED BY <1>1, <1>4, <1>5, <1>6, SMT DEF RefAdded, SameLocks, One

(* iget() that finds an entry for inode i, or a free one. *)
LEMMA IgetIs ==
  ASSUME NEW c, IsCache(c), NEW i, Slot(c, i) # 0, NEW d, d = Iget(c, i)
  PROVE  Slot(c, i) \in Slots /\ Kept(c, d) /\ RefAdded(c, d, Slot(c, i)) /\ SameLocks(c, d)
<1> DEFINE s == Slot(c, i)
<1>1. CASE Cached(c, i) # {}
  <2>1. s \in Cached(c, i)
    <3>1. Cached(c, i) \subseteq Nat
      BY Numbers DEF Cached
    <3> QED BY <1>1, <3>1, FirstIs DEF Slot
  <2>2. s \in Slots /\ c[s].ref > 0
    BY <2>1 DEF Cached
  <2>3. d = [c EXCEPT ![s].ref = @ + 1]
    BY <1>1 DEF Iget
  <2> HIDE DEF s
  <2>4. Kept(c, d) /\ RefAdded(c, d, s) /\ SameLocks(c, d)
    BY <2>2, <2>3, IdupIs
  <2> QED BY <2>2, <2>4 DEF s
<1>2. CASE Cached(c, i) = {}
  <2>1. s \in Empty(c)
    <3>1. Empty(c) # {}
      BY <1>2 DEF Slot
    <3>2. Empty(c) \subseteq Nat
      BY Numbers DEF Empty
    <3> QED BY <1>2, <3>1, <3>2, FirstIs DEF Slot
  <2>2. s \in Slots /\ c[s].ref = 0
    BY <2>1 DEF Empty
  <2> DEFINE x == [c[s] EXCEPT !.inum = i, !.ref = 1, !.valid = FALSE]
  <2>3. d = [c EXCEPT ![s].inum = i, ![s].ref = 1, ![s].valid = FALSE]
    BY <1>2 DEF Iget
  <2> HIDE DEF s
  <2>4. Updated(c, d, s, x)
    BY <2>2, <2>3, SMT DEF Updated, IsCache
  <2>5. IsEntry(x) /\ x.ref = 1 /\ x.inum = i /\ x.lock = c[s].lock
    <3>1. IsEntry(c[s])
      BY <2>2, SMT DEF IsCache
    <3> QED BY <3>1, EntryFields DEF IsEntry
  <2> HIDE DEF x
  <2>6. IsCache(d)
    BY <2>4, <2>5, SetIs
  <2>7. \A t \in Slots : d[t] = IF t = s THEN x ELSE c[t]
    BY <2>4, SMT DEF Updated
  <2>8. Distinct(c) => Distinct(d)
    <3> SUFFICES ASSUME Distinct(c), NEW t \in Slots, NEW u \in Slots,
                        d[t].ref > 0, d[u].ref > 0, d[t].inum = d[u].inum
                 PROVE  t = u
      BY DEF Distinct
    <3>1. \A v \in Slots \ {s} : c[v].ref > 0 => c[v].inum # i
      BY <1>2 DEF Cached
    <3> QED BY <2>5, <2>7, <3>1, SMT DEF Distinct
  <2>9. InumsKept(c, d)
    BY <2>2, <2>7, SMT DEF InumsKept
  <2>10. RefAdded(c, d, s) /\ SameLocks(c, d)
    <3>1. \A t \in Slots : c[t].ref \in Nat
      BY SMT DEF IsCache, IsEntry
    <3> QED BY <2>2, <2>5, <2>7, <3>1, SMT DEF RefAdded, SameLocks, One
  <2> QED BY <2>2, <2>6, <2>8, <2>9, <2>10 DEF Kept, s
<1> QED BY <1>1, <1>2

-----------------------------------------------------------------------------
(* What a step of one process does to the counts and the locks *)

Ptr(me, s) == One(me.ip = s) + One(me.dp = s) + One(me.put = s)
OpenAt(ft, f, s) == f \in DOMAIN ft /\ ft[f].ref > 0 /\ ft[f].ip = s

(* RefsExact, of any current directories, files and calls. *)
Pointers(w, ft, a, s) ==
  Cardinality({p \in Procs : w[p] = s})
    + Cardinality({f \in DOMAIN ft : ft[f].ref > 0 /\ ft[f].ip = s})
    + Cardinality({p \in Procs : a[p].ip = s}) + Cardinality({p \in Procs : a[p].dp = s})
    + Cardinality({p \in Procs : a[p].put = s})

(* The pointers to an entry change with those of one process and one file. *)
Moved(p, f, s, w, ft, a, v, gt, b) ==
  /\ Pointers(w, ft, a, s) \in Nat /\ Pointers(v, gt, b, s) \in Nat
  /\ Pointers(v, gt, b, s) + One(w[p] = s) + One(OpenAt(ft, f, s)) + Ptr(a[p], s)
       = Pointers(w, ft, a, s) + One(v[p] = s) + One(OpenAt(gt, f, s)) + Ptr(b[p], s)

(* A step of one process that changes one file moves only their pointers. *)
LEMMA PointersChange ==
  ASSUME NEW p \in Procs, NEW f, NEW s, NEW w, NEW ft, NEW a, NEW v, NEW gt, NEW b,
         DOMAIN ft = 1..NFILE, DOMAIN gt = 1..NFILE,
         \A q \in Procs \ {p} : v[q] = w[q] /\ b[q] = a[q],
         \A g \in (1..NFILE) \ {f} : OpenAt(gt, g, s) <=> OpenAt(ft, g, s)
  PROVE  Moved(p, f, s, w, ft, a, v, gt, b)
<1> DEFINE W(x) == {q \in Procs : x[q] = s}
           F(x) == {g \in DOMAIN x : x[g].ref > 0 /\ x[g].ip = s}
           I(x) == {q \in Procs : x[q].ip = s}
           D(x) == {q \in Procs : x[q].dp = s}
           P(x) == {q \in Procs : x[q].put = s}
<1>1. OneOff(W(w), W(v), p)
  <2>1. W(w) \ {p} = W(v) \ {p} /\ W(w) \subseteq Procs /\ W(v) \subseteq Procs
    OBVIOUS
  <2> HIDE DEF W
  <2> QED BY <2>1, CardChange, Numbers
<1>2. OneOff(I(a), I(b), p)
  <2>1. I(a) \ {p} = I(b) \ {p} /\ I(a) \subseteq Procs /\ I(b) \subseteq Procs
    OBVIOUS
  <2> HIDE DEF I
  <2> QED BY <2>1, CardChange, Numbers
<1>3. OneOff(D(a), D(b), p)
  <2>1. D(a) \ {p} = D(b) \ {p} /\ D(a) \subseteq Procs /\ D(b) \subseteq Procs
    OBVIOUS
  <2> HIDE DEF D
  <2> QED BY <2>1, CardChange, Numbers
<1>4. OneOff(P(a), P(b), p)
  <2>1. P(a) \ {p} = P(b) \ {p} /\ P(a) \subseteq Procs /\ P(b) \subseteq Procs
    OBVIOUS
  <2> HIDE DEF P
  <2> QED BY <2>1, CardChange, Numbers
<1>5. OneOff(F(ft), F(gt), f)
  <2>1. F(ft) \ {f} = F(gt) \ {f} /\ F(ft) \subseteq 1..NFILE /\ F(gt) \subseteq 1..NFILE
    BY SMT DEF OpenAt
  <2> HIDE DEF F
  <2> QED BY <2>1, CardChange, Numbers
<1>6. /\ p \in W(w) <=> (w[p] = s)
      /\ p \in W(v) <=> (v[p] = s)
      /\ f \in F(ft) <=> OpenAt(ft, f, s)
      /\ f \in F(gt) <=> OpenAt(gt, f, s)
      /\ p \in I(a) <=> (a[p].ip = s)
      /\ p \in I(b) <=> (b[p].ip = s)
      /\ p \in D(a) <=> (a[p].dp = s)
      /\ p \in D(b) <=> (b[p].dp = s)
      /\ p \in P(a) <=> (a[p].put = s)
      /\ p \in P(b) <=> (b[p].put = s)
  BY SMT DEF OpenAt
<1>7. /\ Pointers(w, ft, a, s) = Cardinality(W(w)) + Cardinality(F(ft)) + Cardinality(I(a))
                                  + Cardinality(D(a)) + Cardinality(P(a))
      /\ Pointers(v, gt, b, s) = Cardinality(W(v)) + Cardinality(F(gt)) + Cardinality(I(b))
                                  + Cardinality(D(b)) + Cardinality(P(b))
  BY DEF Pointers
<1> HIDE DEF W, F, I, D, P
<1> DEFINE w0 == One(w[p] = s)
           w1 == One(v[p] = s)
           f0 == One(OpenAt(ft, f, s))
           f1 == One(OpenAt(gt, f, s))
           i0 == One(a[p].ip = s)
           i1 == One(b[p].ip = s)
           d0 == One(a[p].dp = s)
           d1 == One(b[p].dp = s)
           p0 == One(a[p].put = s)
           p1 == One(b[p].put = s)
<1>8. Ptr(a[p], s) = i0 + d0 + p0 /\ Ptr(b[p], s) = i1 + d1 + p1
  BY DEF Ptr
<1>9. /\ Cardinality(W(w)) \in Nat /\ Cardinality(W(v)) \in Nat /\ w0 \in Nat /\ w1 \in Nat
       /\ Cardinality(W(v)) + w0 = Cardinality(W(w)) + w1
  <2>1. One(p \in W(w)) = w0 /\ One(p \in W(v)) = w1
    BY <1>6 DEF One
  <2>2. w0 \in Nat /\ w1 \in Nat
    BY SMT DEF One
  <2> HIDE DEF w0, w1
  <2> QED BY <1>1, <2>1, <2>2 DEF OneOff
<1>10. /\ Cardinality(I(a)) \in Nat /\ Cardinality(I(b)) \in Nat /\ i0 \in Nat /\ i1 \in Nat
       /\ Cardinality(I(b)) + i0 = Cardinality(I(a)) + i1
  <2>1. One(p \in I(a)) = i0 /\ One(p \in I(b)) = i1
    BY <1>6 DEF One
  <2>2. i0 \in Nat /\ i1 \in Nat
    BY SMT DEF One
  <2> HIDE DEF i0, i1
  <2> QED BY <1>2, <2>1, <2>2 DEF OneOff
<1>11. /\ Cardinality(D(a)) \in Nat /\ Cardinality(D(b)) \in Nat /\ d0 \in Nat /\ d1 \in Nat
       /\ Cardinality(D(b)) + d0 = Cardinality(D(a)) + d1
  <2>1. One(p \in D(a)) = d0 /\ One(p \in D(b)) = d1
    BY <1>6 DEF One
  <2>2. d0 \in Nat /\ d1 \in Nat
    BY SMT DEF One
  <2> HIDE DEF d0, d1
  <2> QED BY <1>3, <2>1, <2>2 DEF OneOff
<1>12. /\ Cardinality(P(a)) \in Nat /\ Cardinality(P(b)) \in Nat /\ p0 \in Nat /\ p1 \in Nat
       /\ Cardinality(P(b)) + p0 = Cardinality(P(a)) + p1
  <2>1. One(p \in P(a)) = p0 /\ One(p \in P(b)) = p1
    BY <1>6 DEF One
  <2>2. p0 \in Nat /\ p1 \in Nat
    BY SMT DEF One
  <2> HIDE DEF p0, p1
  <2> QED BY <1>4, <2>1, <2>2 DEF OneOff
<1>13. /\ Cardinality(F(ft)) \in Nat /\ Cardinality(F(gt)) \in Nat /\ f0 \in Nat /\ f1 \in Nat
       /\ Cardinality(F(gt)) + f0 = Cardinality(F(ft)) + f1
  <2>1. One(f \in F(ft)) = f0 /\ One(f \in F(gt)) = f1
    BY <1>6 DEF One
  <2>2. f0 \in Nat /\ f1 \in Nat
    BY SMT DEF One
  <2> HIDE DEF f0, f1
  <2> QED BY <1>5, <2>1, <2>2 DEF OneOff
<1> HIDE DEF w0, w1, f0, f1, i0, i1, d0, d1, p0, p1
<1>14. /\ Pointers(w, ft, a, s) \in Nat /\ Pointers(v, gt, b, s) \in Nat
      /\ Pointers(v, gt, b, s) + w0 + f0 + Ptr(a[p], s) = Pointers(w, ft, a, s) + w1 + f1 + Ptr(b[p], s)
  BY ONLY <1>7, <1>8, <1>9, <1>10, <1>11, <1>12, <1>13
<1> QED BY <1>14 DEF w0, w1, f0, f1, Moved

(* The references of the entries change as those of p and of file f do. *)
Even(p, f) ==
  \A s \in Slots :
    icache'[s].ref + One(cwd[p] = s) + One(OpenAt(ftable, f, s)) + Ptr(at[p], s)
      = icache[s].ref + One(cwd'[p] = s) + One(OpenAt(ftable', f, s)) + Ptr(at'[p], s)

OnlyFile(f) ==
  \A s \in Slots : \A g \in (1..NFILE) \ {f} : OpenAt(ftable', g, s) <=> OpenAt(ftable, g, s)

(* RefsExact after a step of process p, that changes at most file f. *)
LEMMA RefsStep ==
  ASSUME RefsExact, NEW p \in Procs, NEW f,
         DOMAIN ftable = 1..NFILE, DOMAIN ftable' = 1..NFILE, IsCache(icache), IsCache(icache'),
         \A q \in Procs \ {p} : cwd'[q] = cwd[q] /\ at'[q] = at[q], OnlyFile(f), Even(p, f)
  PROVE  RefsExact'
<1> SUFFICES ASSUME NEW s \in Slots
             PROVE  icache'[s].ref = Pointers(cwd', ftable', at', s)
  BY DEF RefsExact, Pointers
<1>1. icache[s].ref = Pointers(cwd, ftable, at, s)
  BY DEF RefsExact, Pointers
<1> DEFINE w0 == One(cwd[p] = s)
           w1 == One(cwd'[p] = s)
           f0 == One(OpenAt(ftable, f, s))
           f1 == One(OpenAt(ftable', f, s))
           p0 == Ptr(at[p], s)
           p1 == Ptr(at'[p], s)
           old == Pointers(cwd, ftable, at, s)
           new == Pointers(cwd', ftable', at', s)
<1>2. old \in Nat /\ new \in Nat /\ new + w0 + f0 + p0 = old + w1 + f1 + p1
  <2>1. Moved(p, f, s, cwd, ftable, at, cwd', ftable', at')
    BY PointersChange DEF OnlyFile
  <2> QED BY <2>1 DEF Moved
<1>3. icache'[s].ref + w0 + f0 + p0 = icache[s].ref + w1 + f1 + p1
  BY DEF Even
<1>4. w0 \in Nat /\ w1 \in Nat /\ f0 \in Nat /\ f1 \in Nat /\ p0 \in Nat /\ p1 \in Nat
  BY SMT DEF One, Ptr
<1>5. icache'[s].ref \in Nat
  BY SMT DEF IsCache, IsEntry
<1> HIDE DEF w0, w1, f0, f1, p0, p1, old, new
<1>6. icache[s].ref = old
  BY <1>1 DEF old
<1>7. icache'[s].ref = new
  BY ONLY <1>2, <1>3, <1>4, <1>5, <1>6
<1> QED BY <1>7 DEF new

(* What a step of process p, to the frame nw, does with the locks. *)
Holds(p, nw, c, d) ==
  /\ \A s \in Slots :
       /\ s \in Held(nw) => d[s].lock = p
       /\ d[s].lock = p => s \in Held(nw) \cup Stuck(nw)
       /\ d[s].lock # c[s].lock => {c[s].lock, d[s].lock} \subseteq {None, p}
  /\ Keeps(nw) \cap Frees(nw) = {}

(* LocksExact after a step of process p. *)
LEMMA LocksStep ==
  ASSUME LocksExact, NEW p \in Procs, Holds(p, at'[p], icache, icache'),
         \A q \in Procs \ {p} : at'[q] = at[q]
  PROVE  LocksExact'
<1>1. ASSUME NEW s \in Slots
      PROVE  icache'[s].lock \in Procs \cup {None}
  BY SMT DEF Holds, LocksExact
<1>2. ASSUME NEW s \in Slots, NEW q \in Procs, s \in Held(at'[q])
      PROVE  icache'[s].lock = q
  <2>1. CASE q = p
    BY <1>2, <2>1 DEF Holds
  <2>2. CASE q # p
    <3>1. icache[s].lock = q
      BY <1>2, <2>2 DEF LocksExact, Held
    <3> QED BY <2>2, <3>1, FilesAssumption, SMT DEF Holds
  <2> QED BY <2>1, <2>2
<1>3. ASSUME NEW s \in Slots, NEW q \in Procs, icache'[s].lock = q
      PROVE  s \in Held(at'[q]) \cup Stuck(at'[q])
  <2>1. CASE q = p
    BY <1>3, <2>1 DEF Holds
  <2>2. CASE q # p
    <3>1. icache[s].lock = q
      BY <1>3, <2>2, FilesAssumption, SMT DEF Holds
    <3> QED BY <1>3, <2>2, <3>1 DEF LocksExact, Held
  <2> QED BY <2>1, <2>2
<1>4. ASSUME NEW q \in Procs
      PROVE  Keeps(at'[q]) \cap Frees(at'[q]) = {}
  BY <1>4 DEF Holds, LocksExact
<1> QED BY <1>1, <1>2, <1>3, <1>4 DEF LocksExact, Held

(* The frames after a step of process p. *)
LEMMA GotoIs ==
  ASSUME FilesTypeOK, NEW p \in Procs, NEW nw, Goto(p, nw)
  PROVE  /\ at'[p] = nw /\ \A q \in Procs \ {p} : at'[q] = at[q]
         /\ at' = [q \in Procs |-> at'[q]] /\ (Frame(nw) => \A q \in Procs : Frame(at'[q]))
<1>1. at' = [q \in Procs |-> IF q = p THEN nw ELSE at[q]]
  BY SMT DEF FilesTypeOK, Goto
<1>2. \A q \in Procs : at'[q] = IF q = p THEN nw ELSE at[q]
  BY <1>1, SMT
<1> QED BY <1>1, <1>2, SMT DEF FilesTypeOK

(* The counts, the log's operations and the files, in a step of process p. *)
Balanced(c, d, me, nw) == \A s \in Slots : d[s].ref + Ptr(me, s) = c[s].ref + Ptr(nw, s)

Logged(p, nw) ==
  /\ active \ {p} \subseteq active' /\ (nw.pc \in {"user", "write"} \/ p \in active')
  /\ active' = {} => stable' = disk'

FilesAlike(ft, gt) ==
  /\ gt = [f \in 1..NFILE |-> gt[f]]
  /\ \A f \in 1..NFILE : IsFile(gt[f]) /\ gt[f].ref = ft[f].ref /\ gt[f].ip = ft[f].ip

(* What holds after a step of process p whatever it does to files. *)
LEMMA CommonStep ==
  ASSUME IInv, NEW p \in Procs, NEW nw, Goto(p, nw), Frame(nw), Kept(icache, icache'),
         Holds(p, nw, icache, icache'), Logged(p, nw)
  PROVE  /\ IsCache(icache') /\ OneEntry' /\ LocksExact' /\ InOperation' /\ Committed'
         /\ at' = [q \in Procs |-> at'[q]] /\ \A q \in Procs : Frame(at'[q])
<1>1. /\ at'[p] = nw /\ \A q \in Procs \ {p} : at'[q] = at[q]
      /\ at' = [q \in Procs |-> at'[q]] /\ \A q \in Procs : Frame(at'[q])
  BY GotoIs DEF IInv
<1>2. IsCache(icache') /\ OneEntry'
  BY DEF Kept, Distinct, OneEntry, IInv
<1>3. LocksExact'
  BY <1>1, LocksStep DEF IInv
<1>4. InOperation'
  <2> SUFFICES ASSUME NEW q \in Procs, at'[q].pc \notin {"user", "write"}
               PROVE  q \in active'
    BY DEF InOperation
  <2>1. CASE q = p
    BY <1>1, <2>1 DEF Logged
  <2>2. CASE q # p
    BY <1>1, <2>2 DEF Logged, InOperation, IInv
  <2> QED BY <2>1, <2>2
<1>5. Committed'
  BY DEF Logged, Committed
<1> QED BY <1>1, <1>2, <1>3, <1>4, <1>5

(* A step keeps the invariant, and every entry in use keeps its inode. *)
StepOK == IInv' /\ InumsKept(icache, icache')

(* A step of process p that opens and closes nothing. *)
LEMMA CallStep ==
  ASSUME IInv, NEW p \in Procs, NEW nw, Goto(p, nw), Frame(nw), Kept(icache, icache'),
         Holds(p, nw, icache, icache'), Logged(p, nw), Balanced(icache, icache', at[p], nw),
         FilesAlike(ftable, ftable'), ofile' = ofile, cwd' = cwd
  PROVE  StepOK
<1>1. /\ IsCache(icache') /\ OneEntry' /\ LocksExact' /\ InOperation' /\ Committed'
      /\ at' = [q \in Procs |-> at'[q]] /\ \A q \in Procs : Frame(at'[q])
  BY CommonStep
<1>2. at'[p] = nw /\ \A q \in Procs \ {p} : at'[q] = at[q]
  BY GotoIs DEF IInv
<1>3. FilesTypeOK'
  BY <1>1 DEF FilesTypeOK, FilesAlike, IInv
<1>4. FilesCounted'
  BY DEF FilesCounted, FilesAlike, IInv
<1>5. RefsExact'
  <2>1. DOMAIN ftable = 1..NFILE /\ DOMAIN ftable' = 1..NFILE
    <3>1. DOMAIN ftable = 1..NFILE
      BY SMT DEF FilesTypeOK, IInv
    <3>2. DOMAIN ftable' = 1..NFILE
      BY SMT DEF FilesAlike
    <3> QED BY <3>1, <3>2, SMT
  <2>2. OnlyFile(0)
    BY <2>1 DEF OnlyFile, OpenAt, FilesAlike
  <2>3. \A s \in Slots : ~OpenAt(ftable, 0, s) /\ ~OpenAt(ftable', 0, s)
    BY <2>1, Numbers DEF OpenAt
  <2>4. Even(p, 0)
    <3> SUFFICES ASSUME NEW s \in Slots
                 PROVE  icache'[s].ref + One(cwd[p] = s) + One(OpenAt(ftable, 0, s)) + Ptr(at[p], s)
                          = icache[s].ref + One(cwd'[p] = s) + One(OpenAt(ftable', 0, s)) + Ptr(at'[p], s)
      BY DEF Even
    <3> DEFINE w == One(cwd[p] = s)
    <3>1. One(cwd'[p] = s) = w
      OBVIOUS
    <3>2. One(OpenAt(ftable, 0, s)) = 0 /\ One(OpenAt(ftable', 0, s)) = 0
      BY <2>3 DEF One
    <3>3. icache'[s].ref + Ptr(at[p], s) = icache[s].ref + Ptr(at'[p], s)
      BY <1>2 DEF Balanced
    <3>4. w \in Nat /\ Ptr(at[p], s) \in Nat /\ Ptr(at'[p], s) \in Nat
      BY SMT DEF One, Ptr
    <3>5. icache[s].ref \in Nat /\ icache'[s].ref \in Nat
      BY <1>1 DEF IsCache, IsEntry, FilesTypeOK, IInv
    <3> HIDE DEF w
    <3>6. icache'[s].ref + w + 0 + Ptr(at[p], s) = icache[s].ref + w + 0 + Ptr(at'[p], s)
      BY ONLY <3>3, <3>4, <3>5
    <3> QED BY <3>1, <3>2, <3>6 DEF w
  <2>5. IsCache(icache)
    BY DEF FilesTypeOK, IInv
  <2> QED BY <1>1, <1>2, <2>1, <2>2, <2>4, <2>5, RefsStep DEF IInv
<1> QED BY <1>1, <1>3, <1>4, <1>5 DEF IInv, StepOK, Kept

-----------------------------------------------------------------------------
(* The ways in which a step balances references and keeps locks *)

(* The reference count of an entry is a number. *)
LEMMA RefIsNat ==
  ASSUME NEW c, IsCache(c), NEW s \in Slots
  PROVE  c[s].ref \in Nat
BY DEF IsCache, IsEntry

(* So is the number of pointers of a call. *)
LEMMA PtrIsNat ==
  ASSUME NEW me, NEW s
  PROVE  Ptr(me, s) \in Nat
BY SMT DEF Ptr, One

(* No reference is made or dropped. *)
LEMMA BalancedSame ==
  ASSUME NEW c, NEW d, NEW me, NEW nw, SameRefs(c, d), \A s \in Slots : Ptr(nw, s) = Ptr(me, s)
  PROVE  Balanced(c, d, me, nw)
BY DEF Balanced, SameRefs

(* One is made, to entry t. *)
LEMMA BalancedMore ==
  ASSUME NEW c, NEW d, NEW me, NEW nw, NEW t, IsCache(c), RefAdded(c, d, t),
         \A s \in Slots : Ptr(nw, s) = Ptr(me, s) + One(s = t)
  PROVE  Balanced(c, d, me, nw)
<1> SUFFICES ASSUME NEW s \in Slots
             PROVE  d[s].ref + Ptr(me, s) = c[s].ref + Ptr(nw, s)
  BY DEF Balanced
<1>1. d[s].ref = c[s].ref + One(s = t) /\ Ptr(nw, s) = Ptr(me, s) + One(s = t)
  BY DEF RefAdded
<1>2. c[s].ref \in Nat /\ Ptr(me, s) \in Nat
  BY RefIsNat, PtrIsNat
<1>3. PICK x \in Nat : x = One(s = t)
  BY SMT DEF One
<1> QED BY ONLY <1>1, <1>2, <1>3

(* One is dropped, to entry t. *)
LEMMA BalancedLess ==
  ASSUME NEW c, NEW d, NEW me, NEW nw, NEW t, IsCache(d), RefAdded(d, c, t),
         \A s \in Slots : Ptr(me, s) = Ptr(nw, s) + One(s = t)
  PROVE  Balanced(c, d, me, nw)
<1> SUFFICES ASSUME NEW s \in Slots
             PROVE  d[s].ref + Ptr(me, s) = c[s].ref + Ptr(nw, s)
  BY DEF Balanced
<1>1. c[s].ref = d[s].ref + One(s = t) /\ Ptr(me, s) = Ptr(nw, s) + One(s = t)
  BY DEF RefAdded
<1>2. d[s].ref \in Nat /\ Ptr(nw, s) \in Nat
  BY RefIsNat, PtrIsNat
<1>3. PICK x \in Nat : x = One(s = t)
  BY SMT DEF One
<1> QED BY ONLY <1>1, <1>2, <1>3

(* The lock of an entry is taken and given back as the frames say. *)
LEMMA HoldsIf ==
  ASSUME LocksExact, NEW p \in Procs, NEW d, NEW nw, \A s \in Stuck(at[p]) : Unlocked(s),
         Keeps(nw) \cap Frees(nw) = {},
         \A s \in Slots : s \in Held(nw) => d[s].lock = p /\ icache[s].lock \in {None, p},
         \A s \in Slots : s \notin Held(nw) /\ s \in Held(at[p]) => d[s].lock = None,
         \A s \in Slots : s \notin Held(nw) /\ s \notin Held(at[p]) => d[s].lock = icache[s].lock
  PROVE  Holds(p, nw, icache, d)
<1> SUFFICES ASSUME NEW s \in Slots
             PROVE  /\ s \in Held(nw) => d[s].lock = p
                    /\ d[s].lock = p => s \in Held(nw) \cup Stuck(nw)
                    /\ d[s].lock # icache[s].lock => {icache[s].lock, d[s].lock} \subseteq {None, p}
  BY DEF Holds
<1>1. None # p
  BY FilesAssumption
<1>2. s \in Held(at[p]) => icache[s].lock = p
  BY DEF LocksExact, Held
<1>3. icache[s].lock = p => s \in Held(at[p])
  BY <1>1 DEF LocksExact, Held, Unlocked
<1>4. CASE s \in Held(nw)
  BY <1>4
<1>5. CASE s \notin Held(nw) /\ s \in Held(at[p])
  BY <1>1, <1>2, <1>5
<1>6. CASE s \notin Held(nw) /\ s \notin Held(at[p])
  BY <1>1, <1>3, <1>6
<1> QED BY <1>4, <1>5, <1>6

(* No lock is taken or given back. *)
LEMMA HoldsSame ==
  ASSUME LocksExact, NEW p \in Procs, NEW d, NEW nw, \A s \in Stuck(at[p]) : Unlocked(s),
         Keeps(nw) \cap Frees(nw) = {}, Held(nw) = Held(at[p]), SameLocks(icache, d)
  PROVE  Holds(p, nw, icache, d)
<1>1. \A s \in Slots : s \in Held(nw) => d[s].lock = p /\ icache[s].lock \in {None, p}
  BY DEF LocksExact, Held, SameLocks
<1> QED BY <1>1, HoldsIf DEF SameLocks

(* The process stays where it is. *)
LEMMA HoldsStay ==
  ASSUME LocksExact, NEW p \in Procs, NEW d, SameLocks(icache, d)
  PROVE  Holds(p, at[p], icache, d)
BY DEF LocksExact, Held, SameLocks, Holds

(* It stays, with a lock that it has taken. *)
LEMMA HoldsStuck ==
  ASSUME LocksExact, NEW p \in Procs, NEW d, NEW s \in Slots, s \in Stuck(at[p]), Unlocked(s),
         LockSet(icache, d, s, p)
  PROVE  Holds(p, at[p], icache, d)
BY DEF LocksExact, Held, LockSet, Holds, Unlocked

(* The lock of entry s is taken. *)
LEMMA HoldsTake ==
  ASSUME LocksExact, NEW p \in Procs, NEW d, NEW nw, \A t \in Stuck(at[p]) : Unlocked(t),
         Keeps(nw) \cap Frees(nw) = {}, NEW s \in Slots, Unlocked(s), Held(nw) = Held(at[p]) \cup {s},
         LockSet(icache, d, s, p)
  PROVE  Holds(p, nw, icache, d)
<1>1. \A t \in Slots : t \in Held(nw) => d[t].lock = p /\ icache[t].lock \in {None, p}
  BY DEF LocksExact, Held, LockSet, Unlocked
<1>2. \A t \in Slots : t \notin Held(nw) => d[t].lock = icache[t].lock
  BY DEF LockSet
<1> QED BY <1>1, <1>2, HoldsIf

(* The lock of entry s is given back. *)
LEMMA HoldsGive ==
  ASSUME LocksExact, NEW p \in Procs, NEW d, NEW nw, Stuck(at[p]) = {},
         Keeps(nw) \cap Frees(nw) = {}, NEW s \in Slots, Held(at[p]) = Held(nw) \cup {s}, s \notin Held(nw),
         LockSet(icache, d, s, None)
  PROVE  Holds(p, nw, icache, d)
<1>1. \A t \in Slots : t \in Held(nw) => d[t].lock = p /\ icache[t].lock \in {None, p}
  BY DEF LocksExact, Held, LockSet
<1>2. \A t \in Slots : t \notin Held(nw) => d[t].lock = IF t \in Held(at[p]) THEN None ELSE icache[t].lock
  BY DEF LockSet
<1> QED BY <1>1, <1>2, HoldsIf

-----------------------------------------------------------------------------
(* Frames *)

Is(nw, pc, op, ip, dp, put, then) ==
  /\ IsFrame(nw) /\ nw.pc = pc /\ nw.op = op
  /\ nw.ip = ip /\ nw.dp = dp /\ nw.put = put /\ nw.then = then

PutIp(me, t) == Put([me EXCEPT !.ip = 0], me.ip, t)
PutDp(me, t) == Put([me EXCEPT !.dp = 0], me.dp, t)

(* iput(ip) and iput(dp) *)
LEMMA PutIpIs ==
  ASSUME NEW me, IsFrame(me), NEW t
  PROVE  Is(PutIp(me, t), "iput", me.op, 0, me.dp, me.ip, t)
BY FrameFields DEF Is, IsFrame, PutIp, Put

(* The frame of a call that leaves for iput(dp). *)
LEMMA PutDpIs ==
  ASSUME NEW me, IsFrame(me), NEW t
  PROVE  Is(PutDp(me, t), "iput", me.op, me.ip, 0, me.dp, t)
BY FrameFields DEF Is, IsFrame, PutDp, Put

(* A call that leaves for iput(ip) has the pointers it had. *)
LEMMA PutIpPtr ==
  ASSUME NEW me, IsFrame(me), me.put = 0, NEW t
  PROVE  \A s \in Slots : Ptr(PutIp(me, t), s) = Ptr(me, s)
<1> TAKE s \in Slots
<1>1. s # 0
  BY Numbers
<1> PICK nw : nw = PutIp(me, t)
  OBVIOUS
<1>2. nw.ip = 0 /\ nw.dp = me.dp /\ nw.put = me.ip
  <2>1. Is(nw, "iput", me.op, 0, me.dp, me.ip, t)
    BY PutIpIs
  <2> QED BY <2>1 DEF Is
<1>3. me.put = 0
  OBVIOUS
<1> DEFINE i == One(me.ip = s)
           d == One(me.dp = s)
<1>4. Ptr(me, s) = i + d + 0 /\ Ptr(nw, s) = 0 + d + i
  <2>1. One(me.put = s) = 0 /\ One(nw.ip = s) = 0
    BY <1>1, <1>2, <1>3 DEF One
  <2> QED BY <1>2, <2>1 DEF Ptr
<1>5. i \in Nat /\ d \in Nat
  BY SMT DEF One
<1>6. Ptr(nw, s) = Ptr(me, s)
  <2> HIDE DEF i, d
  <2> QED BY ONLY <1>4, <1>5
<1> QED BY <1>6

(* A call that leaves for iput(dp) has the pointers it had. *)
LEMMA PutDpPtr ==
  ASSUME NEW me, IsFrame(me), me.put = 0, NEW t
  PROVE  \A s \in Slots : Ptr(PutDp(me, t), s) = Ptr(me, s)
<1> TAKE s \in Slots
<1>1. s # 0
  BY Numbers
<1> PICK nw : nw = PutDp(me, t)
  OBVIOUS
<1>2. nw.ip = me.ip /\ nw.dp = 0 /\ nw.put = me.dp
  <2>1. Is(nw, "iput", me.op, me.ip, 0, me.dp, t)
    BY PutDpIs
  <2> QED BY <2>1 DEF Is
<1>3. me.put = 0
  OBVIOUS
<1> DEFINE i == One(me.ip = s)
           d == One(me.dp = s)
<1>4. Ptr(me, s) = i + d + 0 /\ Ptr(nw, s) = i + 0 + d
  <2>1. One(me.put = s) = 0 /\ One(nw.dp = s) = 0
    BY <1>1, <1>2, <1>3 DEF One
  <2> QED BY <1>2, <2>1 DEF Ptr
<1>5. i \in Nat /\ d \in Nat
  BY SMT DEF One
<1>6. Ptr(nw, s) = Ptr(me, s)
  <2> HIDE DEF i, d
  <2> QED BY ONLY <1>4, <1>5
<1> QED BY <1>6

(* Outside of iput(), and inside it. *)
LEMMA Outside ==
  ASSUME NEW me, Frame(me), me.pc \notin Putting
  PROVE  IsFrame(me) /\ me.put = 0 /\ After(me) = me.pc /\ Frees(me) = {}
BY DEF Frame, After, Frees, Putting

(* A call inside of iput() goes on at its place of return. *)
LEMMA Inside ==
  ASSUME NEW me, Frame(me), me.pc \in Putting
  PROVE  IsFrame(me) /\ me.put \in Slots /\ After(me) = me.then
BY DEF Frame, After, Putting

(* A call that is in an operation of the log goes on in it. *)
LEMMA CallOn ==
  ASSUME IInv, NEW p \in Procs, NEW nw, at[p].pc \notin {"user", "write"}, active' = active,
         ftable' = ftable, ofile' = ofile, cwd' = cwd, Goto(p, nw), Frame(nw), Kept(icache, icache'),
         Holds(p, nw, icache, icache'), Balanced(icache, icache', at[p], nw)
  PROVE  StepOK
<1>1. p \in active
  BY DEF InOperation, IInv
<1>2. Logged(p, nw)
  BY <1>1 DEF Logged
<1>3. FilesAlike(ftable, ftable')
  BY DEF FilesAlike, FilesTypeOK, IInv
<1> QED BY <1>2, <1>3, CallStep

(* A call that stays where it is. *)
LEMMA StayIn ==
  ASSUME IInv, NEW p \in Procs, at' = at
  PROVE  Goto(p, at[p]) /\ Frame(at[p])
<1>1. at = [at EXCEPT ![p] = at[p]]
  BY SMT DEF FilesTypeOK, IInv
<1> QED BY <1>1 DEF Goto, FilesTypeOK, IInv

(* A call that panics stays where it is, and changes no count. *)
LEMMA CallPanics ==
  ASSUME IInv, NEW p \in Procs, at[p].pc \notin {"user", "write"}, active' = active,
         ftable' = ftable, ofile' = ofile, cwd' = cwd, at' = at, Kept(icache, icache'),
         Holds(p, at[p], icache, icache'), SameRefs(icache, icache')
  PROVE  StepOK
<1>1. Balanced(icache, icache', at[p], at[p])
  BY BalancedSame
<1> QED BY <1>1, StayIn, CallOn

(* An entry that a call or a current directory points to is in use. *)
LEMMA InUse ==
  ASSUME IInv, NEW p \in Procs, NEW s \in Slots, s \in {cwd[p], at[p].ip, at[p].dp, at[p].put}
  PROVE  icache[s].ref > 0
<1>1. ASSUME NEW S, S \subseteq Procs
      PROVE  Cardinality(S) \in Nat /\ (S # {} => Cardinality(S) > 0)
  <2>1. IsFiniteSet(S)
    BY <1>1, Numbers, FS_Subset
  <2>2. Cardinality(S) \in Nat /\ (S # {} => Cardinality(S) # 0)
    BY <2>1, FS_CardinalityType, FS_EmptySet
  <2> QED BY <2>2, SMT
<1> DEFINE W == {q \in Procs : cwd[q] = s}
           F == {f \in DOMAIN ftable : ftable[f].ref > 0 /\ ftable[f].ip = s}
           I == {q \in Procs : at[q].ip = s}
           D == {q \in Procs : at[q].dp = s}
           P == {q \in Procs : at[q].put = s}
<1>2. icache[s].ref = Cardinality(W) + Cardinality(F) + Cardinality(I) + Cardinality(D) + Cardinality(P)
  BY DEF IInv, RefsExact
<1>3. W \subseteq Procs /\ I \subseteq Procs /\ D \subseteq Procs /\ P \subseteq Procs
  OBVIOUS
<1>4. W # {} \/ I # {} \/ D # {} \/ P # {}
  OBVIOUS
<1>5. Cardinality(F) \in Nat
  <2>1. F \subseteq 1..NFILE
    <3>1. DOMAIN ftable = 1..NFILE
      BY SMT DEF IInv, FilesTypeOK
    <3> QED BY <3>1
  <2> HIDE DEF F
  <2>2. IsFiniteSet(F)
    BY <2>1, Numbers, FS_Subset
  <2> QED BY <2>2, FS_CardinalityType
<1> HIDE DEF W, F, I, D, P
<1>6. /\ Cardinality(W) \in Nat /\ (W # {} => Cardinality(W) > 0)
      /\ Cardinality(I) \in Nat /\ (I # {} => Cardinality(I) > 0)
      /\ Cardinality(D) \in Nat /\ (D # {} => Cardinality(D) > 0)
      /\ Cardinality(P) \in Nat /\ (P # {} => Cardinality(P) > 0)
  BY <1>1, <1>3
<1> QED BY ONLY <1>2, <1>4, <1>5, <1>6

(* Only pc changes. *)
LEMMA PcIs ==
  ASSUME NEW me, IsFrame(me), NEW x, NEW nw, nw = [me EXCEPT !.pc = x]
  PROVE  Is(nw, x, me.op, me.ip, me.dp, me.put, me.then)
BY FrameFields, SMT DEF Is, IsFrame

(* A step from one place in iput() to another. *)
LEMMA PuttingOn ==
  ASSUME NEW me, Frame(me), me.pc \in Putting, NEW x \in Putting, NEW nw,
         Is(nw, x, me.op, me.ip, me.dp, me.put, me.then)
  PROVE  /\ Frame(nw) /\ Keeps(nw) = Keeps(me) /\ Stuck(me) = {}
         /\ \A s \in Slots : Ptr(nw, s) = Ptr(me, s)
<1>1. nw.op = me.op /\ nw.ip = me.ip /\ nw.dp = me.dp /\ nw.put = me.put /\ nw.pc = x
  BY DEF Is
<1>2. After(nw) = After(me)
  BY DEF After, Is
<1>3. nw.pc # "putip"
  BY <1>1 DEF Putting
<1>4. IsFrame(nw)
  BY DEF Is
<1>5. HasIp(nw) <=> HasIp(me)
  BY <1>1, <1>2 DEF HasIp
<1>6. HasDp(nw) <=> HasDp(me)
  BY <1>2 DEF HasDp
<1>7. Frame(nw)
  BY <1>1, <1>2, <1>3, <1>4, <1>5, <1>6 DEF Frame
<1>8. Keeps(nw) = Keeps(me)
  BY <1>1, <1>2 DEF Keeps
<1>9. Stuck(me) = {}
  BY DEF Stuck, Putting
<1> QED BY <1>1, <1>7, <1>8, <1>9 DEF Ptr

(* iput(), up to its decision. *)
LEMMA IputStep ==
  ASSUME IInv, NEW p \in Procs, Iput(p)
  PROVE  StepOK
<1> PICK me : me = at[p]
  OBVIOUS
<1> PICK s : s = me.put
  OBVIOUS
<1>1. /\ me.pc = "iput" /\ Unlocked(s) /\ UNCHANGED <<active, ftable, ofile, cwd>>
      /\ \/ icache' = [icache EXCEPT ![s].lock = p] /\ Goto(p, [me EXCEPT !.pc = "free"])
         \/ icache' = icache /\ Goto(p, [me EXCEPT !.pc = "deref"])
  BY DEF Iput, At, disks
<1>2. Frame(me) /\ me.pc \in Putting /\ me.pc \notin {"user", "write"} /\ s \in Slots
  BY <1>1, Inside DEF IInv, FilesTypeOK, Putting
<1>3. IsFrame(me) /\ IsCache(icache)
  BY <1>2, Inside DEF IInv, FilesTypeOK
<1>4. Frees(me) = {}
  BY <1>1 DEF Frees
<1>5. CASE icache' = [icache EXCEPT ![s].lock = p] /\ Goto(p, [me EXCEPT !.pc = "free"])
  <2> PICK nw : nw = [me EXCEPT !.pc = "free"]
    OBVIOUS
  <2>1. Is(nw, "free", me.op, me.ip, me.dp, me.put, me.then)
    BY <1>3, PcIs
  <2>2. /\ Frame(nw) /\ Keeps(nw) = Keeps(me) /\ Stuck(me) = {}
        /\ \A t \in Slots : Ptr(nw, t) = Ptr(me, t)
    <3>1. "free" \in Putting
      BY DEF Putting
    <3> QED BY <1>2, <2>1, <3>1, PuttingOn, SMT
  <2>3. Kept(icache, icache') /\ SameRefs(icache, icache') /\ LockSet(icache, icache', s, p)
    BY <1>2, <1>3, <1>5, LockIs
  <2>4. Frees(nw) = {s}
    BY <2>1 DEF Is, Frees
  <2>5. s \notin Keeps(me)
    BY <1>1, <1>2, FilesAssumption DEF IInv, LocksExact, Unlocked
  <2>6. Held(nw) = Held(me) \cup {s} /\ Keeps(nw) \cap Frees(nw) = {}
    BY <1>4, <2>2, <2>4, <2>5 DEF Held
  <2>7. Holds(p, nw, icache, icache')
    BY <1>1, <1>2, <2>2, <2>3, <2>6, HoldsTake DEF IInv
  <2>8. Balanced(icache, icache', me, nw)
    BY <2>2, <2>3, BalancedSame
  <2> QED BY <1>1, <1>2, <1>5, <2>2, <2>3, <2>7, <2>8, CallOn
<1>6. CASE icache' = icache /\ Goto(p, [me EXCEPT !.pc = "deref"])
  <2> PICK nw : nw = [me EXCEPT !.pc = "deref"]
    OBVIOUS
  <2>1. Is(nw, "deref", me.op, me.ip, me.dp, me.put, me.then)
    BY <1>3, PcIs
  <2>2. /\ Frame(nw) /\ Keeps(nw) = Keeps(me) /\ Stuck(me) = {}
        /\ \A t \in Slots : Ptr(nw, t) = Ptr(me, t)
    <3>1. "deref" \in Putting
      BY DEF Putting
    <3> QED BY <1>2, <2>1, <3>1, PuttingOn, SMT
  <2>3. Kept(icache, icache') /\ SameRefs(icache, icache') /\ SameLocks(icache, icache')
    BY <1>3, <1>6 DEF Kept, InumsKept, SameRefs, SameLocks
  <2>4. Frees(nw) = {}
    BY <2>1 DEF Is, Frees
  <2>5. Held(nw) = Held(me) /\ Keeps(nw) \cap Frees(nw) = {}
    BY <1>4, <2>2, <2>4 DEF Held
  <2>6. Holds(p, nw, icache, icache')
    BY <2>2, <2>3, <2>5, HoldsSame DEF IInv
  <2>7. Balanced(icache, icache', me, nw)
    BY <2>2, <2>3, BalancedSame
  <2> QED BY <1>1, <1>2, <1>6, <2>2, <2>3, <2>6, <2>7, CallOn
<1> QED BY <1>1, <1>5, <1>6

(* A cache that does not change keeps everything. *)
LEMMA SameCache ==
  ASSUME NEW c, IsCache(c)
  PROVE  Kept(c, c) /\ SameRefs(c, c) /\ SameLocks(c, c)
BY DEF Kept, InumsKept, SameRefs, SameLocks

-----------------------------------------------------------------------------
(* Leaving for iput(ip) or iput(dp) *)

(* The places from which a call leaves, and those at which it goes on. *)
IpSame == {<<"open", "end">>, <<"exists", "end">>, <<"link", "end">>, <<"unlinked", "end">>,
           <<"chdir", "end">>, <<"victim", "refuse">>}
IpGive == {<<"created", "end">>, <<"drop", "end">>}
DpSame == {<<"relink", "putip">>, <<"unlink", "end">>}
DpGive == {<<"dup", "unlinked">>, <<"refuse", "end">>}
DpSwap == {<<"made", "created">>, <<"victim", "drop">>}

(* iput(ip) *)
LeavesIp(me, nw, t) ==
  /\ Frame(nw) /\ me.ip \in Slots /\ Is(nw, "iput", me.op, 0, me.dp, me.ip, t)
  /\ \A s \in Slots : Ptr(nw, s) = Ptr(me, s)
  /\ me.pc \notin Putting \cup {"user", "write"} /\ Stuck(me) = {} /\ Frees(nw) = {} /\ Frees(me) = {}

(* The frames at which iput(ip) is called. *)
LEMMA PutIpFrame ==
  ASSUME NEW me, Frame(me), NEW t, <<me.pc, t>> \in IpSame \cup IpGive, NEW nw, nw = PutIp(me, t)
  PROVE  LeavesIp(me, nw, t)
<1>1. me.pc \notin Putting \cup {"user", "write"} /\ Stuck(me) = {} /\ t \notin Putting \cup IpPlaces \cup {"namex"}
  BY SMT DEF IpSame, IpGive, Putting, IpPlaces, Stuck
<1>2. IsFrame(me) /\ me.put = 0 /\ After(me) = me.pc /\ Frees(me) = {}
  BY <1>1, Outside
<1>3. Is(nw, "iput", me.op, 0, me.dp, me.ip, t)
  BY <1>2, PutIpIs
<1>4. \A s \in Slots : Ptr(nw, s) = Ptr(me, s)
  BY <1>2, PutIpPtr
<1>5. After(nw) = t
  BY <1>3 DEF Is, After, Putting
<1>6. HasIp(me)
  BY <1>2, SMT DEF IpSame, IpGive, HasIp, IpPlaces
<1>7. HasDp(nw) <=> HasDp(me)
  BY <1>2, <1>5, SMT DEF IpSame, IpGive, HasDp, DpPlaces
<1>8. me.ip \in Slots
  BY <1>6 DEF Frame
<1>9. ~HasIp(nw)
  BY <1>1, <1>5 DEF HasIp
<1>10. Frees(nw) = {}
  BY <1>3 DEF Is, Frees
<1>11. Frame(nw)
  <2>1. nw.dp \in (IF HasDp(nw) THEN Slots ELSE {0})
    BY <1>3, <1>7 DEF Is, Frame
  <2>2. nw.put \in (IF nw.pc \in Putting THEN Slots ELSE {0})
    BY <1>3, <1>8 DEF Is, Putting
  <2>3. nw.ip \in (IF HasIp(nw) THEN Slots ELSE {0})
    BY <1>3, <1>9 DEF Is
  <2>4. IsFrame(nw) /\ nw.pc # "putip"
    BY <1>3 DEF Is
  <2> QED BY <1>1, <1>5, <2>1, <2>2, <2>3, <2>4 DEF Frame
<1> QED BY <1>1, <1>2, <1>3, <1>4, <1>8, <1>10, <1>11 DEF LeavesIp

(* iput(dp) *)
LeavesDp(me, nw, t) ==
  /\ Frame(nw) /\ me.dp \in Slots /\ Is(nw, "iput", me.op, me.ip, 0, me.dp, t)
  /\ \A s \in Slots : Ptr(nw, s) = Ptr(me, s)
  /\ me.pc \notin Putting \cup {"user", "write"} /\ Frees(nw) = {} /\ Frees(me) = {}

(* The frames at which iput(dp) is called. *)
LEMMA PutDpFrame ==
  ASSUME NEW me, Frame(me), NEW t, NEW nw, nw = PutDp(me, t),
         \/ <<me.pc, t>> \in DpSame \cup DpGive \cup DpSwap
         \/ me.pc = "namex" /\ t = Failed(me)
  PROVE  LeavesDp(me, nw, t)
<1>1. me.pc \notin Putting \cup {"user", "write"} /\ t \notin Putting \cup DpPlaces
  BY SMT DEF DpSame, DpGive, DpSwap, Putting, DpPlaces, Failed
<1>2. IsFrame(me) /\ me.put = 0 /\ After(me) = me.pc /\ Frees(me) = {}
  BY <1>1, Outside
<1>3. Is(nw, "iput", me.op, me.ip, 0, me.dp, t)
  BY <1>2, PutDpIs
<1>4. \A s \in Slots : Ptr(nw, s) = Ptr(me, s)
  BY <1>2, PutDpPtr
<1>5. After(nw) = t
  BY <1>3 DEF Is, After, Putting
<1>6. HasDp(me)
  BY <1>2, SMT DEF DpSame, DpGive, DpSwap, HasDp, DpPlaces
<1>7. HasIp(nw) <=> HasIp(me)
  <2>1. nw.op = me.op
    BY <1>3 DEF Is
  <2> QED BY <1>2, <1>5, <2>1, SMT DEF DpSame, DpGive, DpSwap, HasIp, IpPlaces, Failed
<1>8. me.dp \in Slots
  BY <1>6 DEF Frame
<1>9. ~HasDp(nw) /\ t # "namex"
  BY <1>1, <1>5 DEF HasDp, DpPlaces
<1>10. Frees(nw) = {}
  BY <1>3 DEF Is, Frees
<1>11. Frame(nw)
  <2>1. nw.ip \in (IF HasIp(nw) THEN Slots ELSE {0})
    BY <1>3, <1>7 DEF Is, Frame
  <2>2. nw.put \in (IF nw.pc \in Putting THEN Slots ELSE {0})
    BY <1>3, <1>8 DEF Is, Putting
  <2>3. nw.dp \in (IF HasDp(nw) THEN Slots ELSE {0})
    BY <1>3, <1>9 DEF Is
  <2>4. IsFrame(nw) /\ nw.pc # "putip"
    BY <1>3 DEF Is
  <2> QED BY <1>1, <1>5, <1>9, <2>1, <2>2, <2>3, <2>4 DEF Frame
<1> QED BY <1>1, <1>2, <1>3, <1>4, <1>8, <1>10, <1>11 DEF LeavesDp

(* A call that leaves for iput(ip), and keeps its locks. *)
LEMMA PutIpSame ==
  ASSUME IInv, NEW p \in Procs, NEW t, <<at[p].pc, t>> \in IpSame, Goto(p, PutIp(at[p], t)),
         active' = active, ftable' = ftable, ofile' = ofile, cwd' = cwd,
         Kept(icache, icache'), SameRefs(icache, icache'), SameLocks(icache, icache')
  PROVE  StepOK
<1> PICK me : me = at[p]
  OBVIOUS
<1> PICK nw : nw = PutIp(me, t)
  OBVIOUS
<1>1. Frame(me)
  BY DEF IInv, FilesTypeOK
<1>2. /\ Frame(nw) /\ me.ip \in Slots /\ Is(nw, "iput", me.op, 0, me.dp, me.ip, t)
      /\ \A s \in Slots : Ptr(nw, s) = Ptr(me, s)
      /\ me.pc \notin Putting \cup {"user", "write"} /\ Stuck(me) = {} /\ Frees(nw) = {} /\ Frees(me) = {}
  <2>1. LeavesIp(me, nw, t)
    BY <1>1, PutIpFrame
  <2> QED BY <2>1 DEF LeavesIp
<1>3. Keeps(nw) = Keeps(me)
  <2>1. nw.dp = me.dp /\ nw.pc = "iput" /\ nw.then = t
    BY <1>2 DEF Is
  <2> QED BY <2>1, SMT DEF Keeps, After, Putting, IpSame
<1>4. Holds(p, nw, icache, icache')
  BY <1>2, <1>3, HoldsSame DEF IInv, Held
<1>5. Balanced(icache, icache', me, nw)
  BY <1>2, BalancedSame
<1> QED BY <1>2, <1>4, <1>5, CallOn

(* A call that leaves for iput(ip), and unlocks it. *)
LEMMA PutIpGive ==
  ASSUME IInv, NEW p \in Procs, NEW t, <<at[p].pc, t>> \in IpGive, Goto(p, PutIp(at[p], t)),
         active' = active, ftable' = ftable, ofile' = ofile, cwd' = cwd,
         Kept(icache, icache'), SameRefs(icache, icache'), LockSet(icache, icache', at[p].ip, None)
  PROVE  StepOK
<1> PICK me : me = at[p]
  OBVIOUS
<1> PICK nw : nw = PutIp(me, t)
  OBVIOUS
<1>1. Frame(me)
  BY DEF IInv, FilesTypeOK
<1>2. /\ Frame(nw) /\ me.ip \in Slots /\ Is(nw, "iput", me.op, 0, me.dp, me.ip, t)
      /\ \A s \in Slots : Ptr(nw, s) = Ptr(me, s)
      /\ me.pc \notin Putting \cup {"user", "write"} /\ Stuck(me) = {} /\ Frees(nw) = {} /\ Frees(me) = {}
  <2>1. LeavesIp(me, nw, t)
    BY <1>1, PutIpFrame
  <2> QED BY <2>1 DEF LeavesIp
<1>3. Keeps(nw) = {} /\ Keeps(me) = {me.ip}
  <2>1. nw.pc = "iput" /\ nw.then = t
    BY <1>2 DEF Is
  <2> QED BY <2>1, SMT DEF Keeps, After, Putting, IpGive
<1>4. Holds(p, nw, icache, icache')
  BY <1>2, <1>3, HoldsGive DEF IInv, Held
<1>5. Balanced(icache, icache', me, nw)
  BY <1>2, BalancedSame
<1> QED BY <1>2, <1>4, <1>5, CallOn

(* A call that leaves for iput(dp), and keeps its locks. *)
LEMMA PutDpSame ==
  ASSUME IInv, NEW p \in Procs, NEW t, Goto(p, PutDp(at[p], t)),
         <<at[p].pc, t>> \in DpSame \/ (at[p].pc = "namex" /\ t = Failed(at[p])),
         \A s \in Stuck(at[p]) : Unlocked(s),
         active' = active, ftable' = ftable, ofile' = ofile, cwd' = cwd,
         Kept(icache, icache'), SameRefs(icache, icache'), SameLocks(icache, icache')
  PROVE  StepOK
<1> PICK me : me = at[p]
  OBVIOUS
<1> PICK nw : nw = PutDp(me, t)
  OBVIOUS
<1>1. Frame(me)
  BY DEF IInv, FilesTypeOK
<1>2. /\ Frame(nw) /\ me.dp \in Slots /\ Is(nw, "iput", me.op, me.ip, 0, me.dp, t)
      /\ \A s \in Slots : Ptr(nw, s) = Ptr(me, s)
      /\ me.pc \notin Putting \cup {"user", "write"} /\ Frees(nw) = {} /\ Frees(me) = {}
  <2>1. LeavesDp(me, nw, t)
    BY <1>1, PutDpFrame
  <2> QED BY <2>1 DEF LeavesDp
<1>3. Keeps(nw) = {} /\ Keeps(me) = {}
  <2>1. nw.pc = "iput" /\ nw.then = t
    BY <1>2 DEF Is
  <2> QED BY <2>1, SMT DEF Keeps, After, Putting, DpSame, Failed
<1>4. Holds(p, nw, icache, icache')
  BY <1>2, <1>3, HoldsSame DEF IInv, Held
<1>5. Balanced(icache, icache', me, nw)
  BY <1>2, BalancedSame
<1> QED BY <1>2, <1>4, <1>5, CallOn

(* A call that leaves for iput(dp), and unlocks it. *)
LEMMA PutDpGive ==
  ASSUME IInv, NEW p \in Procs, NEW t, <<at[p].pc, t>> \in DpGive, Goto(p, PutDp(at[p], t)),
         active' = active, ftable' = ftable, ofile' = ofile, cwd' = cwd,
         Kept(icache, icache'), SameRefs(icache, icache'), LockSet(icache, icache', at[p].dp, None)
  PROVE  StepOK
<1> PICK me : me = at[p]
  OBVIOUS
<1> PICK nw : nw = PutDp(me, t)
  OBVIOUS
<1>1. Frame(me)
  BY DEF IInv, FilesTypeOK
<1>2. /\ Frame(nw) /\ me.dp \in Slots /\ Is(nw, "iput", me.op, me.ip, 0, me.dp, t)
      /\ \A s \in Slots : Ptr(nw, s) = Ptr(me, s)
      /\ me.pc \notin Putting \cup {"user", "write"} /\ Frees(nw) = {} /\ Frees(me) = {}
  <2>1. LeavesDp(me, nw, t)
    BY <1>1, PutDpFrame
  <2> QED BY <2>1 DEF LeavesDp
<1>3. Keeps(nw) = {} /\ Keeps(me) = {me.dp} /\ Stuck(me) = {}
  <2>1. nw.pc = "iput" /\ nw.then = t
    BY <1>2 DEF Is
  <2> QED BY <2>1, SMT DEF Keeps, After, Putting, DpGive, Stuck
<1>4. Holds(p, nw, icache, icache')
  BY <1>2, <1>3, HoldsGive DEF IInv, Held
<1>5. Balanced(icache, icache', me, nw)
  BY <1>2, BalancedSame
<1> QED BY <1>2, <1>4, <1>5, CallOn

(* A call that leaves for iput(dp), unlocks it, and has locked ip. *)
LEMMA PutDpSwap ==
  ASSUME IInv, NEW p \in Procs, NEW t, <<at[p].pc, t>> \in DpSwap, Goto(p, PutDp(at[p], t)),
         Unlocked(at[p].ip), NEW c, LockSet(icache, c, at[p].dp, None), LockSet(c, icache', at[p].ip, p),
         active' = active, ftable' = ftable, ofile' = ofile, cwd' = cwd,
         Kept(icache, icache'), SameRefs(icache, icache')
  PROVE  StepOK
<1> PICK me : me = at[p]
  OBVIOUS
<1> PICK nw : nw = PutDp(me, t)
  OBVIOUS
<1>1. Frame(me)
  BY DEF IInv, FilesTypeOK
<1>2. /\ Frame(nw) /\ me.dp \in Slots /\ Is(nw, "iput", me.op, me.ip, 0, me.dp, t)
      /\ \A s \in Slots : Ptr(nw, s) = Ptr(me, s)
      /\ me.pc \notin Putting \cup {"user", "write"} /\ Frees(nw) = {} /\ Frees(me) = {}
  <2>1. LeavesDp(me, nw, t)
    BY <1>1, PutDpFrame
  <2> QED BY <2>1 DEF LeavesDp
<1>3. Keeps(nw) = {me.ip} /\ Keeps(me) = {me.dp} /\ Stuck(me) = {}
  <2>1. nw.pc = "iput" /\ nw.then = t /\ nw.ip = me.ip
    BY <1>2 DEF Is
  <2> QED BY <2>1, SMT DEF Keeps, After, Putting, DpSwap, Stuck
<1>4. Holds(p, nw, icache, icache')
  <2>1. Held(nw) = {me.ip} /\ Held(at[p]) = {me.dp} /\ Keeps(nw) \cap Frees(nw) = {}
    BY <1>2, <1>3 DEF Held
  <2>2. \A s \in Slots : s \in Held(nw) => icache'[s].lock = p /\ icache[s].lock \in {None, p}
    BY <2>1 DEF LockSet, Unlocked
  <2>3. \A s \in Slots : s \notin Held(nw) /\ s \in Held(at[p]) => icache'[s].lock = None
    BY <2>1 DEF LockSet
  <2>4. \A s \in Slots : s \notin Held(nw) /\ s \notin Held(at[p]) => icache'[s].lock = icache[s].lock
    BY <2>1 DEF LockSet
  <2> QED BY <1>3, <2>1, <2>2, <2>3, <2>4, HoldsIf DEF IInv
<1>5. Balanced(icache, icache', me, nw)
  BY <1>2, BalancedSame
<1> QED BY <1>2, <1>4, <1>5, CallOn

-----------------------------------------------------------------------------
(* iput() *)

(* itrunc(), type = 0, iupdate() *)
LEMMA IputFreeStep ==
  ASSUME IInv, NEW p \in Procs, IputFree(p)
  PROVE  StepOK
<1> PICK me : me = at[p]
  OBVIOUS
<1> PICK s : s = me.put
  OBVIOUS
<1> PICK nw : nw = [me EXCEPT !.pc = "invalid"]
  OBVIOUS
<1>1. PICK z : icache' = [icache EXCEPT ![s].ip = z]
  BY DEF IputFree
<1>2. me.pc = "free" /\ UNCHANGED <<active, ftable, ofile, cwd>> /\ Goto(p, nw)
  BY DEF IputFree, At
<1>3. Frame(me) /\ me.pc \in Putting /\ me.pc \notin {"user", "write"}
  BY <1>2 DEF IInv, FilesTypeOK, Putting
<1>4. IsFrame(me) /\ IsCache(icache) /\ s \in Slots
  BY <1>3, Inside DEF IInv, FilesTypeOK
<1>5. Is(nw, "invalid", me.op, me.ip, me.dp, me.put, me.then)
  BY <1>4, PcIs
<1>6. /\ Frame(nw) /\ Keeps(nw) = Keeps(me) /\ Stuck(me) = {}
      /\ \A t \in Slots : Ptr(nw, t) = Ptr(me, t)
  <2>1. "invalid" \in Putting
    BY DEF Putting
  <2> QED BY <1>3, <1>5, <2>1, PuttingOn, SMT
<1>7. Kept(icache, icache') /\ SameRefs(icache, icache') /\ SameLocks(icache, icache')
  BY <1>1, <1>4, CopyIs
<1>8. Frees(nw) = Frees(me)
  BY <1>2, <1>5 DEF Is, Frees
<1>9. Holds(p, nw, icache, icache')
  BY <1>6, <1>7, <1>8, HoldsSame DEF IInv, Held, LocksExact
<1>10. Balanced(icache, icache', me, nw)
  BY <1>6, <1>7, BalancedSame
<1> QED BY <1>2, <1>3, <1>6, <1>7, <1>9, <1>10, CallOn

(* ip->valid = 0, releasesleep() *)
LEMMA IputInvalidStep ==
  ASSUME IInv, NEW p \in Procs, IputInvalid(p)
  PROVE  StepOK
<1> PICK me : me = at[p]
  OBVIOUS
<1> PICK s : s = me.put
  OBVIOUS
<1> PICK nw : nw = [me EXCEPT !.pc = "deref"]
  OBVIOUS
<1>1. icache' = [icache EXCEPT ![s].valid = FALSE, ![s].lock = None]
  BY DEF IputInvalid
<1>2. me.pc = "invalid" /\ UNCHANGED <<active, ftable, ofile, cwd>> /\ Goto(p, nw)
  BY DEF IputInvalid, At, disks
<1>3. Frame(me) /\ me.pc \in Putting /\ me.pc \notin {"user", "write"}
  BY <1>2 DEF IInv, FilesTypeOK, Putting
<1>4. IsFrame(me) /\ IsCache(icache) /\ s \in Slots
  BY <1>3, Inside DEF IInv, FilesTypeOK
<1>5. Is(nw, "deref", me.op, me.ip, me.dp, me.put, me.then)
  BY <1>4, PcIs
<1>6. /\ Frame(nw) /\ Keeps(nw) = Keeps(me) /\ Stuck(me) = {}
      /\ \A t \in Slots : Ptr(nw, t) = Ptr(me, t)
  <2>1. "deref" \in Putting
    BY DEF Putting
  <2> QED BY <1>3, <1>5, <2>1, PuttingOn, SMT
<1>7. Kept(icache, icache') /\ SameRefs(icache, icache') /\ LockSet(icache, icache', s, None)
  BY <1>1, <1>4, InvalidIs
<1>8. Frees(nw) = {} /\ Frees(me) = {s}
  BY <1>2, <1>5 DEF Is, Frees
<1>9. Keeps(me) \cap Frees(me) = {}
  BY DEF IInv, LocksExact
<1>10. Held(me) = Held(nw) \cup {s} /\ s \notin Held(nw) /\ Keeps(nw) \cap Frees(nw) = {}
  BY <1>6, <1>8, <1>9 DEF Held
<1>11. Holds(p, nw, icache, icache')
  BY <1>4, <1>6, <1>7, <1>10, HoldsGive DEF IInv
<1>12. Balanced(icache, icache', me, nw)
  BY <1>6, <1>7, BalancedSame
<1> QED BY <1>2, <1>3, <1>6, <1>7, <1>11, <1>12, CallOn

(* Where iput() returns to. *)
Resumes(me, nw) ==
  /\ Frame(nw) /\ Keeps(nw) = Keeps(me) /\ Stuck(me) = {} /\ Frees(nw) = {} /\ Frees(me) = {}
  /\ \A s \in Slots : Ptr(me, s) = Ptr(nw, s) + One(s = me.put)

(* iput() returns to a frame without the pointer it dropped. *)
LEMMA ResumeIs ==
  ASSUME NEW me, Frame(me), me.pc = "deref", NEW nw, nw = Resume(me)
  PROVE  Resumes(me, nw)
<1>1. IsFrame(me) /\ me.put \in Slots /\ After(me) = me.then
  BY Inside DEF Putting
<1>2. Stuck(me) = {} /\ Frees(me) = {}
  BY DEF Stuck, Frees
<1>3. me.put # 0
  BY <1>1, Numbers
<1>4. CASE me.then = "putip"
  <2>1. nw = PutIp(me, "end")
    BY <1>4 DEF Resume, PutIp
  <2>2. Is(nw, "iput", me.op, 0, me.dp, me.ip, "end")
    BY <1>1, <2>1, PutIpIs
  <2>3. After(nw) = "end"
    BY <2>2 DEF Is, After, Putting
  <2>4. me.ip \in Slots /\ me.dp = 0
    BY <1>1, <1>4, SMT DEF Frame, HasIp, HasDp, IpPlaces, DpPlaces
  <2>5. Frame(nw)
    BY <2>2, <2>3, <2>4, SMT DEF Is, Frame, HasIp, HasDp, IpPlaces, DpPlaces, Putting
  <2>6. Keeps(nw) = {} /\ Keeps(me) = {} /\ Frees(nw) = {}
    BY <1>1, <1>4, <2>2, <2>3 DEF Keeps, Is, Frees
  <2>7. ASSUME NEW s \in Slots
        PROVE  Ptr(me, s) = Ptr(nw, s) + One(s = me.put)
    <3>1. s # 0
      BY Numbers
    <3>2. nw.ip = 0 /\ nw.dp = 0 /\ nw.put = me.ip
      BY <2>2, <2>4 DEF Is
    <3>3. Ptr(nw, s) = One(me.ip = s)
      BY <3>1, <3>2, SMT DEF Ptr, One
    <3>4. Ptr(me, s) = One(me.ip = s) + One(s = me.put)
      BY <2>4, <3>1, SMT DEF Ptr, One
    <3> QED BY <3>3, <3>4
  <2> QED BY <1>2, <2>5, <2>6, <2>7 DEF Resumes
<1>5. CASE me.then # "putip"
  <2>1. nw = [me EXCEPT !.pc = me.then, !.put = 0, !.then = ""]
    BY <1>5 DEF Resume
  <2>2. Is(nw, me.then, me.op, me.ip, me.dp, 0, "")
    BY <1>1, <2>1, FrameFields DEF Is, IsFrame
  <2>3. me.then \notin Putting
    BY <1>1 DEF Frame
  <2>4. After(nw) = After(me)
    BY <1>1, <2>2, <2>3 DEF Is, After
  <2>5. nw.op = me.op /\ nw.ip = me.ip /\ nw.dp = me.dp /\ nw.put = 0 /\ nw.pc = me.then /\ IsFrame(nw)
    BY <2>2 DEF Is
  <2>6. Frame(nw)
    <3>1. (HasIp(nw) <=> HasIp(me)) /\ (HasDp(nw) <=> HasDp(me))
      BY <2>4, <2>5 DEF HasIp, HasDp
    <3> QED BY <1>5, <2>3, <2>4, <2>5, <3>1 DEF Frame
  <2>7. Keeps(nw) = Keeps(me)
    BY <2>4, <2>5 DEF Keeps
  <2>8. Frees(nw) = {}
    BY <2>3, <2>5 DEF Frees, Putting
  <2>9. ASSUME NEW s \in Slots
        PROVE  Ptr(me, s) = Ptr(nw, s) + One(s = me.put)
    <3>1. s # 0
      BY Numbers
    <3> QED BY <2>5, <3>1, SMT DEF Ptr, One
  <2> QED BY <1>2, <2>6, <2>7, <2>8, <2>9 DEF Resumes
<1> QED BY <1>4, <1>5

(* The reference is dropped. *)
LEMMA IputDerefStep ==
  ASSUME IInv, NEW p \in Procs, IputDeref(p)
  PROVE  StepOK
<1> PICK me : me = at[p]
  OBVIOUS
<1> PICK s : s = me.put
  OBVIOUS
<1> PICK nw : nw = Resume(me)
  OBVIOUS
<1>1. /\ me.pc = "deref" /\ UNCHANGED <<active, ftable, ofile, cwd>> /\ Goto(p, nw)
      /\ icache' = [icache EXCEPT ![s].ref = icache[s].ref - 1]
  BY DEF IputDeref, At, disks
<1>2. Frame(me) /\ me.pc \in Putting /\ me.pc \notin {"user", "write"} /\ IsCache(icache)
  BY <1>1 DEF IInv, FilesTypeOK, Putting
<1>3. s \in Slots
  BY <1>2, Inside
<1>4. icache[s].ref > 0
  BY <1>3, InUse
<1>5. Kept(icache, icache') /\ RefAdded(icache', icache, s) /\ SameLocks(icache, icache')
  BY <1>1, <1>2, <1>3, <1>4, DerefIs
<1>6. Resumes(me, nw)
  BY <1>1, <1>2, ResumeIs
<1>7. Holds(p, nw, icache, icache')
  BY <1>5, <1>6, HoldsSame DEF IInv, Held, Resumes
<1>8. IsCache(icache')
  BY <1>5 DEF Kept
<1>9. Balanced(icache, icache', me, nw)
  BY <1>5, <1>6, <1>8, BalancedLess DEF Resumes
<1> QED BY <1>1, <1>2, <1>5, <1>6, <1>7, <1>9, CallOn DEF Resumes

-----------------------------------------------------------------------------
(* Places without pointers *)

Bare == {"user", "write", "writei", "end"}
BareAt(nw, x) == IsFrame(nw) /\ nw.pc = x /\ nw.ip = 0 /\ nw.dp = 0 /\ nw.put = 0

(* A process that is in no call has no pointer. *)
LEMMA UserIs == BareAt(User, "user") /\ User.op = "" /\ User.then = ""
BY DEF BareAt, IsFrame, User

(* A frame at such a place. *)
LEMMA BareIs ==
  ASSUME NEW me, Frame(me), me.pc \in Bare
  PROVE  IsFrame(me) /\ me.ip = 0 /\ me.dp = 0 /\ me.put = 0 /\ Held(me) = {} /\ Stuck(me) = {}
<1>1. me.pc \notin Putting
  BY SMT DEF Bare, Putting
<1>2. IsFrame(me) /\ me.put = 0 /\ After(me) = me.pc /\ Frees(me) = {}
  BY <1>1, Outside
<1>3. ~HasIp(me) /\ ~HasDp(me)
  BY <1>2, SMT DEF Bare, HasIp, HasDp, IpPlaces, DpPlaces
<1>4. me.ip = 0 /\ me.dp = 0
  BY <1>3 DEF Frame
<1>5. Keeps(me) = {} /\ Stuck(me) = {}
  BY <1>2, SMT DEF Bare, Keeps, Stuck
<1> QED BY <1>2, <1>4, <1>5 DEF Held

(* A frame without pointers at such a place is well formed. *)
LEMMA BareFrame ==
  ASSUME NEW nw, NEW x \in Bare, BareAt(nw, x)
  PROVE  Frame(nw) /\ Keeps(nw) \cap Frees(nw) = {}
<1>1. IsFrame(nw) /\ nw.pc = x /\ nw.ip = 0 /\ nw.dp = 0 /\ nw.put = 0
  BY DEF BareAt
<1>2. After(nw) = x /\ x \notin Putting /\ x # "putip" /\ x # "namex"
  BY <1>1, SMT DEF Bare, After, Putting
<1>3. ~HasIp(nw) /\ ~HasDp(nw)
  BY <1>2, SMT DEF Bare, HasIp, HasDp, IpPlaces, DpPlaces
<1>4. Frees(nw) = {}
  BY <1>1, SMT DEF Bare, Frees
<1> QED BY <1>1, <1>2, <1>3, <1>4 DEF Frame

(* A step from one of them to another. *)
LEMMA BareStep ==
  ASSUME IInv, NEW p \in Procs, at[p].pc \in Bare, NEW nw, NEW x \in Bare,
         BareAt(nw, x), Goto(p, nw), Logged(p, nw), Kept(icache, icache'),
         SameRefs(icache, icache'), SameLocks(icache, icache'),
         FilesAlike(ftable, ftable'), ofile' = ofile, cwd' = cwd
  PROVE  StepOK
<1> PICK me : me = at[p]
  OBVIOUS
<1>1. Frame(me)
  BY DEF IInv, FilesTypeOK
<1>2. me.ip = 0 /\ me.dp = 0 /\ me.put = 0 /\ Held(me) = {} /\ Stuck(me) = {}
  BY <1>1, BareIs
<1>3. Frame(nw) /\ Keeps(nw) \cap Frees(nw) = {}
  BY BareFrame
<1>4. nw.ip = 0 /\ nw.dp = 0 /\ nw.put = 0 /\ nw.pc \in Bare
  BY DEF BareAt
<1>5. Held(nw) = {}
  BY <1>3, <1>4, BareIs
<1>6. Holds(p, nw, icache, icache')
  BY <1>2, <1>3, <1>5, HoldsSame DEF IInv
<1>7. \A s \in Slots : Ptr(nw, s) = Ptr(me, s)
  BY <1>2, <1>4 DEF Ptr
<1>8. Balanced(icache, icache', me, nw)
  BY <1>7, BalancedSame
<1> QED BY <1>3, <1>6, <1>8, CallStep

(* end_op() *)
LEMMA EndOpStep ==
  ASSUME IInv, NEW p \in Procs, EndOp(p)
  PROVE  StepOK
<1> PICK me : me = at[p]
  OBVIOUS
<1> PICK nw : nw = IF me.buf # <<>> THEN [me EXCEPT !.pc = "write"] ELSE User
  OBVIOUS
<1>1. /\ me.pc = "end" /\ disk' = disk /\ icache' = icache /\ ftable' = ftable /\ ofile' = ofile
      /\ cwd' = cwd /\ Goto(p, nw) /\ active' = active \ {p} /\ (active' = {} => stable' = disk)
  BY DEF EndOp, At
<1>2. me.pc \in Bare /\ Frame(me) /\ IsCache(icache)
  BY <1>1 DEF IInv, FilesTypeOK, Bare
<1>3. IsFrame(me) /\ me.ip = 0 /\ me.dp = 0 /\ me.put = 0
  BY <1>2, BareIs
<1>4. PICK x \in {"user", "write"} : BareAt(nw, x)
  <2>1. CASE me.buf # <<>>
    <3>1. nw = [me EXCEPT !.pc = "write"]
      BY <2>1
    <3>2. Is(nw, "write", me.op, me.ip, me.dp, me.put, me.then)
      BY <1>3, <3>1, PcIs
    <3>3. BareAt(nw, "write")
      BY <1>3, <3>2 DEF Is, BareAt
    <3> QED BY <3>3
  <2>2. CASE me.buf = <<>>
    <3>1. nw = User
      BY <2>2
    <3>2. BareAt(nw, "user")
      BY <3>1, UserIs
    <3> QED BY <3>2
  <2> QED BY <2>1, <2>2
<1>5. x \in Bare
  BY <1>4 DEF Bare
<1>6. Logged(p, nw)
  BY <1>1, <1>4 DEF Logged, BareAt
<1>7. Kept(icache, icache') /\ SameRefs(icache, icache') /\ SameLocks(icache, icache')
  BY <1>1, <1>2, SameCache
<1>8. FilesAlike(ftable, ftable')
  BY <1>1 DEF FilesAlike, FilesTypeOK, IInv
<1> QED BY <1>1, <1>2, <1>4, <1>5, <1>6, <1>7, <1>8, BareStep

(* begin_op() of a round of filewrite(). *)
LEMMA WriteBeginStep ==
  ASSUME IInv, NEW p \in Procs, WriteBegin(p)
  PROVE  StepOK
<1> PICK me : me = at[p]
  OBVIOUS
<1> PICK nw : nw = [me EXCEPT !.pc = "writei"]
  OBVIOUS
<1>1. /\ me.pc = "write" /\ icache' = icache /\ ftable' = ftable /\ ofile' = ofile
      /\ cwd' = cwd /\ Goto(p, nw) /\ active' = active \cup {p}
  BY DEF WriteBegin, At
<1>2. me.pc \in Bare /\ "writei" \in Bare /\ Frame(me) /\ IsCache(icache)
  BY <1>1 DEF IInv, FilesTypeOK, Bare
<1>3. IsFrame(me) /\ me.ip = 0 /\ me.dp = 0 /\ me.put = 0
  BY <1>2, BareIs
<1>4. BareAt(nw, "writei")
  <2>1. Is(nw, "writei", me.op, me.ip, me.dp, me.put, me.then)
    BY <1>3, PcIs
  <2> QED BY <1>3, <2>1 DEF Is, BareAt
<1>5. Logged(p, nw)
  BY <1>1 DEF Logged
<1>6. Kept(icache, icache') /\ SameRefs(icache, icache') /\ SameLocks(icache, icache')
  BY <1>1, <1>2, SameCache
<1>7. FilesAlike(ftable, ftable')
  BY <1>1 DEF FilesAlike, FilesTypeOK, IInv
<1> QED BY <1>1, <1>2, <1>4, <1>5, <1>6, <1>7, BareStep

(* An assignment to the offset of a file. *)
LEMMA OffIs ==
  ASSUME IInv, NEW f, NEW x, ftable' = [ftable EXCEPT ![f].off = x]
  PROVE  FilesAlike(ftable, ftable')
<1>1. ftable' = [g \in 1..NFILE |-> IF g = f THEN [ftable[g] EXCEPT !.off = x] ELSE ftable[g]]
  BY DEF IInv, FilesTypeOK
<1>2. ASSUME NEW g \in 1..NFILE
      PROVE  IsFile(ftable'[g]) /\ ftable'[g].ref = ftable[g].ref /\ ftable'[g].ip = ftable[g].ip
  <2>1. IsFile(ftable[g])
    BY DEF IInv, FilesTypeOK
  <2>2. PICK old, new : old = ftable[g] /\ new = [old EXCEPT !.off = x]
    OBVIOUS
  <2>3. IsFile(new) /\ new.ref = old.ref /\ new.ip = old.ip
    BY ONLY <2>1, <2>2, FileFields DEF IsFile
  <2>4. ftable'[g] = IF g = f THEN new ELSE old
    BY <1>1, <2>2, SMT
  <2> QED BY <2>1, <2>2, <2>3, <2>4
<1>3. ftable' = [g \in 1..NFILE |-> ftable'[g]]
  BY <1>1
<1> QED BY <1>2, <1>3 DEF FilesAlike

(* writei() of a round of filewrite(). *)
LEMMA WriteChunkStep ==
  ASSUME IInv, NEW p \in Procs, WriteChunk(p)
  PROVE  StepOK
<1> PICK me : me = at[p]
  OBVIOUS
<1>1. me.pc = "writei" /\ ofile' = ofile /\ cwd' = cwd /\ active' = active
  BY DEF WriteChunk, At
<1>2. PICK y : Goto(p, [me EXCEPT !.pc = "end", !.buf = y])
  BY DEF WriteChunk
<1>3. icache' = icache \/ \E s, w : icache' = Touch(icache, s, w)
  BY DEF WriteChunk
<1>4. ftable' = ftable \/ \E f, x : ftable' = [ftable EXCEPT ![f].off = x]
  BY DEF WriteChunk
<1>5. PICK nw : nw = [me EXCEPT !.pc = "end", !.buf = y]
  OBVIOUS
<1>6. me.pc \in Bare /\ "end" \in Bare /\ Frame(me) /\ IsCache(icache) /\ p \in active
  BY <1>1 DEF IInv, FilesTypeOK, Bare, InOperation
<1>7. IsFrame(me) /\ me.ip = 0 /\ me.dp = 0 /\ me.put = 0
  BY <1>6, BareIs
<1>8. BareAt(nw, "end")
  BY ONLY <1>5, <1>7, FrameFields DEF BareAt, IsFrame
<1>9. Logged(p, nw)
  BY <1>1, <1>6 DEF Logged
<1>10. Kept(icache, icache') /\ SameRefs(icache, icache') /\ SameLocks(icache, icache')
  BY <1>3, <1>6, SameCache, TouchIs
<1>11. FilesAlike(ftable, ftable')
  <2>1. CASE ftable' = ftable
    BY <2>1 DEF FilesAlike, FilesTypeOK, IInv
  <2>2. ASSUME NEW f, NEW x, ftable' = [ftable EXCEPT ![f].off = x]
        PROVE  FilesAlike(ftable, ftable')
    BY <2>2, OffIs
  <2> QED BY <1>4, <2>1, <2>2
<1> QED BY <1>2, <1>1, <1>5, <1>6, <1>8, <1>9, <1>10, <1>11, BareStep

(* filewrite() *)
LEMMA SysWriteStep ==
  ASSUME IInv, NEW p \in Procs, NEW k, NEW n, SysWrite(p, k, n)
  PROVE  StepOK
<1>1. PICK y : Goto(p, [User EXCEPT !.pc = "write", !.fd = k, !.buf = y])
  BY DEF SysWrite
<1>2. PICK nw : nw = [User EXCEPT !.pc = "write", !.fd = k, !.buf = y]
  OBVIOUS
<1>3. /\ at[p].pc = "user" /\ disks' = disks /\ icache' = icache /\ ftable' = ftable
      /\ ofile' = ofile /\ cwd' = cwd
  BY DEF SysWrite, Calling, At
<1>4. BareAt(nw, "write")
  BY ONLY <1>2 DEF BareAt, IsFrame, User
<1>5. "write" \in Bare /\ "user" \in Bare /\ IsCache(icache)
  BY DEF IInv, FilesTypeOK, Bare
<1>6. Logged(p, nw)
  BY <1>3, <1>4 DEF Logged, BareAt, disks, IInv, Committed
<1>7. Kept(icache, icache') /\ SameRefs(icache, icache') /\ SameLocks(icache, icache')
  BY <1>3, <1>5, SameCache
<1>8. FilesAlike(ftable, ftable')
  BY <1>3 DEF FilesAlike, FilesTypeOK, IInv
<1> QED BY <1>1, <1>2, <1>3, <1>4, <1>5, <1>6, <1>7, <1>8, BareStep

(* fileread() *)
LEMMA SysReadStep ==
  ASSUME IInv, NEW p \in Procs, NEW k, NEW n, SysRead(p, k, n)
  PROVE  StepOK
<1> PICK me : me = at[p]
  OBVIOUS
<1>1. PICK f, s, w, x :
        /\ me.pc = "user" /\ disks' = disks /\ ofile' = ofile /\ cwd' = cwd /\ at' = at
        /\ icache' = Touch(icache, s, w) /\ ftable' = [ftable EXCEPT ![f].off = x]
  BY DEF SysRead, Calling, At
<1>2. me.pc \in Bare /\ "user" \in Bare /\ Frame(me) /\ IsCache(icache)
  BY <1>1 DEF IInv, FilesTypeOK, Bare
<1>3. Goto(p, me)
  BY <1>1, StayIn
<1>4. BareAt(me, "user")
  BY <1>1, <1>2, BareIs DEF BareAt
<1>5. Logged(p, me)
  BY <1>1 DEF Logged, disks, IInv, Committed
<1>6. Kept(icache, icache') /\ SameRefs(icache, icache') /\ SameLocks(icache, icache')
  BY <1>1, <1>2, TouchIs
<1>7. FilesAlike(ftable, ftable')
  BY <1>1, OffIs
<1> QED BY <1>1, <1>2, <1>3, <1>4, <1>5, <1>6, <1>7, BareStep

(* ilock() of an inode that has been freed. *)
LEMMA IlockPanicStep ==
  ASSUME IInv, NEW p \in Procs, IlockPanic(p)
  PROVE  StepOK
<1>1. /\ active' = active /\ icache' = icache /\ ftable' = ftable /\ ofile' = ofile
      /\ cwd' = cwd /\ at' = at /\ WaitsFor(p) # 0
  BY DEF IlockPanic, LocksFreed
<1>2. at[p].pc \notin {"user", "write"}
  BY <1>1, SMT DEF WaitsFor
<1>3. Kept(icache, icache') /\ SameRefs(icache, icache') /\ SameLocks(icache, icache')
  BY <1>1, SameCache DEF IInv, FilesTypeOK
<1>4. Holds(p, at[p], icache, icache')
  BY <1>3, HoldsStay DEF IInv
<1> QED BY <1>1, <1>2, <1>3, <1>4, CallPanics

-----------------------------------------------------------------------------
(* Calls that leave for iput() *)

(* The invariant gives a step its cache and its frame. *)
LEMMA CallFrame ==
  ASSUME IInv, NEW p \in Procs
  PROVE  IsCache(icache) /\ Frame(at[p])
BY DEF IInv, FilesTypeOK

(* ip or dp is changed, and unlocked. *)
LEMMA UnlockIs ==
  ASSUME NEW c, IsCache(c), NEW s \in Slots, NEW t, NEW ip, NEW d, d = Iunlock(Touch(c, t, ip), s)
  PROVE  Kept(c, d) /\ SameRefs(c, d) /\ LockSet(c, d, s, None)
<1> PICK e : e = Touch(c, t, ip)
  OBVIOUS
<1>1. Kept(c, e) /\ SameRefs(c, e) /\ SameLocks(c, e) /\ IsCache(e)
  BY TouchIs DEF Kept
<1>2. Kept(e, d) /\ SameRefs(e, d) /\ LockSet(e, d, s, None)
  BY <1>1, LockIs DEF Iunlock
<1>3. Kept(c, d)
  BY <1>1, <1>2, KeptTwice
<1> QED BY <1>1, <1>2, <1>3 DEF SameRefs, SameLocks, LockSet

(* The label bad of sys_link(). *)
LEMMA LinkBadStep ==
  ASSUME IInv, NEW p \in Procs, LinkBad(p)
  PROVE  StepOK
<1>1. PICK s, w : icache' = Touch(icache, s, w)
  BY DEF LinkBad
<1>2. /\ at[p].pc = "unlinked" /\ Goto(p, PutIp(at[p], "end"))
      /\ UNCHANGED <<active, ftable, ofile, cwd>>
  BY DEF LinkBad, At, PutIp
<1>3. <<at[p].pc, "end">> \in IpSame
  BY <1>2 DEF IpSame
<1>4. Kept(icache, icache') /\ SameRefs(icache, icache') /\ SameLocks(icache, icache')
  BY <1>1, CallFrame, TouchIs
<1> QED BY <1>2, <1>3, <1>4, PutIpSame

(* iunlockput(dp) after a dirlink() that failed. *)
LEMMA RelinkDupStep ==
  ASSUME IInv, NEW p \in Procs, RelinkDup(p)
  PROVE  StepOK
<1>1. /\ at[p].pc = "dup" /\ Goto(p, PutDp(at[p], "unlinked"))
      /\ UNCHANGED <<active, ftable, ofile, cwd>>
      /\ icache' = [icache EXCEPT ![at[p].dp].lock = None]
  BY DEF RelinkDup, At, PutDp, disks, Iunlock
<1>2. <<at[p].pc, "unlinked">> \in DpGive
  BY <1>1 DEF DpGive
<1>3. at[p].dp \in Slots
  BY <1>2, CallFrame, PutDpFrame DEF LeavesDp
<1>4. Kept(icache, icache') /\ SameRefs(icache, icache') /\ LockSet(icache, icache', at[p].dp, None)
  BY <1>1, <1>3, CallFrame, LockIs
<1> QED BY <1>1, <1>2, <1>4, PutDpGive

(* The label bad of sys_unlink(). *)
LEMMA UnlinkRefuseStep ==
  ASSUME IInv, NEW p \in Procs, UnlinkRefuse(p)
  PROVE  StepOK
<1>1. /\ at[p].pc = "refuse" /\ Goto(p, PutDp(at[p], "end"))
      /\ UNCHANGED <<active, ftable, ofile, cwd>>
      /\ icache' = [icache EXCEPT ![at[p].dp].lock = None]
  BY DEF UnlinkRefuse, At, PutDp, disks, Iunlock
<1>2. <<at[p].pc, "end">> \in DpGive
  BY <1>1 DEF DpGive
<1>3. at[p].dp \in Slots
  BY <1>2, CallFrame, PutDpFrame DEF LeavesDp
<1>4. Kept(icache, icache') /\ SameRefs(icache, icache') /\ LockSet(icache, icache', at[p].dp, None)
  BY <1>1, <1>3, CallFrame, LockIs
<1> QED BY <1>1, <1>2, <1>4, PutDpGive

(* The end of sys_unlink(). *)
LEMMA UnlinkDropStep ==
  ASSUME IInv, NEW p \in Procs, UnlinkDrop(p)
  PROVE  StepOK
<1>1. PICK w : icache' = Iunlock(Touch(icache, at[p].ip, w), at[p].ip)
  BY DEF UnlinkDrop
<1>2. /\ at[p].pc = "drop" /\ Goto(p, PutIp(at[p], "end"))
      /\ UNCHANGED <<active, ftable, ofile, cwd>>
  BY DEF UnlinkDrop, At, PutIp
<1>3. <<at[p].pc, "end">> \in IpGive
  BY <1>2 DEF IpGive
<1>4. at[p].ip \in Slots
  BY <1>3, CallFrame, PutIpFrame DEF LeavesIp
<1>5. Kept(icache, icache') /\ SameRefs(icache, icache') /\ LockSet(icache, icache', at[p].ip, None)
  BY <1>1, <1>4, CallFrame, UnlockIs
<1> QED BY <1>2, <1>3, <1>5, PutIpGive

(* iunlock(dp) after ilock(ip), in create() and sys_unlink(). *)
LEMMA SwapStep ==
  ASSUME IInv, NEW p \in Procs, NEW t, <<at[p].pc, t>> \in DpSwap, Goto(p, PutDp(at[p], t)),
         Unlocked(at[p].ip), NEW v, NEW w,
         icache' = Ilock(Iunlock(Touch(icache, at[p].dp, v), at[p].dp), at[p].ip, p, w),
         active' = active, ftable' = ftable, ofile' = ofile, cwd' = cwd
  PROVE  StepOK
<1> PICK c : c = Iunlock(Touch(icache, at[p].dp, v), at[p].dp)
  OBVIOUS
<1>1. at[p].dp \in Slots
  BY CallFrame, PutDpFrame DEF LeavesDp
<1>2. Kept(icache, c) /\ SameRefs(icache, c) /\ LockSet(icache, c, at[p].dp, None)
  BY <1>1, CallFrame, UnlockIs
<1>3. at[p].ip \in Slots
  <2> PICK me : me = at[p]
    OBVIOUS
  <2>1. HasIp(me)
    BY SMT DEF DpSwap, HasIp, After, Putting, IpPlaces
  <2> QED BY <2>1, CallFrame DEF Frame
<1>4. IsCache(c)
  BY <1>2 DEF Kept
<1>5. Kept(c, icache') /\ SameRefs(c, icache') /\ LockSet(c, icache', at[p].ip, p)
  BY <1>3, <1>4, IlockIs
<1>6. Kept(icache, icache')
  BY <1>2, <1>5, KeptTwice
<1>7. SameRefs(icache, icache')
  BY <1>2, <1>5 DEF SameRefs
<1> QED BY <1>2, <1>5, <1>6, <1>7, PutDpSwap

(* The end of create(). *)
LEMMA CreateLinkStep ==
  ASSUME IInv, NEW p \in Procs, CreateLink(p)
  PROVE  StepOK
<1>1. PICK v, w : icache' = Ilock(Iunlock(Touch(icache, at[p].dp, v), at[p].dp), at[p].ip, p, w)
  BY DEF CreateLink
<1>2. /\ at[p].pc = "made" /\ Goto(p, PutDp(at[p], "created")) /\ Unlocked(at[p].ip)
      /\ UNCHANGED <<active, ftable, ofile, cwd>>
  BY DEF CreateLink, At, PutDp
<1>3. <<at[p].pc, "created">> \in DpSwap
  BY <1>2 DEF DpSwap
<1> QED BY <1>1, <1>2, <1>3, SwapStep

(* The end of namex(). *)
LEMMA NamexDoneStep ==
  ASSUME IInv, NEW p \in Procs, NamexDone(p)
  PROVE  StepOK
<1> PICK me : me = at[p]
  OBVIOUS
<1>1. me.pc = "namex" /\ UNCHANGED <<active, icache, ftable, ofile, cwd>>
  BY DEF NamexDone, At, disks
<1>2. Frame(me) /\ Kept(icache, icache') /\ SameRefs(icache, icache') /\ SameLocks(icache, icache')
  BY <1>1, CallFrame, SameCache
<1>3. CASE Parent(me)
  <2>1. Goto(p, PutDp(at[p], Failed(me)))
    BY <1>3 DEF NamexDone, PutDp
  <2>2. Stuck(at[p]) = {}
    BY <1>1 DEF Stuck
  <2> QED BY <1>1, <1>2, <2>1, <2>2, PutDpSame
<1>4. CASE ~Parent(me)
  <2> PICK nw : nw = [me EXCEPT !.pc = Served(me), !.ip = me.dp, !.dp = 0]
    OBVIOUS
  <2>1. me.op \in {"open", "chdir", "link"} /\ me.dp \in Slots /\ me.ip = 0 /\ me.put = 0 /\ IsFrame(me)
    BY <1>1, <1>2, <1>4, SMT DEF Frame, HasIp, HasDp, After, Putting, IpPlaces, DpPlaces, Parent, Ops
  <2>2. Is(nw, me.op, me.op, me.dp, 0, 0, me.then)
    BY <2>1, FrameFields DEF Is, IsFrame, Served
  <2>3. nw.pc \in {"open", "chdir", "link"} /\ nw.ip \in Slots /\ nw.dp = 0 /\ nw.put = 0 /\ IsFrame(nw)
    BY <2>1, <2>2 DEF Is
  <2>4. Frame(nw) /\ Held(nw) = {} /\ Held(me) = {} /\ Stuck(me) = {} /\ Keeps(nw) \cap Frees(nw) = {}
    <3>1. After(nw) = nw.pc /\ After(me) = "namex"
      BY <1>1, <2>3 DEF After, Putting
    <3>2. HasIp(nw) /\ ~HasDp(nw) /\ nw.pc \notin Putting
      BY <2>3, <3>1 DEF HasIp, HasDp, IpPlaces, DpPlaces, Putting
    <3>3. Keeps(nw) = {} /\ Frees(nw) = {}
      BY <2>3, <3>1 DEF Keeps, Frees
    <3>4. Keeps(me) = {} /\ Frees(me) = {} /\ Stuck(me) = {}
      BY <1>1, <3>1 DEF Keeps, Frees, Stuck
    <3>5. Frame(nw)
      BY <2>3, <3>1, <3>2, SMT DEF Frame, Putting
    <3> QED BY <3>3, <3>4, <3>5 DEF Held
  <2>5. \A s \in Slots : Ptr(nw, s) = Ptr(me, s)
    <3> TAKE s \in Slots
    <3>1. nw.ip = me.dp /\ nw.dp = me.ip /\ nw.put = me.put
      BY <2>1, <2>2 DEF Is
    <3> QED BY <3>1, SMT DEF Ptr, One
  <2>6. Goto(p, nw)
    BY <1>4 DEF NamexDone
  <2>7. Balanced(icache, icache', at[p], nw)
    BY <1>2, <2>5, BalancedSame
  <2>8. Holds(p, nw, icache, icache')
    BY <1>2, <2>4, HoldsSame DEF IInv
  <2> QED BY <1>1, <1>2, <2>4, <2>6, <2>7, <2>8, CallOn
<1> QED BY <1>3, <1>4

(* ilock(ip) in sys_unlink(). *)
LEMMA UnlinkEntryStep ==
  ASSUME IInv, NEW p \in Procs, UnlinkEntry(p)
  PROVE  StepOK
<1>1. /\ at[p].pc = "victim" /\ Unlocked(at[p].ip)
      /\ UNCHANGED <<active, ftable, ofile, cwd>>
  BY DEF UnlinkEntry, At
<1>2. IsCache(icache) /\ LocksExact
  BY CallFrame DEF IInv
<1>3. \/ UNCHANGED <<icache, at>>
      \/ \E w : icache' = Touch(icache, at[p].ip, w) /\ Goto(p, PutIp(at[p], "refuse"))
      \/ \E v, w : /\ icache' = Ilock(Iunlock(Touch(icache, at[p].dp, v), at[p].dp), at[p].ip, p, w)
                   /\ Goto(p, PutDp(at[p], "drop"))
  BY DEF UnlinkEntry, PutIp, PutDp
<1>4. CASE UNCHANGED <<icache, at>>
  <2>1. Kept(icache, icache') /\ SameRefs(icache, icache') /\ SameLocks(icache, icache')
    BY <1>2, <1>4, SameCache
  <2>2. Holds(p, at[p], icache, icache')
    BY <1>2, <2>1, HoldsStay
  <2> QED BY <1>1, <1>4, <2>1, <2>2, CallPanics
<1>5. ASSUME NEW w, icache' = Touch(icache, at[p].ip, w), Goto(p, PutIp(at[p], "refuse"))
      PROVE  StepOK
  <2>1. <<at[p].pc, "refuse">> \in IpSame
    BY <1>1 DEF IpSame
  <2>2. Kept(icache, icache') /\ SameRefs(icache, icache') /\ SameLocks(icache, icache')
    BY <1>2, <1>5, TouchIs
  <2> QED BY <1>1, <1>5, <2>1, <2>2, PutIpSame
<1>6. ASSUME NEW v, NEW w, Goto(p, PutDp(at[p], "drop")),
             icache' = Ilock(Iunlock(Touch(icache, at[p].dp, v), at[p].dp), at[p].ip, p, w)
      PROVE  StepOK
  <2>1. <<at[p].pc, "drop">> \in DpSwap
    BY <1>1 DEF DpSwap
  <2> QED BY <1>1, <1>6, <2>1, SwapStep
<1> QED BY <1>3, <1>4, <1>5, <1>6

-----------------------------------------------------------------------------
(* iget() *)

(* A call gets one more pointer, to entry t. *)
More(me, nw, t)  == \A s \in Slots : Ptr(nw, s) = Ptr(me, s) + One(s = t)
Gains(me, nw, t) == Frame(nw) /\ More(me, nw, t)

(* Where the pointer may go. *)
LEMMA PtrMore ==
  ASSUME NEW me, me.put = 0, NEW nw, NEW t,
         \/ nw.ip = me.ip /\ nw.dp = t /\ nw.put = me.dp
         \/ me.ip = 0 /\ nw.ip = t /\ nw.dp = 0 /\ nw.put = me.dp
         \/ me.ip = 0 /\ nw.ip = t /\ nw.dp = me.dp /\ nw.put = 0
         \/ nw.ip = me.ip /\ nw.dp = me.dp /\ nw.put = t
         \/ me.dp = 0 /\ nw.ip = me.ip /\ nw.dp = t /\ nw.put = 0
  PROVE  More(me, nw, t)
<1> SUFFICES ASSUME NEW s \in Slots
             PROVE  Ptr(nw, s) = Ptr(me, s) + One(s = t)
  BY DEF More
<1>1. s # 0
  BY Numbers
<1>2. One(0 = s) = 0
  BY <1>1, SMT DEF One
<1>3. One(s = t) = One(t = s)
  BY DEF One
<1> DEFINE i == One(me.ip = s)
           d == One(me.dp = s)
           n == One(t = s)
<1>4. i \in Nat /\ d \in Nat /\ n \in Nat
  BY SMT DEF One
<1>5. Ptr(me, s) = i + d + 0
  BY <1>2 DEF Ptr
<1>6. \/ Ptr(nw, s) = i + n + d
      \/ i = 0 /\ Ptr(nw, s) = n + 0 + d
      \/ i = 0 /\ Ptr(nw, s) = n + d + 0
      \/ Ptr(nw, s) = i + d + n
      \/ d = 0 /\ Ptr(nw, s) = i + n + 0
  BY <1>2 DEF Ptr
<1> HIDE DEF i, d, n
<1>7. Ptr(nw, s) = Ptr(me, s) + n
  BY ONLY <1>4, <1>5, <1>6
<1> QED BY <1>3, <1>7 DEF n

(* Process p, in an operation, gets one more reference. *)
LEMMA GainStep ==
  ASSUME IInv, NEW p \in Procs, p \in active', active \subseteq active',
         ftable' = ftable, ofile' = ofile, cwd' = cwd,
         NEW c, NEW nw, NEW t, Goto(p, nw), Kept(icache, c), SameRefs(icache, c),
         Kept(c, icache'), RefAdded(c, icache', t), SameLocks(c, icache'),
         Gains(at[p], nw, t), Holds(p, nw, icache, c)
  PROVE  StepOK
<1>1. IsCache(icache)
  BY CallFrame
<1>2. Kept(icache, icache')
  BY KeptTwice
<1>3. RefAdded(icache, icache', t)
  BY DEF RefAdded, SameRefs
<1>4. Frame(nw) /\ \A s \in Slots : Ptr(nw, s) = Ptr(at[p], s) + One(s = t)
  BY DEF Gains, More
<1>5. Balanced(icache, icache', at[p], nw)
  BY <1>1, <1>3, <1>4, BalancedMore
<1>6. Holds(p, nw, icache, icache')
  BY DEF Holds, SameLocks
<1>7. Logged(p, nw)
  BY DEF Logged
<1>8. FilesAlike(ftable, ftable')
  BY DEF FilesAlike, FilesTypeOK, IInv
<1> QED BY <1>2, <1>4, <1>5, <1>6, <1>7, <1>8, CallStep

(* iget(), in an operation. *)
LEMMA FoundStep ==
  ASSUME IInv, NEW p \in Procs, p \in active', active \subseteq active',
         ftable' = ftable, ofile' = ofile, cwd' = cwd,
         NEW d, NEW c, NEW i, NEW nw, Found(p, d, c, i, nw), Kept(icache, c), SameRefs(icache, c),
         Holds(p, at[p], icache, c),
         Slot(c, i) \in Slots => Gains(at[p], nw, Slot(c, i)) /\ Holds(p, nw, icache, c)
  PROVE  StepOK
<1>1. CASE Slot(c, i) = 0
  <2>1. icache' = c /\ at' = at
    BY <1>1 DEF Found
  <2>2. Balanced(icache, icache', at[p], at[p])
    BY <2>1, BalancedSame
  <2>3. Logged(p, at[p])
    BY DEF Logged
  <2>4. FilesAlike(ftable, ftable')
    BY DEF FilesAlike, FilesTypeOK, IInv
  <2> QED BY <2>1, <2>2, <2>3, <2>4, StayIn, CallStep
<1>2. CASE Slot(c, i) # 0
  <2>1. icache' = Iget(c, i) /\ Goto(p, nw)
    BY <1>2 DEF Found
  <2>2. IsCache(c)
    BY DEF Kept
  <2>3. Slot(c, i) \in Slots /\ Kept(c, icache') /\ RefAdded(c, icache', Slot(c, i)) /\ SameLocks(c, icache')
    BY <1>2, <2>1, <2>2, IgetIs
  <2> QED BY <2>1, <2>3, GainStep
<1> QED BY <1>1, <1>2

(* The start of namex(): a call that holds no locks gets dp. *)
LEMMA NamexGains ==
  ASSUME NEW me, Frame(me), me.dp = 0, me.put = 0, NEW op \in Ops \cup {"relink"}, NEW x,
         me.ip \in (IF op = "relink" THEN Slots ELSE {0}),
         NEW t \in Slots, NEW nw, Is(nw, "namex", op, me.ip, t, 0, x)
  PROVE  Gains(me, nw, t) /\ Held(nw) = {} /\ Keeps(nw) \cap Frees(nw) = {}
<1>1. IsFrame(nw) /\ nw.pc = "namex" /\ nw.op = op /\ nw.ip = me.ip /\ nw.dp = t /\ nw.put = 0
  BY DEF Is
<1>2. After(nw) = "namex"
  BY <1>1 DEF After, Putting
<1>3. Keeps(nw) = {} /\ Frees(nw) = {}
  BY <1>1, <1>2 DEF Keeps, Frees
<1>4. HasDp(nw) /\ (HasIp(nw) <=> op = "relink") /\ nw.pc \notin Putting
  BY <1>1, <1>2 DEF HasIp, HasDp, IpPlaces, DpPlaces, Putting
<1>5. Frame(nw)
  BY <1>1, <1>2, <1>4 DEF Frame, Putting
<1>6. More(me, nw, t)
  BY <1>1, PtrMore
<1> QED BY <1>3, <1>5, <1>6 DEF Gains, Held

(* The start of namex(), in an operation. *)
LEMMA WalkStep ==
  ASSUME IInv, NEW p \in Procs, p \in active', active \subseteq active',
         ftable' = ftable, ofile' = ofile, cwd' = cwd,
         NEW d, NEW c, NEW me, NEW path, Walk(p, d, c, me, path),
         Kept(icache, c), SameRefs(icache, c), SameLocks(icache, c),
         at[p].dp = 0, at[p].put = 0, Held(at[p]) = {}, Stuck(at[p]) = {},
         IsFrame(me), me.put = 0, me.op \in Ops \cup {"relink"}, me.ip = at[p].ip,
         me.ip \in (IF me.op = "relink" THEN Slots ELSE {0})
  PROVE  StepOK
<1>1. Frame(at[p]) /\ LocksExact
  BY CallFrame DEF IInv
<1>2. ASSUME NEW t \in Slots, NEW y, NEW nw, nw = [me EXCEPT !.pc = "namex", !.path = y, !.dp = t]
      PROVE  Gains(at[p], nw, t) /\ Holds(p, nw, icache, c)
  <2>1. Is(nw, "namex", me.op, me.ip, t, 0, me.then)
    BY <1>2, FrameFields DEF Is, IsFrame
  <2>2. Gains(at[p], nw, t) /\ Held(nw) = {} /\ Keeps(nw) \cap Frees(nw) = {}
    BY <1>1, <2>1, NamexGains
  <2> QED BY <1>1, <2>2, HoldsSame
<1>3. CASE Head(path) = "/"
  <2> PICK nw : nw = [me EXCEPT !.pc = "namex", !.path = Tail(path), !.dp = Slot(c, ROOTINO)]
    OBVIOUS
  <2>1. Found(p, d, c, ROOTINO, nw)
    BY <1>3 DEF Walk
  <2>2. Holds(p, at[p], icache, c)
    BY <1>1, HoldsStay
  <2> QED BY <1>2, <2>1, <2>2, FoundStep
<1>4. CASE Head(path) # "/"
  <2> PICK nw : nw = [me EXCEPT !.pc = "namex", !.path = path, !.dp = cwd[p]]
    OBVIOUS
  <2>1. icache' = [c EXCEPT ![cwd[p]].ref = @ + 1] /\ Goto(p, nw)
    BY <1>4 DEF Walk, Idup
  <2>2. cwd[p] \in Slots
    BY DEF IInv, FilesTypeOK
  <2>3. c[cwd[p]].ref > 0 /\ IsCache(c)
    BY <2>2, InUse DEF SameRefs, Kept
  <2>4. Kept(c, icache') /\ RefAdded(c, icache', cwd[p]) /\ SameLocks(c, icache')
    BY <2>1, <2>2, <2>3, IdupIs
  <2> QED BY <1>2, <2>1, <2>2, <2>4, GainStep
<1> QED BY <1>3, <1>4

(* A call is in an operation. *)
LEMMA InOp ==
  ASSUME IInv, NEW p \in Procs, at[p].pc \notin {"user", "write"}, active' = active
  PROVE  p \in active' /\ active \subseteq active'
BY DEF InOperation, IInv

(* A system call on a path. *)
LEMMA SysPathStep ==
  ASSUME IInv, NEW p \in Procs, SysPath(p)
  PROVE  StepOK
<1>1. PICK c \in Calls : Walk(p, disk, icache, [User EXCEPT !.op = c.op, !.new = c.new], c.path)
  BY DEF SysPath
<1>2. at[p].pc = "user" /\ active' = active \cup {p} /\ UNCHANGED <<ftable, ofile, cwd>>
  BY DEF SysPath, At
<1>3. p \in active' /\ active \subseteq active'
  BY <1>2
<1>4. c.op \in Ops
  BY FilesAssumption
<1> PICK me : me = [User EXCEPT !.op = c.op, !.new = c.new]
  OBVIOUS
<1>5. IsFrame(me) /\ me.op = c.op /\ me.ip = 0 /\ me.put = 0
  BY DEF IsFrame, User
<1>6. at[p].pc \in Bare
  BY <1>2 DEF Bare
<1>7. at[p].ip = 0 /\ at[p].dp = 0 /\ at[p].put = 0 /\ Held(at[p]) = {} /\ Stuck(at[p]) = {}
  BY <1>6, CallFrame, BareIs
<1>8. Kept(icache, icache) /\ SameRefs(icache, icache) /\ SameLocks(icache, icache)
  BY CallFrame, SameCache
<1>9. me.op # "relink"
  BY <1>4, <1>5 DEF Ops
<1>10. me.op \in Ops \cup {"relink"} /\ me.ip = at[p].ip /\ me.ip \in (IF me.op = "relink" THEN Slots ELSE {0})
  BY <1>4, <1>5, <1>7, <1>9, SMT
<1>11. Walk(p, disk, icache, me, c.path)
  BY <1>1
<1> QED BY <1>2, <1>3, <1>5, <1>7, <1>8, <1>10, <1>11, WalkStep

(* The first half of sys_link(). *)
LEMMA LinkStep ==
  ASSUME IInv, NEW p \in Procs, Link(p)
  PROVE  StepOK
<1> PICK me : me = at[p]
  OBVIOUS
<1>1. me.pc = "link" /\ UNCHANGED <<active, ftable, ofile, cwd>>
  BY DEF Link, At
<1>2. \/ \E w : icache' = Touch(icache, me.ip, w) /\ Goto(p, PutIp(me, "end"))
      \/ \E d, w : Walk(p, d, Touch(icache, me.ip, w), [me EXCEPT !.op = "relink", !.new = <<>>], me.new)
  BY DEF Link, PutIp
<1>3. IsCache(icache) /\ Frame(me)
  BY CallFrame
<1>4. ASSUME NEW w, icache' = Touch(icache, me.ip, w), Goto(p, PutIp(me, "end"))
      PROVE  StepOK
  <2>1. <<me.pc, "end">> \in IpSame
    BY <1>1 DEF IpSame
  <2>2. Kept(icache, icache') /\ SameRefs(icache, icache') /\ SameLocks(icache, icache')
    BY <1>3, <1>4, TouchIs
  <2> QED BY <1>1, <1>4, <2>1, <2>2, PutIpSame
<1>5. ASSUME NEW d, NEW w, Walk(p, d, Touch(icache, me.ip, w), [me EXCEPT !.op = "relink", !.new = <<>>], me.new)
      PROVE  StepOK
  <2> PICK nw : nw = [me EXCEPT !.op = "relink", !.new = <<>>]
    OBVIOUS
  <2> PICK c : c = Touch(icache, me.ip, w)
    OBVIOUS
  <2>1. Kept(icache, c) /\ SameRefs(icache, c) /\ SameLocks(icache, c)
    BY <1>3, TouchIs
  <2>2. IsFrame(me) /\ me.ip \in Slots /\ me.dp = 0 /\ me.put = 0
    BY <1>1, <1>3, SMT DEF Frame, HasIp, HasDp, After, Putting, IpPlaces, DpPlaces
  <2>3. IsFrame(nw) /\ nw.put = 0 /\ nw.op = "relink" /\ nw.ip = me.ip
    BY <2>2, FrameFields DEF IsFrame
  <2>4. Held(me) = {} /\ Stuck(me) = {}
    <3>1. Keeps(me) = {} /\ Frees(me) = {} /\ Stuck(me) = {}
      BY <1>1 DEF Keeps, Frees, Stuck, After, Putting
    <3> QED BY <3>1 DEF Held
  <2>5. p \in active' /\ active \subseteq active'
    BY <1>1, InOp
  <2>6. Walk(p, d, c, nw, me.new)
    BY <1>5
  <2>7. nw.op \in Ops \cup {"relink"} /\ nw.ip \in (IF nw.op = "relink" THEN Slots ELSE {0})
    BY <2>2, <2>3, SMT
  <2> QED BY <1>1, <2>1, <2>2, <2>3, <2>4, <2>5, <2>6, <2>7, WalkStep
<1> QED BY <1>2, <1>4, <1>5

(* Calls that have looked up a parent directory. *)
LEMMA ParentIs ==
  ASSUME NEW me, Frame(me), me.pc \in {"create", "unlink", "relink"}
  PROVE  /\ IsFrame(me) /\ me.dp \in Slots /\ me.put = 0 /\ Held(me) = {} /\ Stuck(me) = {me.dp}
         /\ me.ip \in (IF me.pc = "relink" THEN Slots ELSE {0})
<1>1. me.pc \notin Putting
  BY DEF Putting
<1>2. IsFrame(me) /\ me.put = 0 /\ After(me) = me.pc /\ Frees(me) = {}
  BY <1>1, Outside
<1>3. HasDp(me) /\ (HasIp(me) <=> me.pc = "relink")
  BY <1>2 DEF HasDp, HasIp, DpPlaces, IpPlaces
<1>4. Keeps(me) = {}
  BY <1>2 DEF Keeps
<1> QED BY <1>2, <1>3, <1>4 DEF Frame, Held, Stuck

(* They find the name in it, and lock the directory. *)
LEMMA LockGains ==
  ASSUME NEW me, Frame(me), NEW x, NEW y, NEW t \in Slots, NEW nw,
         \/ me.pc \in {"create", "unlink"} /\ x \in {"made", "victim"} /\ Is(nw, x, me.op, t, me.dp, 0, y)
         \/ me.pc = "relink" /\ Is(nw, "iput", me.op, me.ip, me.dp, t, "dup")
  PROVE  Gains(me, nw, t) /\ Held(nw) = {me.dp} /\ Keeps(nw) \cap Frees(nw) = {}
<1>1. /\ IsFrame(me) /\ me.dp \in Slots /\ me.put = 0
      /\ me.ip \in (IF me.pc = "relink" THEN Slots ELSE {0})
  BY ParentIs
<1>2. CASE me.pc \in {"create", "unlink"} /\ x \in {"made", "victim"} /\ Is(nw, x, me.op, t, me.dp, 0, y)
  <2>1. IsFrame(nw) /\ nw.pc \in {"made", "victim"} /\ nw.ip = t /\ nw.dp = me.dp /\ nw.put = 0 /\ me.ip = 0
    BY <1>1, <1>2 DEF Is
  <2>2. After(nw) = nw.pc /\ nw.pc \notin Putting
    BY <2>1 DEF After, Putting
  <2>3. HasIp(nw) /\ HasDp(nw)
    BY <2>1, <2>2 DEF HasIp, HasDp, IpPlaces, DpPlaces
  <2>4. Frame(nw)
    BY <1>1, <2>1, <2>2, <2>3 DEF Frame
  <2>5. Keeps(nw) = {me.dp} /\ Frees(nw) = {}
    BY <2>1, <2>2 DEF Keeps, Frees
  <2>6. More(me, nw, t)
    BY <1>1, <2>1, PtrMore
  <2> QED BY <2>4, <2>5, <2>6 DEF Gains, Held
<1>3. CASE me.pc = "relink" /\ Is(nw, "iput", me.op, me.ip, me.dp, t, "dup")
  <2>1. /\ IsFrame(nw) /\ nw.pc = "iput" /\ nw.then = "dup" /\ nw.ip = me.ip /\ nw.dp = me.dp /\ nw.put = t
        /\ me.ip \in Slots
    BY <1>1, <1>3 DEF Is
  <2>2. After(nw) = "dup" /\ nw.pc \in Putting
    BY <2>1 DEF After, Putting
  <2>3. HasIp(nw) /\ HasDp(nw)
    BY <2>1, <2>2 DEF HasIp, HasDp, IpPlaces, DpPlaces
  <2>4. Frame(nw)
    BY <1>1, <2>1, <2>2, <2>3 DEF Frame, Putting
  <2>5. Keeps(nw) = {me.dp} /\ Frees(nw) = {}
    BY <2>1, <2>2 DEF Keeps, Frees
  <2>6. More(me, nw, t)
    BY <1>1, <2>1, PtrMore
  <2> QED BY <2>4, <2>5, <2>6 DEF Gains, Held
<1> QED BY <1>2, <1>3

(* Where they go on with the directory locked. *)
Locked(me, nw, t) ==
  \/ me.pc \in {"create", "unlink"} /\ \E x \in {"made", "victim"} : Is(nw, x, me.op, t, me.dp, 0, me.then)
  \/ me.pc = "relink" /\ Is(nw, "iput", me.op, me.ip, me.dp, t, "dup")

(* iget() with the directory locked. *)
LEMMA LockedStep ==
  ASSUME IInv, NEW p \in Procs, at[p].pc \in {"create", "unlink", "relink"}, Unlocked(at[p].dp),
         active' = active, ftable' = ftable, ofile' = ofile, cwd' = cwd,
         NEW d, NEW w, NEW i, NEW nw, NEW c, c = Ilock(icache, at[p].dp, p, w), Found(p, d, c, i, nw),
         Locked(at[p], nw, Slot(c, i))
  PROVE  StepOK
<1> PICK me : me = at[p]
  OBVIOUS
<1>1. IsCache(icache) /\ Frame(me) /\ LocksExact
  BY CallFrame DEF IInv
<1>2. me.dp \in Slots /\ Held(me) = {} /\ Stuck(me) = {me.dp}
  BY <1>1, ParentIs
<1>3. Kept(icache, c) /\ SameRefs(icache, c) /\ LockSet(icache, c, me.dp, p)
  BY <1>1, <1>2, IlockIs
<1>4. Holds(p, at[p], icache, c)
  BY <1>1, <1>2, <1>3, HoldsStuck
<1>5. ASSUME Slot(c, i) \in Slots
      PROVE  Gains(me, nw, Slot(c, i)) /\ Holds(p, nw, icache, c)
  <2>1. Gains(me, nw, Slot(c, i)) /\ Held(nw) = {me.dp} /\ Keeps(nw) \cap Frees(nw) = {}
    BY <1>1, <1>5, LockGains DEF Locked
  <2>2. Held(nw) = Held(me) \cup {me.dp}
    BY <1>2, <2>1
  <2> QED BY <1>1, <1>2, <1>3, <2>1, <2>2, HoldsTake
<1>6. p \in active' /\ active \subseteq active'
  BY InOp
<1> QED BY <1>3, <1>4, <1>5, <1>6, FoundStep

(* The first half of sys_unlink(). *)
LEMMA UnlinkStep ==
  ASSUME IInv, NEW p \in Procs, Unlink(p)
  PROVE  StepOK
<1> PICK me : me = at[p]
  OBVIOUS
<1>1. me.pc = "unlink" /\ Unlocked(me.dp) /\ UNCHANGED <<active, ftable, ofile, cwd>>
  BY DEF Unlink, At
<1>2. IsCache(icache) /\ Frame(me)
  BY CallFrame
<1>3. IsFrame(me) /\ me.dp \in Slots /\ me.put = 0 /\ Stuck(me) = {me.dp}
  BY <1>1, <1>2, ParentIs
<1>4. \/ \E w : icache' = Touch(icache, me.dp, w) /\ Goto(p, PutDp(me, "end"))
      \/ \E d, w, i : \E c \in {Ilock(icache, me.dp, p, w)} :
           Found(p, d, c, i, [me EXCEPT !.pc = "victim", !.ip = Slot(c, i)])
  BY DEF Unlink, PutDp
<1>5. ASSUME NEW w, icache' = Touch(icache, me.dp, w), Goto(p, PutDp(me, "end"))
      PROVE  StepOK
  <2>1. <<me.pc, "end">> \in DpSame
    BY <1>1 DEF DpSame
  <2>2. Kept(icache, icache') /\ SameRefs(icache, icache') /\ SameLocks(icache, icache')
    BY <1>2, <1>5, TouchIs
  <2> QED BY <1>1, <1>3, <1>5, <2>1, <2>2, PutDpSame
<1>6. ASSUME NEW d, NEW w, NEW i, NEW c, c = Ilock(icache, me.dp, p, w),
             Found(p, d, c, i, [me EXCEPT !.pc = "victim", !.ip = Slot(c, i)])
      PROVE  StepOK
  <2> PICK nw : nw = [me EXCEPT !.pc = "victim", !.ip = Slot(c, i)]
    OBVIOUS
  <2>1. Is(nw, "victim", me.op, Slot(c, i), me.dp, 0, me.then)
    BY <1>3, FrameFields DEF Is, IsFrame
  <2>2. Locked(me, nw, Slot(c, i))
    BY <1>1, <2>1 DEF Locked
  <2> QED BY <1>1, <1>6, <2>2, LockedStep
<1> QED BY <1>4, <1>5, <1>6

(* dirlink() in sys_link(). *)
LEMMA RelinkStep ==
  ASSUME IInv, NEW p \in Procs, Relink(p)
  PROVE  StepOK
<1> PICK me : me = at[p]
  OBVIOUS
<1>1. me.pc = "relink" /\ Unlocked(me.dp) /\ UNCHANGED <<active, ftable, ofile, cwd>>
  BY DEF Relink, At
<1>2. IsCache(icache) /\ Frame(me)
  BY CallFrame
<1>3. IsFrame(me) /\ me.dp \in Slots /\ Stuck(me) = {me.dp}
  BY <1>1, <1>2, ParentIs
<1>4. \/ \E w : icache' = Touch(icache, me.dp, w) /\ Goto(p, PutDp(me, "putip"))
      \/ \E d, w, i : \E c \in {Ilock(icache, me.dp, p, w)} : Found(p, d, c, i, Put(me, Slot(c, i), "dup"))
  BY DEF Relink, PutDp
<1>5. ASSUME NEW w, icache' = Touch(icache, me.dp, w), Goto(p, PutDp(me, "putip"))
      PROVE  StepOK
  <2>1. <<me.pc, "putip">> \in DpSame
    BY <1>1 DEF DpSame
  <2>2. Kept(icache, icache') /\ SameRefs(icache, icache') /\ SameLocks(icache, icache')
    BY <1>2, <1>5, TouchIs
  <2> QED BY <1>1, <1>3, <1>5, <2>1, <2>2, PutDpSame
<1>6. ASSUME NEW d, NEW w, NEW i, NEW c, c = Ilock(icache, me.dp, p, w),
             Found(p, d, c, i, Put(me, Slot(c, i), "dup"))
      PROVE  StepOK
  <2> PICK nw : nw = Put(me, Slot(c, i), "dup")
    OBVIOUS
  <2>1. Is(nw, "iput", me.op, me.ip, me.dp, Slot(c, i), "dup")
    BY <1>3, FrameFields DEF Is, IsFrame, Put
  <2>2. Locked(me, nw, Slot(c, i))
    BY <1>1, <2>1 DEF Locked
  <2> QED BY <1>1, <1>6, <2>2, LockedStep
<1> QED BY <1>4, <1>5, <1>6

(* iget() of a name that exists, in namex() and create(), and iput(dp). *)
LEMMA PassGains ==
  ASSUME NEW me, Frame(me), NEW t \in Slots, NEW nw,
         \/ me.pc = "namex" /\ Is(nw, "iput", me.op, me.ip, t, me.dp, "namex")
         \/ me.pc = "create" /\ Is(nw, "iput", me.op, t, 0, me.dp, "exists")
  PROVE  Gains(me, nw, t) /\ Held(nw) = {} /\ Held(me) = {} /\ Keeps(nw) \cap Frees(nw) = {}
<1>1. me.pc \notin Putting
  BY DEF Putting
<1>2. IsFrame(me) /\ me.put = 0 /\ After(me) = me.pc /\ Frees(me) = {}
  BY <1>1, Outside
<1>3. HasDp(me)
  BY <1>2 DEF HasDp, DpPlaces
<1>4. me.dp \in Slots
  BY <1>3 DEF Frame
<1>5. Keeps(me) = {}
  BY <1>2 DEF Keeps
<1>6. IsFrame(nw) /\ nw.pc = "iput" /\ nw.op = me.op /\ nw.put = me.dp /\ Frees(nw) = {}
  BY DEF Is, Frees
<1>7. After(nw) = nw.then
  BY <1>6 DEF After, Putting
<1>8. CASE me.pc = "namex" /\ Is(nw, "iput", me.op, me.ip, t, me.dp, "namex")
  <2>1. nw.then = "namex" /\ nw.ip = me.ip /\ nw.dp = t /\ nw.put = me.dp
    BY <1>8 DEF Is
  <2>2. HasDp(nw) /\ (HasIp(nw) <=> HasIp(me))
    BY <1>2, <1>6, <1>7, <1>8, <2>1 DEF HasDp, HasIp, DpPlaces
  <2>3. Frame(nw)
    BY <1>2, <1>4, <1>6, <1>7, <1>8, <2>1, <2>2 DEF Frame, Putting
  <2>4. More(me, nw, t)
    BY <1>2, <2>1, PtrMore
  <2>5. Keeps(nw) = {}
    BY <1>7, <2>1 DEF Keeps
  <2> QED BY <1>2, <1>5, <1>6, <2>3, <2>4, <2>5 DEF Gains, Held
<1>9. CASE me.pc = "create" /\ Is(nw, "iput", me.op, t, 0, me.dp, "exists")
  <2>1. nw.then = "exists" /\ nw.ip = t /\ nw.dp = 0 /\ nw.put = me.dp
    BY <1>9 DEF Is
  <2>2. ~HasDp(nw) /\ HasIp(nw) /\ ~HasIp(me)
    BY <1>2, <1>7, <1>9, <2>1 DEF HasDp, HasIp, DpPlaces, IpPlaces
  <2>3. Frame(nw)
    BY <1>4, <1>6, <1>7, <2>1, <2>2 DEF Frame, Putting
  <2>4. me.ip = 0
    BY <2>2 DEF Frame
  <2>5. More(me, nw, t)
    BY <1>2, <2>1, <2>4, PtrMore
  <2>6. Keeps(nw) = {}
    BY <1>7, <2>1 DEF Keeps
  <2> QED BY <1>2, <1>5, <1>6, <2>3, <2>5, <2>6 DEF Gains, Held
<1> QED BY <1>8, <1>9

(* Where they go on. *)
Passed(me, nw, t) ==
  \/ me.pc = "namex" /\ Is(nw, "iput", me.op, me.ip, t, me.dp, "namex")
  \/ me.pc = "create" /\ Is(nw, "iput", me.op, t, 0, me.dp, "exists")

(* iget() with the directory unlocked again. *)
LEMMA PassStep ==
  ASSUME IInv, NEW p \in Procs, at[p].pc \in {"namex", "create"}, Unlocked(at[p].dp),
         active' = active, ftable' = ftable, ofile' = ofile, cwd' = cwd,
         NEW d, NEW w, NEW i, NEW nw, NEW c, c = Touch(icache, at[p].dp, w), Found(p, d, c, i, nw),
         Passed(at[p], nw, Slot(c, i))
  PROVE  StepOK
<1> PICK me : me = at[p]
  OBVIOUS
<1>1. IsCache(icache) /\ Frame(me) /\ LocksExact
  BY CallFrame DEF IInv
<1>2. Kept(icache, c) /\ SameRefs(icache, c) /\ SameLocks(icache, c)
  BY <1>1, TouchIs
<1>3. Holds(p, at[p], icache, c)
  BY <1>1, <1>2, HoldsStay
<1>4. \A s \in Stuck(me) : Unlocked(s)
  BY DEF Stuck
<1>5. ASSUME Slot(c, i) \in Slots
      PROVE  Gains(me, nw, Slot(c, i)) /\ Holds(p, nw, icache, c)
  <2>1. Gains(me, nw, Slot(c, i)) /\ Held(nw) = {} /\ Held(me) = {} /\ Keeps(nw) \cap Frees(nw) = {}
    BY <1>1, <1>5, PassGains DEF Passed
  <2> QED BY <1>1, <1>2, <1>4, <2>1, HoldsSame
<1>6. p \in active' /\ active \subseteq active'
  BY InOp
<1> QED BY <1>2, <1>3, <1>5, <1>6, FoundStep

(* create(), up to ialloc(). *)
LEMMA CreateStep ==
  ASSUME IInv, NEW p \in Procs, Create(p)
  PROVE  StepOK
<1> PICK me : me = at[p]
  OBVIOUS
<1>1. me.pc = "create" /\ Unlocked(me.dp) /\ UNCHANGED <<active, ftable, ofile, cwd>>
  BY DEF Create, At
<1>2. IsCache(icache) /\ Frame(me) /\ LocksExact
  BY CallFrame DEF IInv
<1>3. IsFrame(me) /\ me.dp \in Slots /\ me.put = 0
  BY <1>1, <1>2, ParentIs
<1>4. \/ \E d, w, i : \E c \in {Touch(icache, me.dp, w)} :
           Found(p, d, c, i, Put([me EXCEPT !.dp = 0, !.ip = Slot(c, i)], me.dp, "exists"))
      \/ UNCHANGED <<icache, at>>
      \/ \E d, w, i : \E c \in {Ilock(icache, me.dp, p, w)} :
           Found(p, d, c, i, [me EXCEPT !.pc = "made", !.ip = Slot(c, i)])
  BY DEF Create
<1>5. ASSUME NEW d, NEW w, NEW i, NEW c, c = Touch(icache, me.dp, w),
             Found(p, d, c, i, Put([me EXCEPT !.dp = 0, !.ip = Slot(c, i)], me.dp, "exists"))
      PROVE  StepOK
  <2> PICK nw : nw = Put([me EXCEPT !.dp = 0, !.ip = Slot(c, i)], me.dp, "exists")
    OBVIOUS
  <2>1. Is(nw, "iput", me.op, Slot(c, i), 0, me.dp, "exists")
    BY <1>3, FrameFields DEF Is, IsFrame, Put
  <2>2. Passed(me, nw, Slot(c, i))
    BY <1>1, <2>1 DEF Passed
  <2> QED BY <1>1, <1>5, <2>2, PassStep
<1>6. CASE UNCHANGED <<icache, at>>
  <2>1. Kept(icache, icache') /\ SameRefs(icache, icache') /\ SameLocks(icache, icache')
    BY <1>2, <1>6, SameCache
  <2>2. Holds(p, at[p], icache, icache')
    BY <1>2, <2>1, HoldsStay
  <2> QED BY <1>1, <1>6, <2>1, <2>2, CallPanics
<1>7. ASSUME NEW d, NEW w, NEW i, NEW c, c = Ilock(icache, me.dp, p, w),
             Found(p, d, c, i, [me EXCEPT !.pc = "made", !.ip = Slot(c, i)])
      PROVE  StepOK
  <2> PICK nw : nw = [me EXCEPT !.pc = "made", !.ip = Slot(c, i)]
    OBVIOUS
  <2>1. Is(nw, "made", me.op, Slot(c, i), me.dp, 0, me.then)
    BY <1>3, FrameFields DEF Is, IsFrame
  <2>2. Locked(me, nw, Slot(c, i))
    BY <1>1, <2>1 DEF Locked
  <2> QED BY <1>1, <1>7, <2>2, LockedStep
<1> QED BY <1>4, <1>5, <1>6, <1>7

(* The last element of a path to a parent directory. *)
LEMMA ServedIs ==
  ASSUME NEW me, Frame(me), me.pc = "namex", Parent(me), NEW nw,
         Is(nw, Served(me), me.op, me.ip, me.dp, me.put, me.then)
  PROVE  /\ Frame(nw) /\ Held(nw) = {} /\ Held(me) = {} /\ Keeps(nw) \cap Frees(nw) = {}
         /\ \A s \in Slots : Ptr(nw, s) = Ptr(me, s)
<1>1. /\ me.op \in {"create", "mkdir", "mknod", "unlink", "relink"}
      /\ Served(me) = IF me.op \in {"create", "mkdir", "mknod"} THEN "create" ELSE me.op
  BY SMT DEF Parent, Served
<1>2. IsFrame(nw) /\ nw.pc = Served(me) /\ nw.ip = me.ip /\ nw.dp = me.dp /\ nw.put = me.put
  BY DEF Is
<1>3. nw.pc \in {"create", "unlink", "relink"} /\ (nw.pc = "relink" <=> me.op = "relink")
  BY <1>1, <1>2, SMT
<1>4. After(nw) = nw.pc /\ nw.pc \notin Putting
  BY <1>3 DEF After, Putting
<1>5. me.put = 0 /\ After(me) = "namex" /\ Frees(me) = {}
  BY Outside DEF Putting
<1>6. HasDp(me) /\ HasDp(nw) /\ (HasIp(me) <=> HasIp(nw))
  BY <1>3, <1>4, <1>5 DEF HasDp, HasIp, DpPlaces, IpPlaces
<1>7. Frame(nw)
  BY <1>2, <1>3, <1>4, <1>5, <1>6 DEF Frame, Putting
<1>8. Keeps(nw) = {} /\ Frees(nw) = {} /\ Keeps(me) = {}
  BY <1>3, <1>4, <1>5 DEF Keeps, Frees
<1>9. \A s \in Slots : Ptr(nw, s) = Ptr(me, s)
  BY <1>2 DEF Ptr
<1> QED BY <1>5, <1>7, <1>8, <1>9 DEF Held

(* One round of namex()'s loop. *)
LEMMA NamexNextStep ==
  ASSUME IInv, NEW p \in Procs, NamexNext(p)
  PROVE  StepOK
<1> PICK me : me = at[p]
  OBVIOUS
<1>1. me.pc = "namex" /\ Unlocked(me.dp) /\ UNCHANGED <<active, ftable, ofile, cwd>>
  BY DEF NamexNext, At
<1>2. IsCache(icache) /\ Frame(me) /\ LocksExact
  BY CallFrame DEF IInv
<1>3. IsFrame(me) /\ Stuck(me) = {}
  BY <1>1, <1>2 DEF Frame, Stuck
<1>4. \/ \E w : icache' = Touch(icache, me.dp, w) /\ Goto(p, PutDp(me, Failed(me)))
      \/ \E w, y : /\ Parent(me) /\ icache' = Touch(icache, me.dp, w)
                   /\ Goto(p, [me EXCEPT !.pc = Served(me), !.name = y, !.path = <<>>])
      \/ \E d, w, i, y : \E c \in {Touch(icache, me.dp, w)} :
           Found(p, d, c, i, Put([me EXCEPT !.dp = Slot(c, i), !.path = Tail(@), !.via = y], me.dp, "namex"))
  BY DEF NamexNext, PutDp
<1>5. ASSUME NEW w, icache' = Touch(icache, me.dp, w), Goto(p, PutDp(me, Failed(me)))
      PROVE  StepOK
  <2>1. Kept(icache, icache') /\ SameRefs(icache, icache') /\ SameLocks(icache, icache')
    BY <1>2, <1>5, TouchIs
  <2> QED BY <1>1, <1>3, <1>5, <2>1, PutDpSame
<1>6. ASSUME NEW w, NEW y, Parent(me), icache' = Touch(icache, me.dp, w),
             Goto(p, [me EXCEPT !.pc = Served(me), !.name = y, !.path = <<>>])
      PROVE  StepOK
  <2> PICK nw : nw = [me EXCEPT !.pc = Served(me), !.name = y, !.path = <<>>]
    OBVIOUS
  <2>1. Is(nw, Served(me), me.op, me.ip, me.dp, me.put, me.then)
    BY <1>3, FrameFields DEF Is, IsFrame
  <2>2. /\ Frame(nw) /\ Held(nw) = {} /\ Held(me) = {} /\ Keeps(nw) \cap Frees(nw) = {}
        /\ \A s \in Slots : Ptr(nw, s) = Ptr(me, s)
    BY <1>1, <1>2, <1>6, <2>1, ServedIs
  <2>3. Kept(icache, icache') /\ SameRefs(icache, icache') /\ SameLocks(icache, icache')
    BY <1>2, <1>6, TouchIs
  <2>4. Balanced(icache, icache', me, nw)
    BY <2>2, <2>3, BalancedSame
  <2>5. Holds(p, nw, icache, icache')
    BY <1>2, <1>3, <2>2, <2>3, HoldsSame
  <2> QED BY <1>1, <1>6, <2>2, <2>3, <2>4, <2>5, CallOn
<1>7. ASSUME NEW d, NEW w, NEW i, NEW y, NEW c, c = Touch(icache, me.dp, w),
             Found(p, d, c, i, Put([me EXCEPT !.dp = Slot(c, i), !.path = Tail(@), !.via = y], me.dp, "namex"))
      PROVE  StepOK
  <2> PICK nw : nw = Put([me EXCEPT !.dp = Slot(c, i), !.path = Tail(@), !.via = y], me.dp, "namex")
    OBVIOUS
  <2>1. Is(nw, "iput", me.op, me.ip, Slot(c, i), me.dp, "namex")
    BY <1>3, FrameFields DEF Is, IsFrame, Put
  <2>2. Passed(me, nw, Slot(c, i))
    BY <1>1, <2>1 DEF Passed
  <2> QED BY <1>1, <1>7, <2>2, PassStep
<1> QED BY <1>4, <1>5, <1>6, <1>7

-----------------------------------------------------------------------------
(* The file table *)

(* File f is now x, descriptor k of process p is y, and the count is right. *)
FileSet(f, x) == ftable' = [g \in 1..NFILE |-> IF g = f THEN x ELSE ftable[g]]
Described(p, k, y, f, x) ==
  /\ ofile' = [ofile EXCEPT ![p][k] = y] /\ FileSet(f, x) /\ {ofile[p][k], y} \subseteq {0, f}
  /\ x.ref + One(ofile[p][k] = f) = ftable[f].ref + One(y = f)
  /\ IsFile(x) /\ (x.ref > 0 => x.ip \in Slots)

(* The file table after it. *)
LEMMA FileIs ==
  ASSUME IInv, NEW f \in 1..NFILE, NEW x, IsFile(x), FileSet(f, x)
  PROVE  /\ ftable' = [g \in 1..NFILE |-> ftable'[g]] /\ ftable'[f] = x
         /\ \A g \in 1..NFILE : IsFile(ftable'[g]) /\ (g # f => ftable'[g] = ftable[g])
<1>1. \A g \in 1..NFILE : ftable'[g] = IF g = f THEN x ELSE ftable[g]
  BY SMT DEF FileSet
<1>2. ftable' = [g \in 1..NFILE |-> ftable'[g]]
  BY SMT DEF FileSet
<1>3. \A g \in 1..NFILE : IsFile(ftable[g])
  BY DEF IInv, FilesTypeOK
<1> QED BY <1>1, <1>2, <1>3

(* f->ref counts the descriptors after it. *)
LEMMA DescribedIs ==
  ASSUME IInv, NEW p \in Procs, NEW k \in Fds, NEW y, NEW f \in 1..NFILE, NEW x, Described(p, k, y, f, x)
  PROVE  FilesCounted' /\ ofile' \in [Procs -> [Fds -> 0..NFILE]]
<1>1. ofile \in [Procs -> [Fds -> 0..NFILE]]
  BY DEF IInv, FilesTypeOK
<1>2. y \in {0, f} /\ ofile[p][k] \in {0, f} /\ 0 # f
  BY Numbers DEF Described
<1>3. 0 \in 0..NFILE /\ f \in 0..NFILE
  BY FilesAssumption, SMT
<1>4. \A q \in Procs, j \in Fds : ofile'[q][j] = IF q = p /\ j = k THEN y ELSE ofile[q][j]
  BY <1>1, SMT DEF Described
<1>5. ofile' \in [Procs -> [Fds -> 0..NFILE]]
  BY <1>1, <1>2, <1>3, SMT DEF Described
<1>6. ASSUME NEW g \in 1..NFILE
      PROVE  /\ ftable'[g].ref = Cardinality({d \in Procs \X Fds : ofile'[d[1]][d[2]] = g})
             /\ ftable'[g].ref > 0 => ftable'[g].ip \in Slots
  <2> DEFINE S == {d \in Procs \X Fds : ofile[d[1]][d[2]] = g}
             T == {d \in Procs \X Fds : ofile'[d[1]][d[2]] = g}
  <2>1. ftable[g].ref = Cardinality(S) /\ (ftable[g].ref > 0 => ftable[g].ip \in Slots)
    BY <1>6 DEF IInv, FilesCounted
  <2>2. OneOff(S, T, <<p, k>>)
    <3>1. \A d \in Procs \X Fds : d # <<p, k>> => ofile'[d[1]][d[2]] = ofile[d[1]][d[2]]
      BY <1>4, SMT
    <3>2. S \ {<<p, k>>} = T \ {<<p, k>>}
      BY <3>1
    <3>3. S \subseteq Procs \X Fds /\ T \subseteq Procs \X Fds
      OBVIOUS
    <3> QED BY <3>2, <3>3, Numbers, CardChange
  <2>3. (<<p, k>> \in S <=> ofile[p][k] = g) /\ (<<p, k>> \in T <=> y = g)
    BY <1>4, SMT
  <2>4. One(<<p, k>> \in S) = One(ofile[p][k] = g) /\ One(<<p, k>> \in T) = One(y = g)
    BY <2>3 DEF One
  <2>5. /\ Cardinality(S) \in Nat /\ Cardinality(T) \in Nat
        /\ Cardinality(T) + One(ofile[p][k] = g) = Cardinality(S) + One(y = g)
    BY <2>2, <2>4 DEF OneOff
  <2>6. ftable'[f] = x /\ (g # f => ftable'[g] = ftable[g]) /\ IsFile(ftable'[g])
    BY <1>6, FileIs DEF Described
  <2>7. CASE g = f
    <3>1. x.ref \in Nat
      BY DEF Described, IsFile
    <3>2. x.ref + One(ofile[p][k] = g) = ftable[g].ref + One(y = g)
      BY <2>7 DEF Described
    <3>3. PICK m \in Nat : m = One(ofile[p][k] = g)
      BY SMT DEF One
    <3>4. PICK n \in Nat : n = One(y = g)
      BY SMT DEF One
    <3> HIDE DEF S, T
    <3>5. x.ref = Cardinality(T)
      BY ONLY <2>1, <2>5, <3>1, <3>2, <3>3, <3>4
    <3> QED BY <2>6, <2>7, <3>5 DEF Described, T
  <2>8. CASE g # f
    <3>1. g # 0
      BY Numbers
    <3>2. One(ofile[p][k] = g) = 0 /\ One(y = g) = 0
      BY <1>2, <2>8, <3>1 DEF One
    <3> HIDE DEF S, T
    <3>3. Cardinality(T) = Cardinality(S)
      BY ONLY <2>5, <3>2
    <3> QED BY <2>1, <2>6, <2>8, <3>3 DEF T
  <2> QED BY <2>7, <2>8
<1> QED BY <1>5, <1>6 DEF FilesCounted

(* What file x and a call with frame me point to, and pass to each other. *)
Owner(x, s) == One(x.ref > 0 /\ x.ip = s)
HandOver(x, me, y, nw) == \A s \in Slots : Owner(x, s) + Ptr(me, s) = Owner(y, s) + Ptr(nw, s)

(* A step of process p that opens, duplicates or closes file f. *)
LEMMA FileStep ==
  ASSUME IInv, NEW p \in Procs, NEW nw, Goto(p, nw), Frame(nw), Kept(icache, icache'),
         SameRefs(icache, icache'), Holds(p, nw, icache, icache'), Logged(p, nw), cwd' = cwd,
         NEW k \in Fds, NEW y, NEW f \in 1..NFILE, NEW x, Described(p, k, y, f, x),
         HandOver(ftable[f], at[p], x, nw)
  PROVE  StepOK
<1>1. /\ IsCache(icache') /\ OneEntry' /\ LocksExact' /\ InOperation' /\ Committed'
      /\ at' = [q \in Procs |-> at'[q]] /\ \A q \in Procs : Frame(at'[q])
  BY CommonStep
<1>2. at'[p] = nw /\ \A q \in Procs \ {p} : at'[q] = at[q]
  BY GotoIs DEF IInv
<1>3. FilesCounted' /\ ofile' \in [Procs -> [Fds -> 0..NFILE]]
  BY DescribedIs
<1>4. /\ ftable' = [g \in 1..NFILE |-> ftable'[g]] /\ ftable'[f] = x
      /\ \A g \in 1..NFILE : IsFile(ftable'[g]) /\ (g # f => ftable'[g] = ftable[g])
  BY FileIs DEF Described
<1>5. FilesTypeOK'
  BY <1>1, <1>3, <1>4 DEF FilesTypeOK, IInv
<1>6. RefsExact'
  <2>1. DOMAIN ftable = 1..NFILE
    BY SMT DEF FilesTypeOK, IInv
  <2>2. DOMAIN ftable' = 1..NFILE
    BY <1>4, SMT
  <2>3. OnlyFile(f)
    BY <1>4, <2>1, <2>2 DEF OnlyFile, OpenAt
  <2>4. Even(p, f)
    <3> SUFFICES ASSUME NEW s \in Slots
                 PROVE  icache'[s].ref + One(cwd[p] = s) + One(OpenAt(ftable, f, s)) + Ptr(at[p], s)
                          = icache[s].ref + One(cwd'[p] = s) + One(OpenAt(ftable', f, s)) + Ptr(at'[p], s)
      BY DEF Even
    <3>1. One(OpenAt(ftable, f, s)) = Owner(ftable[f], s) /\ One(OpenAt(ftable', f, s)) = Owner(x, s)
      BY <1>4, <2>1, <2>2 DEF OpenAt, Owner, One
    <3>2. icache'[s].ref = icache[s].ref /\ Ptr(at'[p], s) = Ptr(nw, s) /\ One(cwd'[p] = s) = One(cwd[p] = s)
      BY <1>2 DEF SameRefs
    <3>3. Owner(ftable[f], s) + Ptr(at[p], s) = Owner(x, s) + Ptr(nw, s)
      BY DEF HandOver
    <3>4. /\ Owner(ftable[f], s) \in Nat /\ Owner(x, s) \in Nat /\ Ptr(at[p], s) \in Nat /\ Ptr(nw, s) \in Nat
          /\ One(cwd[p] = s) \in Nat
      BY PtrIsNat, SMT DEF Owner, One
    <3>5. icache[s].ref \in Nat
      BY CallFrame, RefIsNat
    <3>6. PICK w \in Nat : w = One(cwd[p] = s)
      BY <3>4
    <3>7. icache[s].ref + w + Owner(ftable[f], s) + Ptr(at[p], s) = icache[s].ref + w + Owner(x, s) + Ptr(nw, s)
      BY ONLY <3>3, <3>4, <3>5
    <3> QED BY <3>1, <3>2, <3>6, <3>7
  <2> QED BY <1>1, <1>2, <2>1, <2>2, <2>3, <2>4, CallFrame, RefsStep DEF IInv
<1> QED BY <1>1, <1>3, <1>5, <1>6 DEF IInv, StepOK, Kept

(* The locks that sys_open() has, and gives back. *)
Opening(me, c) ==
  \/ me.pc \in {"open", "exists"} /\ SameLocks(icache, c)
  \/ me.pc = "created" /\ LockSet(icache, c, me.ip, None)

(* filealloc() and fdalloc() succeed. *)
LEMMA FileOpened ==
  ASSUME IInv, NEW p \in Procs, NEW me, me = at[p], Opening(me, icache'), active' = active, cwd' = cwd,
         Kept(icache, icache'), SameRefs(icache, icache'),
         NEW f \in 1..NFILE, ftable[f].ref = 0, NEW k \in Fds, ofile[p][k] = 0,
         ftable' = [ftable EXCEPT ![f] = [ref |-> 1, ip |-> me.ip, off |-> 0]],
         ofile' = [ofile EXCEPT ![p][k] = f], Goto(p, [me EXCEPT !.pc = "end", !.ip = 0])
  PROVE  StepOK
<1>1. Frame(me) /\ LocksExact
  BY CallFrame DEF IInv
<1>2. me.pc \in {"open", "exists", "created"}
  BY DEF Opening
<1>3. IsFrame(me) /\ me.put = 0 /\ After(me) = me.pc /\ Frees(me) = {}
  BY <1>1, <1>2, Outside DEF Putting
<1>4. HasIp(me) /\ ~HasDp(me)
  BY <1>2, <1>3 DEF HasIp, HasDp, IpPlaces, DpPlaces
<1>5. me.ip \in Slots /\ me.dp = 0
  BY <1>1, <1>4 DEF Frame
<1> PICK nw : nw = [me EXCEPT !.pc = "end", !.ip = 0]
  OBVIOUS
<1>6. BareAt(nw, "end")
  BY <1>3, <1>5, FrameFields DEF BareAt, IsFrame
<1>7. nw.pc = "end" /\ nw.ip = 0 /\ nw.dp = 0 /\ nw.put = 0
  BY <1>6 DEF BareAt
<1>8. Frame(nw) /\ Keeps(nw) \cap Frees(nw) = {}
  BY <1>6, BareFrame DEF Bare
<1>9. Held(nw) = {} /\ Stuck(me) = {}
  BY <1>2, <1>7, <1>8, BareIs DEF Bare, Stuck
<1>10. Holds(p, nw, icache, icache')
  <2>1. CASE me.pc \in {"open", "exists"} /\ SameLocks(icache, icache')
    <3>1. Held(me) = {}
      BY <1>3, <2>1 DEF Held, Keeps
    <3> QED BY <1>1, <1>8, <1>9, <2>1, <3>1, HoldsSame
  <2>2. CASE me.pc = "created" /\ LockSet(icache, icache', me.ip, None)
    <3>1. Held(me) = {me.ip}
      BY <1>3, <2>2 DEF Held, Keeps
    <3>2. Held(me) = Held(nw) \cup {me.ip} /\ me.ip \notin Held(nw)
      BY <1>9, <3>1
    <3> QED BY <1>1, <1>5, <1>8, <1>9, <2>2, <3>2, HoldsGive
  <2> QED BY <2>1, <2>2 DEF Opening
<1> PICK x : x = [ref |-> 1, ip |-> me.ip, off |-> 0]
  OBVIOUS
<1>11. IsFile(x) /\ x.ref = 1 /\ x.ip = me.ip
  BY FileFields, SMT DEF IsFile
<1>12. FileSet(f, x)
  BY DEF FileSet, IInv, FilesTypeOK
<1>13. Described(p, k, f, f, x)
  <2>1. f # 0
    BY Numbers
  <2>2. x.ref + One(ofile[p][k] = f) = ftable[f].ref + One(f = f)
    BY <1>11, <2>1, SMT DEF One
  <2> QED BY <1>5, <1>11, <1>12, <2>2 DEF Described
<1>14. HandOver(ftable[f], me, x, nw)
  <2> SUFFICES ASSUME NEW s \in Slots
               PROVE  Owner(ftable[f], s) + Ptr(me, s) = Owner(x, s) + Ptr(nw, s)
    BY DEF HandOver
  <2>1. s # 0
    BY Numbers
  <2>2. Owner(ftable[f], s) = 0 /\ Owner(x, s) = One(me.ip = s)
    BY <1>11, SMT DEF Owner, One
  <2>3. Ptr(me, s) = One(me.ip = s) + 0 + 0 /\ Ptr(nw, s) = 0 + 0 + 0
    BY <1>3, <1>5, <1>7, <2>1, SMT DEF Ptr, One
  <2>4. PICK n \in Nat : n = One(me.ip = s)
    BY SMT DEF One
  <2> QED BY ONLY <2>2, <2>3, <2>4
<1>15. Logged(p, nw)
  BY <1>2, InOp DEF Logged
<1> QED BY <1>8, <1>10, <1>13, <1>14, <1>15, FileStep

(* The end of sys_open(). *)
LEMMA OpenFileStep ==
  ASSUME IInv, NEW p \in Procs, NEW c, OpenFile(p, c, at[p].ip), Opening(at[p], c), active' = active,
         cwd' = cwd, Kept(icache, c), SameRefs(icache, c)
  PROVE  StepOK
<1> PICK me : me = at[p]
  OBVIOUS
<1> DEFINE fs == {f \in DOMAIN ftable : ftable[f].ref = 0}
           ks == {k \in Fds : ofile[p][k] = 0}
<1>1. icache' = c
  BY DEF OpenFile
<1>2. CASE fs = {} \/ ks = {}
  <2>1. Goto(p, PutIp(at[p], "end")) /\ ftable' = ftable /\ ofile' = ofile
    BY <1>2 DEF OpenFile, PutIp
  <2>2. CASE at[p].pc \in {"open", "exists"} /\ SameLocks(icache, c)
    <3>1. <<at[p].pc, "end">> \in IpSame
      BY <2>2 DEF IpSame
    <3> QED BY <1>1, <2>1, <2>2, <3>1, PutIpSame
  <2>3. CASE at[p].pc = "created" /\ LockSet(icache, c, at[p].ip, None)
    <3>1. <<at[p].pc, "end">> \in IpGive
      BY <2>3 DEF IpGive
    <3> QED BY <1>1, <2>1, <2>3, <3>1, PutIpGive
  <2> QED BY <2>2, <2>3 DEF Opening
<1>3. CASE fs # {} /\ ks # {}
  <2>1. DOMAIN ftable = 1..NFILE
    BY SMT DEF IInv, FilesTypeOK
  <2>2. fs \subseteq Nat /\ ks \subseteq Nat
    BY <2>1, Numbers
  <2>3. First(fs) \in fs /\ First(ks) \in ks
    BY <1>3, <2>2, FirstIs
  <2> PICK f : f = First(fs)
    OBVIOUS
  <2> PICK k : k = First(ks)
    OBVIOUS
  <2>4. f \in 1..NFILE /\ ftable[f].ref = 0 /\ k \in Fds /\ ofile[p][k] = 0
    BY <2>1, <2>3
  <2>5. /\ ftable' = [ftable EXCEPT ![f] = [ref |-> 1, ip |-> me.ip, off |-> 0]]
        /\ ofile' = [ofile EXCEPT ![p][k] = f] /\ Goto(p, [me EXCEPT !.pc = "end", !.ip = 0])
    BY <1>3 DEF OpenFile
  <2> QED BY <1>1, <2>4, <2>5, FileOpened
<1> QED BY <1>2, <1>3

(* sys_open() of a name that exists. *)
LEMMA OpenStep ==
  ASSUME IInv, NEW p \in Procs, Open(p)
  PROVE  StepOK
<1>1. PICK w : \/ icache' = Touch(icache, at[p].ip, w) /\ Goto(p, PutIp(at[p], "end")) /\ UNCHANGED <<ftable, ofile>>
               \/ OpenFile(p, Touch(icache, at[p].ip, w), at[p].ip)
  BY DEF Open, PutIp
<1>2. at[p].pc = "open" /\ UNCHANGED <<active, cwd>>
  BY DEF Open, At, disks
<1> PICK c : c = Touch(icache, at[p].ip, w)
  OBVIOUS
<1>3. Kept(icache, c) /\ SameRefs(icache, c) /\ SameLocks(icache, c)
  BY CallFrame, TouchIs
<1>4. <<at[p].pc, "end">> \in IpSame
  BY <1>2 DEF IpSame
<1>5. CASE icache' = c /\ Goto(p, PutIp(at[p], "end")) /\ UNCHANGED <<ftable, ofile>>
  BY <1>2, <1>3, <1>4, <1>5, PutIpSame
<1>6. CASE OpenFile(p, c, at[p].ip)
  <2>1. Opening(at[p], c)
    BY <1>2, <1>3 DEF Opening
  <2> QED BY <1>2, <1>3, <1>6, <2>1, OpenFileStep
<1> QED BY <1>1, <1>5, <1>6

(* create() of a name that exists. *)
LEMMA CreateExistsStep ==
  ASSUME IInv, NEW p \in Procs, CreateExists(p)
  PROVE  StepOK
<1>1. PICK w : \/ icache' = Touch(icache, at[p].ip, w) /\ Goto(p, PutIp(at[p], "end")) /\ UNCHANGED <<ftable, ofile>>
               \/ OpenFile(p, Touch(icache, at[p].ip, w), at[p].ip)
  BY DEF CreateExists, PutIp
<1>2. at[p].pc = "exists" /\ UNCHANGED <<active, cwd>>
  BY DEF CreateExists, At, disks
<1> PICK c : c = Touch(icache, at[p].ip, w)
  OBVIOUS
<1>3. Kept(icache, c) /\ SameRefs(icache, c) /\ SameLocks(icache, c)
  BY CallFrame, TouchIs
<1>4. <<at[p].pc, "end">> \in IpSame
  BY <1>2 DEF IpSame
<1>5. CASE icache' = c /\ Goto(p, PutIp(at[p], "end")) /\ UNCHANGED <<ftable, ofile>>
  BY <1>2, <1>3, <1>4, <1>5, PutIpSame
<1>6. CASE OpenFile(p, c, at[p].ip)
  <2>1. Opening(at[p], c)
    BY <1>2, <1>3 DEF Opening
  <2> QED BY <1>2, <1>3, <1>6, <2>1, OpenFileStep
<1> QED BY <1>1, <1>5, <1>6

(* create() has returned a new inode. *)
LEMMA CreateDoneStep ==
  ASSUME IInv, NEW p \in Procs, CreateDone(p)
  PROVE  StepOK
<1> PICK c : c = [icache EXCEPT ![at[p].ip].lock = None]
  OBVIOUS
<1>1. \/ icache' = c /\ Goto(p, PutIp(at[p], "end")) /\ UNCHANGED <<ftable, ofile>>
      \/ OpenFile(p, c, at[p].ip)
  BY DEF CreateDone, PutIp, Iunlock
<1>2. at[p].pc = "created" /\ UNCHANGED <<active, cwd>>
  BY DEF CreateDone, At, disks
<1>3. <<at[p].pc, "end">> \in IpGive
  BY <1>2 DEF IpGive
<1>4. at[p].ip \in Slots
  BY <1>3, CallFrame, PutIpFrame DEF LeavesIp
<1>5. Kept(icache, c) /\ SameRefs(icache, c) /\ LockSet(icache, c, at[p].ip, None)
  BY <1>4, CallFrame, LockIs
<1>6. CASE icache' = c /\ Goto(p, PutIp(at[p], "end")) /\ UNCHANGED <<ftable, ofile>>
  BY <1>2, <1>3, <1>5, <1>6, PutIpGive
<1>7. CASE OpenFile(p, c, at[p].ip)
  <2>1. Opening(at[p], c)
    BY <1>2, <1>5 DEF Opening
  <2> QED BY <1>2, <1>5, <1>7, <2>1, OpenFileStep
<1> QED BY <1>1, <1>6, <1>7

(* A file with a descriptor is open. *)
LEMMA FileInUse ==
  ASSUME IInv, NEW p \in Procs, NEW k \in Fds, NEW f, f = ofile[p][k], f # 0
  PROVE  f \in 1..NFILE /\ IsFile(ftable[f]) /\ ftable[f].ref > 0 /\ ftable[f].ip \in Slots
<1>1. f \in 1..NFILE
  <2>1. ofile[p][k] \in 0..NFILE
    BY SMT DEF IInv, FilesTypeOK
  <2> QED BY <2>1, FilesAssumption, SMT
<1>2. IsFile(ftable[f])
  BY <1>1 DEF IInv, FilesTypeOK
<1> DEFINE S == {d \in Procs \X Fds : ofile[d[1]][d[2]] = f}
<1>3. ftable[f].ref = Cardinality(S) /\ (ftable[f].ref > 0 => ftable[f].ip \in Slots)
  BY <1>1 DEF IInv, FilesCounted
<1>4. <<p, k>> \in S
  OBVIOUS
<1>5. IsFiniteSet(S)
  BY Numbers, FS_Subset
<1>6. Cardinality(S) # 0
  BY <1>4, <1>5, FS_EmptySet
<1>7. ftable[f].ref \in Nat
  BY <1>2 DEF IsFile
<1> HIDE DEF S
<1>8. ftable[f].ref > 0
  BY ONLY <1>3, <1>6, <1>7
<1> QED BY <1>1, <1>2, <1>3, <1>8

(* The count of descriptors of a file changes, and it stays open. *)
Recount(f, n) == [ftable[f] EXCEPT !.ref = n]

(* Such a file is well formed, and hands its reference to the inode over. *)
LEMMA CountIs ==
  ASSUME NEW f, IsFile(ftable[f]), ftable[f].ref > 0, NEW n \in Nat, n > 0, NEW x, x = Recount(f, n), NEW me
  PROVE  IsFile(x) /\ x.ref = n /\ x.ip = ftable[f].ip /\ HandOver(ftable[f], me, x, me)
<1>1. IsFile(x) /\ x.ref = n /\ x.ip = ftable[f].ip
  BY FileFields, SMT DEF IsFile, Recount
<1>2. \A s \in Slots : Owner(ftable[f], s) = Owner(x, s)
  BY <1>1 DEF Owner, One
<1> QED BY <1>1, <1>2 DEF HandOver

(* A step on the descriptors of a process that is in no call. *)
LEMMA UserFileStep ==
  ASSUME IInv, NEW p \in Procs, at[p].pc = "user", UNCHANGED <<disks, icache, cwd, at>>,
         NEW k \in Fds, NEW y, NEW f \in 1..NFILE, NEW x, Described(p, k, y, f, x),
         HandOver(ftable[f], at[p], x, at[p])
  PROVE  StepOK
<1>1. Kept(icache, icache') /\ SameRefs(icache, icache') /\ SameLocks(icache, icache')
  BY CallFrame, SameCache
<1>2. Holds(p, at[p], icache, icache')
  BY <1>1, HoldsStay DEF IInv
<1>3. Logged(p, at[p])
  BY DEF Logged, disks, IInv, Committed
<1>4. Goto(p, at[p]) /\ Frame(at[p])
  BY StayIn
<1> QED BY <1>1, <1>2, <1>3, <1>4, FileStep

(* filedup() *)
LEMMA SysDupStep ==
  ASSUME IInv, NEW p \in Procs, NEW k \in Fds, SysDup(p, k)
  PROVE  StepOK
<1> PICK f : f = ofile[p][k]
  OBVIOUS
<1> DEFINE ks == {j \in Fds : ofile[p][j] = 0}
<1> PICK j : j = First(ks)
  OBVIOUS
<1>1. /\ at[p].pc = "user" /\ UNCHANGED <<disks, icache, cwd, at>> /\ f # 0 /\ ks # {}
      /\ ofile' = [ofile EXCEPT ![p][j] = f] /\ ftable' = [ftable EXCEPT ![f].ref = ftable[f].ref + 1]
  BY DEF SysDup, Calling, At
<1>2. j \in Fds /\ ofile[p][j] = 0
  <2>1. ks \subseteq Nat
    BY Numbers
  <2>2. First(ks) \in ks
    BY <1>1, <2>1, FirstIs
  <2> QED BY <2>2
<1>3. f \in 1..NFILE /\ IsFile(ftable[f]) /\ ftable[f].ref > 0 /\ ftable[f].ip \in Slots
  BY <1>1, FileInUse
<1>4. PICK n : n = ftable[f].ref + 1
  OBVIOUS
<1>5. n \in Nat /\ n > 0
  <2>1. ftable[f].ref \in Nat
    BY <1>3 DEF IsFile
  <2> QED BY ONLY <1>4, <2>1
<1> PICK x : x = Recount(f, n)
  OBVIOUS
<1>6. FileSet(f, x) /\ IsFile(x) /\ x.ref = n /\ x.ip = ftable[f].ip /\ HandOver(ftable[f], at[p], x, at[p])
  <2>1. FileSet(f, x)
    BY <1>1, <1>4 DEF Recount, FileSet, IInv, FilesTypeOK
  <2>2. IsFile(x) /\ x.ref = n /\ x.ip = ftable[f].ip /\ HandOver(ftable[f], at[p], x, at[p])
    BY <1>3, <1>5, CountIs, SMT
  <2> QED BY <2>1, <2>2
<1>7. Described(p, j, f, f, x)
  <2>1. f # 0 /\ x.ref = ftable[f].ref + 1 /\ ftable[f].ref \in Nat
    BY <1>1, <1>3, <1>4, <1>6 DEF IsFile
  <2>2. One(ofile[p][j] = f) = 0 /\ One(f = f) = 1
    BY <1>2, <2>1 DEF One
  <2>3. x.ref + One(ofile[p][j] = f) = ftable[f].ref + One(f = f)
    BY ONLY <2>1, <2>2
  <2> QED BY <1>1, <1>2, <1>3, <1>6, <2>3 DEF Described
<1> QED BY <1>1, <1>2, <1>3, <1>6, <1>7, UserFileStep

(* The last reference to a file is closed. *)
LEMMA FileClosed ==
  ASSUME IInv, NEW p \in Procs, at[p].pc = "user", icache' = icache, cwd' = cwd,
         active' = active \cup {p}, NEW k \in Fds, NEW f \in 1..NFILE, Described(p, k, 0, f, NoFile),
         ftable[f].ref > 0, ftable[f].ip \in Slots, Goto(p, Put(User, ftable[f].ip, "end"))
  PROVE  StepOK
<1>1. PICK t \in Slots : t = ftable[f].ip
  OBVIOUS
<1> PICK nw : nw = Put(User, t, "end")
  OBVIOUS
<1>2. IsFrame(nw) /\ nw.pc = "iput" /\ nw.ip = 0 /\ nw.dp = 0 /\ nw.put = t /\ nw.then = "end"
  BY DEF IsFrame, Put, User
<1> PICK me : me = at[p]
  OBVIOUS
<1>3. me.ip = 0 /\ me.dp = 0 /\ me.put = 0 /\ Held(me) = {} /\ Stuck(me) = {}
  BY CallFrame, BareIs DEF Bare
<1>4. After(nw) = "end"
  BY <1>2 DEF After, Putting
<1>5. ~HasIp(nw) /\ ~HasDp(nw) /\ nw.pc \in Putting
  BY <1>2, <1>4 DEF HasIp, HasDp, IpPlaces, DpPlaces, Putting
<1>6. Frame(nw)
  BY <1>2, <1>4, <1>5 DEF Frame, Putting
<1>7. Keeps(nw) = {} /\ Frees(nw) = {}
  BY <1>2, <1>4 DEF Keeps, Frees
<1>8. Held(nw) = {} /\ Keeps(nw) \cap Frees(nw) = {}
  BY <1>7 DEF Held
<1>9. Kept(icache, icache') /\ SameRefs(icache, icache') /\ SameLocks(icache, icache')
  BY CallFrame, SameCache
<1>10. Holds(p, nw, icache, icache')
  BY <1>3, <1>8, <1>9, HoldsSame DEF IInv
<1>11. HandOver(ftable[f], me, NoFile, nw)
  <2> SUFFICES ASSUME NEW s \in Slots
               PROVE  Owner(ftable[f], s) + Ptr(me, s) = Owner(NoFile, s) + Ptr(nw, s)
    BY DEF HandOver
  <2>1. s # 0
    BY Numbers
  <2>2. Owner(ftable[f], s) = One(t = s) /\ Owner(NoFile, s) = 0
    BY <1>1, SMT DEF Owner, One, NoFile
  <2>3. Ptr(me, s) = 0 + 0 + 0 /\ Ptr(nw, s) = 0 + 0 + One(t = s)
    BY <1>2, <1>3, <2>1, SMT DEF Ptr, One
  <2>4. PICK n \in Nat : n = One(t = s)
    BY SMT DEF One
  <2> QED BY ONLY <2>2, <2>3, <2>4
<1>12. Logged(p, nw)
  BY DEF Logged
<1> QED BY <1>1, <1>6, <1>9, <1>10, <1>11, <1>12, FileStep

(* fileclose() *)
LEMMA SysCloseStep ==
  ASSUME IInv, NEW p \in Procs, NEW k \in Fds, SysClose(p, k)
  PROVE  StepOK
<1> PICK f : f = ofile[p][k]
  OBVIOUS
<1>1. /\ at[p].pc = "user" /\ UNCHANGED <<disk, stable, icache, cwd>> /\ f # 0
      /\ ofile' = [ofile EXCEPT ![p][k] = 0]
  BY DEF SysClose, Calling, At
<1>2. f \in 1..NFILE /\ IsFile(ftable[f]) /\ ftable[f].ref > 0 /\ ftable[f].ip \in Slots
  BY <1>1, FileInUse
<1>3. ftable[f].ref \in Nat
  BY <1>2 DEF IsFile
<1>4. One(ofile[p][k] = f) = 1 /\ One(0 = f) = 0
  BY <1>1 DEF One
<1>5. CASE ftable[f].ref > 1
  <2>1. ftable' = [ftable EXCEPT ![f].ref = ftable[f].ref - 1] /\ UNCHANGED <<active, at>>
    BY <1>5 DEF SysClose
  <2>2. PICK n : n = ftable[f].ref - 1
    OBVIOUS
  <2>3. n \in Nat /\ n > 0
    BY ONLY <1>3, <1>5, <2>2
  <2> PICK x : x = Recount(f, n)
    OBVIOUS
  <2>4. FileSet(f, x) /\ IsFile(x) /\ x.ref = n /\ x.ip = ftable[f].ip /\ HandOver(ftable[f], at[p], x, at[p])
    <3>1. FileSet(f, x)
      BY <2>1, <2>2 DEF Recount, FileSet, IInv, FilesTypeOK
    <3>2. IsFile(x) /\ x.ref = n /\ x.ip = ftable[f].ip /\ HandOver(ftable[f], at[p], x, at[p])
      BY <1>2, <2>3, CountIs, SMT
    <3> QED BY <3>1, <3>2
  <2>5. x.ref + One(ofile[p][k] = f) = ftable[f].ref + One(0 = f)
    BY ONLY <1>3, <1>4, <2>2, <2>4
  <2>6. Described(p, k, 0, f, x)
    BY <1>1, <1>2, <2>4, <2>5 DEF Described
  <2>7. UNCHANGED <<disks, icache, cwd, at>>
    BY <1>1, <2>1 DEF disks
  <2> QED BY <1>1, <1>2, <2>4, <2>6, <2>7, UserFileStep
<1>6. CASE ~(ftable[f].ref > 1)
  <2>1. /\ ftable' = [ftable EXCEPT ![f] = NoFile]
        /\ active' = active \cup {p} /\ Goto(p, Put(User, ftable[f].ip, "end"))
    BY <1>6 DEF SysClose
  <2>2. ftable[f].ref = 1
    BY ONLY <1>2, <1>3, <1>6
  <2>3. FileSet(f, NoFile)
    BY <2>1 DEF FileSet, IInv, FilesTypeOK
  <2>4. IsFile(NoFile) /\ NoFile.ref = 0
    BY SMT DEF IsFile, NoFile
  <2>5. NoFile.ref + One(ofile[p][k] = f) = ftable[f].ref + One(0 = f)
    BY ONLY <1>4, <2>2, <2>4
  <2>6. ~(NoFile.ref > 0)
    BY ONLY <2>4
  <2>7. Described(p, k, 0, f, NoFile)
    BY <1>1, <2>3, <2>4, <2>5, <2>6 DEF Described
  <2> QED BY <1>1, <1>2, <2>1, <2>7, FileClosed
<1> QED BY <1>5, <1>6

(* chdir() to a directory. *)
LEMMA DirChanged ==
  ASSUME IInv, NEW p \in Procs, NEW me, me = at[p], me.pc = "chdir", active' = active, ftable' = ftable,
         ofile' = ofile, Kept(icache, icache'), SameRefs(icache, icache'), SameLocks(icache, icache'),
         cwd' = [cwd EXCEPT ![p] = me.ip], Goto(p, Put([me EXCEPT !.ip = 0], cwd[p], "end"))
  PROVE  StepOK
<1>1. Frame(me) /\ cwd \in [Procs -> Slots]
  BY CallFrame DEF IInv, FilesTypeOK
<1>2. IsFrame(me) /\ me.put = 0 /\ After(me) = me.pc /\ Frees(me) = {}
  BY <1>1, Outside DEF Putting
<1>3. HasIp(me) /\ ~HasDp(me)
  BY <1>2 DEF HasIp, HasDp, IpPlaces, DpPlaces
<1>4. me.ip \in Slots /\ me.dp = 0
  BY <1>1, <1>3 DEF Frame
<1>5. PICK t \in Slots : t = cwd[p]
  BY <1>1, SMT
<1> PICK nw : nw = Put([me EXCEPT !.ip = 0], t, "end")
  OBVIOUS
<1>6. Is(nw, "iput", me.op, 0, 0, t, "end")
  BY <1>2, <1>4, FrameFields DEF Is, IsFrame, Put
<1>7. IsFrame(nw) /\ nw.pc = "iput" /\ nw.ip = 0 /\ nw.dp = 0 /\ nw.put = t /\ nw.then = "end"
  BY <1>6 DEF Is
<1>8. After(nw) = "end"
  BY <1>7 DEF After, Putting
<1>9. ~HasIp(nw) /\ ~HasDp(nw) /\ nw.pc \in Putting
  BY <1>7, <1>8 DEF HasIp, HasDp, IpPlaces, DpPlaces, Putting
<1>10. Frame(nw)
  BY <1>7, <1>8, <1>9 DEF Frame, Putting
<1>11. Keeps(nw) = {} /\ Frees(nw) = {} /\ Keeps(me) = {} /\ Stuck(me) = {}
  BY <1>2, <1>7, <1>8 DEF Keeps, Frees, Stuck
<1>12. Held(nw) = Held(me) /\ Keeps(nw) \cap Frees(nw) = {}
  BY <1>2, <1>11 DEF Held
<1>13. Holds(p, nw, icache, icache')
  BY <1>11, <1>12, HoldsSame DEF IInv
<1>14. Logged(p, nw)
  BY InOp DEF Logged
<1>15. Goto(p, nw)
  BY <1>5
<1>16. /\ IsCache(icache') /\ OneEntry' /\ LocksExact' /\ InOperation' /\ Committed'
       /\ at' = [q \in Procs |-> at'[q]] /\ \A q \in Procs : Frame(at'[q])
  BY <1>10, <1>13, <1>14, <1>15, CommonStep
<1>17. at'[p] = nw /\ \A q \in Procs \ {p} : at'[q] = at[q]
  BY <1>15, GotoIs DEF IInv
<1>18. cwd' \in [Procs -> Slots] /\ cwd'[p] = me.ip /\ \A q \in Procs \ {p} : cwd'[q] = cwd[q]
  BY <1>1, <1>4, SMT
<1>19. FilesTypeOK' /\ FilesCounted'
  <2>1. FilesCounted'
    BY DEF FilesCounted, IInv
  <2>2. /\ ftable' = [f \in 1..NFILE |-> ftable'[f]] /\ \A f \in 1..NFILE : IsFile(ftable'[f])
        /\ ofile' \in [Procs -> [Fds -> 0..NFILE]]
    BY DEF FilesTypeOK, IInv
  <2> QED BY <1>16, <1>18, <2>1, <2>2 DEF FilesTypeOK
<1>20. RefsExact'
  <2>1. DOMAIN ftable = 1..NFILE /\ DOMAIN ftable' = 1..NFILE
    BY SMT DEF FilesTypeOK, IInv
  <2>2. OnlyFile(0)
    BY DEF OnlyFile
  <2>3. Even(p, 0)
    <3> SUFFICES ASSUME NEW s \in Slots
                 PROVE  icache'[s].ref + One(cwd[p] = s) + One(OpenAt(ftable, 0, s)) + Ptr(at[p], s)
                          = icache[s].ref + One(cwd'[p] = s) + One(OpenAt(ftable', 0, s)) + Ptr(at'[p], s)
      BY DEF Even
    <3>1. s # 0
      BY Numbers
    <3>2. One(OpenAt(ftable', 0, s)) = One(OpenAt(ftable, 0, s)) /\ icache'[s].ref = icache[s].ref
      BY DEF SameRefs
    <3>3. Ptr(at[p], s) = One(me.ip = s) + 0 + 0 /\ Ptr(at'[p], s) = 0 + 0 + One(t = s)
      BY <1>2, <1>4, <1>7, <1>17, <3>1, SMT DEF Ptr, One
    <3>4. One(cwd[p] = s) = One(t = s) /\ One(cwd'[p] = s) = One(me.ip = s)
      BY <1>5, <1>18
    <3>5. PICK m \in Nat : m = One(t = s)
      BY SMT DEF One
    <3>6. PICK n \in Nat : n = One(me.ip = s)
      BY SMT DEF One
    <3>7. PICK o \in Nat : o = One(OpenAt(ftable, 0, s))
      BY SMT DEF One
    <3>8. icache[s].ref \in Nat
      BY CallFrame, RefIsNat
    <3> QED BY ONLY <3>2, <3>3, <3>4, <3>5, <3>6, <3>7, <3>8
  <2> QED BY <1>16, <1>17, <1>18, <2>1, <2>2, <2>3, CallFrame, RefsStep DEF IInv
<1> QED BY <1>16, <1>19, <1>20 DEF IInv, StepOK, Kept

(* sys_chdir() *)
LEMMA ChdirStep ==
  ASSUME IInv, NEW p \in Procs, Chdir(p)
  PROVE  StepOK
<1> PICK me : me = at[p]
  OBVIOUS
<1>1. PICK w : icache' = Touch(icache, me.ip, w)
  BY DEF Chdir
<1>2. me.pc = "chdir" /\ UNCHANGED <<active, ftable, ofile>>
  BY DEF Chdir, At, disks
<1>3. \/ Goto(p, PutIp(me, "end")) /\ UNCHANGED cwd
      \/ cwd' = [cwd EXCEPT ![p] = me.ip] /\ Goto(p, Put([me EXCEPT !.ip = 0], cwd[p], "end"))
  BY DEF Chdir, PutIp
<1>4. Kept(icache, icache') /\ SameRefs(icache, icache') /\ SameLocks(icache, icache')
  BY <1>1, CallFrame, TouchIs
<1>5. CASE Goto(p, PutIp(me, "end")) /\ UNCHANGED cwd
  <2>1. <<me.pc, "end">> \in IpSame
    BY <1>2 DEF IpSame
  <2> QED BY <1>2, <1>4, <1>5, <2>1, PutIpSame
<1>6. CASE cwd' = [cwd EXCEPT ![p] = me.ip] /\ Goto(p, Put([me EXCEPT !.ip = 0], cwd[p], "end"))
  BY <1>2, <1>4, <1>6, DirChanged
<1> QED BY <1>3, <1>5, <1>6

-----------------------------------------------------------------------------
(* The start, crashes, and the theorems *)

(* The kernel has started, with the processes of H in "/a/b". *)
Started(H) ==
  /\ icache = Icache0(H) /\ cwd = Cwd0(H) /\ ftable = Ftable0 /\ ofile = Ofile0 /\ at = Idle
  /\ active = {} /\ stable = disk

(* Every invariant holds then. *)
LEMMA StartOK ==
  ASSUME NEW H, H \subseteq Procs, Started(H)
  PROVE  IInv
<1>1. icache = Icache0(H) /\ cwd = Cwd0(H) /\ ftable = Ftable0 /\ ofile = Ofile0 /\ at = Idle
  BY DEF Started
<1>2. \A p \in Procs : at[p] = User
  BY <1>1, SMT DEF Idle
<1>3. Frame(User) /\ Keeps(User) \cap Frees(User) = {}
  BY UserIs, BareFrame DEF Bare
<1>4. /\ User.pc = "user" /\ User.ip = 0 /\ User.dp = 0 /\ User.put = 0
      /\ Held(User) = {} /\ Stuck(User) = {}
  <2>1. User.pc = "user" /\ User.ip = 0 /\ User.dp = 0 /\ User.put = 0
    BY UserIs DEF BareAt
  <2> QED BY <1>3, <2>1, BareIs DEF Bare
<1>5. \A p \in Procs : cwd[p] = IF p \in H THEN 2 ELSE 1
  BY <1>1, SMT DEF Cwd0
<1>6. IsFiniteSet(H) /\ IsFiniteSet(Procs \ H)
  BY Numbers, FS_Subset
<1>7. Cardinality(H) \in Nat /\ Cardinality(Procs \ H) \in Nat /\ Cardinality({}) = 0
  BY <1>6, FS_CardinalityType, FS_EmptySet
<1>8. \A s \in Slots :
        /\ icache[s].lock = None /\ icache[s].ref \in Nat /\ IsEntry(icache[s])
        /\ s = 1 => icache[s].inum = ROOTINO /\ icache[s].ref = Cardinality(Procs \ H)
        /\ s = 2 => icache[s].inum = 4 /\ icache[s].ref = Cardinality(H)
        /\ s \notin {1, 2} => icache[s].ref = 0
  <2> DEFINE e == [NoInode EXCEPT !.inum = ROOTINO, !.ref = Cardinality(Procs \ H)]
             h == [NoInode EXCEPT !.inum = 4, !.ref = Cardinality(H)]
  <2>1. e.lock = None /\ e.ref = Cardinality(Procs \ H) /\ e.inum = ROOTINO /\ IsEntry(e)
    BY <1>7 DEF NoInode, IsEntry
  <2>2. h.lock = None /\ h.ref = Cardinality(H) /\ h.inum = 4 /\ IsEntry(h)
    BY <1>7 DEF NoInode, IsEntry
  <2>3. NoInode.lock = None /\ NoInode.ref = 0 /\ NoInode.ref \in Nat /\ IsEntry(NoInode)
    BY SMT DEF NoInode, IsEntry
  <2>4. \A s \in Slots : icache[s] = IF s = 1 THEN e ELSE IF s = 2 THEN h ELSE NoInode
    BY <1>1, SMT DEF Icache0
  <2> HIDE DEF e, h
  <2> TAKE s \in Slots
  <2>5. 1 # 2
    BY SMT
  <2>6. CASE s = 1
    BY <1>7, <2>1, <2>4, <2>5, <2>6
  <2>7. CASE s = 2
    BY <1>7, <2>2, <2>4, <2>5, <2>7
  <2>8. CASE s \notin {1, 2}
    BY <2>3, <2>4, <2>8
  <2> QED BY <2>6, <2>7, <2>8
<1>9. IsCache(icache)
  <2>1. icache = [s \in Slots |-> icache[s]]
    BY <1>1, SMT DEF Icache0
  <2> QED BY <1>8, <2>1 DEF IsCache
<1>10. \A f \in 1..NFILE : ftable[f] = NoFile
  BY <1>1, SMT DEF Ftable0
<1>11. NoFile.ref = 0 /\ IsFile(NoFile)
  BY SMT DEF NoFile, IsFile
<1>12. ~(NoFile.ref > 0)
  BY <1>11, SMT
<1>13. FilesTypeOK
  <2>1. cwd \in [Procs -> Slots]
    BY <1>1, Numbers, SMT DEF Cwd0
  <2>2. at = [p \in Procs |-> at[p]] /\ ftable = [f \in 1..NFILE |-> ftable[f]]
    BY <1>1, SMT DEF Idle, Ftable0
  <2>3. ofile \in [Procs -> [Fds -> 0..NFILE]]
    BY <1>1, FilesAssumption, SMT DEF Ofile0
  <2> QED BY <1>2, <1>3, <1>9, <1>10, <1>11, <2>1, <2>2, <2>3 DEF FilesTypeOK
<1>14. FilesCounted
  <2> SUFFICES ASSUME NEW f \in 1..NFILE
               PROVE  /\ ftable[f].ref = Cardinality({d \in Procs \X Fds : ofile[d[1]][d[2]] = f})
                      /\ ftable[f].ref > 0 => ftable[f].ip \in Slots
    BY DEF FilesCounted
  <2>1. f # 0
    BY Numbers
  <2>2. {d \in Procs \X Fds : ofile[d[1]][d[2]] = f} = {}
    BY <1>1, <2>1, SMT DEF Ofile0
  <2> QED BY <1>7, <1>10, <1>11, <1>12, <2>2
<1>15. RefsExact
  <2> SUFFICES ASSUME NEW s \in Slots
               PROVE  icache[s].ref = Cardinality({p \in Procs : cwd[p] = s})
                        + Cardinality({f \in DOMAIN ftable : ftable[f].ref > 0 /\ ftable[f].ip = s})
                        + Cardinality({p \in Procs : at[p].ip = s}) + Cardinality({p \in Procs : at[p].dp = s})
                        + Cardinality({p \in Procs : at[p].put = s})
    BY DEF RefsExact
  <2>1. s # 0
    BY Numbers
  <2>2. /\ {p \in Procs : at[p].ip = s} = {} /\ {p \in Procs : at[p].dp = s} = {}
        /\ {p \in Procs : at[p].put = s} = {}
    BY <1>2, <1>4, <2>1
  <2>3. DOMAIN ftable = 1..NFILE
    BY <1>1, SMT DEF Ftable0
  <2>4. {f \in DOMAIN ftable : ftable[f].ref > 0 /\ ftable[f].ip = s} = {}
    BY <1>10, <1>12, <2>3
  <2>5. icache[s].ref = Cardinality({p \in Procs : cwd[p] = s})
    <3>1. CASE s = 1
      <4>1. {p \in Procs : cwd[p] = s} = Procs \ H
        BY <1>5, <3>1, SMT
      <4> QED BY <1>8, <3>1, <4>1
    <3>2. CASE s = 2
      <4>1. {p \in Procs : cwd[p] = s} = H
        BY <1>5, <3>2, SMT
      <4> QED BY <1>8, <3>2, <4>1
    <3>3. CASE s \notin {1, 2}
      <4>1. {p \in Procs : cwd[p] = s} = {}
        BY <1>5, <3>3, SMT
      <4> QED BY <1>7, <1>8, <3>3, <4>1
    <3> QED BY <3>1, <3>2, <3>3
  <2> PICK n : n = Cardinality({p \in Procs : cwd[p] = s})
    OBVIOUS
  <2>6. n \in Nat /\ icache[s].ref = n
    BY <1>8, <2>5
  <2>7. n + 0 + 0 + 0 + 0 = n
    BY <2>6, SMT
  <2> QED BY <1>7, <2>2, <2>4, <2>6, <2>7
<1>16. OneEntry
  BY <1>8, SMT DEF OneEntry, ROOTINO
<1>17. LocksExact
  <2>1. None \notin Procs
    BY FilesAssumption
  <2>2. \A p \in Procs : Keeps(at[p]) \cup Frees(at[p]) = {} /\ Keeps(at[p]) \cap Frees(at[p]) = {}
    BY <1>2, <1>3, <1>4 DEF Held
  <2> QED BY <1>8, <2>1, <2>2 DEF LocksExact
<1>18. InOperation /\ Committed
  BY <1>2, <1>4 DEF InOperation, Committed, Started
<1> QED BY <1>13, <1>14, <1>15, <1>16, <1>17, <1>18 DEF IInv

(* After a crash, every process is in the root directory. *)
LEMMA RestartOK == Started({}) => IInv
BY StartOK

(* Crash, and recover_from_log(). *)
LEMMA CrashStep == Crash => IInv'
<1>1. Crash => Started({})'
  BY DEF Crash, Started
<1>2. Started({})' => IInv'
  BY RestartOK, PTL
<1> QED BY <1>1, <1>2

(* A step that changes nothing. *)
LEMMA StutterStep == IInv /\ UNCHANGED vars => IInv'
<1> SUFFICES ASSUME IInv, UNCHANGED vars
             PROVE  IInv'
  OBVIOUS
<1>1. /\ disk' = disk /\ stable' = stable /\ active' = active /\ icache' = icache /\ ftable' = ftable
      /\ ofile' = ofile /\ cwd' = cwd /\ at' = at
  BY DEF vars, disks
<1>2. FilesTypeOK' /\ FilesCounted'
  BY <1>1 DEF FilesTypeOK, FilesCounted, IInv
<1>3. RefsExact' /\ OneEntry'
  BY <1>1 DEF RefsExact, OneEntry, IInv
<1>4. LocksExact' /\ InOperation' /\ Committed'
  BY <1>1 DEF LocksExact, InOperation, Committed, IInv
<1> QED BY <1>2, <1>3, <1>4 DEF IInv

(* A system call makes a step. *)
LEMMA CallsStep ==
  ASSUME IInv, NEW p \in Procs,
         \/ SysPath(p) \/ NamexNext(p) \/ NamexDone(p) \/ IlockPanic(p)
         \/ Iput(p) \/ IputFree(p) \/ IputInvalid(p) \/ IputDeref(p) \/ EndOp(p)
         \/ Open(p) \/ Create(p) \/ CreateExists(p) \/ CreateLink(p) \/ CreateDone(p)
         \/ Link(p) \/ Relink(p) \/ RelinkDup(p) \/ LinkBad(p)
         \/ Unlink(p) \/ UnlinkEntry(p) \/ UnlinkRefuse(p) \/ UnlinkDrop(p)
         \/ Chdir(p) \/ WriteBegin(p) \/ WriteChunk(p)
         \/ \E k \in Fds :
              SysDup(p, k) \/ SysClose(p, k) \/ \E n \in 1..2 : SysWrite(p, k, n) \/ SysRead(p, k, n)
  PROVE  StepOK
<1>1. CASE SysPath(p) \/ NamexNext(p) \/ NamexDone(p) \/ IlockPanic(p)
  BY <1>1, SysPathStep, NamexNextStep, NamexDoneStep, IlockPanicStep
<1>2. CASE Iput(p) \/ IputFree(p) \/ IputInvalid(p) \/ IputDeref(p) \/ EndOp(p)
  BY <1>2, IputStep, IputFreeStep, IputInvalidStep, IputDerefStep, EndOpStep
<1>3. CASE Open(p) \/ Create(p) \/ CreateExists(p) \/ CreateLink(p) \/ CreateDone(p)
  BY <1>3, OpenStep, CreateStep, CreateExistsStep, CreateLinkStep, CreateDoneStep
<1>4. CASE Link(p) \/ Relink(p) \/ RelinkDup(p) \/ LinkBad(p)
  BY <1>4, LinkStep, RelinkStep, RelinkDupStep, LinkBadStep
<1>5. CASE Unlink(p) \/ UnlinkEntry(p) \/ UnlinkRefuse(p) \/ UnlinkDrop(p)
  BY <1>5, UnlinkStep, UnlinkEntryStep, UnlinkRefuseStep, UnlinkDropStep
<1>6. CASE Chdir(p) \/ WriteBegin(p) \/ WriteChunk(p)
  BY <1>6, ChdirStep, WriteBeginStep, WriteChunkStep
<1>7. ASSUME NEW k \in Fds,
             SysDup(p, k) \/ SysClose(p, k) \/ \E n \in 1..2 : SysWrite(p, k, n) \/ SysRead(p, k, n)
      PROVE  StepOK
  BY <1>7, SysDupStep, SysCloseStep, SysWriteStep, SysReadStep
<1> QED BY <1>1, <1>2, <1>3, <1>4, <1>5, <1>6, <1>7

(* Every step keeps the invariant. *)
LEMMA NextStep == IInv /\ [Next]_vars => IInv' /\ (Next => Crash \/ InumsKept(icache, icache'))
<1> SUFFICES ASSUME IInv, [Next]_vars
             PROVE  IInv' /\ (Next => Crash \/ InumsKept(icache, icache'))
  OBVIOUS
<1>1. CASE Crash
  BY <1>1, CrashStep
<1>2. CASE Next /\ ~Crash
  <2>1. StepOK
    BY <1>2, CallsStep DEF Next
  <2> QED BY <2>1 DEF StepOK
<1>3. CASE ~Next
  BY <1>3, StutterStep
<1> QED BY <1>1, <1>2, <1>3

(* The invariant holds at the start. *)
LEMMA InitOK == Init => IInv
<1> SUFFICES ASSUME Init
             PROVE  IInv
  OBVIOUS
<1>1. PICK H \in {{}} \cup {{p} : p \in Procs} : icache = Icache0(H) /\ cwd = Cwd0(H)
  BY DEF Init
<1>2. H \subseteq Procs
  OBVIOUS
<1>3. Started(H)
  BY <1>1 DEF Init, Started
<1> QED BY <1>2, <1>3, StartOK

(* IInv is an inductive invariant of the system calls, with crashes: for   *)
(* every number of processes, entries, files and descriptors, every set of *)
(* paths and every disk (fs.c, file.c, sysfile.c).                         *)
THEOREM Inductive == Spec => []IInv
<1>1. IInv /\ [Next]_vars => IInv'
  BY NextStep
<1> QED BY <1>1, InitOK, PTL DEF Spec

(* ip->ref is the number of pointers to the entry: no system call, on any  *)
(* of its error paths, loses a reference to an inode or drops one twice    *)
(* (iget(), idup(), iput()).                                               *)
THEOREM Refs == Spec => []RefsExact
<1>1. IInv => RefsExact
  BY DEF IInv
<1> QED BY <1>1, Inductive, PTL

(* f->ref is the number of descriptors of the file (filealloc(),           *)
(* filedup(), fileclose()).                                                *)
THEOREM Descriptors == Spec => []FilesCounted
<1>1. IInv => FilesCounted
  BY DEF IInv
<1> QED BY <1>1, Inductive, PTL

(* An inode's lock is held by the system call whose place says so, also    *)
(* during the iput() of another inode, and by nobody else (ilock(),        *)
(* iunlock(), iunlockput()); and no inode has two entries (iget()).        *)
THEOREM Locks == Spec => [](LocksExact /\ OneEntry)
<1>1. IInv => LocksExact /\ OneEntry
  BY DEF IInv
<1> QED BY <1>1, Inductive, PTL

(* Every step that may write to the disk is inside begin_op() and          *)
(* end_op(), and between operations a crash loses nothing (log.c).         *)
THEOREM Transactions == Spec => [](InOperation /\ Committed)
<1>1. IInv => InOperation /\ Committed
  BY DEF IInv
<1> QED BY <1>1, Inductive, PTL

(* While an entry is in use it stays the entry of the same inode: iget()   *)
(* never takes one that somebody points to.  Only a crash empties it.      *)
THEOREM EntriesStay == Spec => [][Crash \/ InumsKept(icache, icache')]_vars
<1>1. IInv /\ [Next]_vars => [Crash \/ InumsKept(icache, icache')]_vars
  BY NextStep
<1> QED BY <1>1, Inductive, PTL DEF Spec
=============================================================================
