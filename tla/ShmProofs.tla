----------------------------- MODULE ShmProofs -----------------------------
(***************************************************************************)
(* Proofs about Shm: the frames of user memory are accounted for, and the  *)
(* content of a shared region is kept until its frame is freed, for any    *)
(* number of processes, frames, regions and values.                        *)
(***************************************************************************)
EXTENDS Shm, SequenceTheorems, TLAPS

-----------------------------------------------------------------------------
(* The predicates of the invariant are those of the properties. *)

(* The frames of regions, the copies of shmem() and the mapped frames, as sets. *)
LEMMA AsSets ==
  ASSUME TypeOK
  PROVE  /\ \A f : f \in Shared <=> IsShared(f)
         /\ \A f : f \in Used <=> IsMapped(f) \/ IsShared(f) \/ IsCopy(f)
         /\ \A p \in Procs : \A f : f \in Mapped(p) <=> \E k \in DOMAIN space[p] : space[p][k] = f
<1>1. \A p \in Procs : \A f : f \in Mapped(p) <=> \E k \in DOMAIN space[p] : space[p][k] = f
  BY DEF Mapped, Range
<1>2. DOMAIN page = Ids /\ DOMAIN copy = Ids
  BY DEF TypeOK
<1>3. \A f : f \in Shared <=> IsShared(f)
  BY <1>2, Zenon DEF Range, Shared, IsShared
<1>4. \A f : f \in Copies <=> IsCopy(f)
  BY <1>2, Zenon DEF Range, Copies, IsCopy
<1>5. \A f : f \in AllMapped <=> \E p \in Procs : f \in Mapped(p)
  BY DEF AllMapped
<1>6. \A f : f \in AllMapped <=> IsMapped(f)
  BY <1>1, <1>5, Zenon DEF IsMapped
<1> QED
  BY <1>1, <1>3, <1>4, <1>6 DEF Used

(* The invariant implies both properties. *)
LEMMA Enough ==
  ASSUME IInv
  PROVE  FramesExact /\ SharedUntilFreed
<1> USE DEF IInv
<1>1. SharedUntilFreed
  BY DEF SharedUntilFreed
<1>2. /\ \A f : f \in Shared <=> IsShared(f)
      /\ \A f : f \in Used <=> IsMapped(f) \/ IsShared(f) \/ IsCopy(f)
  BY AsSets
<1>3. \A f : IsShared(f) \/ IsCopy(f) \/ IsMapped(f) => f \in Frames
  BY DEF TypeOK, IsShared, IsCopy, IsMapped
<1>4. free \subseteq Frames /\ lost \subseteq Frames
  BY DEF TypeOK
<1>5. Frames = free \cup Used \cup lost
  BY <1>2, <1>3, <1>4 DEF NothingLeaks
<1>6. halt # "freed" => free \cap Used = {}
  BY <1>2 DEF UsedOnce
<1>7. halt # "freed" =>
        \A p, q \in Procs : \A k \in DOMAIN space[p], l \in DOMAIN space[q] :
          space[p][k] = space[q][l] /\ space[p][k] \notin Shared => p = q /\ k = l
  BY <1>2 DEF UsedOnce
<1>8. FramesExact
  BY <1>5, <1>6, <1>7 DEF FramesExact
<1> QED
  BY <1>1, <1>8

(* One frame is in use before init runs: its page 0. *)
LEMMA InitIInv == Init => IInv
<1> SUFFICES ASSUME NEW f \in Frames, NEW p \in Procs,
                    free = Frames \ {f},
                    data = [g \in Frames |-> IF g = f THEN "zero" ELSE "junk"],
                    space = [q \in Procs |-> IF q = p THEN <<f>> ELSE <<>>],
                    state = [q \in Procs |-> IF q = p THEN "live" ELSE "unused"],
                    page = [i \in Ids |-> {}], copy = [i \in Ids |-> {}],
                    pc = [q \in Procs |-> User], halt = "no", lost = {},
                    last = [i \in Ids |-> "zero"]
             PROVE  IInv
  BY DEF Init
<1>1. TypeOK
  <2>1. User \in Where
    BY DEF Where
  <2> QED
    BY <2>1 DEF TypeOK
<1>2. ProcInv
  BY DEF ProcInv
<1>3. NothingLeaks
  <2>1. 1 \in DOMAIN space[p] /\ space[p][1] = f
    OBVIOUS
  <2> QED
    BY <2>1 DEF NothingLeaks, IsMapped
<1>4. UsedOnce
  <2>1. \A q \in Procs : \A k \in DOMAIN space[q] : q = p /\ k = 1 /\ space[q][k] = f
    OBVIOUS
  <2>2. \A q \in Procs, i \in Ids, g \in Frames : pc[q] # <<"zero", i, g>>
    BY DEF User
  <2> QED
    BY <2>1, <2>2 DEF UsedOnce, IsMapped, IsShared, IsCopy
<1>5. SharedDataKept
  BY DEF SharedDataKept
<1> QED
  BY <1>1, <1>2, <1>3, <1>4, <1>5 DEF IInv

(* The frames stay where they are: nothing is used twice that was not. *)
LEMMA StillOnce ==
  ASSUME UsedOnce, UNCHANGED <<space, page>>,
         \A g \in free' : g \notin lost' /\ ~IsMapped(g)' /\ ~IsShared(g)' /\ ~IsCopy(g)',
         \A g \in Frames : g \in lost' \/ IsCopy(g)' => ~IsMapped(g)' /\ ~IsShared(g)',
         \A q \in Procs, j \in Ids, g \in Frames : pc'[q] = <<"zero", j, g>> => g \in lost' \/ IsCopy(g)'
  PROVE  UsedOnce'
<1>1. \A p, q \in Procs : \A k \in DOMAIN space'[p], l \in DOMAIN space'[q] :
        space'[p][k] = space'[q][l] /\ (\A i \in Ids : space'[p][k] \notin page'[i]) => p = q /\ k = l
  BY DEF UsedOnce, IsShared
<1> QED
  BY <1>1 DEF UsedOnce, IsShared

(* ... nor if the tables stay, too, whoever moves on. *)
LEMMA StillUsedOnce ==
  ASSUME UsedOnce, UNCHANGED <<free, space, page, copy, lost>>,
         \A q \in Procs, j \in Ids, g \in Frames : pc'[q] = <<"zero", j, g>> => pc[q] = <<"zero", j, g>>
  PROVE  UsedOnce'
<1>1. \A g : /\ IsMapped(g)' <=> IsMapped(g)
             /\ IsShared(g)' <=> IsShared(g)
             /\ IsCopy(g)' <=> IsCopy(g)
  BY DEF IsMapped, IsShared, IsCopy
<1>2. /\ \A g \in free' : g \notin lost' /\ ~IsMapped(g)' /\ ~IsShared(g)' /\ ~IsCopy(g)'
      /\ \A g \in Frames : g \in lost' \/ IsCopy(g)' => ~IsMapped(g)' /\ ~IsShared(g)'
  BY <1>1 DEF UsedOnce
<1>3. \A q \in Procs, j \in Ids, g \in Frames : pc'[q] = <<"zero", j, g>> => g \in lost' \/ IsCopy(g)'
  BY <1>1 DEF UsedOnce
<1> QED
  BY <1>2, <1>3, StillOnce

-----------------------------------------------------------------------------
(* A frame is taken off the free list *)

(* Mapping a frame at the top of a space leaves the others where they are. *)
LEMMA Appended ==
  ASSUME TypeOK, NEW p \in Procs, NEW f \in Frames,
         space' = [space EXCEPT ![p] = Append(@, f)]
  PROVE  /\ space' \in [Procs -> Seq(Frames)]
         /\ space'[p] # <<>>
         /\ \A q \in Procs : q # p => space'[q] = space[q]
         /\ Len(space[p]) + 1 \in DOMAIN space'[p] /\ space'[p][Len(space[p]) + 1] = f
         /\ \A q \in Procs : \A k \in DOMAIN space[q] :
              k \in DOMAIN space'[q] /\ space'[q][k] = space[q][k]
         /\ \A q \in Procs : \A k \in DOMAIN space'[q] :
              \/ k \in DOMAIN space[q] /\ space'[q][k] = space[q][k]
              \/ q = p /\ k = Len(space[p]) + 1 /\ space'[q][k] = f
<1> DEFINE s == space[p]
<1>1. s \in Seq(Frames) /\ space'[p] = Append(s, f)
  BY DEF TypeOK
<1>2. \A q \in Procs : q # p => space'[q] = space[q]
  BY DEF TypeOK
<1>3. /\ Append(s, f) \in Seq(Frames) /\ Append(s, f) # <<>>
      /\ DOMAIN s = 1..Len(s) /\ DOMAIN Append(s, f) = 1..Len(s) + 1
      /\ Len(s) \in Nat
      /\ Append(s, f)[Len(s) + 1] = f
      /\ \A k \in 1..Len(s) : Append(s, f)[k] = s[k]
  BY <1>1
<1> HIDE DEF s
<1>4. \A k \in 1..Len(s) + 1 : k \in 1..Len(s) \/ k = Len(s) + 1
  BY <1>3
<1>5. \A k \in 1..Len(s) : k \in 1..Len(s) + 1
  BY <1>3
<1>6. Len(s) + 1 \in 1..Len(s) + 1
  BY <1>3
<1>7. space' \in [Procs -> Seq(Frames)]
  BY <1>1, <1>3 DEF TypeOK, s
<1> QED
  BY <1>1, <1>2, <1>3, <1>4, <1>5, <1>6, <1>7 DEF s

(* Which frames are mapped after that. *)
LEMMA NowMapped ==
  ASSUME TypeOK, NEW p \in Procs, NEW f \in Frames,
         space' = [space EXCEPT ![p] = Append(@, f)]
  PROVE  \A g : IsMapped(g)' <=> IsMapped(g) \/ g = f
<1>1. \A g : IsMapped(g)' => IsMapped(g) \/ g = f
  BY Appended DEF IsMapped
<1>2. \A g : IsMapped(g) => IsMapped(g)'
  BY Appended DEF IsMapped
<1>3. IsMapped(f)'
  <2>1. Len(space[p]) + 1 \in DOMAIN space'[p] /\ space'[p][Len(space[p]) + 1] = f
    BY Appended
  <2> QED
    BY <2>1, Zenon DEF IsMapped
<1> QED
  BY <1>1, <1>2, <1>3

(* A free frame that one process maps is used by nobody else: growproc(). *)
LEMMA PrivateFrame ==
  ASSUME IInv, halt # "freed", NEW p \in Procs, NEW f \in free,
         free' = free \ {f}, space' = [space EXCEPT ![p] = Append(@, f)],
         \A g \in Frames : g # f => data'[g] = data[g],
         \A q \in Procs, i \in Ids, g \in Frames :
           pc'[q] = <<"zero", i, g>> => pc[q] = <<"zero", i, g>>,
         UNCHANGED <<page, copy, lost, last>>
  PROVE  NothingLeaks' /\ UsedOnce' /\ SharedDataKept'
<1> f \in Frames /\ TypeOK /\ UsedOnce /\ SharedDataKept /\ NothingLeaks
  BY DEF IInv, TypeOK
<1>1. \A g : IsMapped(g)' <=> IsMapped(g) \/ g = f
  BY NowMapped
<1>2. \A g : (IsShared(g)' <=> IsShared(g)) /\ (IsCopy(g)' <=> IsCopy(g))
  BY DEF IsShared, IsCopy
<1>3. f \notin lost /\ ~IsMapped(f) /\ ~IsShared(f) /\ ~IsCopy(f)
  BY DEF UsedOnce
<1>4. NothingLeaks'
  BY <1>1, <1>2 DEF NothingLeaks
<1>5. UsedOnce'
  <2>1. \A g \in free' : g \notin lost' /\ ~IsMapped(g)' /\ ~IsShared(g)' /\ ~IsCopy(g)'
    BY <1>1, <1>2 DEF UsedOnce
  <2>2. \A g \in Frames : g \in lost' \/ IsCopy(g)' => ~IsMapped(g)' /\ ~IsShared(g)'
    BY <1>1, <1>2, <1>3 DEF UsedOnce
  <2>3. ASSUME NEW q \in Procs, NEW r \in Procs, NEW k \in DOMAIN space'[q], NEW l \in DOMAIN space'[r],
               space'[q][k] = space'[r][l],
               \A i \in Ids : space'[q][k] \notin page'[i]
        PROVE  q = r /\ k = l
    <3>1. \A t \in Procs : \A j \in DOMAIN space[t] : space[t][j] # f
      BY <1>3 DEF IsMapped
    <3>2. CASE space'[q][k] = f
      BY <3>1, <3>2, <2>3, Appended
    <3>3. CASE space'[q][k] # f
      <4>1. /\ k \in DOMAIN space[q] /\ space'[q][k] = space[q][k]
            /\ l \in DOMAIN space[r] /\ space'[r][l] = space[r][l]
        BY <3>3, <2>3, Appended
      <4>2. ~IsShared(space[q][k])
        BY <1>2, <2>3, <4>1 DEF IsShared
      <4> QED
        BY <4>1, <4>2, <2>3 DEF UsedOnce
    <3> QED
      BY <3>2, <3>3
  <2>4. \A q \in Procs, i \in Ids, g \in Frames : pc'[q] = <<"zero", i, g>> => g \in lost' \/ IsCopy(g)'
    BY <1>2 DEF UsedOnce
  <2> QED
    BY <2>1, <2>2, <2>3, <2>4 DEF UsedOnce, IsShared
<1>6. SharedDataKept'
  <2>1. \A i \in Ids : \A g \in page[i] : g \in Frames /\ g # f
    BY <1>3 DEF IsShared, TypeOK
  <2> QED
    BY <2>1 DEF SharedDataKept
<1> QED
  BY <1>4, <1>5, <1>6

-----------------------------------------------------------------------------
(* Frames are given back *)

(* kfree() of the frames F that p maps and gives up. *)
LEMMA GivenBack ==
  ASSUME IInv, halt # "freed", NEW p \in Procs, NEW F, F \subseteq Frames,
         \A q \in Procs : \A k \in DOMAIN space'[q] :
           k \in DOMAIN space[q] /\ space'[q][k] = space[q][k],
         \A q \in Procs : \A k \in DOMAIN space[q] :
           k \notin DOMAIN space'[q] => space[q][k] \in F,
         \A f \in F : \E k \in DOMAIN space[p] : k \notin DOMAIN space'[p] /\ space[p][k] = f,
         Kfree(F), UNCHANGED tables
  PROVE  /\ NothingLeaks'
         /\ halt' # "freed" => UsedOnce' /\ SharedDataKept'
<1> TypeOK /\ UsedOnce /\ SharedDataKept /\ NothingLeaks /\ UNCHANGED <<page, copy, lost, last, pc>>
  BY DEF IInv, tables
<1>1. \A g : IsMapped(g)' => IsMapped(g)
  BY DEF IsMapped
<1>2. \A g : IsMapped(g) => IsMapped(g)' \/ g \in F
  BY DEF IsMapped
<1>3. \A g : (IsShared(g)' <=> IsShared(g)) /\ (IsCopy(g)' <=> IsCopy(g))
  BY DEF IsShared, IsCopy
<1>4. free' = free \cup F
  BY DEF Kfree
<1>5. NothingLeaks'
  BY <1>2, <1>3, <1>4 DEF NothingLeaks
<1>6. ASSUME halt' # "freed"
      PROVE  UsedOnce' /\ SharedDataKept'
  <2>1. \A f \in F : ~IsShared(f)
    BY <1>6, AsSets DEF Kfree
  <2>2. \A f \in F : IsMapped(f) /\ ~IsMapped(f)'
    <3> SUFFICES ASSUME NEW f \in F
                 PROVE  IsMapped(f) /\ ~IsMapped(f)'
      OBVIOUS
    <3>1. PICK k \in DOMAIN space[p] : k \notin DOMAIN space'[p] /\ space[p][k] = f
      OBVIOUS
    <3>2. \A q \in Procs : \A l \in DOMAIN space[q] : space[q][l] = f => q = p /\ l = k
      BY <2>1, <3>1 DEF UsedOnce
    <3> QED
      BY <3>1, <3>2 DEF IsMapped
  <2>3. \A g \in free' : g \notin lost' /\ ~IsMapped(g)' /\ ~IsShared(g)' /\ ~IsCopy(g)'
    BY <1>1, <1>3, <1>4, <2>1, <2>2 DEF UsedOnce
  <2>4. \A g \in Frames : g \in lost' \/ IsCopy(g)' => ~IsMapped(g)' /\ ~IsShared(g)'
    BY <1>1, <1>3 DEF UsedOnce
  <2>5. ASSUME NEW q \in Procs, NEW r \in Procs, NEW k \in DOMAIN space'[q], NEW l \in DOMAIN space'[r],
               space'[q][k] = space'[r][l],
               \A i \in Ids : space'[q][k] \notin page'[i]
        PROVE  q = r /\ k = l
    BY <2>5 DEF UsedOnce, IsShared
  <2>6. \A q \in Procs, i \in Ids, g \in Frames : pc'[q] = <<"zero", i, g>> => g \in lost' \/ IsCopy(g)'
    BY <1>3 DEF UsedOnce
  <2>7. SharedDataKept'
    <3>1. \A i \in Ids : \A g \in page[i] : g \in Frames /\ g \notin F
      BY <2>1 DEF IsShared, TypeOK
    <3> QED
      BY <3>1 DEF SharedDataKept, Kfree
  <2> QED
    BY <2>3, <2>4, <2>5, <2>6, <2>7 DEF UsedOnce, IsShared
<1> QED
  BY <1>5, <1>6

(* The free list and the contents keep their types. *)
LEMMA KfreeType ==
  ASSUME TypeOK, NEW F, F \subseteq Frames, Kfree(F)
  PROVE  /\ free' \subseteq Frames
         /\ data' \in [Frames -> Values \cup {"zero", "junk"}]
         /\ halt' \in {"no", "remap", "freed"}
BY DEF TypeOK, Kfree

-----------------------------------------------------------------------------
(* Each operation keeps the invariant *)

(* growproc(n) *)
LEMMA GrowStep ==
  ASSUME IInv, NEW p \in Procs, Grow(p)
  PROVE  IInv'
<1> PICK f \in free : /\ free' = free \ {f} /\ data' = [data EXCEPT ![f] = "zero"]
                      /\ space' = [space EXCEPT ![p] = Append(@, f)]
  BY DEF Grow
<1>1. /\ TypeOK /\ ProcInv /\ f \in Frames /\ halt = "no" /\ state[p] = "live"
      /\ UNCHANGED <<state, halt, page, copy, pc, last, lost>>
  BY DEF IInv, TypeOK, Grow, Runs, tables
<1>2. NothingLeaks' /\ UsedOnce' /\ SharedDataKept'
  <2>1. \A g \in Frames : g # f => data'[g] = data[g]
    BY <1>1 DEF TypeOK
  <2> QED
    BY <1>1, <2>1, PrivateFrame
<1>3. TypeOK'
  BY <1>1, Appended DEF TypeOK
<1>4. ProcInv'
  BY <1>1, Appended DEF ProcInv
<1> QED
  BY <1>2, <1>3, <1>4 DEF IInv

(* growproc(-n) *)
LEMMA ShrinkStep ==
  ASSUME IInv, NEW p \in Procs, Shrink(p)
  PROVE  IInv'
<1> DEFINE s == space[p]
           F == {s[Len(s)]}
<1>1. /\ TypeOK /\ ProcInv /\ halt = "no" /\ state[p] = "live"
      /\ Kfree(F) /\ UNCHANGED <<state, tables>>
      /\ space' = [space EXCEPT ![p] = SubSeq(@, 1, Len(@) - 1)]
      /\ s \in Seq(Frames) /\ Len(s) \in Nat /\ Len(s) > 1
  BY DEF IInv, TypeOK, Shrink, Runs
<1>2. /\ SubSeq(s, 1, Len(s) - 1) \in Seq(Frames)
      /\ DOMAIN SubSeq(s, 1, Len(s) - 1) = 1..Len(s) - 1
      /\ SubSeq(s, 1, Len(s) - 1) # <<>>
      /\ \A k \in 1..Len(s) - 1 : SubSeq(s, 1, Len(s) - 1)[k] = s[k]
      /\ DOMAIN s = 1..Len(s) /\ Len(s) \in DOMAIN s
  <2>1. 1 \in Int /\ Len(s) - 1 \in Int /\ \A k \in 1..Len(s) - 1 : s[k] \in Frames
    BY <1>1
  <2>2. /\ SubSeq(s, 1, Len(s) - 1) \in Seq(Frames)
        /\ Len(SubSeq(s, 1, Len(s) - 1)) = Len(s) - 1
        /\ \A k \in 1..Len(s) - 1 : SubSeq(s, 1, Len(s) - 1)[k] = s[k]
    <3>1. /\ SubSeq(s, 1, Len(s) - 1) \in Seq(Frames)
          /\ Len(SubSeq(s, 1, Len(s) - 1)) = IF 1 <= Len(s) - 1 THEN Len(s) - 1 - 1 + 1 ELSE 0
          /\ \A k \in 1..Len(s) - 1 - 1 + 1 : SubSeq(s, 1, Len(s) - 1)[k] = s[1 + k - 1]
      BY <2>1, SubSeqProperties
    <3> QED
      BY <1>1, <3>1
  <2> DEFINE t == SubSeq(s, 1, Len(s) - 1)
  <2>3. t \in Seq(Frames) /\ Len(t) = Len(s) - 1
    BY <2>2
  <2> HIDE DEF t
  <2>4. DOMAIN t = 1..Len(s) - 1 /\ t # <<>>
    BY <1>1, <2>3
  <2>5. DOMAIN s = 1..Len(s) /\ Len(s) \in DOMAIN s
    BY <1>1
  <2> QED
    BY <2>2, <2>4, <2>5, Zenon DEF t
<1>3. /\ space' \in [Procs -> Seq(Frames)]
      /\ space'[p] = SubSeq(s, 1, Len(s) - 1)
      /\ \A q \in Procs : q # p => space'[q] = space[q]
  BY <1>1, <1>2 DEF TypeOK
<1> HIDE DEF s
<1>4. F \subseteq Frames
  BY <1>1, <1>2
<1> HIDE DEF F
<1>5. /\ \A k \in 1..Len(s) - 1 : k \in 1..Len(s)
      /\ \A k \in 1..Len(s) : k \notin 1..Len(s) - 1 => k = Len(s)
      /\ Len(s) \notin 1..Len(s) - 1
  BY <1>1
<1>6. /\ \A q \in Procs : \A k \in DOMAIN space'[q] :
           k \in DOMAIN space[q] /\ space'[q][k] = space[q][k]
      /\ \A q \in Procs : \A k \in DOMAIN space[q] :
           k \notin DOMAIN space'[q] => space[q][k] \in F
      /\ \A f \in F : \E k \in DOMAIN space[p] : k \notin DOMAIN space'[p] /\ space[p][k] = f
  BY <1>2, <1>3, <1>5 DEF s, F
<1>7. NothingLeaks' /\ (halt' # "freed" => UsedOnce' /\ SharedDataKept')
  BY <1>1, <1>4, <1>6, GivenBack
<1>8. TypeOK'
  BY <1>1, <1>3, <1>4, KfreeType DEF TypeOK, tables
<1>9. ProcInv'
  BY <1>1, <1>2, <1>3 DEF ProcInv, tables
<1> QED
  BY <1>7, <1>8, <1>9 DEF IInv

(* wait() *)
LEMMA ReapStep ==
  ASSUME IInv, NEW p \in Procs, Reap(p)
  PROVE  IInv'
<1>1. /\ TypeOK /\ ProcInv /\ halt = "no" /\ state[p] = "zombie"
      /\ Kfree(Mapped(p)) /\ UNCHANGED tables
      /\ space' = [space EXCEPT ![p] = <<>>]
      /\ state' = [state EXCEPT ![p] = "unused"]
  BY DEF IInv, Reap
<1>2. /\ space' \in [Procs -> Seq(Frames)]
      /\ space'[p] = <<>> /\ DOMAIN space'[p] = {}
      /\ \A q \in Procs : q # p => space'[q] = space[q]
  BY <1>1 DEF TypeOK
<1>3. \A f : f \in Mapped(p) <=> \E k \in DOMAIN space[p] : space[p][k] = f
  BY <1>1, AsSets
<1>4. Mapped(p) \subseteq Frames
  BY <1>1, <1>3 DEF TypeOK
<1>5. /\ \A q \in Procs : \A k \in DOMAIN space'[q] :
           k \in DOMAIN space[q] /\ space'[q][k] = space[q][k]
      /\ \A q \in Procs : \A k \in DOMAIN space[q] :
           k \notin DOMAIN space'[q] => space[q][k] \in Mapped(p)
      /\ \A f \in Mapped(p) :
           \E k \in DOMAIN space[p] : k \notin DOMAIN space'[p] /\ space[p][k] = f
  BY <1>2, <1>3
<1>6. NothingLeaks' /\ (halt' # "freed" => UsedOnce' /\ SharedDataKept')
  BY <1>1, <1>4, <1>5, GivenBack
<1>7. TypeOK'
  BY <1>1, <1>2, <1>4, KfreeType DEF TypeOK, tables
<1>8. ProcInv'
  BY <1>1, <1>2 DEF TypeOK, ProcInv, tables
<1> QED
  BY <1>6, <1>7, <1>8 DEF IInv

(* fork(): the child's frames were free and are all different. *)
LEMMA ForkStep ==
  ASSUME IInv, NEW p \in Procs, NEW q \in Procs, Fork(p, q)
  PROVE  IInv'
<1> DEFINE n == Len(space[p])
<1>1. PICK F \in [1..n -> free] :
        /\ IsInjective(F)
        /\ free' = free \ Range(F)
        /\ data' = [g \in Frames |-> IF g \in Range(F)
                      THEN data[space[p][CHOOSE k \in 1..n : F[k] = g]] ELSE data[g]]
        /\ space' = [space EXCEPT ![q] = F]
  BY DEF Fork
<1>2. /\ TypeOK /\ ProcInv /\ NothingLeaks /\ UsedOnce /\ SharedDataKept
      /\ halt = "no" /\ state[p] = "live" /\ pc[p] = User /\ state[q] = "unused"
      /\ state' = [state EXCEPT ![q] = "live"]
      /\ UNCHANGED <<halt, page, copy, pc, last, lost>>
  BY DEF IInv, Fork, Runs, tables
<1>3. space[p] \in Seq(Frames) /\ space[p] # <<>> /\ space[q] = <<>> /\ n \in Nat /\ n # 0
  BY <1>2 DEF TypeOK, ProcInv
<1>4. DOMAIN space[p] = 1..n
  BY <1>3
<1> HIDE DEF n
<1>5. /\ F \in Seq(Frames) /\ DOMAIN F = 1..n /\ F # <<>>
      /\ \A k \in 1..n : F[k] \in free
      /\ \A g : g \in Range(F) <=> \E k \in 1..n : F[k] = g
      /\ \A k, l \in 1..n : F[k] = F[l] => k = l
  <2>1. \A k \in 1..n : F[k] \in free /\ F[k] \in Frames
    BY <1>2 DEF TypeOK
  <2>2. F \in Seq(Frames)
    BY <1>3, <2>1
  <2>3. DOMAIN F = 1..n /\ 1 \in 1..n
    BY <1>3
  <2>4. F # <<>>
    <3>1. \A j : j \notin DOMAIN <<>>
      OBVIOUS
    <3> QED
      BY <2>3, <3>1, Zenon
  <2>5. \A k, l \in 1..n : F[k] = F[l] => k = l
    BY <1>1, <2>3 DEF IsInjective
  <2>6. \A g : g \in Range(F) <=> \E k \in 1..n : F[k] = g
    BY <2>3 DEF Range
  <2> QED
    BY <2>1, <2>2, <2>3, <2>4, <2>5, <2>6
<1>6. /\ space' \in [Procs -> Seq(Frames)] /\ space'[q] = F
      /\ \A r \in Procs : r # q => space'[r] = space[r]
  BY <1>1, <1>2, <1>5 DEF TypeOK
<1>7. \A g : IsMapped(g)' <=> IsMapped(g) \/ g \in Range(F)
  <2>1. \A k \in DOMAIN space[q] : FALSE
    BY <1>3
  <2>2. \A g : IsMapped(g)' => IsMapped(g) \/ g \in Range(F)
    <3> SUFFICES ASSUME NEW g, NEW r \in Procs, NEW k \in DOMAIN space'[r], space'[r][k] = g
                 PROVE  IsMapped(g) \/ g \in Range(F)
      BY Zenon DEF IsMapped
    <3>1. CASE r = q
      <4>1. k \in 1..n /\ F[k] = g
        BY <1>5, <1>6, <3>1, Zenon
      <4> QED
        BY <1>5, <4>1, Zenon
    <3>2. CASE r # q
      BY <1>6, <3>2, Zenon DEF IsMapped
    <3> QED
      BY <3>1, <3>2
  <2>3. \A g : IsMapped(g) => IsMapped(g)'
    BY <1>6, <2>1 DEF IsMapped
  <2>4. \A g \in Range(F) : IsMapped(g)'
    <3> SUFFICES ASSUME NEW g \in Range(F)
                 PROVE  IsMapped(g)'
      OBVIOUS
    <3>1. PICK k \in 1..n : F[k] = g
      BY <1>5, Zenon
    <3>2. k \in DOMAIN space'[q] /\ space'[q][k] = g
      BY <1>5, <1>6, <3>1, Zenon
    <3> QED
      BY <3>2, Zenon DEF IsMapped
  <2> QED
    BY <2>2, <2>3, <2>4
<1>8. \A g : (IsShared(g)' <=> IsShared(g)) /\ (IsCopy(g)' <=> IsCopy(g))
  BY <1>2 DEF IsShared, IsCopy
<1>9. \A g \in Range(F) : g \in free /\ g \notin lost /\ ~IsMapped(g) /\ ~IsShared(g) /\ ~IsCopy(g)
  BY <1>2, <1>5 DEF UsedOnce
<1>10. NothingLeaks'
  BY <1>1, <1>2, <1>7, <1>8 DEF NothingLeaks
<1>11. UsedOnce'
  <2>1. \A g \in free' : g \notin lost' /\ ~IsMapped(g)' /\ ~IsShared(g)' /\ ~IsCopy(g)'
    BY <1>1, <1>2, <1>7, <1>8 DEF UsedOnce
  <2>2. \A g \in Frames : g \in lost' \/ IsCopy(g)' => ~IsMapped(g)' /\ ~IsShared(g)'
    BY <1>2, <1>7, <1>8, <1>9 DEF UsedOnce
  <2>3. ASSUME NEW t \in Procs, NEW r \in Procs, NEW k \in DOMAIN space'[t], NEW l \in DOMAIN space'[r],
               space'[t][k] = space'[r][l],
               \A i \in Ids : space'[t][k] \notin page'[i]
        PROVE  t = r /\ k = l
    <3>1. \A u \in Procs : \A j \in DOMAIN space[u] : space[u][j] \notin Range(F)
      BY <1>9 DEF IsMapped
    <3>2. \A j \in DOMAIN space'[q] : space'[q][j] \in Range(F)
      BY <1>5, <1>6
    <3>3. CASE t = q /\ r = q
      <4>1. k \in 1..n /\ l \in 1..n /\ F[k] = F[l]
        BY <1>5, <1>6, <2>3, <3>3, Zenon
      <4> QED
        BY <1>5, <3>3, <4>1
    <3>4. CASE t # q /\ r # q
      <4>1. /\ k \in DOMAIN space[t] /\ l \in DOMAIN space[r] /\ space[t][k] = space[r][l]
            /\ \A i \in Ids : space[t][k] \notin page[i]
        BY <1>2, <1>6, <2>3, <3>4
      <4> QED
        BY <1>2, <4>1 DEF UsedOnce, IsShared
    <3> QED
      BY <1>6, <2>3, <3>1, <3>2, <3>3, <3>4
  <2>4. \A r \in Procs, i \in Ids, g \in Frames : pc'[r] = <<"zero", i, g>> => g \in lost' \/ IsCopy(g)'
    BY <1>2, <1>8 DEF UsedOnce
  <2> QED
    BY <2>1, <2>2, <2>3, <2>4 DEF UsedOnce, IsShared
<1>12. SharedDataKept'
  <2>1. \A i \in Ids : \A g \in page[i] : g \in Frames /\ g \notin Range(F)
    BY <1>2, <1>9 DEF IsShared, TypeOK
  <2> QED
    BY <1>1, <1>2, <2>1 DEF SharedDataKept
<1>13. TypeOK'
  <2>1. ASSUME NEW g \in Range(F)
        PROVE  data[space[p][CHOOSE k \in 1..n : F[k] = g]] \in Values \cup {"zero", "junk"}
    <3>1. \E k \in 1..n : F[k] = g
      BY <1>5
    <3>2. (CHOOSE k \in 1..n : F[k] = g) \in 1..n
      BY <3>1, Zenon
    <3> DEFINE j == CHOOSE k \in 1..n : F[k] = g
    <3> HIDE DEF j
    <3>3. data[space[p][j]] \in Values \cup {"zero", "junk"}
      BY <1>2, <1>3, <1>4, <3>2 DEF TypeOK, j
    <3> QED
      BY <3>3 DEF j
  <2>2. data' \in [Frames -> Values \cup {"zero", "junk"}]
    <3> DEFINE d(g) == data[space[p][CHOOSE k \in 1..n : F[k] = g]]
    <3>1. \A g \in Range(F) : d(g) \in Values \cup {"zero", "junk"}
      BY <2>1
    <3>2. data' = [g \in Frames |-> IF g \in Range(F) THEN d(g) ELSE data[g]]
      BY <1>1, Zenon
    <3> HIDE DEF d
    <3> QED
      BY <1>2, <3>1, <3>2 DEF TypeOK
  <2>3. free' \subseteq Frames
    BY <1>1, <1>2 DEF TypeOK
  <2> QED
    BY <1>2, <1>6, <2>2, <2>3 DEF TypeOK
<1>14. ProcInv'
  BY <1>2, <1>5, <1>6 DEF ProcInv, TypeOK
<1> QED
  BY <1>10, <1>11, <1>12, <1>13, <1>14 DEF IInv

(* exec(): one new frame, and the old image is given back. *)
LEMMA ExecStep ==
  ASSUME IInv, NEW p \in Procs, Exec(p)
  PROVE  IInv'
<1>1. PICK f \in free :
        /\ free' = (free \ {f}) \cup Mapped(p)
        /\ data' = [g \in Frames |-> IF g = f THEN "zero"
                                     ELSE IF g \in Mapped(p) THEN "junk" ELSE data[g]]
        /\ space' = [space EXCEPT ![p] = <<f>>]
  BY DEF Exec
<1>2. /\ TypeOK /\ ProcInv /\ NothingLeaks /\ UsedOnce /\ SharedDataKept /\ f \in Frames
      /\ halt = "no" /\ state[p] = "live"
      /\ halt' = IF Mapped(p) \cap Shared = {} THEN halt ELSE "freed"
      /\ UNCHANGED <<state, page, copy, pc, last, lost>>
  BY DEF IInv, Exec, Runs, tables, TypeOK
<1>3. /\ space' \in [Procs -> Seq(Frames)] /\ space'[p] = <<f>> /\ <<f>> # <<>>
      /\ DOMAIN space'[p] = {1} /\ space'[p][1] = f
      /\ \A q \in Procs : q # p => space'[q] = space[q]
  BY <1>1, <1>2 DEF TypeOK
<1>4. \A g : g \in Mapped(p) <=> \E k \in DOMAIN space[p] : space[p][k] = g
  BY <1>2, AsSets
<1>5. Mapped(p) \subseteq Frames
  BY <1>2, <1>4 DEF TypeOK
<1>6. f \notin lost /\ ~IsMapped(f) /\ ~IsShared(f) /\ ~IsCopy(f)
  BY <1>2 DEF UsedOnce
<1>7. /\ \A g : IsMapped(g) => IsMapped(g)' \/ g \in Mapped(p)
      /\ \A g : IsMapped(g)' => IsMapped(g) \/ g = f
      /\ IsMapped(f)'
  <2>1. \A g : IsMapped(g) => IsMapped(g)' \/ g \in Mapped(p)
    BY <1>3, <1>4 DEF IsMapped
  <2>2. \A g : IsMapped(g)' => IsMapped(g) \/ g = f
    BY <1>3 DEF IsMapped
  <2>3. IsMapped(f)'
    BY <1>3 DEF IsMapped
  <2> QED
    BY <2>1, <2>2, <2>3
<1>8. \A g : (IsShared(g)' <=> IsShared(g)) /\ (IsCopy(g)' <=> IsCopy(g))
  BY <1>2 DEF IsShared, IsCopy
<1>9. NothingLeaks'
  BY <1>1, <1>2, <1>7, <1>8 DEF NothingLeaks
<1>10. ASSUME halt' # "freed"
       PROVE  UsedOnce' /\ SharedDataKept'
  <2>1. \A g \in Mapped(p) : ~IsShared(g)
    BY <1>2, <1>10, AsSets
  <2>2. \A q \in Procs : \A k \in DOMAIN space[q] : space[q][k] \in Mapped(p) => q = p
    <3> SUFFICES ASSUME NEW q \in Procs, NEW k \in DOMAIN space[q], space[q][k] \in Mapped(p)
                 PROVE  q = p
      OBVIOUS
    <3>1. PICK l \in DOMAIN space[p] : space[p][l] = space[q][k]
      BY <1>4
    <3> QED
      BY <1>2, <2>1, <3>1 DEF UsedOnce
  <2>3. \A g \in Mapped(p) : IsMapped(g) /\ ~IsMapped(g)'
    <3>1. \A g \in Mapped(p) : IsMapped(g)
      BY <1>4 DEF IsMapped
    <3>2. \A g \in Mapped(p) : g # f
      BY <1>6, <3>1
    <3> QED
      BY <1>3, <2>2, <3>1, <3>2 DEF IsMapped
  <2>4. \A g \in free' : g \notin lost' /\ ~IsMapped(g)' /\ ~IsShared(g)' /\ ~IsCopy(g)'
    BY <1>1, <1>2, <1>5, <1>7, <1>8, <2>1, <2>3 DEF UsedOnce
  <2>5. \A g \in Frames : g \in lost' \/ IsCopy(g)' => ~IsMapped(g)' /\ ~IsShared(g)'
    BY <1>2, <1>6, <1>7, <1>8 DEF UsedOnce
  <2>6. ASSUME NEW q \in Procs, NEW r \in Procs, NEW k \in DOMAIN space'[q], NEW l \in DOMAIN space'[r],
               space'[q][k] = space'[r][l],
               \A i \in Ids : space'[q][k] \notin page'[i]
        PROVE  q = r /\ k = l
    <3>1. \A u \in Procs : \A j \in DOMAIN space[u] : space[u][j] # f
      BY <1>6 DEF IsMapped
    <3>2. CASE q # p /\ r # p
      BY <1>2, <1>3, <2>6, <3>2 DEF UsedOnce, IsShared
    <3> QED
      BY <1>3, <2>6, <3>1, <3>2
  <2>7. \A q \in Procs, i \in Ids, g \in Frames : pc'[q] = <<"zero", i, g>> => g \in lost' \/ IsCopy(g)'
    BY <1>2, <1>8 DEF UsedOnce
  <2>8. SharedDataKept'
    <3>1. \A i \in Ids : \A g \in page[i] : g \in Frames /\ g # f /\ g \notin Mapped(p)
      BY <1>2, <1>6, <2>1 DEF IsShared, TypeOK
    <3> QED
      BY <1>1, <1>2, <3>1 DEF SharedDataKept
  <2> QED
    BY <2>4, <2>5, <2>6, <2>7, <2>8 DEF UsedOnce, IsShared
<1>11. TypeOK'
  BY <1>1, <1>2, <1>3, <1>5 DEF TypeOK
<1>12. ProcInv'
  BY <1>2, <1>3 DEF ProcInv
<1> QED
  BY <1>9, <1>10, <1>11, <1>12 DEF IInv

(* exit() gives no memory back: its parent does, in wait(). *)
LEMMA ExitStep ==
  ASSUME IInv, NEW p \in Procs, Exit(p)
  PROVE  IInv'
<1>1. /\ state[p] = "live" /\ pc[p] = User /\ state' = [state EXCEPT ![p] = "zombie"]
      /\ UNCHANGED <<free, data, space, halt, page, copy, pc, last, lost>>
  BY DEF Exit, Runs, tables
<1>2. TypeOK' /\ ProcInv'
  BY <1>1 DEF IInv, TypeOK, ProcInv
<1>3. NothingLeaks'
  BY <1>1 DEF IInv, NothingLeaks, IsMapped, IsShared, IsCopy
<1>4. halt' # "freed" => UsedOnce' /\ SharedDataKept'
  BY <1>1, StillUsedOnce DEF IInv, SharedDataKept
<1> QED
  BY <1>2, <1>3, <1>4 DEF IInv

(* shmget(): the frame of the region, new or not, is shared and not free. *)
LEMMA ShmgetStep ==
  ASSUME IInv, NEW p \in Procs, NEW i \in Ids, Shmget(p, i)
  PROVE  IInv'
<1>1. PICK f \in (IF page[i] = {} THEN free ELSE page[i]) :
       /\ page' = [page EXCEPT ![i] = {f}]
       /\ free' = IF page[i] = {} THEN free \ {f} ELSE free
       /\ data' = IF page[i] = {} THEN [data EXCEPT ![f] = "zero"] ELSE data
       /\ \/ space' = [space EXCEPT ![p] = Append(@, f)] /\ UNCHANGED halt
          \/ halt' = "remap" /\ UNCHANGED space
  BY DEF Shmget
<1>2. /\ TypeOK /\ ProcInv /\ NothingLeaks /\ UsedOnce /\ SharedDataKept
      /\ halt = "no" /\ state[p] = "live"
      /\ UNCHANGED <<state, copy, pc, last, lost>>
  BY DEF IInv, Shmget, Runs
<1>3. f \in Frames
  BY <1>1, <1>2 DEF TypeOK
<1>4. f \notin lost /\ ~IsCopy(f) /\ f \notin free'
  <2>1. CASE page[i] = {}
    BY <1>1, <1>2, <2>1 DEF UsedOnce
  <2>2. CASE page[i] # {}
    <3>1. IsShared(f)
      BY <1>1, <2>2 DEF IsShared
    <3> QED
      BY <1>1, <1>2, <1>3, <2>2, <3>1 DEF UsedOnce
  <2> QED
    BY <2>1, <2>2
<1>5. free' \subseteq free /\ \A g \in free : g # f => g \in free'
  BY <1>1
<1>6. /\ page'[i] = {f}
      /\ \A j \in Ids : j # i => page'[j] = page[j]
      /\ \A g \in page[i] : g = f
  BY <1>1, <1>2 DEF TypeOK, ProcInv
<1>7. \A g : IsShared(g)' <=> IsShared(g) \/ g = f
  BY <1>6 DEF IsShared
<1>8. \A g : IsCopy(g)' <=> IsCopy(g)
  BY <1>2 DEF IsCopy
<1>9. /\ space' \in [Procs -> Seq(Frames)]
      /\ \A q \in Procs : q # p => space'[q] = space[q]
      /\ space[p] # <<>> => space'[p] # <<>>
      /\ \A q \in Procs : \A k \in DOMAIN space[q] :
           k \in DOMAIN space'[q] /\ space'[q][k] = space[q][k]
      /\ \A q \in Procs : \A k \in DOMAIN space'[q] :
           (k \in DOMAIN space[q] /\ space'[q][k] = space[q][k]) \/ space'[q][k] = f
  <2>1. CASE space' = [space EXCEPT ![p] = Append(@, f)]
    <3>1. /\ space' \in [Procs -> Seq(Frames)]
          /\ space'[p] # <<>>
          /\ \A q \in Procs : q # p => space'[q] = space[q]
      BY <1>2, <1>3, <2>1, Appended
    <3>2. \A q \in Procs : \A k \in DOMAIN space[q] :
            k \in DOMAIN space'[q] /\ space'[q][k] = space[q][k]
      BY <1>2, <1>3, <2>1, Appended
    <3>3. \A q \in Procs : \A k \in DOMAIN space'[q] :
            (k \in DOMAIN space[q] /\ space'[q][k] = space[q][k]) \/ space'[q][k] = f
      BY <1>2, <1>3, <2>1, Appended
    <3> QED
      BY <3>1, <3>2, <3>3, Zenon
  <2>2. CASE UNCHANGED space
    BY <1>2, <2>2 DEF TypeOK
  <2> QED
    BY <1>1, <2>1, <2>2
<1>10. \A g : (IsMapped(g)' => IsMapped(g) \/ g = f) /\ (IsMapped(g) => IsMapped(g)')
  <2>1. \A g : IsMapped(g)' => IsMapped(g) \/ g = f
    BY <1>9 DEF IsMapped
  <2>2. \A g : IsMapped(g) => IsMapped(g)'
    BY <1>9 DEF IsMapped
  <2> QED
    BY <2>1, <2>2
<1>11. NothingLeaks'
  BY <1>2, <1>5, <1>7, <1>8, <1>10 DEF NothingLeaks
<1>12. UsedOnce'
  <2>1. \A g \in free' : g \notin lost' /\ ~IsMapped(g)' /\ ~IsShared(g)' /\ ~IsCopy(g)'
    BY <1>2, <1>4, <1>5, <1>7, <1>8, <1>10 DEF UsedOnce
  <2>2. \A g \in Frames : g \in lost' \/ IsCopy(g)' => ~IsMapped(g)' /\ ~IsShared(g)'
    BY <1>2, <1>4, <1>7, <1>8, <1>10 DEF UsedOnce
  <2>3. ASSUME NEW q \in Procs, NEW r \in Procs, NEW k \in DOMAIN space'[q], NEW l \in DOMAIN space'[r],
               space'[q][k] = space'[r][l],
               \A j \in Ids : space'[q][k] \notin page'[j]
        PROVE  q = r /\ k = l
    <3>1. space'[q][k] # f
      BY <1>6, <2>3
    <3>2. \A j \in Ids : space'[q][k] \notin page[j]
      BY <1>6, <2>3, <3>1
    <3>3. /\ k \in DOMAIN space[q] /\ l \in DOMAIN space[r] /\ space[q][k] = space[r][l]
          /\ \A j \in Ids : space[q][k] \notin page[j]
      BY <1>9, <2>3, <3>1, <3>2
    <3> QED
      BY <1>2, <3>3 DEF UsedOnce, IsShared
  <2>4. \A q \in Procs, j \in Ids, g \in Frames : pc'[q] = <<"zero", j, g>> => g \in lost' \/ IsCopy(g)'
    BY <1>2, <1>8 DEF UsedOnce
  <2> QED
    BY <2>1, <2>2, <2>3, <2>4 DEF UsedOnce, IsShared
<1>13. SharedDataKept'
  <2>1. CASE page[i] = {}
    <3>1. ~IsShared(f) /\ data' = [data EXCEPT ![f] = "zero"] /\ last[i] = "zero"
      BY <1>1, <1>2, <2>1 DEF UsedOnce, ProcInv
    <3>2. \A j \in Ids : \A g \in page[j] : g \in Frames /\ g # f
      BY <1>2, <3>1 DEF IsShared, TypeOK
    <3>3. data'[f] = "zero" /\ \A g \in Frames : g # f => data'[g] = data[g]
      BY <1>2, <1>3, <3>1 DEF TypeOK
    <3> QED
      BY <1>2, <1>6, <3>1, <3>2, <3>3 DEF SharedDataKept
  <2>2. CASE page[i] # {}
    BY <1>1, <1>2, <1>6, <2>2 DEF SharedDataKept
  <2> QED
    BY <2>1, <2>2
<1>14. TypeOK'
  <2>1. data' \in [Frames -> Values \cup {"zero", "junk"}]
    BY <1>1, <1>2 DEF TypeOK
  <2>2. halt' \in {"no", "remap", "freed"}
    BY <1>1, <1>2
  <2>3. page' \in [Ids -> SUBSET Frames] /\ free' \subseteq Frames
    BY <1>1, <1>2, <1>3 DEF TypeOK
  <2> QED
    BY <1>2, <1>9, <2>1, <2>2, <2>3 DEF TypeOK
<1>15. ProcInv'
  <2>1. \A j \in Ids : /\ page'[j] = {} => last'[j] = "zero"
                       /\ \A g, h \in page'[j] : g = h
                       /\ \A g, h \in copy'[j] : g = h
    BY <1>2, <1>6 DEF ProcInv
  <2>2. \A q \in Procs : /\ state'[q] = "unused" => space'[q] = <<>>
                         /\ state'[q] = "live" => space'[q] # <<>>
                         /\ pc'[q] # User => state'[q] = "live"
    BY <1>2, <1>9 DEF ProcInv
  <2> QED
    BY <2>1, <2>2 DEF ProcInv
<1> QED
  BY <1>11, <1>12, <1>13, <1>14, <1>15 DEF IInv

(* shmem() looks at the key. *)
LEMMA ShmemTestStep ==
  ASSUME IInv, NEW p \in Procs, NEW i \in Ids, ShmemTest(p, i)
  PROVE  IInv'
<1>1. PICK w \in {"alloc", "copy"} : pc' = [pc EXCEPT ![p] = <<w, i>>]
  BY DEF ShmemTest
<1>2. /\ state[p] = "live"
      /\ UNCHANGED <<free, data, space, state, page, copy, halt, last, lost>>
  BY DEF ShmemTest, Runs
<1>3. TypeOK'
  <2>1. <<w, i>> \in Where
    BY DEF Where
  <2> QED
    BY <1>1, <1>2, <2>1 DEF IInv, TypeOK
<1>4. ProcInv'
  BY <1>1, <1>2 DEF IInv, TypeOK, ProcInv
<1>5. NothingLeaks'
  BY <1>2 DEF IInv, NothingLeaks, IsMapped, IsShared, IsCopy
<1>6. halt' # "freed" => UsedOnce' /\ SharedDataKept'
  <2>1. \A q \in Procs, j \in Ids, f \in Frames : pc'[q] = <<"zero", j, f>> => pc[q] = <<"zero", j, f>>
    BY <1>1 DEF IInv, TypeOK
  <2> QED
    BY <1>2, <2>1, StillUsedOnce DEF IInv, SharedDataKept
<1> QED
  BY <1>3, <1>4, <1>5, <1>6 DEF IInv

(* The frame that shmem() takes is not mapped and not of a region; the one *)
(* it overwrites the pointer to is lost.                                   *)
LEMMA ShmemAllocStep ==
  ASSUME IInv, NEW p \in Procs, NEW i \in Ids, ShmemAlloc(p, i)
  PROVE  IInv'
<1>1. /\ TypeOK /\ ProcInv /\ NothingLeaks /\ UsedOnce /\ SharedDataKept
      /\ halt = "no" /\ pc[p] = <<"alloc", i>> /\ lost' = lost \cup copy[i]
      /\ UNCHANGED <<data, space, state, page, halt, last>>
  BY DEF IInv, ShmemAlloc
<1>2. state[p] = "live"
  BY <1>1 DEF ProcInv, User
<1>3. \A g : (IsMapped(g)' <=> IsMapped(g)) /\ (IsShared(g)' <=> IsShared(g))
  BY <1>1 DEF IsMapped, IsShared
<1>4. lost' \subseteq Frames
  BY <1>1 DEF TypeOK
<1>5. SharedDataKept'
  BY <1>1 DEF SharedDataKept
<1>6. CASE /\ copy' = [copy EXCEPT ![i] = {}]
           /\ pc' = [pc EXCEPT ![p] = User]
           /\ UNCHANGED free
  <2>1. TypeOK'
    <3>1. User \in Where
      BY DEF Where
    <3> QED
      BY <1>1, <1>4, <1>6, <3>1 DEF TypeOK
  <2>2. ProcInv'
    BY <1>1, <1>6 DEF ProcInv, TypeOK
  <2>3. \A g : g \in lost' \/ IsCopy(g)' <=> g \in lost \/ IsCopy(g)
    BY <1>1, <1>6 DEF IsCopy, TypeOK
  <2>4. NothingLeaks'
    BY <1>1, <1>3, <1>6, <2>3 DEF NothingLeaks
  <2>5. \A q \in Procs, j \in Ids, g \in Frames : pc'[q] = <<"zero", j, g>> => pc[q] = <<"zero", j, g>>
    BY <1>1, <1>6 DEF TypeOK, User
  <2>6. \A g \in free' : g \notin lost' /\ ~IsMapped(g)' /\ ~IsShared(g)' /\ ~IsCopy(g)'
    BY <1>1, <1>3, <1>6, <2>3 DEF UsedOnce
  <2>7. \A g \in Frames : g \in lost' \/ IsCopy(g)' => ~IsMapped(g)' /\ ~IsShared(g)'
    BY <1>1, <1>3, <2>3 DEF UsedOnce
  <2>8. \A q \in Procs, j \in Ids, g \in Frames : pc'[q] = <<"zero", j, g>> => g \in lost' \/ IsCopy(g)'
    BY <1>1, <2>3, <2>5 DEF UsedOnce
  <2>9. UsedOnce'
    BY <1>1, <2>6, <2>7, <2>8, StillOnce
  <2> QED
    BY <1>5, <2>1, <2>2, <2>4, <2>9 DEF IInv
<1>7. ASSUME NEW f \in free,
             copy' = [copy EXCEPT ![i] = {f}],
             pc' = [pc EXCEPT ![p] = <<"zero", i, f>>],
             free' = free \ {f}
      PROVE  IInv'
  <2>1. f \in Frames /\ ~IsMapped(f) /\ ~IsShared(f) /\ ~IsCopy(f) /\ f \notin lost
    BY <1>1 DEF TypeOK, UsedOnce
  <2>2. TypeOK'
    <3>1. <<"zero", i, f>> \in Where
      BY <2>1 DEF Where
    <3> QED
      BY <1>1, <1>4, <1>7, <2>1, <3>1 DEF TypeOK
  <2>3. ProcInv'
    BY <1>1, <1>2, <1>7 DEF ProcInv, TypeOK
  <2>4. \A g : g \in lost' \/ IsCopy(g)' <=> g \in lost \/ IsCopy(g) \/ g = f
    BY <1>1, <1>7 DEF IsCopy, TypeOK
  <2>5. NothingLeaks'
    BY <1>1, <1>3, <1>7, <2>4 DEF NothingLeaks
  <2>6. \A g \in free' : g \notin lost' /\ ~IsMapped(g)' /\ ~IsShared(g)' /\ ~IsCopy(g)'
    BY <1>1, <1>3, <1>7, <2>4 DEF UsedOnce
  <2>7. \A g \in Frames : g \in lost' \/ IsCopy(g)' => ~IsMapped(g)' /\ ~IsShared(g)'
    BY <1>1, <1>3, <2>1, <2>4 DEF UsedOnce
  <2>8. \A q \in Procs, j \in Ids, g \in Frames : pc'[q] = <<"zero", j, g>> => g \in lost' \/ IsCopy(g)'
    <3>1. \A q \in Procs, j \in Ids, g \in Frames :
            pc'[q] = <<"zero", j, g>> => pc[q] = <<"zero", j, g>> \/ g = f
      BY <1>1, <1>7 DEF TypeOK
    <3> QED
      <4>1. \A q \in Procs, j \in Ids, g \in Frames : pc[q] = <<"zero", j, g>> => g \in lost \/ IsCopy(g)
        BY <1>1 DEF UsedOnce
      <4> QED
        BY <2>4, <3>1, <4>1
  <2>9. UsedOnce'
    BY <1>1, <2>6, <2>7, <2>8, StillOnce
  <2> QED
    BY <1>5, <2>2, <2>3, <2>5, <2>9 DEF IInv
<1> QED
  BY <1>6, <1>7 DEF ShmemAlloc

(* The frame it zeroes may be lost by now, but nobody else has got it. *)
LEMMA ShmemZeroStep ==
  ASSUME IInv, NEW p \in Procs, NEW i \in Ids, ShmemZero(p, i)
  PROVE  IInv'
<1>1. PICK f \in Frames : pc[p] = <<"zero", i, f>> /\ data' = [data EXCEPT ![f] = "zero"]
  BY DEF ShmemZero
<1>2. /\ TypeOK /\ ProcInv /\ NothingLeaks /\ UsedOnce /\ SharedDataKept
      /\ halt = "no" /\ pc' = [pc EXCEPT ![p] = <<"copy", i>>]
      /\ UNCHANGED <<free, space, state, page, copy, halt, last, lost>>
  BY DEF IInv, ShmemZero
<1>3. state[p] = "live"
  BY <1>1, <1>2 DEF ProcInv, User
<1>4. TypeOK'
  <2>1. <<"copy", i>> \in Where
    BY DEF Where
  <2> QED
    BY <1>1, <1>2, <2>1 DEF TypeOK
<1>5. ProcInv'
  BY <1>2, <1>3 DEF ProcInv, TypeOK
<1>6. NothingLeaks'
  BY <1>2 DEF NothingLeaks, IsMapped, IsShared, IsCopy
<1>7. UsedOnce'
  <2>1. \A q \in Procs, j \in Ids, g \in Frames : pc'[q] = <<"zero", j, g>> => pc[q] = <<"zero", j, g>>
    BY <1>2 DEF TypeOK
  <2> QED
    BY <1>2, <2>1, StillUsedOnce
<1>8. SharedDataKept'
  <2>1. ~IsShared(f)
    BY <1>1, <1>2 DEF UsedOnce
  <2>2. \A j \in Ids : \A g \in page[j] : g \in Frames /\ g # f
    BY <1>2, <2>1 DEF IsShared, TypeOK
  <2> QED
    BY <1>1, <1>2, <2>2 DEF SharedDataKept, TypeOK
<1> QED
  BY <1>4, <1>5, <1>6, <1>7, <1>8 DEF IInv

(* shmem() copies the frame of the key into a page of its own, or fails. *)
LEMMA ShmemCopyStep ==
  ASSUME IInv, NEW p \in Procs, NEW i \in Ids, ShmemCopy(p, i)
  PROVE  IInv'
<1>1. /\ TypeOK /\ ProcInv /\ NothingLeaks /\ UsedOnce /\ SharedDataKept
      /\ halt = "no" /\ pc[p] = <<"copy", i>> /\ pc' = [pc EXCEPT ![p] = User]
      /\ UNCHANGED <<state, page, copy, halt, last, lost>>
  BY DEF IInv, ShmemCopy
<1>2. state[p] = "live"
  BY <1>1 DEF ProcInv, User
<1>3. pc' \in [Procs -> Where]
  <2>1. User \in Where
    BY DEF Where
  <2> QED
    BY <1>1, <2>1 DEF TypeOK
<1>4. \A q \in Procs, j \in Ids, g \in Frames : pc'[q] = <<"zero", j, g>> => pc[q] = <<"zero", j, g>>
  BY <1>1 DEF TypeOK, User
<1>5. ASSUME NEW f \in free, NEW c \in (IF copy[i] = {} THEN {space[p][1]} ELSE copy[i]),
             free' = free \ {f}, data' = [data EXCEPT ![f] = data[c]],
             space' = [space EXCEPT ![p] = Append(@, f)]
      PROVE  IInv'
  <2>1. f \in Frames
    BY <1>1 DEF TypeOK
  <2>2. c \in Frames
    <3>1. space[p] \in Seq(Frames) /\ space[p] # <<>>
      BY <1>1, <1>2 DEF TypeOK, ProcInv
    <3>2. space[p][1] \in Frames
      BY <3>1
    <3> QED
      BY <1>1, <3>2 DEF TypeOK
  <2>3. \A g \in Frames : g # f => data'[g] = data[g]
    BY <1>1, <1>5 DEF TypeOK
  <2>4. NothingLeaks' /\ UsedOnce' /\ SharedDataKept'
    BY <1>1, <1>4, <1>5, <2>3, PrivateFrame
  <2>5. TypeOK'
    <3>1. space' \in [Procs -> Seq(Frames)]
      BY <1>1, <1>5, <2>1, Appended
    <3> QED
      BY <1>1, <1>3, <1>5, <2>1, <2>2, <3>1 DEF TypeOK
  <2>6. ProcInv'
    <3>1. space'[p] # <<>> /\ \A q \in Procs : q # p => space'[q] = space[q]
      BY <1>1, <1>5, <2>1, Appended
    <3> QED
      BY <1>1, <1>2, <3>1 DEF ProcInv, TypeOK
  <2> QED
    BY <2>4, <2>5, <2>6 DEF IInv
<1>6. CASE UNCHANGED <<free, data, space>>
  <2>1. TypeOK' /\ ProcInv'
    BY <1>1, <1>3, <1>6 DEF TypeOK, ProcInv
  <2>2. NothingLeaks'
    BY <1>1, <1>6 DEF NothingLeaks, IsMapped, IsShared, IsCopy
  <2>3. UsedOnce'
    BY <1>1, <1>4, <1>6, StillUsedOnce
  <2>4. SharedDataKept'
    BY <1>1, <1>6 DEF SharedDataKept
  <2> QED
    BY <2>1, <2>2, <2>3, <2>4 DEF IInv
<1> QED
  BY <1>5, <1>6 DEF ShmemCopy

(* A store by user code reaches the region whose frame it is. *)
LEMMA WriteStep ==
  ASSUME IInv, NEW p \in Procs, NEW k \in DOMAIN space[p], NEW v \in Values, Write(p, k, v)
  PROVE  IInv'
<1> DEFINE f == space[p][k]
<1>1. /\ TypeOK /\ ProcInv /\ NothingLeaks /\ UsedOnce /\ SharedDataKept /\ f \in Frames
      /\ data' = [data EXCEPT ![f] = v]
      /\ last' = [i \in Ids |-> IF page[i] = {f} THEN v ELSE last[i]]
      /\ UNCHANGED <<free, space, state, page, copy, pc, halt, lost>>
  BY DEF IInv, Write, Runs, TypeOK
<1> HIDE DEF f
<1>2. TypeOK'
  BY <1>1 DEF TypeOK
<1>3. ProcInv'
  <2>1. \A i \in Ids : page[i] = {} => last'[i] = "zero"
    BY <1>1 DEF ProcInv
  <2> QED
    BY <1>1, <2>1 DEF ProcInv
<1>4. NothingLeaks'
  BY <1>1 DEF NothingLeaks, IsMapped, IsShared, IsCopy
<1>5. UsedOnce'
  BY <1>1, StillUsedOnce
<1>6. SharedDataKept'
  <2> SUFFICES ASSUME NEW i \in Ids, NEW g \in page[i]
               PROVE  data'[g] = last'[i]
    BY <1>1 DEF SharedDataKept
  <2>1. g \in Frames /\ data[g] = last[i] /\ \A h \in page[i] : h = g
    BY <1>1 DEF TypeOK, SharedDataKept, ProcInv
  <2>2. page[i] = {g}
    BY <2>1
  <2> QED
    BY <1>1, <2>1, <2>2 DEF TypeOK
<1> QED
  BY <1>2, <1>3, <1>4, <1>5, <1>6 DEF IInv

(* Every step does. *)
LEMMA NextStep == IInv /\ [Next]_vars => IInv'
<1> SUFFICES ASSUME IInv, [Next]_vars
             PROVE  IInv'
  OBVIOUS
<1>1. CASE UNCHANGED vars
  <2> UNCHANGED <<free, data, space, state, page, copy, pc, halt, last, lost>>
    BY <1>1 DEF vars
  <2>1. TypeOK' /\ ProcInv'
    BY DEF IInv, TypeOK, ProcInv
  <2>2. NothingLeaks'
    BY DEF IInv, NothingLeaks, IsMapped, IsShared, IsCopy
  <2>3. halt # "freed" => UsedOnce'
    BY StillUsedOnce DEF IInv
  <2>4. halt # "freed" => SharedDataKept'
    BY DEF IInv, SharedDataKept
  <2> QED
    BY <2>1, <2>2, <2>3, <2>4 DEF IInv
<1>2. ASSUME NEW p \in Procs, Grow(p) \/ Shrink(p) \/ Exec(p) \/ Exit(p) \/ Reap(p)
      PROVE  IInv'
  BY <1>2, GrowStep, ShrinkStep, ExecStep, ExitStep, ReapStep
<1>3. ASSUME NEW p \in Procs, NEW q \in Procs, Fork(p, q)
      PROVE  IInv'
  BY <1>3, ForkStep
<1>4. ASSUME NEW p \in Procs, NEW i \in Ids,
             Shmget(p, i) \/ ShmemTest(p, i) \/ ShmemAlloc(p, i) \/ ShmemZero(p, i) \/ ShmemCopy(p, i)
      PROVE  IInv'
  BY <1>4, ShmgetStep, ShmemTestStep, ShmemAllocStep, ShmemZeroStep, ShmemCopyStep
<1>5. ASSUME NEW p \in Procs, NEW k \in DOMAIN space[p], NEW v \in Values, Write(p, k, v)
      PROVE  IInv'
  BY <1>5, WriteStep
<1> QED
  BY <1>1, <1>2, <1>3, <1>4, <1>5 DEF Next

-----------------------------------------------------------------------------
(* Who has each frame is what IInv says, in every reachable state. *)
THEOREM Inductive == Spec => []IInv
<1>1. Init => IInv
  BY InitIInv
<1>2. IInv /\ [Next]_vars => IInv'
  BY NextStep
<1> QED
  BY <1>1, <1>2, PTL DEF Spec

(* No frame is forgotten but by racing calls of shmem(), and, until the    *)
(* frame of a region is freed, none is free and in use, or used twice      *)
(* (kalloc.c, vm.c, sys_shmem of sysproc.c).                               *)
THEOREM FramesAccounted == Spec => []FramesExact
<1>1. IInv => FramesExact
  BY Enough
<1> QED
  BY <1>1, Inductive, PTL

(* What is written to a region is there until its frame is freed (shmget   *)
(* of vm.c, sys_shmem of sysproc.c, copyuvm and deallocuvm of vm.c).       *)
THEOREM RegionsKept == Spec => []SharedUntilFreed
<1>1. IInv => SharedUntilFreed
  BY Enough
<1> QED
  BY <1>1, Inductive, PTL
=============================================================================
