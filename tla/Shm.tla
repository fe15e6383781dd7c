-------------------------------- MODULE Shm --------------------------------
(***************************************************************************)
(* User memory: the frames of kalloc.c, the address spaces of vm.c and     *)
(* proc.c (fork's copyuvm, growproc, freevm by wait, exec) and the two     *)
(* kinds of shared memory, shmget() of vm.c, which maps one frame into     *)
(* several processes, and shmem() of sysproc.c, which copies one.          *)
(*                                                                         *)
(* An address space is the sequence of the frames mapped from address 0    *)
(* up to p->sz; sizes are whole pages.  The content of a frame is one      *)
(* value.  Page tables and kernel stacks are left out.                     *)
(***************************************************************************)
EXTENDS Naturals, FiniteSets, Sequences, Functions

CONSTANTS
  Procs, Frames,
  Ids,         \* region ids of shmget and keys of shmem
  Values,      \* what user code writes
  UserTop      \* pages below KERNBASE

ASSUME ShmAssumption ==
  /\ IsFiniteSet(Procs) /\ IsFiniteSet(Frames) /\ UserTop \in Nat \ {0}
  /\ "zero" \notin Values /\ "junk" \notin Values

VARIABLES
  free,        \* kmem.freelist
  data,        \* the content of each frame
  space,       \* the frames mapped by each process
  state,       \* "unused", "live" or "zombie"
  page, refcnt,  \* shmtable.regions
  copy,        \* shm_pages of shmem(): a set of at most one frame
  pc,          \* where a process is: in user code or inside shmem()
  halt,        \* why the model goes no further: "remap", mappages()
               \* panicked, or "freed", the frame of a region was freed
  last,        \* what user code last wrote to each shared region
  lost         \* frames that shmem() has overwritten the pointer to

vars == <<free, data, space, state, page, refcnt, copy, pc, halt, last, lost>>

User == <<"user">>

Init ==
  \E f \in Frames, p \in Procs :
    /\ free = Frames \ {f}
    /\ data = [g \in Frames |-> IF g = f THEN "zero" ELSE "junk"]
    /\ space = [q \in Procs |-> IF q = p THEN <<f>> ELSE <<>>]
    /\ state = [q \in Procs |-> IF q = p THEN "live" ELSE "unused"]
    /\ page = [i \in Ids |-> {}] /\ refcnt = [i \in Ids |-> 0]
    /\ copy = [i \in Ids |-> {}]
    /\ pc = [q \in Procs |-> User] /\ halt = "no" /\ lost = {}
    /\ last = [i \in Ids |-> "zero"]

Runs(p) == state[p] = "live" /\ pc[p] = User /\ halt = "no"

tables == <<page, refcnt, copy, pc, last, lost>>

Mapped(p) == Range(space[p])
AllMapped == UNION {Mapped(p) : p \in Procs}
Shared    == UNION Range(page)       \* the frames of regions
Copies    == UNION Range(copy)       \* the frames of keys

(* kfree() of a set of frames. *)
Kfree(F) ==
  /\ free' = free \cup F
  /\ data' = [g \in Frames |-> IF g \in F THEN "junk" ELSE data[g]]
  /\ halt' = IF F \cap Shared = {} THEN halt ELSE "freed"

-----------------------------------------------------------------------------
(* sbrk(), fork(), exec(), exit() and wait() *)

Grow(p) ==
  /\ Runs(p) /\ Len(space[p]) + 1 < UserTop
  /\ \E f \in free :
       /\ free' = free \ {f} /\ data' = [data EXCEPT ![f] = "zero"]
       /\ space' = [space EXCEPT ![p] = Append(@, f)]
  /\ UNCHANGED <<state, halt, tables>>

(* growproc(-PGSIZE): deallocuvm() frees the frame at the top. *)
Shrink(p) ==
  /\ Runs(p) /\ Len(space[p]) > 1
  /\ Kfree({space[p][Len(space[p])]})
  /\ space' = [space EXCEPT ![p] = SubSeq(@, 1, Len(@) - 1)]
  /\ UNCHANGED <<state, tables>>

(* copyuvm() gives the child a private copy of every page, shared or not. *)
(* When kalloc() fails half way, freevm() gives back what it took.        *)
Fork(p, q) ==
  LET n == Len(space[p]) IN
  /\ Runs(p) /\ state[q] = "unused"
  /\ \E F \in [1..n -> free] :
       /\ IsInjective(F)
       /\ free' = free \ Range(F)
       /\ data' = [g \in Frames |-> IF g \in Range(F)
                     THEN data[space[p][CHOOSE k \in 1..n : F[k] = g]] ELSE data[g]]
       /\ space' = [space EXCEPT ![q] = F]
  /\ state' = [state EXCEPT ![q] = "live"]
  /\ UNCHANGED <<halt, tables>>

(* exec(): the new image is complete before freevm() frees the old one.   *)
Exec(p) ==
  /\ Runs(p)
  /\ \E f \in free :
       /\ free' = (free \ {f}) \cup Mapped(p)
       /\ data' = [g \in Frames |-> IF g = f THEN "zero"
                                    ELSE IF g \in Mapped(p) THEN "junk" ELSE data[g]]
       /\ space' = [space EXCEPT ![p] = <<f>>]
  /\ halt' = IF Mapped(p) \cap Shared = {} THEN halt ELSE "freed"
  /\ UNCHANGED <<state, tables>>

Exit(p) ==
  /\ Runs(p)
  /\ \E q \in Procs \ {p} : state[q] = "live"       \* init does not exit
  /\ state' = [state EXCEPT ![p] = "zombie"]
  /\ UNCHANGED <<free, data, space, halt, tables>>

\* Slip: the slot is reused without freevm().
ReapKeepsMemory(p) ==
  /\ state[p] = "zombie" /\ halt = "no"
  /\ space' = [space EXCEPT ![p] = <<>>]
  /\ state' = [state EXCEPT ![p] = "unused"]
  /\ UNCHANGED <<free, data, halt, tables>>

(* wait() of the parent: freevm() frees every frame that is mapped.       *)
Reap(p) ==
  /\ state[p] = "zombie" /\ halt = "no"
  /\ Kfree(Mapped(p))
  /\ space' = [space EXCEPT ![p] = <<>>]
  /\ state' = [state EXCEPT ![p] = "unused"]
  /\ UNCHANGED tables

-----------------------------------------------------------------------------
(* shmget() *)

\* Slip: the page is looked up, allocated and stored again on each call.
ShmgetAnew(p, i) ==
  /\ Runs(p) /\ Len(space[p]) < UserTop
  /\ \E f \in free :
       /\ page' = [page EXCEPT ![i] = {f}]
       /\ free' = free \ {f} /\ data' = [data EXCEPT ![f] = "zero"]
       /\ space' = [space EXCEPT ![p] = Append(@, f)]
       /\ refcnt' = [refcnt EXCEPT ![i] = @ + 1]
  /\ UNCHANGED <<state, copy, pc, halt, last, lost>>

(* The frame of the region is allocated on first use and mapped at the    *)
(* top of the address space; KERNBASE is not looked at, so at the top the *)
(* page is already present and mappages() panics.                         *)
Shmget(p, i) ==
  /\ Runs(p)
  /\ \E f \in (IF page[i] = {} THEN free ELSE page[i]) :
       /\ page' = [page EXCEPT ![i] = {f}]
       /\ free' = IF page[i] = {} THEN free \ {f} ELSE free
       /\ data' = IF page[i] = {} THEN [data EXCEPT ![f] = "zero"] ELSE data
       /\ \/ /\ Len(space[p]) < UserTop
             /\ space' = [space EXCEPT ![p] = Append(@, f)]
             /\ refcnt' = [refcnt EXCEPT ![i] = @ + 1]
             /\ UNCHANGED halt
          \/ /\ Len(space[p]) = UserTop
             /\ halt' = "remap"
             /\ UNCHANGED <<space, refcnt>>
  /\ UNCHANGED <<state, copy, pc, last, lost>>

(* shmem(key) takes no lock: it tests shm_pages[key] ...                  *)
ShmemTest(p, i) ==
  /\ Runs(p)
  /\ pc' = [pc EXCEPT ![p] = <<IF copy[i] = {} THEN "alloc" ELSE "copy", i>>]
  /\ UNCHANGED <<free, data, space, state, page, refcnt, copy, halt, last, lost>>

(* ... stores what kalloc() returns there, whatever is there by now ...   *)
ShmemAlloc(p, i) ==
  /\ pc[p] = <<"alloc", i>> /\ halt = "no"
  /\ lost' = lost \cup copy[i]
  /\ \/ /\ free = {}
        /\ copy' = [copy EXCEPT ![i] = {}]
        /\ pc' = [pc EXCEPT ![p] = User]
        /\ UNCHANGED free
     \/ \E f \in free :
          /\ copy' = [copy EXCEPT ![i] = {f}]
          /\ pc' = [pc EXCEPT ![p] = <<"zero", i, f>>]
          /\ free' = free \ {f}
  /\ UNCHANGED <<data, space, state, page, refcnt, halt, last>>

(* ... zeroes it ...                                                      *)
ShmemZero(p, i) ==
  /\ halt = "no"
  /\ \E f \in Frames :
       /\ pc[p] = <<"zero", i, f>>
       /\ data' = [data EXCEPT ![f] = "zero"]
  /\ pc' = [pc EXCEPT ![p] = <<"copy", i>>]
  /\ UNCHANGED <<free, space, state, page, refcnt, copy, halt, last, lost>>

(* ... and, after growproc(), copies shm_pages[key] out, read again.  If  *)
(* it is null by now, the copy comes from address 0, the caller's page 0. *)
ShmemCopy(p, i) ==
  /\ pc[p] = <<"copy", i>> /\ halt = "no"
  /\ \/ /\ Len(space[p]) + 1 < UserTop
        /\ \E f \in free, c \in (IF copy[i] = {} THEN {space[p][1]} ELSE copy[i]) :
             /\ free' = free \ {f} /\ data' = [data EXCEPT ![f] = data[c]]
             /\ space' = [space EXCEPT ![p] = Append(@, f)]
     \/ /\ free = {} \/ Len(space[p]) + 1 >= UserTop
        /\ UNCHANGED <<free, data, space>>
  /\ pc' = [pc EXCEPT ![p] = User]
  /\ UNCHANGED <<state, page, refcnt, copy, halt, last, lost>>

(* User code stores into one of its pages. *)
Write(p, k, v) ==
  /\ Runs(p)
  /\ data' = [data EXCEPT ![space[p][k]] = v]
  /\ last' = [i \in Ids |-> IF page[i] = {space[p][k]} THEN v ELSE last[i]]
  /\ UNCHANGED <<free, space, state, page, refcnt, copy, pc, halt, lost>>

-----------------------------------------------------------------------------
Next ==
  \/ \E p \in Procs :
       \/ Grow(p) \/ Shrink(p) \/ Exec(p) \/ Exit(p) \/ Reap(p)
       \/ \E q \in Procs : Fork(p, q)
       \/ \E i \in Ids :
            \/ Shmget(p, i) \/ ShmemTest(p, i)
            \/ ShmemAlloc(p, i) \/ ShmemZero(p, i) \/ ShmemCopy(p, i)
       \/ \E k \in DOMAIN space[p], v \in Values : Write(p, k, v)

Spec == Init /\ [][Next]_vars

-----------------------------------------------------------------------------
Used == AllMapped \cup Shared \cup Copies

(* Whatever fork, sbrk, exec, exit and wait do, a frame is on the free    *)
(* list, mapped, or held by a region or key, and the only frames that get *)
(* lost are those of two first calls of shmem() that race.  Until the     *)
(* frame of a region is freed, a free frame is not in use either, and     *)
(* only the frame of a region is mapped twice (kalloc.c:59-95,            *)
(* vm.c:222-346).                                                         *)
FramesExact ==
  /\ Frames = free \cup Used \cup lost
  /\ halt # "freed" =>
       /\ free \cap Used = {}
       /\ \A p, q \in Procs : \A k \in DOMAIN space[p], l \in DOMAIN space[q] :
            space[p][k] = space[q][l] /\ space[p][k] \notin Shared => p = q /\ k = l

(* Shared memory works: what a process writes to the page of a region is  *)
(* there for all who map it (shmtest.c:78, "read %d from shared page      *)
(* after child wrote (expect 99)").                                       *)
SharedDataKept == \A i \in Ids : \A f \in page[i] : data[f] = last[i]

(* ... and it does work as long as no process that maps the page shrinks, *)
(* execs, or exits and is waited for.                                     *)
SharedUntilFreed == halt = "freed" \/ SharedDataKept

-----------------------------------------------------------------------------
(* The inductive invariant: who has each frame. *)

Where == {User} \cup ({"alloc", "copy"} \X Ids) \cup ({"zero"} \X Ids \X Frames)

TypeOK ==
  /\ free \subseteq Frames /\ lost \subseteq Frames
  /\ data \in [Frames -> Values \cup {"zero", "junk"}] /\ last \in [Ids -> Values \cup {"zero"}]
  /\ space \in [Procs -> Seq(Frames)] /\ state \in [Procs -> {"unused", "live", "zombie"}]
  /\ page \in [Ids -> SUBSET Frames] /\ copy \in [Ids -> SUBSET Frames]
  /\ pc \in [Procs -> Where] /\ halt \in {"no", "remap", "freed"}

IsMapped(f) == \E p \in Procs : \E k \in DOMAIN space[p] : space[p][k] = f
IsShared(f) == \E i \in Ids : f \in page[i]
IsCopy(f)   == \E i \in Ids : f \in copy[i]

ProcInv ==
  /\ \A p \in Procs : /\ state[p] = "unused" => space[p] = <<>>
                      /\ state[p] = "live" => space[p] # <<>>
                      /\ pc[p] # User => state[p] = "live"
  /\ \A i \in Ids : /\ page[i] = {} => last[i] = "zero"
                    /\ \A f, g \in page[i] : f = g
                    /\ \A f, g \in copy[i] : f = g

NothingLeaks == \A f \in Frames : f \in free \cup lost \/ IsMapped(f) \/ IsShared(f) \/ IsCopy(f)

(* Until the frame of a region is freed, each frame has one user, but for *)
(* the frames of regions, which are never those of shmem().               *)
UsedOnce ==
  /\ \A f \in free : f \notin lost /\ ~IsMapped(f) /\ ~IsShared(f) /\ ~IsCopy(f)
  /\ \A f \in Frames : f \in lost \/ IsCopy(f) => ~IsMapped(f) /\ ~IsShared(f)
  /\ \A p, q \in Procs : \A k \in DOMAIN space[p], l \in DOMAIN space[q] :
       space[p][k] = space[q][l] /\ ~IsShared(space[p][k]) => p = q /\ k = l
  /\ \A p \in Procs, i \in Ids, f \in Frames : pc[p] = <<"zero", i, f>> => f \in lost \/ IsCopy(f)

IInv ==
  /\ TypeOK /\ ProcInv /\ NothingLeaks
  /\ halt # "freed" => UsedOnce /\ SharedDataKept

=============================================================================
