------------------------------ MODULE MsgQueue ------------------------------
(***************************************************************************)
(* The message queues of sysproc.c: msgget, msgsnd, msgrcv and msgctl, on  *)
(* the pages they take from kalloc().  The list of queues and the messages *)
(* of a queue are linked lists, kept as in the code: head, tail and next   *)
(* pointers.  A section under queue_list_lock or under the lock of a queue *)
(* is one action, except that a receiver tests p->killed and finds nothing *)
(* in one and goes to sleep in another, holding the queue's lock between.  *)
(***************************************************************************)
EXTENDS Naturals, FiniteSets, Sequences, Functions

CONSTANTS
  Procs,
  Pages,       \* the free pages of the machine
  Keys, Types, \* Types does not contain 0, which asks for any message
  MaxIds,      \* bound: msgget creates no queue once next_queue_id exceeds it
  MaxSends,    \* bound: messages sent
  None

ASSUME MsgAssumption ==
  /\ IsFiniteSet(Pages) /\ None \notin Pages /\ None \notin [typ : Types, n : 1..MaxSends]
  /\ Types \subseteq Nat \ {0} /\ MaxIds \in Nat /\ MaxSends \in Nat

VARIABLES
  mem,         \* the page frames: what they hold, or Junk when they are free
  list,        \* the queues from queue_list_head on
  nextId,      \* next_queue_id
  pc, id, queue, node, want, \* locals of the system call of each process
  asleep, killed,
  got,         \* the last message each process received
  sends,       \* counts the messages: the payload of each is its number
  late         \* history: the nodes in no hand that were appended to a drained queue

locals == <<id, queue, node, want>>
vars == <<mem, list, nextId, pc, id, queue, node, want, asleep, killed, got, sends, late>>

Ids == 1..MaxIds
Messages == [typ : Types, n : 1..MaxSends]
Junk == [use |-> "free", id |-> 0, key |-> 0, head |-> None,
         tail |-> None, next |-> None, msg |-> None]     \* kfree() fills the page

Init ==
  /\ mem = [g \in Pages |-> Junk] /\ list = <<>> /\ nextId = 1
  /\ pc = [p \in Procs |-> "user"]
  /\ id = [p \in Procs |-> 0] /\ want = id
  /\ queue = [p \in Procs |-> None] /\ node = queue
  /\ asleep = [p \in Procs |-> FALSE] /\ killed = asleep
  /\ got = [p \in Procs |-> None] /\ sends = 0 /\ late = {}

FreePages == {g \in Pages : mem[g].use = "free"}

Goto(p, place) == pc' = [pc EXCEPT ![p] = place]

(* The system call returns; its locals are dead. *)
Return(p) ==
  /\ Goto(p, "user")
  /\ id' = [id EXCEPT ![p] = 0] /\ queue' = [queue EXCEPT ![p] = None]
  /\ node' = [node EXCEPT ![p] = None] /\ want' = [want EXCEPT ![p] = 0]

Calls(p) == pc[p] = "user" /\ ~killed[p]

(* wakeup(queue) *)
Wakeup(q) == asleep' = [p \in Procs |-> asleep[p] /\ queue[p] # q]

(* The lock of a queue is free unless a receiver is about to sleep. *)
Unlocked(q) == ~\E p \in Procs : pc[p] = "rcv_sleep" /\ queue[p] = q

(* The pages from x on along the next pointers of the memory m. *)
Chain(m, x) ==
  LET from[n \in 0..Cardinality(Pages)] ==
        [g \in Pages \cup {None} |->
           IF g = None \/ n = 0 THEN <<>> ELSE <<g>> \o from[n - 1][m[g].next]]
  IN from[Cardinality(Pages)][x]

(* The message nodes of the queue page q. *)
Items(q) == Chain(mem, mem[q].head)

(* The sequence s without its element k. *)
Without(s, k) == [l \in 1..(Len(s) - 1) |-> IF l < k THEN s[l] ELSE s[l + 1]]

(* The process follows a pointer to a page that is not a queue any more:  *)
(* it reads junk, and the model follows it no further.                    *)
Derails(p) ==
  /\ pc[p] \in {"snd_append", "rcv_scan", "rcv_sleep"} /\ ~asleep[p]
  /\ mem[queue[p]].use # "queue"
  /\ Goto(p, "derailed")
  /\ UNCHANGED <<mem, list, nextId, locals, asleep, killed, got, sends, late>>

-----------------------------------------------------------------------------
(* msgget *)

(* The call that creates a queue; the others change nothing. *)
Msgget(p, k) ==
  /\ Calls(p) /\ nextId <= MaxIds
  /\ \A i \in DOMAIN list : mem[list[i]].key # k
  /\ \E g \in FreePages :
       /\ mem' = [mem EXCEPT ![g] = [Junk EXCEPT !.use = "queue", !.id = nextId, !.key = k]]
       /\ list' = <<g>> \o list
  /\ nextId' = nextId + 1
  /\ UNCHANGED <<pc, locals, asleep, killed, got, sends, late>>

(* The search for msqid, after which queue_list_lock is released. *)
Lookup(p, i, k, place) ==
  /\ mem[list[k]].id = i
  /\ queue' = [queue EXCEPT ![p] = list[k]] /\ id' = [id EXCEPT ![p] = i]
  /\ Goto(p, place)

-----------------------------------------------------------------------------
(* msgsnd *)

SndLookup(p, i, t) ==
  /\ Calls(p) /\ sends < MaxSends
  /\ \E k \in DOMAIN list : Lookup(p, i, k, "snd_alloc")
  /\ want' = [want EXCEPT ![p] = t]
  /\ UNCHANGED <<mem, list, nextId, node, asleep, killed, got, sends, late>>

(* kalloc() and the copy of the message into the node; -1 without memory. *)
SndAlloc(p) ==
  /\ pc[p] = "snd_alloc" /\ sends < MaxSends
  /\ \/ /\ FreePages = {} /\ Return(p)
        /\ UNCHANGED <<mem, sends>>
     \/ \E g \in FreePages :
          /\ mem' = [mem EXCEPT ![g] = [Junk EXCEPT !.use = "node",
                                          !.msg = [typ |-> want[p], n |-> sends + 1]]]
          /\ sends' = sends + 1
          /\ node' = [node EXCEPT ![p] = g]
          /\ Goto(p, "snd_append") /\ UNCHANGED <<id, queue, want>>
  /\ UNCHANGED <<list, nextId, asleep, killed, got, late>>

(* What appending the node n does to the queue page q. *)
Linked(q, n) ==
  IF mem[q].head = None
    THEN [mem EXCEPT ![q].head = n, ![q].tail = n]
    ELSE [mem EXCEPT ![mem[q].tail].next = n, ![q].tail = n]

(* msgctl() has released the lock of q and is going to free the page.     *)
Drained(q) == \E r \in Procs : pc[r] = "rm_free" /\ queue[r] = q

\* Slip: no wakeup() once the message is in the queue.
SndAppendSilent(p) ==
  LET q == queue[p] IN
  /\ pc[p] = "snd_append" /\ mem[q].use = "queue" /\ Unlocked(q)
  /\ mem' = Linked(q, node[p])
  /\ late' = late \cup {g \in {node[p]} : Drained(q)}
  /\ Return(p)
  /\ UNCHANGED <<list, nextId, asleep, killed, got, sends>>

SndAppend(p) ==
  LET q == queue[p] IN
  /\ pc[p] = "snd_append" /\ mem[q].use = "queue" /\ Unlocked(q)
  /\ mem' = Linked(q, node[p])
  /\ late' = late \cup {g \in {node[p]} : Drained(q)}
  /\ Wakeup(q)
  /\ Return(p)
  /\ UNCHANGED <<list, nextId, killed, got, sends>>

-----------------------------------------------------------------------------
(* msgrcv *)

RcvLookup(p, i, t) ==
  /\ Calls(p)
  /\ \E k \in DOMAIN list : Lookup(p, i, k, "rcv_scan")
  /\ want' = [want EXCEPT ![p] = t]
  /\ UNCHANGED <<mem, list, nextId, node, asleep, killed, got, sends, late>>

(* The places in the chain of q whose message has type t. *)
Matches(q, t) ==
  {k \in DOMAIN Items(q) : t \in {0, mem[Items(q)[k]].msg.typ}}

\* Slip: tail keeps pointing at the node that was taken out.
UnlinkKeepsTail(q, c, k) ==
  LET after == mem[c[k]].next IN
  IF k = 1 THEN [mem EXCEPT ![q].head = after] ELSE [mem EXCEPT ![c[k - 1]].next = after]

(* Node k of the chain c of q is taken out. *)
Unlink(q, c, k) ==
  LET after == mem[c[k]].next
      prev  == IF k = 1 THEN None ELSE c[k - 1]
      tail  == IF mem[q].tail = c[k] THEN prev ELSE mem[q].tail
  IN IF k = 1 THEN [mem EXCEPT ![q].head = after, ![q].tail = tail]
              ELSE [mem EXCEPT ![prev].next = after, ![q].tail = tail]

(* One pass over the messages: take the first match, or give up because   *)
(* of IPC_NOWAIT or p->killed, or go on to sleep().                       *)
RcvScan(p) ==
  LET q == queue[p]
      c == Items(q)
      M == Matches(q, want[p])
  IN
  /\ pc[p] = "rcv_scan" /\ ~asleep[p] /\ mem[q].use = "queue" /\ Unlocked(q)
  /\ \/ \E k \in M :
          /\ \A j \in M : k <= j
          /\ mem' = Unlink(q, c, k)
          /\ node' = [node EXCEPT ![p] = c[k]] /\ late' = late \ {c[k]}
          /\ Goto(p, "rcv_copy") /\ UNCHANGED <<id, queue, want>>
     \/ M = {} /\ Return(p) /\ UNCHANGED <<mem, late>>
     \/ M = {} /\ ~killed[p] /\ Goto(p, "rcv_sleep") /\ UNCHANGED <<mem, locals, late>>
  /\ UNCHANGED <<list, nextId, asleep, killed, got, sends>>

(* sleep(queue, &queue->lock), and the scan from the top afterwards. *)
RcvSleep(p) ==
  /\ pc[p] = "rcv_sleep" /\ mem[queue[p]].use = "queue"
  /\ asleep' = [asleep EXCEPT ![p] = TRUE]
  /\ Goto(p, "rcv_scan")
  /\ UNCHANGED <<mem, list, nextId, locals, killed, got, sends, late>>

(* Without the lock: copy to the caller, unless argptr() refuses the      *)
(* buffer, and free the node either way.                                  *)
RcvCopy(p) ==
  /\ pc[p] = "rcv_copy"
  /\ got' \in {got, [got EXCEPT ![p] = mem[node[p]].msg]}
  /\ mem' = [mem EXCEPT ![node[p]] = Junk]
  /\ Return(p)
  /\ UNCHANGED <<list, nextId, asleep, killed, sends, late>>

-----------------------------------------------------------------------------
(* msgctl(IPC_RMID) *)

RmUnlink(p, i) ==
  /\ Calls(p)
  /\ \E k \in DOMAIN list : Lookup(p, i, k, "rm_drain") /\ list' = Without(list, k)
  /\ UNCHANGED <<mem, nextId, node, want, asleep, killed, got, sends, late>>

\* Slip: the nodes are freed, but head and tail still point at them.
RmDrainKeepsHead(p) ==
  LET q == queue[p] IN
  /\ pc[p] = "rm_drain" /\ Unlocked(q)
  /\ mem' = [g \in Pages |->
       IF g = q THEN mem[q]
       ELSE IF g \in Range(Items(q)) THEN Junk ELSE mem[g]]
  /\ Wakeup(q)
  /\ Goto(p, "rm_free")
  /\ UNCHANGED <<list, nextId, locals, killed, got, sends, late>>

RmDrain(p) ==
  LET q == queue[p] IN
  /\ pc[p] = "rm_drain" /\ Unlocked(q)
  /\ mem' = [g \in Pages |->
       IF g = q THEN [mem[q] EXCEPT !.head = None, !.tail = None]
       ELSE IF g \in Range(Items(q)) THEN Junk ELSE mem[g]]
  /\ Wakeup(q)
  /\ Goto(p, "rm_free")
  /\ UNCHANGED <<list, nextId, locals, killed, got, sends, late>>

RmFree(p) ==
  /\ pc[p] = "rm_free"
  /\ mem' = [mem EXCEPT ![queue[p]] = Junk]
  /\ Return(p)
  /\ UNCHANGED <<list, nextId, asleep, killed, got, sends, late>>

(* kill(): the flag, and a process asleep wakes up. *)
Kill(p) ==
  /\ ~killed[p]
  /\ killed' = [killed EXCEPT ![p] = TRUE]
  /\ asleep' = [asleep EXCEPT ![p] = FALSE]
  /\ UNCHANGED <<mem, list, nextId, pc, locals, got, sends, late>>

-----------------------------------------------------------------------------
Next ==
  \E p \in Procs :
    \/ \E k \in Keys : Msgget(p, k)
    \/ \E i \in Ids, t \in Types : SndLookup(p, i, t)
    \/ \E i \in Ids, t \in Types \cup {0} : RcvLookup(p, i, t)
    \/ SndAlloc(p) \/ SndAppend(p) \/ RcvScan(p) \/ RcvSleep(p) \/ RcvCopy(p)
    \/ \E i \in Ids : RmUnlink(p, i)
    \/ RmDrain(p) \/ RmFree(p) \/ Kill(p) \/ Derails(p)

Spec == Init /\ [][Next]_vars

-----------------------------------------------------------------------------
InHand(p) == pc[p] \in {"snd_append", "rcv_copy"}

Queues == {g \in Pages : mem[g].use = "queue"}

Queued(g) == \E q \in Queues : g \in Range(Items(q))

Carried(g) == \E p \in Procs : node[p] = g

(* Each message node is in exactly one place: in one queue, or in the     *)
(* hands of the one process that is about to append it or to copy and     *)
(* free it.  So no node is freed twice or while something points at it,   *)
(* even by a msgctl that races with a receiver, and none leaks, except    *)
(* one that a msgsnd appends after msgctl has drained the queue and       *)
(* before it frees it (sysproc.c:698, 700).                               *)
NodeOwnedOnce ==
  /\ \A g \in Pages : /\ mem[g].use = "node" <=> Queued(g) \/ Carried(g) \/ g \in late
                      /\ Carried(g) => ~Queued(g) /\ g \notin late
  /\ \A q, r \in Queues : q # r => Range(Items(q)) \cap Range(Items(r)) = {}
  /\ \A p, r \in Procs : node[p] = node[r] /\ node[p] # None => p = r

(* No receiver sleeps on a queue that holds a message for it, whichever   *)
(* receiver took the message it was woken for (sysproc.c:600-657).        *)
NoMissedMessage ==
  \A p \in Procs : asleep[p] /\ mem[queue[p]].use = "queue"
    => Matches(queue[p], want[p]) = {}

(* The linked lists are the queues of TypedQueue: messages come out in    *)
(* the order in which they went in, per type, none is lost or duplicated. *)
Content(i) ==
  LET Q == {g \in Queues : mem[g].id = i}
      c == IF Q = {} THEN <<>> ELSE Items(CHOOSE g \in Q : TRUE)
  IN [k \in DOMAIN c |-> mem[c[k]].msg]

Abstract == INSTANCE TypedQueue WITH
  live <- 1..(nextId - 1),
  msgs <- [i \in Ids |-> Content(i)],
  outgoing <- [p \in Procs |-> IF pc[p] = "snd_append" THEN mem[node[p]].msg ELSE None],
  hand <- [p \in Procs |-> IF pc[p] = "rcv_copy" THEN mem[node[p]].msg ELSE None]

InList(i) == \E k \in DOMAIN list : mem[list[k]].id = i

Removed == \E i \in 1..(nextId - 1) : ~InList(i)

(* As long as no queue is removed, msgget, msgsnd and msgrcv implement    *)
(* TypedQueue: the pointer surgery on head, tail and next never breaks    *)
(* the order of the messages (sysproc.c:557-568, 600-642).                *)
TypedFifo == Abstract!Init /\ [][Removed' \/ Abstract!Next]_(Abstract!vars)

(* "Fill with junk to catch dangling refs" (kalloc.c:67): a process that  *)
(* looked a queue up never holds a pointer to a page that was freed, or   *)
(* reused for something else, while it is still going to follow it.       *)
NoDanglingQueue ==
  \A p \in Procs : pc[p] \in {"snd_alloc", "snd_append", "rcv_scan", "rcv_sleep"} =>
    mem[queue[p]].use = "queue" /\ mem[queue[p]].id = id[p]

-----------------------------------------------------------------------------
(* The inductive invariant. *)

Frames ==
  [use : {"free", "queue", "node"}, id : Nat, key : Keys \cup {0}, head : Pages \cup {None},
   tail : Pages \cup {None}, next : Pages \cup {None}, msg : Messages \cup {None}]

Places ==
  {"user", "snd_alloc", "snd_append", "rcv_scan", "rcv_sleep", "rcv_copy", "rm_drain", "rm_free", "derailed"}

TypeOK ==
  /\ mem \in [Pages -> Frames] /\ list \in Seq(Pages) /\ nextId \in Nat \ {0}
  /\ pc \in [Procs -> Places] /\ id \in [Procs -> Nat] /\ want \in [Procs -> Nat]
  /\ queue \in [Procs -> Pages \cup {None}] /\ node \in [Procs -> Pages \cup {None}]
  /\ asleep \in [Procs -> BOOLEAN] /\ killed \in [Procs -> BOOLEAN]
  /\ got \in [Procs -> Messages \cup {None}] /\ sends \in 0..MaxSends

(* In the memory m, head, next and tail of the queue page q link the nodes s. *)
IsList(m, q, s) ==
  /\ s \in Seq(Pages)
  /\ \A k, l \in DOMAIN s : s[k] = s[l] => k = l
  /\ \A k \in DOMAIN s : m[s[k]].use = "node" /\ m[s[k]].next = IF k = Len(s) THEN None ELSE s[k + 1]
  /\ m[q].head = IF s = <<>> THEN None ELSE s[1]
  /\ s # <<>> => m[q].tail = s[Len(s)]

Lists ==
  /\ \A q \in Queues : IsList(mem, q, Items(q))
  /\ \A q, r \in Queues : q # r => Range(Items(q)) \cap Range(Items(r)) = {}

(* A node has a message; one that is not in a queue yet, or no longer, is  *)
(* held by one process.                                                   *)
Hands ==
  /\ \A g \in Pages : mem[g].use = "node" => mem[g].msg \in Messages
  /\ \A p \in Procs : InHand(p) =>
       /\ node[p] \in Pages /\ mem[node[p]].use = "node"
       /\ pc[p] = "snd_append" => mem[node[p]].next = None
       /\ \A r \in Procs \ {p} : InHand(r) => node[r] # node[p]
       /\ \A q \in Queues : node[p] \notin Range(Items(q))

Removes(p) == pc[p] \in {"rm_drain", "rm_free"}

(* A queue is in the list, each with its own id, or one process removes it. *)
Listed ==
  /\ \A k, l \in DOMAIN list : mem[list[k]].id = mem[list[l]].id => k = l
  /\ \A k \in DOMAIN list : mem[list[k]].use = "queue" /\ mem[list[k]].id \in 1..(nextId - 1)
  /\ \A p \in Procs : Removes(p) =>
       /\ queue[p] \in Queues /\ mem[queue[p]].id \in 1..(nextId - 1)
       /\ ~InList(mem[queue[p]].id)
       /\ \A r \in Procs \ {p} : Removes(r) => queue[r] # queue[p]
  /\ \A q \in Queues : q \in Range(list) \/ \E p \in Procs : Removes(p) /\ queue[p] = q

Follows(p) == pc[p] \in {"snd_alloc", "snd_append", "rcv_scan", "rcv_sleep"}

(* What a process looked up is good until the queue is removed. *)
Pointers ==
  \A p \in Procs :
    /\ Follows(p) => /\ queue[p] \in Pages /\ id[p] \in 1..(nextId - 1)
                     /\ InList(id[p]) => queue[p] \in Queues /\ mem[queue[p]].id = id[p]
    /\ pc[p] = "snd_alloc" => want[p] \in Types

(* A receiver asleep, or about to be, found no message for it, and none   *)
(* has come since.                                                        *)
Waiting ==
  \A p \in Procs :
    /\ asleep[p] => pc[p] = "rcv_scan"
    /\ (asleep[p] \/ pc[p] = "rcv_sleep") /\ queue[p] \in Queues =>
         \A g \in Range(Items(queue[p])) : want[p] \notin {0, mem[g].msg.typ}

IInv == TypeOK /\ Lists /\ Hands /\ Listed /\ Pointers /\ Waiting

(* Every node has one owner.  The late ones in a queue are those of a      *)
(* drained queue, and only a system call that goes on with its node, or a *)
(* process that followed a bad pointer, holds one.                        *)
Owned ==
  /\ late \subseteq Pages /\ NodeOwnedOnce
  /\ \A q \in Queues : \A g \in Range(Items(q)) : g \in late <=> Drained(q)
  /\ \A p \in Procs : node[p] # None => InHand(p) \/ pc[p] = "derailed"

=============================================================================
