----------------------------- MODULE TypedQueue -----------------------------
(***************************************************************************)
(* What the message queues promise while none is removed: each queue is a  *)
(* sequence of messages, msgsnd appends to it, and msgrcv takes the first  *)
(* message of the type asked for (any message for type 0) and then either  *)
(* hands it to the caller or, when the caller's buffer is bad, drops it.   *)
(***************************************************************************)
EXTENDS Naturals, Sequences

CONSTANTS Procs, Ids, Types, Messages, None

VARIABLES
  live,        \* the ids msgget has handed out
  msgs,        \* the content of each queue
  outgoing,    \* the message a sender has not appended yet
  hand,        \* the message a receiver has taken and not delivered yet
  got          \* the last message each process received

vars == <<live, msgs, outgoing, hand, got>>

Init ==
  /\ live = {} /\ msgs = [i \in Ids |-> <<>>]
  /\ outgoing = [p \in Procs |-> None]
  /\ hand = [p \in Procs |-> None] /\ got = [p \in Procs |-> None]

Create(i) ==
  /\ i \notin live /\ live' = live \cup {i}
  /\ UNCHANGED <<msgs, outgoing, hand, got>>

Prepare(p, m) ==
  /\ outgoing[p] = None /\ outgoing' = [outgoing EXCEPT ![p] = m]
  /\ UNCHANGED <<live, msgs, hand, got>>

Send(p, i) ==
  /\ i \in live /\ outgoing[p] # None
  /\ msgs' = [msgs EXCEPT ![i] = Append(@, outgoing[p])]
  /\ outgoing' = [outgoing EXCEPT ![p] = None]
  /\ UNCHANGED <<live, hand, got>>

(* The sequence s without its element k. *)
Without(s, k) == [l \in 1..(Len(s) - 1) |-> IF l < k THEN s[l] ELSE s[l + 1]]

Take(p, i, t) ==
  /\ i \in live /\ hand[p] = None
  /\ \E k \in DOMAIN msgs[i] :
       /\ t \in {0, msgs[i][k].typ}
       /\ \A j \in 1..(k - 1) : t \notin {0, msgs[i][j].typ}
       /\ hand' = [hand EXCEPT ![p] = msgs[i][k]]
       /\ msgs' = [msgs EXCEPT ![i] = Without(msgs[i], k)]
  /\ UNCHANGED <<live, outgoing, got>>

Deliver(p) ==
  /\ hand[p] # None
  /\ hand' = [hand EXCEPT ![p] = None]
  /\ got' \in {got, [got EXCEPT ![p] = hand[p]]}
  /\ UNCHANGED <<live, msgs, outgoing>>

Next ==
  \/ \E i \in Ids : Create(i)
  \/ \E p \in Procs :
       \/ Deliver(p)
       \/ \E m \in Messages : Prepare(p, m)
       \/ \E i \in Ids : Send(p, i) \/ \E t \in Types \cup {0} : Take(p, i, t)

Spec == Init /\ [][Next]_vars

=============================================================================
