--------------------------- MODULE MsgQueueProofs ---------------------------
(***************************************************************************)
(* Proofs about MsgQueue: its inductive invariant, that a node is in one   *)
(* place only, that no receiver sleeps over its message, and that the      *)
(* linked lists implement TypedQueue until a queue is removed.             *)
(***************************************************************************)
EXTENDS MsgQueue, TLAPS

-----------------------------------------------------------------------------
(* Linked lists *)

(* Chain() finds the nodes of every list.  That it does is a fact about   *)
(* its recursive function alone, and proved last: ChainFindsLists.        *)
ChainsFound == \A m, q, s : IsList(m, q, s) => Chain(m, m[q].head) = s

(* A list none of whose pointers changes. *)
LEMMA ListKept ==
  ASSUME NEW m, NEW m2, NEW q, NEW s, IsList(m, q, s),
         m2[q].head = m[q].head, m2[q].tail = m[q].tail,
         \A g \in Range(s) : m2[g].use = m[g].use /\ m2[g].next = m[g].next
  PROVE  IsList(m2, q, s)
BY Zenon DEF IsList, Range

(* A sequence without its element k. *)
LEMMA WithoutIs ==
  ASSUME NEW S, NEW s \in Seq(S), NEW k \in DOMAIN s
  PROVE  /\ Without(s, k) \in Seq(S) /\ Len(Without(s, k)) = Len(s) - 1
         /\ Len(s) \in Nat \ {0} /\ DOMAIN s = 1..Len(s) /\ DOMAIN Without(s, k) = 1..(Len(s) - 1)
         /\ \A l \in 1..(Len(s) - 1) : /\ Without(s, k)[l] = IF l < k THEN s[l] ELSE s[l + 1]
                                       /\ l \in DOMAIN s /\ (l + 1) \in DOMAIN s
         /\ Range(Without(s, k)) \subseteq Range(s)
         /\ \A l \in DOMAIN s : l # k => s[l] \in Range(Without(s, k))
<1> DEFINE w == Without(s, k)
<1>1. Len(s) \in Nat \ {0} /\ DOMAIN s = 1..Len(s) /\ k \in 1..Len(s)
  OBVIOUS
<1>2. \A l \in 1..(Len(s) - 1) : l \in DOMAIN s /\ (l + 1) \in DOMAIN s
  BY <1>1
<1>3. w = [l \in 1..(Len(s) - 1) |-> IF l < k THEN s[l] ELSE s[l + 1]]
  BY Zenon DEF Without
<1> HIDE DEF w
<1>4. /\ DOMAIN w = 1..(Len(s) - 1)
      /\ \A l \in 1..(Len(s) - 1) : w[l] = IF l < k THEN s[l] ELSE s[l + 1]
  BY <1>3, Zenon
<1>5. \A l \in 1..(Len(s) - 1) : w[l] \in S
  BY <1>2, <1>4
<1>6. w \in Seq(S) /\ Len(w) = Len(s) - 1
  <2>1. Len(s) - 1 \in Nat
    BY <1>1
  <2>2. w \in [1..(Len(s) - 1) -> S]
    BY <1>3, <1>4, <1>5, Zenon
  <2> QED BY <2>1, <2>2
<1>7. Range(w) \subseteq Range(s)
  BY <1>2, <1>4, Zenon DEF Range
<1>8. ASSUME NEW l \in DOMAIN s, l # k
      PROVE  s[l] \in Range(w)
  <2>1. CASE l < k
    <3>1. l \in 1..(Len(s) - 1) /\ w[l] = s[l]
      BY <1>1, <1>4, <2>1
    <3> QED BY <1>4, <3>1, Zenon DEF Range
  <2>2. CASE ~(l < k)
    <3>1. (l - 1) \in 1..(Len(s) - 1) /\ ~(l - 1 < k) /\ (l - 1) + 1 = l
      BY <1>1, <1>8, <2>2
    <3>2. w[l - 1] = s[l]
      BY <1>4, <3>1, Zenon
    <3> QED BY <1>4, <3>1, <3>2, Zenon DEF Range
  <2> QED BY <2>1, <2>2, Zenon
<1> QED
  BY <1>1, <1>2, <1>4, <1>6, <1>7, <1>8, Zenon DEF w

(* When no element comes twice, element k is gone. *)
LEMMA WithoutInjective ==
  ASSUME NEW S, NEW s \in Seq(S), NEW k \in DOMAIN s, \A i, j \in DOMAIN s : s[i] = s[j] => i = j
  PROVE  /\ \A i, j \in DOMAIN Without(s, k) : Without(s, k)[i] = Without(s, k)[j] => i = j
         /\ s[k] \notin Range(Without(s, k))
<1> DEFINE w == Without(s, k)
<1>1. /\ Len(s) \in Nat \ {0} /\ DOMAIN s = 1..Len(s) /\ DOMAIN w = 1..(Len(s) - 1) /\ k \in 1..Len(s)
      /\ \A l \in 1..(Len(s) - 1) : /\ w[l] = IF l < k THEN s[l] ELSE s[l + 1]
                                    /\ l \in DOMAIN s /\ (l + 1) \in DOMAIN s
  BY WithoutIs, Zenon
<1> USE <1>1
<1> HIDE DEF w
<1>2. \A l \in DOMAIN w : \E i \in DOMAIN s : w[l] = s[i] /\ i = (IF l < k THEN l ELSE l + 1) /\ i # k
  <2> SUFFICES ASSUME NEW l \in DOMAIN w
               PROVE  \E i \in DOMAIN s : w[l] = s[i] /\ i = (IF l < k THEN l ELSE l + 1) /\ i # k
    BY Zenon
  <2>1. l \in Nat /\ k \in Nat
    OBVIOUS
  <2>2. CASE l < k
    BY <2>1, <2>2
  <2>3. CASE ~(l < k)
    <3>1. l + 1 # k
      BY <2>1, <2>3
    <3> QED BY <2>3, <3>1, Zenon
  <2> QED BY <2>2, <2>3, Zenon
<1>3. s[k] \notin Range(w)
  BY <1>2 DEF Range
<1>4. ASSUME NEW i \in DOMAIN w, NEW j \in DOMAIN w, w[i] = w[j]
      PROVE  i = j
  <2>1. (IF i < k THEN i ELSE i + 1) = (IF j < k THEN j ELSE j + 1)
    BY <1>2, <1>4, Zenon
  <2>2. i \in Nat /\ j \in Nat /\ k \in Nat
    OBVIOUS
  <2> QED BY <2>1, <2>2
<1> QED
  BY <1>3, <1>4, Zenon DEF w

(* Only the pointers of the queue page q and of the nodes in S differ. *)
Relinked(m, m2, q, S) ==
  /\ m2 \in [Pages -> Frames]
  /\ \A g \in Pages : /\ m2[g].use = m[g].use /\ m2[g].id = m[g].id /\ m2[g].msg = m[g].msg
                      /\ m2[g].key = m[g].key
                      /\ g # q => m2[g].head = m[g].head /\ m2[g].tail = m[g].tail
                      /\ g \notin S => m2[g].next = m[g].next

(* The values of a pointer. *)
Ptrs == Pages \cup {None}

(* The head and the tail of a queue page are set. *)
EndsSet(m2, q, h, t) == m2 = [mem EXCEPT ![q].head = h, ![q].tail = t]

(* That is all that changes. *)
LEMMA SetEnds ==
  ASSUME mem \in [Pages -> Frames], NEW q \in Pages, NEW h \in Ptrs, NEW t \in Ptrs,
         NEW m2, EndsSet(m2, q, h, t)
  PROVE  Relinked(mem, m2, q, {}) /\ m2[q].head = h /\ m2[q].tail = t
<1>0. mem[q] \in Frames
  BY Zenon
<1>1. /\ m2[q] = [mem[q] EXCEPT !.head = h, !.tail = t]
      /\ \A g \in Pages : g # q => m2[g] = mem[g]
      /\ m2 = [g \in Pages |-> m2[g]]
  BY Zenon DEF EndsSet
<1> USE <1>1
<1>2. m2[q] \in Frames
  BY <1>0, Zenon DEF Frames, Ptrs
<1>3. m2 \in [Pages -> Frames]
  BY <1>2, Zenon
<1>4. /\ m2[q].head = h /\ m2[q].tail = t /\ m2[q].use = mem[q].use /\ m2[q].id = mem[q].id
      /\ m2[q].msg = mem[q].msg /\ m2[q].key = mem[q].key /\ m2[q].next = mem[q].next
  BY <1>0, Zenon DEF Frames, Ptrs
<1> QED BY <1>3, <1>4, Zenon DEF Relinked

(* The next pointer of a node and the tail of the queue page are set. *)
NextSet(m2, q, x, n, t) == m2 = [mem EXCEPT ![x].next = n, ![q].tail = t]

(* That is all that changes. *)
LEMMA SetNext ==
  ASSUME mem \in [Pages -> Frames], NEW q \in Pages, NEW x \in Pages, x # q, NEW t \in Ptrs,
         NEW n \in Ptrs, NEW m2, NextSet(m2, q, x, n, t)
  PROVE  Relinked(mem, m2, q, {x}) /\ m2[q].head = mem[q].head /\ m2[q].tail = t /\ m2[x].next = n
<1>0. mem[q] \in Frames /\ mem[x] \in Frames
  BY Zenon
<1> USE <1>0
<1>1. /\ m2[q] = [mem[q] EXCEPT !.tail = t] /\ m2[x] = [mem[x] EXCEPT !.next = n]
      /\ \A g \in Pages : g # q /\ g # x => m2[g] = mem[g]
      /\ m2 = [g \in Pages |-> m2[g]]
  BY Zenon DEF NextSet
<1> USE <1>1
<1>2. m2[q] \in Frames /\ m2[x] \in Frames
  BY Zenon DEF Frames, Ptrs
<1>3. m2 \in [Pages -> Frames]
  BY <1>2, Zenon
<1>4. /\ m2[q].head = mem[q].head /\ m2[q].tail = t /\ m2[q].use = mem[q].use /\ m2[q].id = mem[q].id
      /\ m2[q].msg = mem[q].msg /\ m2[q].key = mem[q].key /\ m2[q].next = mem[q].next
  BY Zenon DEF Frames, Ptrs
<1>5. /\ m2[x].head = mem[x].head /\ m2[x].tail = mem[x].tail /\ m2[x].use = mem[x].use
      /\ m2[x].id = mem[x].id /\ m2[x].msg = mem[x].msg /\ m2[x].key = mem[x].key /\ m2[x].next = n
  BY Zenon DEF Frames, Ptrs
<1> QED BY <1>3, <1>4, <1>5, Zenon DEF Relinked

(* msgsnd() appends a node. *)
LEMMA AppendLinks ==
  ASSUME mem \in [Pages -> Frames], NEW q \in Pages, mem[q].use = "queue", NEW s, IsList(mem, q, s),
         NEW n \in Pages, mem[n].use = "node", mem[n].next = None, n \notin Range(s)
  PROVE  /\ Relinked(mem, Linked(q, n), q, Range(s)) /\ IsList(Linked(q, n), q, Append(s, n))
         /\ Range(Append(s, n)) = Range(s) \cup {n}
<1> DEFINE m2 == Linked(q, n)
           a == Append(s, n)
<1>0. n \in Ptrs
  BY Zenon DEF Ptrs
<1>1. s \in Seq(Pages) /\ Len(s) \in Nat /\ DOMAIN s = 1..Len(s)
  BY DEF IsList
<1>2. /\ a \in Seq(Pages) /\ Len(a) = Len(s) + 1 /\ DOMAIN a = 1..(Len(s) + 1)
      /\ a[Len(s) + 1] = n /\ \A k \in 1..Len(s) : a[k] = s[k]
  BY <1>1
<1> USE <1>2
<1>3. \A k \in 1..(Len(s) + 1) : k \in 1..Len(s) \/ k = Len(s) + 1
  BY <1>1
<1>4. Range(a) = Range(s) \cup {n}
  <2> HIDE DEF a
  <2>1. 1..Len(s) \subseteq 1..(Len(s) + 1) /\ (Len(s) + 1) \in 1..(Len(s) + 1)
    BY <1>1
  <2> QED BY <1>1, <1>3, <2>1 DEF Range
<1>5. \A k, l \in DOMAIN a : a[k] = a[l] => k = l
  <2> HIDE DEF a
  <2>1. \A k \in 1..Len(s) : a[k] # n
    BY <1>1, Zenon DEF Range
  <2>2. \A k, l \in 1..Len(s) : a[k] = a[l] => k = l
    BY <1>1, Zenon DEF IsList
  <2> QED BY <1>3, <2>1, <2>2, Zenon
<1>6. CASE s = <<>>
  <2>1. mem[q].head = None /\ Len(s) = 0
    BY <1>1, <1>6, Zenon DEF IsList
  <2>2. EndsSet(m2, q, n, n)
    BY <2>1, Zenon DEF Linked, EndsSet
  <2>3. n # q
    BY Zenon
  <2>4. Relinked(mem, m2, q, {}) /\ m2[q].head = n /\ m2[q].tail = n
    <3> HIDE DEF m2
    <3> QED BY <1>0, <2>2, SetEnds
  <2>5. Relinked(mem, m2, q, Range(s))
    <3> HIDE DEF m2
    <3> QED BY <2>4, Zenon DEF Relinked
  <2>6. a[1] = n /\ DOMAIN a = {1} /\ Len(a) = 1 /\ a # <<>>
    <3>1. DOMAIN a = 1..1 /\ a[1] = n /\ Len(a) = 1
      BY <2>1
    <3> QED BY <3>1
  <2>7. m2[n].use = "node" /\ m2[n].next = None
    <3> HIDE DEF m2
    <3> QED BY <2>4, Zenon DEF Relinked
  <2>8. IsList(m2, q, a)
    <3> HIDE DEF m2, a
    <3> QED BY <1>5, <2>4, <2>6, <2>7 DEF IsList
  <2> QED BY <1>4, <2>5, <2>8, Zenon
<1>7. CASE s # <<>>
  <2>1. Len(s) # 0 /\ 1 \in DOMAIN s /\ Len(s) \in DOMAIN s
    BY <1>1, <1>7
  <2>2. PICK x \in Pages : x = s[Len(s)] /\ mem[q].tail = x
    BY <1>1, <1>7, <2>1 DEF IsList
  <2>3. x # q /\ x # n /\ x \in Range(s)
    BY <2>1, <2>2 DEF IsList, Range
  <2>4. mem[q].head = s[1] /\ mem[q].head # None /\ s[1] \in Pages
    BY <1>1, <1>7, <2>1, MsgAssumption DEF IsList
  <2>5. NextSet(m2, q, x, n, n)
    BY <2>2, <2>4, Zenon DEF Linked, NextSet
  <2>6. Relinked(mem, m2, q, {x}) /\ m2[q].head = mem[q].head /\ m2[q].tail = n /\ m2[x].next = n
    <3>1. x # q
      BY <2>3, Zenon
    <3> HIDE DEF m2, a
    <3>2. /\ Relinked(mem, m2, q, {x})
          /\ m2[q].head = mem[q].head /\ m2[q].tail = n /\ m2[x].next = n
      BY ONLY mem \in [Pages -> Frames], q \in Pages, x \in Pages, x # q, n \in Ptrs,
              NextSet(m2, q, x, n, n), SetNext
    <3> QED BY <3>2, Zenon
  <2> HIDE DEF m2
  <2>7. Relinked(mem, m2, q, Range(s))
    BY <2>3, <2>6, Zenon DEF Relinked
  <2>8. ASSUME NEW k \in DOMAIN a
        PROVE  m2[a[k]].use = "node" /\ m2[a[k]].next = IF k = Len(a) THEN None ELSE a[k + 1]
    <3> HIDE DEF a
    <3>1. CASE k = Len(s) + 1
      <4>1. m2[n].use = "node" /\ m2[n].next = None
        BY <2>3, <2>6, Zenon DEF Relinked
      <4> QED BY <3>1, <4>1, Zenon
    <3>2. CASE k = Len(s)
      <4>1. a[k] = x /\ k # Len(a) /\ a[k + 1] = n
        <5>0. Len(s) \in Nat
          BY <1>1, Zenon
        <5>1. Len(s) # Len(s) + 1 /\ Len(s) \in 1..Len(s)
          <6>1. Len(s) # Len(s) + 1
            BY <5>0
          <6>2. Len(s) \in 1..Len(s)
            BY <1>1, <2>1, Zenon
          <6> QED BY <6>1, <6>2, Zenon
        <5>2. a[Len(s)] = x
          BY <2>2, <5>1, Zenon
        <5> QED BY <3>2, <5>1, <5>2, Zenon
      <4>2. m2[x].use = "node"
        BY <2>1, <2>2, <2>6 DEF Relinked, IsList
      <4> QED BY <2>6, <4>1, <4>2, Zenon
    <3>3. CASE k \in 1..(Len(s) - 1)
      <4>1. k \in 1..Len(s) /\ (k + 1) \in 1..Len(s) /\ k # Len(s) /\ k # Len(a)
        BY <1>1, <2>1, <3>3
      <4>2. a[k] = s[k] /\ a[k + 1] = s[k + 1] /\ s[k] \in Pages
        BY <1>1, <4>1
      <4>3. s[k] # x
        BY <1>1, <2>1, <2>2, <4>1, Zenon DEF IsList
      <4>4. m2[s[k]].next = mem[s[k]].next /\ m2[s[k]].use = mem[s[k]].use
        BY <2>6, <4>2, <4>3, Zenon DEF Relinked
      <4>5. mem[s[k]].next = s[k + 1] /\ mem[s[k]].use = "node"
        BY <1>1, <4>1, Zenon DEF IsList
      <4> QED BY <4>1, <4>2, <4>4, <4>5, Zenon
    <3>4. k = Len(s) + 1 \/ k = Len(s) \/ k \in 1..(Len(s) - 1)
      BY <1>1
    <3> QED BY <3>1, <3>2, <3>3, <3>4, Zenon
  <2>9. a # <<>> /\ a[1] = s[1] /\ a[Len(a)] = n
    <3>1. 1 \in 1..Len(s)
      BY <1>1, <2>1, Zenon
    <3> QED BY <3>1
  <2>10. IsList(m2, q, a)
    <3> HIDE DEF a
    <3> QED BY <1>5, <2>4, <2>6, <2>8, <2>9, Zenon DEF IsList
  <2> QED BY <1>4, <2>7, <2>10, Zenon DEF m2
<1> QED
  BY <1>6, <1>7, Zenon

(* msgrcv() takes node k out. *)
LEMMA RemoveUnlinks ==
  ASSUME mem \in [Pages -> Frames], NEW q \in Pages, mem[q].use = "queue", NEW s, IsList(mem, q, s),
         NEW k \in DOMAIN s
  PROVE  Relinked(mem, Unlink(q, s, k), q, Range(s)) /\ IsList(Unlink(q, s, k), q, Without(s, k))
<1>0. PICK m2, w : m2 = Unlink(q, s, k) /\ w = Without(s, k)
  BY Zenon
<1>1. /\ s \in Seq(Pages) /\ Len(s) \in Nat \ {0} /\ DOMAIN s = 1..Len(s) /\ k \in 1..Len(s)
      /\ w \in Seq(Pages) /\ Len(w) = Len(s) - 1 /\ DOMAIN w = 1..(Len(s) - 1)
      /\ \A l \in 1..(Len(s) - 1) : /\ w[l] = IF l < k THEN s[l] ELSE s[l + 1]
                                    /\ l \in DOMAIN s /\ (l + 1) \in DOMAIN s
      /\ \A i, j \in DOMAIN w : w[i] = w[j] => i = j
  <2>1. s \in Seq(Pages) /\ \A i, j \in DOMAIN s : s[i] = s[j] => i = j
    BY Zenon DEF IsList
  <2>2. /\ Len(s) \in Nat \ {0} /\ DOMAIN s = 1..Len(s)
        /\ w \in Seq(Pages) /\ Len(w) = Len(s) - 1 /\ DOMAIN w = 1..(Len(s) - 1)
        /\ \A l \in 1..(Len(s) - 1) : /\ w[l] = IF l < k THEN s[l] ELSE s[l + 1]
                                      /\ l \in DOMAIN s /\ (l + 1) \in DOMAIN s
    BY <1>0, <2>1, WithoutIs, Zenon
  <2>3. \A i, j \in DOMAIN w : w[i] = w[j] => i = j
    BY <1>0, <2>1, WithoutInjective
  <2> QED BY <2>1, <2>2, <2>3, Zenon
<1>2. /\ \A i \in 1..Len(s) : /\ s[i] \in Pages /\ s[i] # q /\ mem[s[i]].use = "node"
                              /\ mem[s[i]].next = IF i = Len(s) THEN None ELSE s[i + 1]
      /\ \A i, j \in 1..Len(s) : s[i] = s[j] => i = j
      /\ mem[q].head = s[1] /\ mem[q].tail = s[Len(s)]
  <2>1. s # <<>>
    BY <1>1
  <2>2. \A i \in 1..Len(s) : s[i] \in Pages
    BY <1>1
  <2>3. \A i \in 1..Len(s) : /\ mem[s[i]].use = "node"
                            /\ mem[s[i]].next = IF i = Len(s) THEN None ELSE s[i + 1]
    BY <1>1, Zenon DEF IsList
  <2>4. \A i, j \in 1..Len(s) : s[i] = s[j] => i = j
    BY <1>1, Zenon DEF IsList
  <2>5. mem[q].head = s[1] /\ mem[q].tail = s[Len(s)]
    BY <2>1, Zenon DEF IsList
  <2>6. \A i \in 1..Len(s) : s[i] # q
    BY <2>3, Zenon
  <2> QED BY <2>2, <2>3, <2>4, <2>5, <2>6, Zenon
<1>3. PICK after \in Ptrs : after = mem[s[k]].next
  <2>1. mem[s[k]] \in Frames
    BY <1>1, <1>2, Zenon
  <2> QED BY <2>1, Zenon DEF Frames, Ptrs
<1>4. PICK tail \in Ptrs :
        tail = IF mem[q].tail = s[k] THEN (IF k = 1 THEN None ELSE s[k - 1]) ELSE mem[q].tail
  <2>1. k # 1 => s[k - 1] \in Pages
    <3>1. k # 1 => (k - 1) \in 1..Len(s)
      BY <1>1
    <3> QED BY <1>2, <3>1, Zenon
  <2>2. mem[q].tail \in Pages
    <3>1. Len(s) \in 1..Len(s)
      BY <1>1
    <3> QED BY <1>2, <3>1, Zenon
  <2> QED BY <2>1, <2>2, Zenon DEF Ptrs
<1> USE <1>4
<1>5. w # <<>> => tail = w[Len(w)]
  <2> SUFFICES ASSUME w # <<>>
               PROVE  tail = w[Len(w)]
    BY Zenon
  <2>1. Len(w) # 0 /\ Len(w) \in 1..(Len(s) - 1)
    BY <1>1
  <2>2. CASE k = Len(s)
    <3>1. k # 1 /\ Len(w) = k - 1 /\ Len(w) < k
      BY <1>1, <2>1, <2>2
    <3>2. w[Len(w)] = s[Len(w)]
      BY <1>1, <2>1, <3>1, Zenon
    <3> QED BY <1>2, <2>2, <3>1, <3>2, Zenon
  <2>3. CASE k # Len(s)
    <3>1. ~(Len(w) < k) /\ Len(w) + 1 = Len(s) /\ Len(s) \in 1..Len(s)
      BY <1>1, <2>1, <2>3
    <3>2. w[Len(w)] = s[Len(s)]
      BY <1>1, <2>1, <3>1, Zenon
    <3>3. s[Len(s)] # s[k]
      BY <1>1, <1>2, <2>3, <3>1, Zenon
    <3> QED BY <1>2, <3>2, <3>3, Zenon
  <2> QED BY <2>2, <2>3, Zenon
<1>6. CASE k = 1
  <2>1. EndsSet(m2, q, after, tail)
    BY <1>0, <1>3, <1>6, Zenon DEF Unlink, EndsSet
  <2>2. Relinked(mem, m2, q, {}) /\ m2[q].head = after /\ m2[q].tail = tail
    BY ONLY mem \in [Pages -> Frames], q \in Pages, after \in Ptrs, tail \in Ptrs,
            <2>1, SetEnds
  <2>3. Relinked(mem, m2, q, Range(s))
    BY <2>2, Zenon DEF Relinked
  <2>4. after = IF w = <<>> THEN None ELSE w[1]
    <3>1. after = IF Len(s) = 1 THEN None ELSE s[1 + 1]
      BY <1>1, <1>2, <1>3, <1>6, Zenon
    <3>2. CASE Len(s) = 1
      <4>1. w = <<>>
        BY <1>1, <3>2
      <4> QED BY <3>1, <3>2, <4>1, Zenon
    <3>3. CASE Len(s) # 1
      <4>1. 1 \in 1..(Len(s) - 1) /\ ~(1 < k)
        BY <1>1, <1>6, <3>3
      <4>2. w[1] = s[1 + 1] /\ w # <<>>
        BY <1>1, <4>1
      <4> QED BY <3>1, <3>3, <4>2, Zenon
    <3> QED BY <3>2, <3>3, Zenon
  <2>5. ASSUME NEW l \in DOMAIN w
        PROVE  m2[w[l]].use = "node" /\ m2[w[l]].next = IF l = Len(w) THEN None ELSE w[l + 1]
    <3>1. l \in 1..(Len(s) - 1) /\ ~(l < k) /\ l + 1 \in 1..Len(s) /\ (l = Len(w) <=> l + 1 = Len(s))
      BY <1>1, <1>6
    <3>2. w[l] = s[l + 1] /\ s[l + 1] \in Pages
      BY <1>1, <1>2, <3>1, Zenon
    <3>3. m2[s[l + 1]].next = mem[s[l + 1]].next /\ m2[s[l + 1]].use = "node"
      BY <1>2, <2>2, <3>1, <3>2, Zenon DEF Relinked
    <3>4. l # Len(w) => w[l + 1] = s[(l + 1) + 1]
      <4>1. l # Len(w) => l + 1 \in 1..(Len(s) - 1) /\ ~(l + 1 < k)
        BY <1>1, <1>6, <3>1
      <4> QED BY <1>1, <4>1, Zenon
    <3> QED BY <1>2, <3>1, <3>2, <3>3, <3>4, Zenon
  <2>6. IsList(m2, q, w)
    BY <1>1, <1>5, <2>2, <2>4, <2>5, Zenon DEF IsList
  <2> QED BY <1>0, <2>3, <2>6, Zenon
<1>7. CASE k # 1
  <2>0. k \in Nat /\ (k - 1) \in 1..Len(s) /\ (k - 1) \in 1..(Len(s) - 1) /\ (k - 1) + 1 = k /\ k - 1 < k
    BY <1>1, <1>7
  <2>9. Len(s) \in Nat /\ Len(w) = Len(s) - 1 /\ k <= Len(s)
    BY <1>1
  <2>1. PICK x \in Pages : x = s[k - 1] /\ x # q /\ x \in Range(s)
    <3>1. s[k - 1] \in Pages /\ s[k - 1] # q
      BY <1>2, <2>0, Zenon
    <3>2. s[k - 1] \in Range(s)
      BY <1>1, <2>0, Zenon DEF Range
    <3> QED BY <3>1, <3>2, Zenon
  <2>2. NextSet(m2, q, x, after, tail)
    BY <1>0, <1>3, <1>7, <2>1, Zenon DEF Unlink, NextSet
  <2>3. Relinked(mem, m2, q, {x}) /\ m2[q].head = mem[q].head /\ m2[q].tail = tail /\ m2[x].next = after
    <3>1. x # q
      BY <2>1, Zenon
    <3> QED
      BY ONLY mem \in [Pages -> Frames], q \in Pages, x \in Pages, <3>1, after \in Ptrs,
              tail \in Ptrs, <2>2, SetNext
  <2>4. Relinked(mem, m2, q, Range(s))
    BY <2>1, <2>3, Zenon DEF Relinked
  <2>5. w # <<>> /\ w[1] = s[1]
    <3>1. 1 \in 1..(Len(s) - 1) /\ 1 < k
      BY <1>1, <1>7
    <3> QED BY <1>1, <3>1
  <2>6. ASSUME NEW l \in DOMAIN w
        PROVE  m2[w[l]].use = "node" /\ m2[w[l]].next = IF l = Len(w) THEN None ELSE w[l + 1]
    <3>1. l \in 1..(Len(s) - 1) /\ l \in Nat /\ l \in 1..Len(s) /\ l + 1 \in 1..Len(s)
      BY <1>1
    <3>2. CASE l = k - 1
      <4>0. w[l] = x
        BY <1>1, <1>2, <2>0, <2>1, <3>1, <3>2, Zenon
      <4>1. w[l] = x /\ m2[x].use = "node"
        <5>1. mem[x].use = "node"
          BY <1>1, <1>2, <2>0, <2>1, Zenon
        <5>2. m2[x].use = mem[x].use
          BY ONLY <2>3, x \in Pages, Zenon DEF Relinked
        <5> QED BY ONLY <4>0, <5>1, <5>2, Zenon
      <4>2. after = IF k = Len(s) THEN None ELSE s[k + 1]
        BY <1>1, <1>2, <1>3, Zenon
      <4>3. l = Len(w) <=> k = Len(s)
        BY <1>1, <2>0, <3>2
      <4>4. k # Len(s) => w[l + 1] = s[k + 1]
        <5>1. k # Len(s) => k \in 1..(Len(s) - 1) /\ ~(k < k)
          BY <1>1
        <5> QED BY <1>1, <2>0, <3>2, <5>1, Zenon
      <4> QED BY <2>3, <4>1, <4>2, <4>3, <4>4, Zenon
    <3>3. CASE l < k - 1
      <4>1. l < k /\ l # Len(w) /\ l + 1 < k /\ l + 1 \in 1..(Len(s) - 1) /\ l # k - 1 /\ l # Len(s)
        BY <1>1, <2>0, <3>1, <3>3
      <4>2. w[l] = s[l] /\ w[l + 1] = s[l + 1]
        BY <1>1, <3>1, <4>1, Zenon
      <4>3. s[l] # x /\ s[l] \in Pages
        BY <1>2, <2>0, <2>1, <3>1, <4>1, Zenon
      <4>4. m2[s[l]].next = mem[s[l]].next /\ m2[s[l]].use = "node"
        BY <1>2, <2>3, <3>1, <4>3, Zenon DEF Relinked
      <4>5. mem[s[l]].next = s[l + 1]
        BY <1>2, <3>1, <4>1, Zenon
      <4> QED BY <4>1, <4>2, <4>4, <4>5, Zenon
    <3>4. CASE ~(l < k)
      <4>1. l + 1 # k - 1 /\ (l = Len(w) <=> l + 1 = Len(s))
        BY <2>0, <2>9, <3>1, <3>4
      <4>2. w[l] = s[l + 1]
        BY <1>1, <3>1, <3>4, Zenon
      <4>3. s[l + 1] # x /\ s[l + 1] \in Pages
        BY <1>2, <2>0, <2>1, <3>1, <4>1, Zenon
      <4>4. m2[s[l + 1]].next = mem[s[l + 1]].next /\ m2[s[l + 1]].use = "node"
        BY <1>2, <2>3, <3>1, <4>3 DEF Relinked
      <4>5. l # Len(w) => w[l + 1] = s[(l + 1) + 1]
        <5>1. l # Len(w) => l + 1 \in 1..(Len(s) - 1) /\ ~(l + 1 < k)
          BY <2>0, <2>9, <3>1, <3>4
        <5> QED BY <1>1, <5>1, Zenon
      <4> QED BY <1>2, <3>1, <4>1, <4>2, <4>4, <4>5
    <3>5. l = k - 1 \/ l < k - 1 \/ ~(l < k)
      BY <1>1, <2>0, <3>1
    <3> QED BY <3>2, <3>3, <3>4, <3>5, Zenon
  <2>7. IsList(m2, q, w)
    BY <1>1, <1>2, <1>5, <2>3, <2>5, <2>6, Zenon DEF IsList
  <2> QED BY <1>0, <2>4, <2>7, Zenon
<1> QED
  BY <1>6, <1>7, Zenon

-----------------------------------------------------------------------------
(* What a step that changes the memory does to the queues *)

(* The nodes of a queue are pages that are not queues. *)
LEMMA ItemsAre ==
  ASSUME Lists, NEW q \in Queues
  PROVE  /\ IsList(mem, q, Items(q)) /\ Items(q) \in Seq(Pages) /\ Range(Items(q)) \subseteq Pages
         /\ \A g \in Range(Items(q)) : mem[g].use = "node"
         /\ q \notin Range(Items(q)) /\ q \in Pages /\ mem[q].use = "queue"
<1>1. IsList(mem, q, Items(q)) /\ Items(q) \in Seq(Pages)
  BY Zenon DEF Lists, IsList
<1>2. \A k \in DOMAIN Items(q) : Items(q)[k] \in Pages /\ mem[Items(q)[k]].use = "node"
  BY <1>1 DEF IsList
<1>3. q \in Pages /\ mem[q].use = "queue"
  BY Zenon DEF Queues
<1> QED
  BY <1>1, <1>2, <1>3, Zenon DEF Range

(* A queue whose pages do not change keeps its nodes. *)
LEMMA ItemsKept ==
  ASSUME ChainsFound, Lists, NEW q \in Queues, mem'[q].head = mem[q].head, mem'[q].tail = mem[q].tail,
         \A g \in Range(Items(q)) : mem'[g].use = mem[g].use /\ mem'[g].next = mem[g].next
  PROVE  IsList(mem', q, Items(q)) /\ Items(q)' = Items(q)
<1>1. IsList(mem, q, Items(q))
  BY Zenon DEF Lists
<1>2. IsList(mem', q, Items(q))
  BY <1>1, ListKept, Zenon
<1>3. Chain(mem', mem'[q].head) = Items(q)
  BY <1>2, Zenon DEF ChainsFound
<1> QED
  BY <1>2, <1>3, Zenon DEF Items

(* A step that leaves the memory alone. *)
LEMMA MemSame ==
  ASSUME Lists, UNCHANGED mem
  PROVE  Lists' /\ Queues' = Queues /\ \A q : Items(q)' = Items(q)
<1>1. Queues' = Queues
  BY Zenon DEF Queues
<1>2. \A q : Items(q)' = Items(q)
  BY Zenon DEF Items
<1> QED
  BY <1>1, <1>2, Zenon DEF Lists

(* A step that changes one page that is in no queue, perhaps into a queue *)
(* without messages or from a queue into something else.                  *)
LEMMA PageStep ==
  ASSUME ChainsFound, mem \in [Pages -> Frames], Lists, NEW g \in Pages, NEW r \in Frames, mem' = [mem EXCEPT ![g] = r],
         \A q \in Queues : g \notin Range(Items(q)),
         r.use = "queue" => r.head = None
  PROVE  /\ mem' \in [Pages -> Frames] /\ mem'[g] = r /\ \A h \in Pages : h # g => mem'[h] = mem[h]
         /\ Queues' = IF r.use = "queue" THEN Queues \cup {g} ELSE Queues \ {g}
         /\ \A q \in Queues : q # g => Items(q)' = Items(q)
         /\ r.use = "queue" => Items(g)' = <<>>
         /\ Lists'
<1>1. mem' \in [Pages -> Frames] /\ mem'[g] = r /\ \A h \in Pages : h # g => mem'[h] = mem[h]
  BY Zenon
<1> USE <1>1
<1>2. Queues' = IF r.use = "queue" THEN Queues \cup {g} ELSE Queues \ {g}
  BY Zenon DEF Queues
<1> USE <1>2
<1>3. ASSUME NEW q \in Queues, q # g
      PROVE  IsList(mem', q, Items(q)) /\ Items(q)' = Items(q)
  <2>1. q \in Pages /\ Range(Items(q)) \subseteq Pages
    BY ItemsAre, Zenon
  <2>2. mem'[q].head = mem[q].head /\ mem'[q].tail = mem[q].tail
    BY <1>3, <2>1, Zenon
  <2>3. \A h \in Range(Items(q)) : mem'[h].use = mem[h].use /\ mem'[h].next = mem[h].next
    BY <2>1, Zenon
  <2> QED BY <2>2, <2>3, ItemsKept, Zenon
<1>4. r.use = "queue" => IsList(mem', g, <<>>) /\ Items(g)' = <<>>
  <2> SUFFICES ASSUME r.use = "queue"
               PROVE  IsList(mem', g, <<>>) /\ Items(g)' = <<>>
    BY Zenon
  <2>1. mem'[g].head = None
    BY Zenon
  <2>2. IsList(mem', g, <<>>)
    BY <2>1 DEF IsList
  <2>3. Chain(mem', mem'[g].head) = <<>>
    BY <2>2, Zenon DEF ChainsFound
  <2> QED BY <2>2, <2>3, Zenon DEF Items
<1> USE <1>4
<1>5. Lists'
  <2>1. ASSUME NEW q \in Queues'
        PROVE  IsList(mem', q, Items(q)')
    <3>1. CASE q = g
      <4>1. r.use = "queue"
        BY <2>1, <3>1, Zenon
      <4> QED BY <3>1, <4>1, Zenon
    <3>2. CASE q # g
      <4>1. q \in Queues
        BY <2>1, <3>2, Zenon
      <4> QED BY <1>3, <3>2, <4>1, Zenon
    <3> QED BY <3>1, <3>2, Zenon
  <2>2. ASSUME NEW p \in Queues', NEW q \in Queues', p # q
        PROVE  Range(Items(p)') \cap Range(Items(q)') = {}
    <3>1. CASE p = g
      <4>1. Items(p)' = <<>>
        BY <2>2, <3>1, Zenon
      <4>2. Range(<<>>) = {}
        BY DEF Range
      <4> QED BY <4>1, <4>2, Zenon
    <3>2. CASE q = g
      <4>1. Items(q)' = <<>>
        BY <2>2, <3>2, Zenon
      <4>2. Range(<<>>) = {}
        BY DEF Range
      <4> QED BY <4>1, <4>2, Zenon
    <3>3. CASE p # g /\ q # g
      <4>1. p \in Queues /\ q \in Queues
        BY <2>2, <3>3, Zenon
      <4>2. Items(p)' = Items(p) /\ Items(q)' = Items(q)
        BY <1>3, <3>3, <4>1, Zenon
      <4> QED BY <2>2, <4>1, <4>2, Zenon DEF Lists
    <3> QED BY <3>1, <3>2, <3>3, Zenon
  <2> QED BY <2>1, <2>2, Zenon DEF Lists
<1> QED
  BY <1>3, <1>5, Zenon

(* A step that links or unlinks a node of one queue. *)
LEMMA RelinkStep ==
  ASSUME ChainsFound, Lists, NEW q \in Queues, Relinked(mem, mem', q, Range(Items(q))), NEW s, IsList(mem', q, s),
         \A r \in Queues : r # q => Range(s) \cap Range(Items(r)) = {}
  PROVE  /\ Queues' = Queues /\ Items(q)' = s /\ (\A r \in Queues : r # q => Items(r)' = Items(r))
         /\ Lists'
<1>1. Queues' = Queues
  BY Zenon DEF Queues, Relinked
<1> USE <1>1
<1>2. Items(q)' = s
  <2>1. Chain(mem', mem'[q].head) = s
    BY Zenon DEF ChainsFound
  <2> QED BY <2>1, Zenon DEF Items
<1> USE <1>2
<1>3. ASSUME NEW r \in Queues, r # q
      PROVE  IsList(mem', r, Items(r)) /\ Items(r)' = Items(r)
  <2>1. r \in Pages /\ Range(Items(r)) \subseteq Pages
    BY ItemsAre, Zenon
  <2>2. Range(Items(r)) \cap Range(Items(q)) = {}
    BY <1>3, Zenon DEF Lists
  <2>3. mem'[r].head = mem[r].head /\ mem'[r].tail = mem[r].tail
    BY <1>3, <2>1, Zenon DEF Relinked
  <2>4. \A h \in Range(Items(r)) : mem'[h].use = mem[h].use /\ mem'[h].next = mem[h].next
    BY <2>1, <2>2, Zenon DEF Relinked
  <2> QED BY <2>3, <2>4, ItemsKept, Zenon
<1>4. ASSUME NEW r \in Queues'
      PROVE  IsList(mem', r, Items(r)')
  BY <1>3, Zenon
<1>5. ASSUME NEW p \in Queues', NEW r \in Queues', p # r
      PROVE  Range(Items(p)') \cap Range(Items(r)') = {}
  <2>0. p \in Queues /\ r \in Queues
    BY Zenon
  <2>1. CASE p = q
    BY <1>3, <1>5, <2>0, <2>1, Zenon
  <2>2. CASE r = q
    BY <1>3, <1>5, <2>0, <2>2, Zenon
  <2>3. CASE p # q /\ r # q
    <3>1. Items(p)' = Items(p) /\ Items(r)' = Items(r)
      BY <1>3, <2>0, <2>3, Zenon
    <3> QED BY <1>5, <2>0, <3>1, Zenon DEF Lists
  <2> QED BY <2>1, <2>2, <2>3, Zenon
<1>6. Lists'
  BY <1>4, <1>5, Zenon DEF Lists
<1> QED
  BY <1>3, <1>6, Zenon

(* A free page. *)
LEMMA JunkIs == Junk \in Frames /\ Junk.use = "free"
BY Zenon DEF Junk, Frames

(* A queue without messages. *)
LEMMA Emptied ==
  ASSUME NEW x \in Frames, NEW y, y = [x EXCEPT !.head = None, !.tail = None]
  PROVE  y \in Frames /\ y.head = None /\ y.id = x.id /\ y.use = x.use
BY Zenon DEF Frames

(* msgctl() frees all nodes of a queue. *)
LEMMA DrainStep ==
  ASSUME ChainsFound, mem \in [Pages -> Frames], Lists, NEW q \in Queues,
         mem' = [g \in Pages |->
                   IF g = q THEN [mem[q] EXCEPT !.head = None, !.tail = None]
                   ELSE IF g \in Range(Items(q)) THEN Junk ELSE mem[g]]
  PROVE  /\ mem' \in [Pages -> Frames]
         /\ mem'[q].id = mem[q].id /\ mem'[q].use = "queue"
         /\ \A g \in Pages : g # q => mem'[g] = IF g \in Range(Items(q)) THEN Junk ELSE mem[g]
         /\ Queues' = Queues /\ Items(q)' = <<>> /\ (\A r \in Queues : r # q => Items(r)' = Items(r))
         /\ Lists'
<1>0. /\ q \in Pages /\ mem[q].use = "queue" /\ q \notin Range(Items(q))
      /\ \A g \in Range(Items(q)) : mem[g].use = "node"
  BY ItemsAre, Zenon
<1> USE <1>0
<1>1. mem[q] \in Frames
  BY Zenon
<1>2. /\ mem'[q] = [mem[q] EXCEPT !.head = None, !.tail = None]
      /\ \A g \in Pages : g # q => mem'[g] = IF g \in Range(Items(q)) THEN Junk ELSE mem[g]
  <2>1. mem'[q] = [mem[q] EXCEPT !.head = None, !.tail = None]
    BY Zenon
  <2>2. \A g \in Pages : g # q => mem'[g] = IF g \in Range(Items(q)) THEN Junk ELSE mem[g]
    BY Zenon
  <2> QED BY <2>1, <2>2, Zenon
<1> USE <1>2
<1>3. mem'[q] \in Frames /\ mem'[q].head = None /\ mem'[q].id = mem[q].id /\ mem'[q].use = mem[q].use
  BY ONLY <1>1, <1>2, Emptied, Zenon
<1>4. mem' \in [Pages -> Frames]
  <2>1. \A g \in Pages : (IF g = q THEN [mem[q] EXCEPT !.head = None, !.tail = None]
                          ELSE IF g \in Range(Items(q)) THEN Junk ELSE mem[g]) \in Frames
    BY <1>3, JunkIs, Zenon
  <2> QED BY <2>1, Zenon
<1>5. Queues' = Queues
  <2>1. ASSUME NEW g \in Pages
        PROVE  mem'[g].use = "queue" <=> mem[g].use = "queue"
    <3>1. CASE g = q
      BY <1>3, <3>1, Zenon
    <3>2. CASE g # q /\ g \in Range(Items(q))
      <4>1. mem'[g] = Junk
        BY <3>2, Zenon
      <4> QED BY <3>2, <4>1, JunkIs, Zenon
    <3>3. CASE g # q /\ g \notin Range(Items(q))
      BY <3>3, Zenon
    <3> QED BY <3>1, <3>2, <3>3, Zenon
  <2> QED BY <2>1, Zenon DEF Queues
<1>6. IsList(mem', q, <<>>) /\ Items(q)' = <<>>
  <2>1. IsList(mem', q, <<>>)
    BY <1>3 DEF IsList
  <2>2. Chain(mem', mem'[q].head) = <<>>
    BY <2>1, Zenon DEF ChainsFound
  <2> QED BY <2>1, <2>2, Zenon DEF Items
<1> USE <1>6
<1>7. ASSUME NEW r \in Queues, r # q
      PROVE  IsList(mem', r, Items(r)) /\ Items(r)' = Items(r)
  <2>1. /\ r \in Pages /\ Range(Items(r)) \subseteq Pages /\ mem[r].use = "queue"
        /\ \A g \in Range(Items(r)) : mem[g].use = "node"
    BY ItemsAre, Zenon
  <2>2. Range(Items(r)) \cap Range(Items(q)) = {}
    BY <1>7, Zenon DEF Lists
  <2>3. mem'[r] = mem[r]
    BY <1>7, <2>1, Zenon
  <2>4. \A g \in Range(Items(r)) : mem'[g] = mem[g]
    BY <2>1, <2>2, Zenon
  <2> QED BY <2>3, <2>4, ItemsKept, Zenon
<1>8. ASSUME NEW r \in Queues'
      PROVE  IsList(mem', r, Items(r)')
  BY <1>5, <1>7, Zenon
<1>9. ASSUME NEW p \in Queues', NEW r \in Queues', p # r
      PROVE  Range(Items(p)') \cap Range(Items(r)') = {}
  <2>0. p \in Queues /\ r \in Queues /\ Range(<<>>) = {}
    BY <1>5 DEF Range
  <2>1. CASE p = q
    BY <2>0, <2>1, Zenon
  <2>2. CASE r = q
    BY <2>0, <2>2, Zenon
  <2>3. CASE p # q /\ r # q
    <3>1. Items(p)' = Items(p) /\ Items(r)' = Items(r)
      BY <1>7, <2>0, <2>3, Zenon
    <3> QED BY <1>9, <2>0, <3>1, Zenon DEF Lists
  <2> QED BY <2>1, <2>2, <2>3, Zenon
<1>10. Lists'
  BY <1>8, <1>9, Zenon DEF Lists
<1> QED
  BY <1>3, <1>4, <1>5, <1>7, <1>10, Zenon

-----------------------------------------------------------------------------
(* The initial state *)

LEMMA InitIInv == Init => IInv
<1> SUFFICES ASSUME Init
             PROVE  IInv
  BY Zenon
<1>1. mem = [g \in Pages |-> Junk] /\ mem \in [Pages -> Frames]
  BY JunkIs, Zenon DEF Init
<1>2. \A g \in Pages : mem[g].use = "free"
  BY <1>1, JunkIs, Zenon
<1>3. Queues = {}
  BY <1>2, Zenon DEF Queues
<1>4. list = <<>> /\ DOMAIN list = {}
  BY DEF Init
<1>5. \A p \in Procs : pc[p] = "user" /\ asleep[p] = FALSE
  BY Zenon DEF Init
<1>6. TypeOK
  <2>1. pc \in [Procs -> Places]
    BY Zenon DEF Init, Places
  <2>2. asleep \in [Procs -> BOOLEAN] /\ killed \in [Procs -> BOOLEAN]
    BY Zenon DEF Init
  <2>3. list \in Seq(Pages) /\ nextId \in Nat \ {0}
    BY DEF Init
  <2>4. id \in [Procs -> Nat] /\ want \in [Procs -> Nat] /\ sends \in 0..MaxSends
    BY MsgAssumption DEF Init
  <2>5. /\ queue \in [Procs -> Pages \cup {None}] /\ node \in [Procs -> Pages \cup {None}]
        /\ got \in [Procs -> Messages \cup {None}]
    BY Zenon DEF Init
  <2> QED BY <1>1, <2>1, <2>2, <2>3, <2>4, <2>5, Zenon DEF TypeOK
<1>7. Lists /\ Listed
  BY <1>3, <1>4, <1>5, Zenon DEF Lists, Listed, Removes
<1>8. Hands /\ Pointers /\ Waiting
  BY <1>2, <1>3, <1>5, Zenon DEF Hands, InHand, Pointers, Follows, Waiting
<1> QED
  BY <1>6, <1>7, <1>8, Zenon DEF IInv

-----------------------------------------------------------------------------
(* Steps that leave the memory alone *)

(* The nodes in hand. *)
LEMMA HandsSame ==
  ASSUME Lists, Hands, UNCHANGED mem,
         \A p \in Procs : InHand(p)' => /\ InHand(p)
                                        /\ node'[p] = node[p]
                                        /\ (pc'[p] = "snd_append" => pc[p] = "snd_append")
  PROVE  Hands'
<1>1. Queues' = Queues /\ \A q : Items(q)' = Items(q)
  BY MemSame, Zenon
<1>2. \A g \in Pages : mem'[g].use = "node" => mem'[g].msg \in Messages
  BY Zenon DEF Hands
<1>3. ASSUME NEW p \in Procs, InHand(p)'
      PROVE  /\ node'[p] \in Pages /\ mem'[node'[p]].use = "node"
             /\ pc'[p] = "snd_append" => mem'[node'[p]].next = None
             /\ \A r \in Procs \ {p} : InHand(r)' => node'[r] # node'[p]
             /\ \A q \in Queues' : node'[p] \notin Range(Items(q)')
  <2>1. InHand(p) /\ node'[p] = node[p] /\ (pc'[p] = "snd_append" => pc[p] = "snd_append")
    BY <1>3, Zenon
  <2>2. \A r \in Procs \ {p} : InHand(r)' => node'[r] # node'[p]
    BY <2>1, Zenon DEF Hands
  <2>3. \A q \in Queues' : node'[p] \notin Range(Items(q)')
    BY <1>1, <2>1, Zenon DEF Hands
  <2> QED BY <2>1, <2>2, <2>3, Zenon DEF Hands
<1> QED
  BY <1>2, <1>3, Zenon DEF Hands

(* The list of queues. *)
LEMMA ListedSame ==
  ASSUME Listed, UNCHANGED <<mem, list, nextId>>,
         \A p \in Procs : /\ Removes(p)' <=> Removes(p)
                          /\ Removes(p) => queue'[p] = queue[p]
  PROVE  Listed'
<1>1. Queues' = Queues /\ \A i : InList(i)' <=> InList(i)
  BY Zenon DEF Queues, InList
<1>2. ASSUME NEW p \in Procs, Removes(p)'
      PROVE  /\ queue'[p] \in Queues' /\ mem'[queue'[p]].id \in 1..(nextId' - 1)
             /\ ~InList(mem[queue[p]].id)'
             /\ \A r \in Procs \ {p} : Removes(r)' => queue'[r] # queue'[p]
  <2>1. Removes(p) /\ queue'[p] = queue[p]
    BY <1>2, Zenon
  <2>2. ~InList(mem[queue[p]].id)'
    BY <2>1 DEF Listed, InList
  <2> QED BY <1>1, <2>1, <2>2, Zenon DEF Listed
<1>3. ASSUME NEW q \in Queues'
      PROVE  q \in Range(list') \/ \E p \in Procs : Removes(p)' /\ queue'[p] = q
  BY <1>1, Zenon DEF Listed
<1>4. /\ \A k, l \in DOMAIN list' : mem'[list'[k]].id = mem'[list'[l]].id => k = l
      /\ \A k \in DOMAIN list' : mem'[list'[k]].use = "queue" /\ mem'[list'[k]].id \in 1..(nextId' - 1)
  BY Zenon DEF Listed
<1> QED
  BY <1>2, <1>3, <1>4, Zenon DEF Listed

(* What processes looked up. *)
LEMMA PointersSame ==
  ASSUME Pointers, UNCHANGED <<mem, list, nextId>>,
         \A p \in Procs : /\ Follows(p)' => Follows(p) /\ queue'[p] = queue[p] /\ id'[p] = id[p]
                          /\ pc'[p] = "snd_alloc" => pc[p] = "snd_alloc" /\ want'[p] = want[p]
  PROVE  Pointers'
<1>1. Queues' = Queues
  BY Zenon DEF Queues
<1>2. ASSUME NEW p \in Procs, Follows(p)'
      PROVE  /\ queue'[p] \in Pages /\ id'[p] \in 1..(nextId' - 1)
             /\ InList(id[p])' => queue'[p] \in Queues' /\ mem'[queue'[p]].id = id'[p]
  <2>1. Follows(p) /\ queue'[p] = queue[p] /\ id'[p] = id[p]
    BY <1>2, Zenon
  <2>2. InList(id[p])' <=> InList(id[p])
    BY <2>1, Zenon DEF InList
  <2> QED BY <1>1, <2>1, <2>2, Zenon DEF Pointers
<1>3. \A p \in Procs : pc'[p] = "snd_alloc" => want'[p] \in Types
  BY Zenon DEF Pointers
<1> QED
  BY <1>2, <1>3, Zenon DEF Pointers

(* The receivers asleep. *)
LEMMA WaitingSame ==
  ASSUME Lists, Waiting, UNCHANGED mem,
         \A p \in Procs : /\ asleep'[p] => asleep[p]
                          /\ asleep'[p] \/ pc'[p] = "rcv_sleep" =>
                               pc'[p] = pc[p] /\ queue'[p] = queue[p] /\ want'[p] = want[p]
  PROVE  Waiting'
<1>1. Queues' = Queues /\ \A q : Items(q)' = Items(q)
  BY MemSame, Zenon
<1>2. ASSUME NEW p \in Procs
      PROVE  asleep'[p] => pc'[p] = "rcv_scan"
  BY Zenon DEF Waiting
<1>3. ASSUME NEW p \in Procs, asleep'[p] \/ pc'[p] = "rcv_sleep", queue'[p] \in Queues'
      PROVE  \A g \in Range(Items(queue[p])') : want'[p] \notin {0, mem'[g].msg.typ}
  <2>1. (asleep[p] \/ pc[p] = "rcv_sleep") /\ queue[p] \in Queues /\ want'[p] = want[p] /\ queue'[p] = queue[p]
    BY <1>1, <1>3, Zenon
  <2>2. Items(queue[p])' = Items(queue[p])
    BY <2>1, Zenon DEF Items
  <2> QED BY <2>1, <2>2, Zenon DEF Waiting
<1> QED
  BY <1>2, <1>3, Zenon DEF Waiting

-----------------------------------------------------------------------------
(* The places of the processes *)

(* A process goes on to another place of its system call. *)
LEMMA GotoIs ==
  ASSUME TypeOK, NEW p \in Procs, NEW place \in Places, Goto(p, place)
  PROVE  /\ pc' \in [Procs -> Places] /\ pc'[p] = place
         /\ \A r \in Procs : r # p => pc'[r] = pc[r]
BY Zenon DEF TypeOK, Goto

(* A system call returns. *)
LEMMA ReturnIs ==
  ASSUME TypeOK, NEW p \in Procs, Return(p)
  PROVE  /\ pc' \in [Procs -> Places] /\ id' \in [Procs -> Nat] /\ want' \in [Procs -> Nat]
         /\ queue' \in [Procs -> Pages \cup {None}] /\ node' \in [Procs -> Pages \cup {None}]
         /\ pc'[p] = "user"
         /\ \A r \in Procs : r # p => /\ pc'[r] = pc[r] /\ id'[r] = id[r] /\ queue'[r] = queue[r]
                                      /\ node'[r] = node[r] /\ want'[r] = want[r]
<1>1. "user" \in Places
  BY Zenon DEF Places
<1>2. Goto(p, "user")
  BY Zenon DEF Return
<1>3. pc' \in [Procs -> Places] /\ pc'[p] = "user" /\ \A r \in Procs : r # p => pc'[r] = pc[r]
  BY <1>1, <1>2, GotoIs, Zenon
<1>4. /\ id' = [id EXCEPT ![p] = 0] /\ queue' = [queue EXCEPT ![p] = None]
      /\ node' = [node EXCEPT ![p] = None] /\ want' = [want EXCEPT ![p] = 0]
  BY Zenon DEF Return
<1>5. /\ id \in [Procs -> Nat] /\ want \in [Procs -> Nat]
      /\ queue \in [Procs -> Pages \cup {None}] /\ node \in [Procs -> Pages \cup {None}]
  BY Zenon DEF TypeOK
<1>6. /\ id' \in [Procs -> Nat] /\ want' \in [Procs -> Nat]
      /\ queue' \in [Procs -> Pages \cup {None}] /\ node' \in [Procs -> Pages \cup {None}]
  BY <1>4, <1>5, Zenon
<1>7. \A r \in Procs : r # p => id'[r] = id[r] /\ queue'[r] = queue[r] /\ node'[r] = node[r] /\ want'[r] = want[r]
  BY <1>4, <1>5, Zenon
<1> QED
  BY <1>3, <1>6, <1>7, Zenon

(* A call that returns without having changed anything. *)
LEMMA QuietReturn ==
  ASSUME IInv, NEW p \in Procs, Return(p), ~Removes(p), ~asleep[p],
         UNCHANGED <<mem, list, nextId, asleep, killed, got, sends>>
  PROVE  IInv'
<1>0. TypeOK /\ Lists /\ Hands /\ Listed /\ Pointers /\ Waiting
  BY Zenon DEF IInv
<1> USE <1>0
<1>1. /\ pc' \in [Procs -> Places] /\ id' \in [Procs -> Nat] /\ want' \in [Procs -> Nat]
      /\ queue' \in [Procs -> Pages \cup {None}] /\ node' \in [Procs -> Pages \cup {None}]
      /\ pc'[p] = "user"
      /\ \A r \in Procs : r # p => /\ pc'[r] = pc[r] /\ id'[r] = id[r] /\ queue'[r] = queue[r]
                                   /\ node'[r] = node[r] /\ want'[r] = want[r]
  BY ReturnIs, Zenon
<1> USE <1>1
<1>2. TypeOK'
  BY Zenon DEF TypeOK
<1>3. Lists'
  BY MemSame, Zenon
<1>4. Hands'
  <2>1. \A r \in Procs : InHand(r)' => /\ InHand(r)
                                       /\ node'[r] = node[r]
                                       /\ (pc'[r] = "snd_append" => pc[r] = "snd_append")
    BY Zenon DEF InHand
  <2> QED BY <2>1, HandsSame, Zenon
<1>5. Listed'
  <2>1. \A r \in Procs : /\ Removes(r)' <=> Removes(r)
                         /\ Removes(r) => queue'[r] = queue[r]
    BY Zenon DEF Removes
  <2> QED BY <2>1, ListedSame, Zenon
<1>6. Pointers'
  <2>1. \A r \in Procs : /\ Follows(r)' => Follows(r) /\ queue'[r] = queue[r] /\ id'[r] = id[r]
                         /\ pc'[r] = "snd_alloc" => pc[r] = "snd_alloc" /\ want'[r] = want[r]
    BY Zenon DEF Follows
  <2> QED BY <2>1, PointersSame, Zenon
<1>7. Waiting'
  <2>1. \A r \in Procs : /\ asleep'[r] => asleep[r]
                         /\ asleep'[r] \/ pc'[r] = "rcv_sleep" =>
                              pc'[r] = pc[r] /\ queue'[r] = queue[r] /\ want'[r] = want[r]
    BY Zenon
  <2> QED BY <2>1, WaitingSame, Zenon
<1> QED
  BY <1>2, <1>3, <1>4, <1>5, <1>6, <1>7, Zenon DEF IInv

(* kill() *)
LEMMA KillStep ==
  ASSUME IInv, NEW p \in Procs, Kill(p)
  PROVE  IInv'
<1>0. TypeOK /\ Lists /\ Hands /\ Listed /\ Pointers /\ Waiting
  BY Zenon DEF IInv
<1> USE <1>0
<1>1. /\ UNCHANGED <<mem, list, nextId, pc, id, queue, node, want, got, sends>>
      /\ killed' = [killed EXCEPT ![p] = TRUE] /\ asleep' = [asleep EXCEPT ![p] = FALSE]
  BY Zenon DEF Kill, locals
<1> USE <1>1
<1>2. TypeOK'
  BY Zenon DEF TypeOK
<1>3. Lists'
  BY MemSame, Zenon
<1>4. Hands'
  BY HandsSame, Zenon DEF InHand
<1>5. Listed'
  BY ListedSame, Zenon DEF Removes
<1>6. Pointers'
  BY PointersSame, Zenon DEF Follows
<1>7. Waiting'
  <2>1. \A r \in Procs : asleep'[r] => asleep[r]
    BY Zenon DEF TypeOK
  <2> QED BY <2>1, WaitingSame, Zenon
<1> QED
  BY <1>2, <1>3, <1>4, <1>5, <1>6, <1>7, Zenon DEF IInv

(* A process follows a dangling pointer. *)
LEMMA DerailsStep ==
  ASSUME IInv, NEW p \in Procs, Derails(p)
  PROVE  IInv'
<1>0. TypeOK /\ Lists /\ Hands /\ Listed /\ Pointers /\ Waiting
  BY Zenon DEF IInv
<1> USE <1>0
<1>1. /\ UNCHANGED <<mem, list, nextId, id, queue, node, want, asleep, killed, got, sends>>
      /\ Goto(p, "derailed") /\ ~asleep[p] /\ ~Removes(p)
  BY Zenon DEF Derails, locals, Removes
<1> USE <1>1
<1>2. pc' \in [Procs -> Places] /\ pc'[p] = "derailed" /\ \A r \in Procs : r # p => pc'[r] = pc[r]
  <2>1. "derailed" \in Places
    BY Zenon DEF Places
  <2> QED BY <2>1, GotoIs, Zenon
<1> USE <1>2
<1>3. TypeOK'
  BY Zenon DEF TypeOK
<1>4. Lists'
  BY MemSame, Zenon
<1>5. Hands'
  BY HandsSame, Zenon DEF InHand
<1>6. Listed'
  BY ListedSame, Zenon DEF Removes
<1>7. Pointers'
  BY PointersSame, Zenon DEF Follows
<1>8. Waiting'
  BY WaitingSame, Zenon
<1> QED
  BY <1>3, <1>4, <1>5, <1>6, <1>7, <1>8, Zenon DEF IInv

(* A receiver that found nothing goes to sleep: nothing was sent while it *)
(* held the lock of the queue.                                            *)
LEMMA RcvSleepStep ==
  ASSUME IInv, NEW p \in Procs, RcvSleep(p)
  PROVE  IInv'
<1>0. TypeOK /\ Lists /\ Hands /\ Listed /\ Pointers /\ Waiting
  BY Zenon DEF IInv
<1> USE <1>0
<1>1. /\ UNCHANGED <<mem, list, nextId, id, queue, node, want, killed, got, sends>>
      /\ Goto(p, "rcv_scan") /\ asleep' = [asleep EXCEPT ![p] = TRUE] /\ pc[p] = "rcv_sleep"
  BY Zenon DEF RcvSleep, locals
<1> USE <1>1
<1>2. pc' \in [Procs -> Places] /\ pc'[p] = "rcv_scan" /\ \A r \in Procs : r # p => pc'[r] = pc[r]
  <2>1. "rcv_scan" \in Places
    BY Zenon DEF Places
  <2> QED BY <2>1, GotoIs, Zenon
<1> USE <1>2
<1>3. TypeOK'
  BY Zenon DEF TypeOK
<1>4. Lists' /\ Queues' = Queues /\ \A q : Items(q)' = Items(q)
  BY MemSame, Zenon
<1>5. Hands'
  BY HandsSame, Zenon DEF InHand
<1>6. Listed'
  BY ListedSame, Zenon DEF Removes
<1>7. Pointers'
  BY PointersSame, Zenon DEF Follows
<1>8. Waiting'
  <2>1. ASSUME NEW r \in Procs
        PROVE  /\ asleep'[r] => pc'[r] = "rcv_scan"
               /\ asleep'[r] \/ pc'[r] = "rcv_sleep" => asleep[r] \/ pc[r] = "rcv_sleep"
    <3>1. r # p => asleep'[r] = asleep[r]
      BY Zenon DEF TypeOK
    <3> QED BY <3>1, Zenon DEF Waiting
  <2>2. ASSUME NEW r \in Procs, asleep'[r] \/ pc'[r] = "rcv_sleep", queue'[r] \in Queues'
        PROVE  \A g \in Range(Items(queue[r])') : want'[r] \notin {0, mem'[g].msg.typ}
    <3>1. (asleep[r] \/ pc[r] = "rcv_sleep") /\ queue[r] \in Queues
      BY <1>4, <2>1, <2>2, Zenon
    <3>2. Items(queue[r])' = Items(queue[r])
      BY Zenon DEF Items
    <3> QED BY <3>1, <3>2, Zenon DEF Waiting
  <2> QED BY <2>1, <2>2, Zenon DEF Waiting
<1> QED
  BY <1>3, <1>4, <1>5, <1>6, <1>7, <1>8, Zenon DEF IInv

(* A process finds the queue with the id it was given. *)
LEMMA LookupStep ==
  ASSUME IInv, NEW p \in Procs, pc[p] = "user", NEW place \in {"snd_alloc", "rcv_scan"},
         NEW k \in DOMAIN list, NEW i, Lookup(p, i, k, place),
         NEW t \in Types \cup {0}, place = "snd_alloc" => t \in Types,
         want' = [want EXCEPT ![p] = t],
         UNCHANGED <<mem, list, nextId, node, asleep, killed, got, sends>>
  PROVE  IInv'
<1>0. TypeOK /\ Lists /\ Hands /\ Listed /\ Pointers /\ Waiting
  BY Zenon DEF IInv
<1> USE <1>0
<1>1. /\ mem[list[k]].id = i /\ Goto(p, place)
      /\ queue' = [queue EXCEPT ![p] = list[k]] /\ id' = [id EXCEPT ![p] = i]
  BY Zenon DEF Lookup
<1> USE <1>1
<1>2. pc' \in [Procs -> Places] /\ pc'[p] = place /\ \A r \in Procs : r # p => pc'[r] = pc[r]
  <2>1. place \in Places
    BY Zenon DEF Places
  <2> QED BY <2>1, GotoIs, Zenon
<1> USE <1>2
<1>3. /\ list[k] \in Pages /\ mem[list[k]].use = "queue" /\ i \in 1..(nextId - 1) /\ i \in Nat /\ t \in Nat
      /\ ~asleep[p]
  <2>1. list[k] \in Pages /\ nextId \in Nat
    BY DEF TypeOK
  <2>2. mem[list[k]].use = "queue" /\ i \in 1..(nextId - 1)
    BY Zenon DEF Listed
  <2>3. t \in Nat
    BY MsgAssumption
  <2>4. ~asleep[p]
    BY Zenon DEF Waiting
  <2> QED BY <2>1, <2>2, <2>3, <2>4
<1> USE <1>3
<1>4. /\ queue' \in [Procs -> Pages \cup {None}] /\ id' \in [Procs -> Nat] /\ want' \in [Procs -> Nat]
      /\ queue'[p] = list[k] /\ id'[p] = i /\ want'[p] = t
      /\ \A r \in Procs : r # p => queue'[r] = queue[r] /\ id'[r] = id[r] /\ want'[r] = want[r]
  <2>1. queue \in [Procs -> Pages \cup {None}] /\ id \in [Procs -> Nat] /\ want \in [Procs -> Nat]
    BY Zenon DEF TypeOK
  <2> QED BY <2>1, Zenon
<1> USE <1>4
<1>5. TypeOK'
  BY Zenon DEF TypeOK
<1>6. Lists' /\ Queues' = Queues
  BY MemSame, Zenon
<1> USE <1>6
<1>7. Hands'
  BY HandsSame, Zenon DEF InHand
<1>8. Listed'
  BY ListedSame, Zenon DEF Removes
<1>9. Pointers'
  <2>1. ASSUME NEW r \in Procs, Follows(r)'
        PROVE  /\ queue'[r] \in Pages /\ id'[r] \in 1..(nextId' - 1)
               /\ InList(id[r])' => queue'[r] \in Queues' /\ mem'[queue'[r]].id = id'[r]
    <3>1. CASE r = p
      <4>1. list[k] \in Queues
        BY Zenon DEF Queues
      <4> QED BY <3>1, <4>1, Zenon
    <3>2. CASE r # p
      <4>1. Follows(r) /\ queue'[r] = queue[r] /\ id'[r] = id[r]
        BY <2>1, <3>2, Zenon DEF Follows
      <4>2. InList(id[r])' => InList(id[r])
        BY <4>1, Zenon DEF InList
      <4> QED BY <4>1, <4>2, Zenon DEF Pointers
    <3> QED BY <3>1, <3>2, Zenon
  <2>2. \A r \in Procs : pc'[r] = "snd_alloc" => want'[r] \in Types
    BY Zenon DEF Pointers
  <2> QED BY <2>1, <2>2, Zenon DEF Pointers
<1>10. Waiting'
  BY WaitingSame, Zenon
<1> QED
  BY <1>5, <1>7, <1>8, <1>9, <1>10, Zenon DEF IInv

(* msgsnd() and msgrcv() look the queue up. *)
LEMMA SndLookupStep ==
  ASSUME IInv, NEW p \in Procs, NEW i \in Ids, NEW t \in Types, SndLookup(p, i, t)
  PROVE  IInv'
<1>1. PICK k \in DOMAIN list : Lookup(p, i, k, "snd_alloc")
  BY Zenon DEF SndLookup
<1>2. /\ pc[p] = "user" /\ want' = [want EXCEPT ![p] = t]
      /\ UNCHANGED <<mem, list, nextId, node, asleep, killed, got, sends>>
  BY Zenon DEF SndLookup, Calls
<1> QED
  BY <1>1, <1>2, LookupStep, Zenon

(* msgrcv() finds its queue as msgsnd() does, and notes the type it wants. *)
LEMMA RcvLookupStep ==
  ASSUME IInv, NEW p \in Procs, NEW i \in Ids, NEW t \in Types \cup {0}, RcvLookup(p, i, t)
  PROVE  IInv'
<1>1. PICK k \in DOMAIN list : Lookup(p, i, k, "rcv_scan")
  BY Zenon DEF RcvLookup
<1>2. /\ pc[p] = "user" /\ want' = [want EXCEPT ![p] = t]
      /\ UNCHANGED <<mem, list, nextId, node, asleep, killed, got, sends>>
  BY Zenon DEF RcvLookup, Calls
<1> QED
  BY <1>1, <1>2, LookupStep, Zenon

(* What msgctl() takes out of the list is in it no more; the others stay. *)
LEMMA UnlistIs ==
  ASSUME TypeOK, Listed, NEW k \in DOMAIN list, NEW i, i = mem[list[k]].id,
         list' = Without(list, k), UNCHANGED mem
  PROVE  /\ list' \in Seq(Pages) /\ Range(list') \subseteq Range(list)
         /\ \A l \in DOMAIN list : l # k => list[l] \in Range(list')
         /\ \A a, b \in DOMAIN list' : mem[list'[a]].id = mem[list'[b]].id => a = b
         /\ ~InList(i)'
         /\ \A j : InList(j)' => InList(j)
<1>0. list \in Seq(Pages)
  BY Zenon DEF TypeOK
<1>1. /\ list' \in Seq(Pages) /\ Range(list') \subseteq Range(list)
      /\ \A l \in DOMAIN list : l # k => list[l] \in Range(list')
  BY <1>0, WithoutIs, Zenon
<1>2. \A a, b \in DOMAIN list : list[a] = list[b] => a = b
  BY Zenon DEF Listed
<1>3. /\ \A a, b \in DOMAIN list' : list'[a] = list'[b] => a = b
      /\ list[k] \notin Range(list')
  BY <1>0, <1>2, WithoutInjective
<1>4. \A a \in DOMAIN list' : list'[a] \in Range(list') /\ \E x \in DOMAIN list : list'[a] = list[x]
  <2>1. \A a \in DOMAIN list' : list'[a] \in Range(list')
    BY Zenon DEF Range
  <2>2. \A g \in Range(list) : \E x \in DOMAIN list : g = list[x]
    BY Zenon DEF Range
  <2> QED BY <1>1, <2>1, <2>2, Zenon
<1> USE <1>4
<1>5. ASSUME NEW a \in DOMAIN list', NEW b \in DOMAIN list', mem[list'[a]].id = mem[list'[b]].id
      PROVE  a = b
  <2>1. PICK x \in DOMAIN list : list'[a] = list[x]
    BY Zenon
  <2>2. PICK y \in DOMAIN list : list'[b] = list[y]
    BY Zenon
  <2>3. x = y
    BY <1>5, <2>1, <2>2 DEF Listed
  <2> QED BY <1>3, <2>1, <2>2, <2>3, Zenon
<1>6. ASSUME NEW a \in DOMAIN list', mem[list'[a]].id = mem[list[k]].id
      PROVE  FALSE
  <2>1. PICK x \in DOMAIN list : list'[a] = list[x]
    BY Zenon
  <2>2. x = k
    BY <1>6, <2>1, Zenon DEF Listed
  <2> QED BY <1>3, <2>1, <2>2, Zenon
<1>7. ~InList(i)'
  BY <1>6, Zenon DEF InList
<1>8. \A j : InList(j)' => InList(j)
  BY Zenon DEF InList
<1> QED
  BY <1>1, <1>5, <1>7, <1>8, Zenon

(* msgctl() takes the queue out of the list. *)
LEMMA RmUnlinkStep ==
  ASSUME IInv, NEW p \in Procs, NEW i \in Ids, RmUnlink(p, i)
  PROVE  IInv'
<1>0. TypeOK /\ Lists /\ Hands /\ Listed /\ Pointers /\ Waiting
  BY Zenon DEF IInv
<1>1. PICK k \in DOMAIN list : Lookup(p, i, k, "rm_drain") /\ list' = Without(list, k)
  BY Zenon DEF RmUnlink
<1>2. /\ pc[p] = "user" /\ UNCHANGED <<mem, nextId, node, want, asleep, killed, got, sends>>
      /\ mem[list[k]].id = i /\ Goto(p, "rm_drain")
      /\ queue' = [queue EXCEPT ![p] = list[k]] /\ id' = [id EXCEPT ![p] = i]
  BY <1>1, Zenon DEF RmUnlink, Calls, Lookup
<1>3. pc' \in [Procs -> Places] /\ pc'[p] = "rm_drain" /\ \A r \in Procs : r # p => pc'[r] = pc[r]
  <2>1. "rm_drain" \in Places
    BY Zenon DEF Places
  <2> QED BY <1>0, <1>2, <2>1, GotoIs, Zenon
<1>4. /\ list[k] \in Pages /\ list[k] \in Queues /\ i \in 1..(nextId - 1) /\ i \in Nat /\ ~asleep[p]
  <2>1. list[k] \in Pages /\ nextId \in Nat
    BY <1>0 DEF TypeOK
  <2>2. mem[list[k]].use = "queue" /\ i \in 1..(nextId - 1)
    BY <1>0, <1>2, Zenon DEF Listed
  <2>3. ~asleep[p]
    BY <1>0, <1>2, Zenon DEF Waiting
  <2> QED BY <2>1, <2>2, <2>3 DEF Queues
<1>5. /\ queue' \in [Procs -> Pages \cup {None}] /\ id' \in [Procs -> Nat]
      /\ queue'[p] = list[k] /\ id'[p] = i
      /\ \A r \in Procs : r # p => queue'[r] = queue[r] /\ id'[r] = id[r]
  <2>1. queue \in [Procs -> Pages \cup {None}] /\ id \in [Procs -> Nat]
    BY <1>0, Zenon DEF TypeOK
  <2> QED BY <1>2, <1>4, <2>1, Zenon
<1>6. /\ list' \in Seq(Pages) /\ Range(list') \subseteq Range(list)
      /\ \A l \in DOMAIN list : l # k => list[l] \in Range(list')
      /\ \A a, b \in DOMAIN list' : mem[list'[a]].id = mem[list'[b]].id => a = b
      /\ ~InList(i)'
      /\ \A j : InList(j)' => InList(j)
  BY <1>0, <1>1, <1>2, UnlistIs, Zenon
<1>7. TypeOK'
  BY <1>0, <1>2, <1>3, <1>5, <1>6, Zenon DEF TypeOK
<1>8. Lists' /\ Queues' = Queues
  BY <1>0, <1>2, MemSame, Zenon
<1>9. Hands'
  BY <1>0, <1>2, <1>3, HandsSame, Zenon DEF InHand
<1>10. Listed'
  <2>1. \A a, b \in DOMAIN list' : mem'[list'[a]].id = mem'[list'[b]].id => a = b
    BY <1>2, <1>6, Zenon
  <2>2. \A a \in DOMAIN list' : mem'[list'[a]].use = "queue" /\ mem'[list'[a]].id \in 1..(nextId' - 1)
    <3>1. \A a \in DOMAIN list' : \E x \in DOMAIN list : list'[a] = list[x]
      BY <1>6, Zenon DEF Range
    <3>2. \A x \in DOMAIN list : mem[list[x]].use = "queue" /\ mem[list[x]].id \in 1..(nextId - 1)
      BY <1>0, Zenon DEF Listed
    <3>3. mem' = mem /\ nextId' = nextId
      BY <1>2, Zenon
    <3> QED BY ONLY <3>1, <3>2, <3>3, Zenon
  <2>3. ASSUME NEW r \in Procs, Removes(r)'
        PROVE  /\ queue'[r] \in Queues' /\ mem'[queue'[r]].id \in 1..(nextId' - 1)
               /\ ~InList(mem[queue[r]].id)'
               /\ \A s \in Procs \ {r} : Removes(s)' => queue'[s] # queue'[r]
    <3>1. ~Removes(p) /\ \A s \in Procs : s # p => (Removes(s)' <=> Removes(s))
      BY <1>2, <1>3, Zenon DEF Removes
    <3>2. \A s \in Procs : Removes(s) => ~InList(mem[queue[s]].id) /\ queue[s] # list[k]
      BY <1>0, Zenon DEF Listed, InList
    <3>3. CASE r = p
      <4>1. ~InList(mem[queue[r]].id)'
        BY <1>2, <1>5, <1>6, <3>3, Zenon DEF InList
      <4> QED BY <1>2, <1>4, <1>5, <1>8, <3>1, <3>2, <3>3, <4>1, Zenon
    <3>4. CASE r # p
      <4>1. Removes(r) /\ queue'[r] = queue[r]
        BY <1>5, <2>3, <3>1, <3>4, Zenon
      <4>2. ~InList(mem[queue[r]].id)'
        <5>1. PICK j : j = mem[queue[r]].id
          BY Zenon
        <5>2. ~InList(j)'
          BY <1>6, <3>2, <4>1, <5>1, Zenon
        <5> QED BY <1>2, <4>1, <5>1, <5>2, Zenon DEF InList
      <4>3. /\ queue[r] \in Queues /\ mem[queue[r]].id \in 1..(nextId - 1)
            /\ \A s \in Procs \ {r} : Removes(s) => queue[s] # queue[r]
        BY <1>0, <4>1, Zenon DEF Listed
      <4>4. ASSUME NEW s \in Procs \ {r}, Removes(s)'
            PROVE  queue'[s] # queue'[r]
        <5>1. CASE s = p
          BY <1>5, <3>2, <4>1, <5>1, Zenon
        <5>2. CASE s # p
          BY <1>5, <3>1, <4>1, <4>3, <4>4, <5>2, Zenon
        <5> QED BY <5>1, <5>2, Zenon
      <4>5. mem' = mem /\ nextId' = nextId /\ Queues' = Queues
        BY <1>2, <1>8, Zenon
      <4>6. queue'[r] \in Queues' /\ mem'[queue'[r]].id \in 1..(nextId' - 1)
        BY ONLY <4>1, <4>3, <4>5, Zenon
      <4> QED BY <4>2, <4>4, <4>6, Zenon
    <3> QED BY <3>3, <3>4, Zenon
  <2>4. ASSUME NEW q \in Queues'
        PROVE  q \in Range(list') \/ \E r \in Procs : Removes(r)' /\ queue'[r] = q
    <3>0. q \in Queues
      BY <1>8, Zenon
    <3>1. CASE q \in Range(list)
      <4>1. PICK l \in DOMAIN list : q = list[l]
        BY <3>1, Zenon DEF Range
      <4>2. CASE l = k
        BY <1>3, <1>5, <4>1, <4>2, Zenon DEF Removes
      <4>3. CASE l # k
        BY <1>6, <4>1, <4>3, Zenon
      <4> QED BY <4>2, <4>3, Zenon
    <3>2. CASE q \notin Range(list)
      <4>1. PICK r \in Procs : Removes(r) /\ queue[r] = q
        BY <1>0, <3>0, <3>2, Zenon DEF Listed
      <4>2. r # p
        BY <1>2, <4>1, Zenon DEF Removes
      <4>3. Removes(r)' /\ queue'[r] = q
        BY <1>3, <1>5, <4>1, <4>2, Zenon DEF Removes
      <4> QED BY <4>3, Zenon
    <3> QED BY <3>1, <3>2, Zenon
  <2> QED BY <2>1, <2>2, <2>3, <2>4, Zenon DEF Listed
<1>11. Pointers'
  <2>1. ASSUME NEW r \in Procs, Follows(r)'
        PROVE  /\ queue'[r] \in Pages /\ id'[r] \in 1..(nextId' - 1)
               /\ InList(id[r])' => queue'[r] \in Queues' /\ mem'[queue'[r]].id = id'[r]
    <3>1. r # p /\ Follows(r)
      BY <1>3, <2>1, Zenon DEF Follows
    <3>2. queue'[r] = queue[r] /\ id'[r] = id[r]
      BY <1>5, <3>1, Zenon
    <3>3. InList(id[r])' => InList(id[r])
      BY <1>6, <3>2, Zenon DEF InList
    <3>4. /\ queue[r] \in Pages /\ id[r] \in 1..(nextId - 1)
          /\ InList(id[r]) => queue[r] \in Queues /\ mem[queue[r]].id = id[r]
      BY <1>0, <3>1, Zenon DEF Pointers
    <3>5. mem' = mem /\ nextId' = nextId /\ Queues' = Queues
      BY <1>2, <1>8, Zenon
    <3> QED BY <3>2, <3>3, <3>4, <3>5, Zenon
  <2>2. \A r \in Procs : pc'[r] = "snd_alloc" => want'[r] \in Types
    BY <1>0, <1>2, <1>3, Zenon DEF Pointers
  <2> QED BY <2>1, <2>2, Zenon DEF Pointers
<1>12. Waiting'
  BY <1>0, <1>2, <1>3, <1>4, <1>5, WaitingSame, Zenon
<1> QED
  BY <1>7, <1>8, <1>9, <1>10, <1>11, <1>12, Zenon DEF IInv

-----------------------------------------------------------------------------
(* Steps that change the memory *)

(* The queues of the list keep their pages and ids; those of D are freed. *)
QueuesKept(D) ==
  /\ list' = list /\ nextId' = nextId
  /\ Queues' = Queues \ D /\ \A q \in Queues' : mem'[q].id = mem[q].id
  /\ \A q \in D : ~InList(mem[q].id)

(* Then the same ids are in the list. *)
LEMMA InListKept ==
  ASSUME TypeOK, Listed, NEW D, QueuesKept(D)
  PROVE  /\ \A k \in DOMAIN list : list[k] \in Queues' /\ mem'[list[k]].id = mem[list[k]].id
         /\ \A j : InList(j)' <=> InList(j)
<1>1. \A k \in DOMAIN list : list[k] \in Queues
  BY DEF TypeOK, Listed, Queues
<1>2. \A k \in DOMAIN list : list[k] \notin D
  BY Zenon DEF QueuesKept, InList
<1>3. \A k \in DOMAIN list : list[k] \in Queues' /\ mem'[list[k]].id = mem[list[k]].id
  BY <1>1, <1>2, Zenon DEF QueuesKept
<1>4. \A j : InList(j)' <=> InList(j)
  BY <1>3, Zenon DEF InList, QueuesKept
<1> QED
  BY <1>3, <1>4, Zenon

(* The list of queues still holds every queue, except the pages in D that
   were given back and that a removal was holding. *)
LEMMA ListedKept ==
  ASSUME TypeOK, Listed, NEW D, QueuesKept(D),
         \A p \in Procs : /\ Removes(p)' <=> Removes(p) /\ queue[p] \notin D
                          /\ Removes(p)' => queue'[p] = queue[p]
  PROVE  Listed'
<1>1. /\ \A k \in DOMAIN list : list[k] \in Queues' /\ mem'[list[k]].id = mem[list[k]].id
      /\ \A j : InList(j)' <=> InList(j)
  BY InListKept, Zenon
<1>2. /\ list' = list /\ nextId' = nextId /\ Queues' = Queues \ D
      /\ \A q \in Queues' : mem'[q].id = mem[q].id
  BY Zenon DEF QueuesKept
<1> USE <1>2
<1>3. \A k, l \in DOMAIN list' : mem'[list'[k]].id = mem'[list'[l]].id => k = l
  <2>1. \A k, l \in DOMAIN list : mem[list[k]].id = mem[list[l]].id => k = l
    BY Zenon DEF Listed
  <2> QED BY ONLY <1>1, <1>2, <2>1, Zenon
<1>4. \A k \in DOMAIN list' : mem'[list'[k]].use = "queue" /\ mem'[list'[k]].id \in 1..(nextId' - 1)
  BY <1>1, Zenon DEF Listed, Queues
<1>5. ASSUME NEW p \in Procs, Removes(p)'
      PROVE  /\ queue'[p] \in Queues' /\ mem'[queue'[p]].id \in 1..(nextId' - 1)
             /\ ~InList(mem[queue[p]].id)'
             /\ \A r \in Procs \ {p} : Removes(r)' => queue'[r] # queue'[p]
  <2>1. Removes(p) /\ queue'[p] = queue[p] /\ queue[p] \notin D /\ queue[p] \in Queues
    BY <1>5, Zenon DEF Listed
  <2>2. queue'[p] \in Queues' /\ mem'[queue'[p]].id = mem[queue[p]].id
    BY <2>1, Zenon
  <2>3. PICK j : j = mem[queue[p]].id
    BY Zenon
  <2>4. ~InList(j) /\ j \in 1..(nextId - 1)
    BY <2>1, <2>3, Zenon DEF Listed
  <2>5. ~InList(mem[queue[p]].id)'
    <3>1. ~InList(j)'
      BY <1>1, <2>4, Zenon
    <3> QED BY <2>2, <2>3, <3>1, Zenon DEF InList
  <2>6. \A r \in Procs \ {p} : Removes(r)' => queue'[r] # queue'[p]
    BY <2>1, Zenon DEF Listed
  <2> QED BY <2>2, <2>3, <2>4, <2>5, <2>6, Zenon
<1>6. ASSUME NEW q \in Queues'
      PROVE  q \in Range(list') \/ \E p \in Procs : Removes(p)' /\ queue'[p] = q
  <2>1. q \in Queues /\ q \notin D
    BY Zenon
  <2>2. CASE q \in Range(list)
    BY <2>2, Zenon
  <2>3. CASE q \notin Range(list)
    <3>1. PICK p \in Procs : Removes(p) /\ queue[p] = q
      BY <2>1, <2>3, Zenon DEF Listed
    <3>2. Removes(p)' /\ queue'[p] = q
      BY <2>1, <3>1, Zenon
    <3> QED BY <3>2, Zenon
  <2> QED BY <2>2, <2>3, Zenon
<1> QED
  BY <1>3, <1>4, <1>5, <1>6, Zenon DEF Listed

(* The pointers that processes keep across an unlock stay good when queues
   are only given back. *)
LEMMA PointersKept ==
  ASSUME TypeOK, Listed, Pointers, NEW D, QueuesKept(D),
         \A p \in Procs : /\ Follows(p)' => Follows(p) /\ queue'[p] = queue[p] /\ id'[p] = id[p]
                          /\ pc'[p] = "snd_alloc" => pc[p] = "snd_alloc" /\ want'[p] = want[p]
  PROVE  Pointers'
<1>1. \A j : InList(j)' <=> InList(j)
  BY InListKept, Zenon
<1>2. ASSUME NEW p \in Procs, Follows(p)'
      PROVE  /\ queue'[p] \in Pages /\ id'[p] \in 1..(nextId' - 1)
             /\ InList(id[p])' => queue'[p] \in Queues' /\ mem'[queue'[p]].id = id'[p]
  <2>1. Follows(p) /\ queue'[p] = queue[p] /\ id'[p] = id[p]
    BY <1>2, Zenon
  <2>2. queue[p] \in Pages /\ id[p] \in 1..(nextId - 1)
    BY <2>1, Zenon DEF Pointers
  <2>3. ASSUME InList(id[p])'
        PROVE  queue'[p] \in Queues' /\ mem'[queue'[p]].id = id'[p]
    <3>1. PICK j : j = id[p]
      BY Zenon
    <3>2. InList(j)'
      BY <2>1, <2>3, <3>1, Zenon DEF InList
    <3>3. InList(id[p])
      BY <1>1, <3>1, <3>2, Zenon
    <3>4. queue[p] \in Queues /\ mem[queue[p]].id = id[p]
      BY <2>1, <3>3, Zenon DEF Pointers
    <3>5. queue[p] \notin D
      BY <3>3, <3>4, Zenon DEF QueuesKept
    <3> QED BY <2>1, <3>4, <3>5, Zenon DEF QueuesKept
  <2> QED BY <2>1, <2>2, <2>3, Zenon DEF QueuesKept
<1>3. \A p \in Procs : pc'[p] = "snd_alloc" => want'[p] \in Types
  BY Zenon DEF Pointers
<1> QED
  BY <1>2, <1>3, Zenon DEF Pointers

(* The nodes in hand, in a step of p. *)
LEMMA HandsBut ==
  ASSUME Hands, NEW p \in Procs,
         \A g \in Pages : mem'[g].use = "node" => mem'[g].msg \in Messages,
         \A r \in Procs \ {p} : InHand(r)' =>
           /\ InHand(r) /\ node'[r] = node[r] /\ (pc'[r] = "snd_append" => pc[r] = "snd_append")
           /\ mem'[node[r]].use = mem[node[r]].use /\ mem'[node[r]].next = mem[node[r]].next
           /\ \A q \in Queues' : node[r] \notin Range(Items(q)')
           /\ InHand(p)' => node'[p] # node[r],
         InHand(p)' =>
           /\ node'[p] \in Pages /\ mem'[node'[p]].use = "node"
           /\ (pc'[p] = "snd_append" => mem'[node'[p]].next = None)
           /\ \A q \in Queues' : node'[p] \notin Range(Items(q)')
  PROVE  Hands'
<1>1. ASSUME NEW r \in Procs, InHand(r)'
      PROVE  /\ node'[r] \in Pages /\ mem'[node'[r]].use = "node"
             /\ pc'[r] = "snd_append" => mem'[node'[r]].next = None
             /\ \A s \in Procs \ {r} : InHand(s)' => node'[s] # node'[r]
             /\ \A q \in Queues' : node'[r] \notin Range(Items(q)')
  <2>1. CASE r = p
    BY <1>1, <2>1, Zenon
  <2>2. CASE r # p
    <3>1. /\ InHand(r) /\ node'[r] = node[r] /\ (pc'[r] = "snd_append" => pc[r] = "snd_append")
          /\ mem'[node[r]].use = mem[node[r]].use /\ mem'[node[r]].next = mem[node[r]].next
          /\ \A q \in Queues' : node[r] \notin Range(Items(q)')
      BY <1>1, <2>2, Zenon
    <3>2. ASSUME NEW s \in Procs \ {r}, InHand(s)'
          PROVE  node'[s] # node'[r]
      <4>1. CASE s = p
        BY <1>1, <2>2, <3>1, <3>2, <4>1, Zenon
      <4>2. CASE s # p
        <5>1. InHand(s) /\ node'[s] = node[s]
          BY <3>2, <4>2, Zenon
        <5>2. node[s] # node[r]
          BY ONLY <3>1, <5>1, Hands, r \in Procs, s \in Procs \ {r}, Zenon DEF Hands
        <5> QED BY ONLY <3>1, <5>1, <5>2, Zenon
      <4> QED BY <4>1, <4>2, Zenon
    <3> QED BY <3>1, <3>2, Zenon DEF Hands
  <2> QED BY <2>1, <2>2, Zenon
<1> QED
  BY <1>1, Zenon DEF Hands

(* The receivers asleep when nothing comes into their queue. *)
LEMMA WaitingKept ==
  ASSUME Waiting,
         \A p \in Procs : /\ asleep'[p] => asleep[p]
                          /\ asleep'[p] \/ pc'[p] = "rcv_sleep" =>
                               pc'[p] = pc[p] /\ queue'[p] = queue[p] /\ want'[p] = want[p],
         \A p \in Procs, q \in Queues' :
           (asleep'[p] \/ pc'[p] = "rcv_sleep") /\ queue[p] = q =>
             \A g \in Range(Items(q)') : q \in Queues /\ g \in Range(Items(q)) /\ mem'[g].msg = mem[g].msg
  PROVE  Waiting'
<1>1. ASSUME NEW p \in Procs
      PROVE  asleep'[p] => pc'[p] = "rcv_scan"
  BY Zenon DEF Waiting
<1>2. ASSUME NEW p \in Procs, asleep'[p] \/ pc'[p] = "rcv_sleep", queue'[p] \in Queues'
      PROVE  \A g \in Range(Items(queue[p])') : want'[p] \notin {0, mem'[g].msg.typ}
  <2>1. (asleep[p] \/ pc[p] = "rcv_sleep") /\ want'[p] = want[p] /\ queue'[p] = queue[p]
    BY <1>2, Zenon
  <2>2. PICK q \in Queues' : q = queue[p]
    BY <1>2, <2>1, Zenon
  <2>3. Items(queue[p])' = Items(q)'
    BY <2>1, <2>2, Zenon DEF Items
  <2>4. ASSUME NEW g \in Range(Items(q)')
        PROVE  want'[p] \notin {0, mem'[g].msg.typ}
    <3>1. q \in Queues /\ g \in Range(Items(q)) /\ mem'[g].msg = mem[g].msg
      BY <1>2, <2>2, <2>4, Zenon
    <3> QED BY <2>1, <2>2, <3>1, Zenon DEF Waiting
  <2> QED BY <2>3, <2>4, Zenon
<1> QED
  BY <1>1, <1>2, Zenon DEF Waiting

(* A page that is neither a queue nor in one becomes another such page. *)
LEMMA NodePage ==
  ASSUME ChainsFound, TypeOK, Lists, NEW g \in Pages, NEW x \in Frames, mem' = [mem EXCEPT ![g] = x],
         g \notin Queues, \A q \in Queues : g \notin Range(Items(q)), x.use # "queue",
         UNCHANGED <<list, nextId>>
  PROVE  /\ mem' \in [Pages -> Frames] /\ mem'[g] = x /\ \A h \in Pages : h # g => mem'[h] = mem[h]
         /\ Queues' = Queues /\ \A q \in Queues : Items(q)' = Items(q)
         /\ Lists' /\ QueuesKept({})
<1>0. mem \in [Pages -> Frames]
  BY Zenon DEF TypeOK
<1>1. /\ mem' \in [Pages -> Frames] /\ mem'[g] = x /\ \A h \in Pages : h # g => mem'[h] = mem[h]
      /\ Queues' = Queues \ {g}
      /\ \A q \in Queues : q # g => Items(q)' = Items(q)
      /\ Lists'
  BY <1>0, PageStep, Zenon
<1> USE <1>1
<1>2. Queues' = Queues /\ \A q \in Queues : Items(q)' = Items(q)
  BY Zenon
<1>3. QueuesKept({})
  BY <1>2, Zenon DEF QueuesKept, Queues
<1> QED
  BY <1>2, <1>3, Zenon

(* A page of the free list. *)
LEMMA FreeIs ==
  ASSUME Lists, Hands, NEW g \in FreePages
  PROVE  /\ g \in Pages /\ mem[g].use = "free" /\ g \notin Queues
         /\ \A q \in Queues : g \notin Range(Items(q))
         /\ \A r \in Procs : InHand(r) => node[r] # g /\ node[r] \in Pages
<1>1. g \in Pages /\ mem[g].use = "free"
  BY Zenon DEF FreePages
<1>2. \A q \in Queues : g \notin Range(Items(q))
  <2>1. ASSUME NEW q \in Queues, g \in Range(Items(q))
        PROVE  FALSE
    <3>1. mem[g].use = "node"
      BY <2>1, ItemsAre, Zenon
    <3> QED BY <1>1, <3>1, Zenon
  <2> QED BY <2>1, Zenon
<1> QED
  BY <1>1, <1>2, Zenon DEF Hands, Queues

(* The page of a new message. *)
LEMMA NodeIs ==
  ASSUME NEW m \in Messages, NEW x, x = [Junk EXCEPT !.use = "node", !.msg = m]
  PROVE  x \in Frames /\ x.use = "node" /\ x.next = None /\ x.msg = m
BY Zenon DEF Frames, Junk

(* What msgsnd() does when there is a page. *)
Allocates(p, g, m) ==
  /\ g \in Pages /\ mem[g].use = "free" /\ g \notin Queues /\ (\A q \in Queues : g \notin Range(Items(q)))
  /\ \A r \in Procs : InHand(r) => node[r] # g /\ node[r] \in Pages
  /\ m \in Messages /\ mem'[g].use = "node" /\ mem'[g].next = None /\ mem'[g].msg = m
  /\ mem' \in [Pages -> Frames] /\ (\A h \in Pages : h # g => mem'[h] = mem[h])
  /\ Queues' = Queues /\ (\A q \in Queues : Items(q)' = Items(q)) /\ Lists' /\ QueuesKept({})
  /\ pc' \in [Procs -> Places] /\ pc'[p] = "snd_append" /\ (\A r \in Procs : r # p => pc'[r] = pc[r])
  /\ node' \in [Procs -> Pages \cup {None}] /\ node'[p] = g /\ (\A r \in Procs : r # p => node'[r] = node[r])
  /\ sends' \in 0..MaxSends /\ UNCHANGED <<id, queue, want>>

(* msgsnd() either fails for want of a page or prepares a node that only
   the sender holds. *)
LEMMA SndAllocDoes ==
  ASSUME ChainsFound, IInv, NEW p \in Procs, SndAlloc(p)
  PROVE  (Return(p) /\ UNCHANGED <<mem, sends>>) \/ \E g, m : Allocates(p, g, m)
<1>0. TypeOK /\ Lists /\ Hands /\ Pointers
  BY Zenon DEF IInv
<1> USE <1>0
<1>1. sends < MaxSends /\ want[p] \in Types /\ UNCHANGED <<list, nextId>>
  BY Zenon DEF SndAlloc, Pointers
<1> USE <1>1
<1>2. ASSUME NEW g \in FreePages,
             mem' = [mem EXCEPT ![g] = [Junk EXCEPT !.use = "node",
                                          !.msg = [typ |-> want[p], n |-> sends + 1]]],
             sends' = sends + 1, node' = [node EXCEPT ![p] = g],
             Goto(p, "snd_append"), UNCHANGED <<id, queue, want>>
      PROVE  \E m : Allocates(p, g, m)
  <2>1. PICK m : m = [typ |-> want[p], n |-> sends + 1]
    BY Zenon
  <2>2. m \in Messages /\ sends' \in 0..MaxSends
    <3>1. sends \in Nat /\ sends + 1 \in 1..MaxSends
      BY MsgAssumption DEF TypeOK
    <3> QED BY <1>2, <2>1, <3>1 DEF Messages
  <2>3. PICK x : x = [Junk EXCEPT !.use = "node", !.msg = m]
    BY Zenon
  <2>4. x \in Frames /\ x.use = "node" /\ x.next = None /\ x.msg = m
    BY <2>2, <2>3, NodeIs, Zenon
  <2>5. /\ g \in Pages /\ mem[g].use = "free" /\ g \notin Queues /\ \A q \in Queues : g \notin Range(Items(q))
        /\ \A r \in Procs : InHand(r) => node[r] # g /\ node[r] \in Pages
    BY FreeIs, Zenon
  <2>6. mem' = [mem EXCEPT ![g] = x]
    BY <1>2, <2>1, <2>3, Zenon
  <2>7. /\ mem' \in [Pages -> Frames] /\ mem'[g] = x /\ \A h \in Pages : h # g => mem'[h] = mem[h]
        /\ Queues' = Queues /\ \A q \in Queues : Items(q)' = Items(q)
        /\ Lists' /\ QueuesKept({})
    BY <2>4, <2>5, <2>6, NodePage, Zenon
  <2>8. pc' \in [Procs -> Places] /\ pc'[p] = "snd_append" /\ \A r \in Procs : r # p => pc'[r] = pc[r]
    <3>1. "snd_append" \in Places
      BY Zenon DEF Places
    <3> QED BY <1>2, <3>1, GotoIs, Zenon
  <2>9. /\ node' \in [Procs -> Pages \cup {None}] /\ node'[p] = g
        /\ \A r \in Procs : r # p => node'[r] = node[r]
    BY <1>2, <2>5, Zenon DEF TypeOK
  <2>10. mem'[g].use = "node" /\ mem'[g].next = None /\ mem'[g].msg = m
    BY <2>4, <2>7, Zenon
  <2>11. Allocates(p, g, m)
    BY ONLY <1>2, <2>2, <2>5, <2>7, <2>8, <2>9, <2>10, Zenon DEF Allocates
  <2> QED BY <2>11, Zenon
<1> QED
  BY <1>2, Zenon DEF SndAlloc

(* msgsnd() allocates the node, or returns -1. *)
LEMMA SndAllocStep ==
  ASSUME ChainsFound, IInv, NEW p \in Procs, SndAlloc(p)
  PROVE  IInv'
<1>0. TypeOK /\ Lists /\ Hands /\ Listed /\ Pointers /\ Waiting
  BY Zenon DEF IInv
<1> USE <1>0
<1>1. /\ pc[p] = "snd_alloc" /\ UNCHANGED <<list, nextId, asleep, killed, got>>
      /\ ~Removes(p) /\ ~asleep[p]
  BY Zenon DEF SndAlloc, Waiting, Removes
<1> USE <1>1
<1>2. CASE Return(p) /\ UNCHANGED <<mem, sends>>
  BY <1>2, QuietReturn, Zenon
<1>3. CASE \E g, m : Allocates(p, g, m)
  <2>1. PICK g, m : Allocates(p, g, m)
    BY <1>3, Zenon
  <2>2. /\ g \in Pages /\ g \notin Queues /\ \A q \in Queues : g \notin Range(Items(q))
        /\ \A r \in Procs : InHand(r) => node[r] # g /\ node[r] \in Pages
    BY <2>1, Zenon DEF Allocates
  <2>3. /\ m \in Messages /\ mem'[g].use = "node" /\ mem'[g].next = None /\ mem'[g].msg = m
        /\ sends' \in 0..MaxSends /\ UNCHANGED <<id, queue, want>>
    BY <2>1, Zenon DEF Allocates
  <2>4. /\ mem' \in [Pages -> Frames] /\ \A h \in Pages : h # g => mem'[h] = mem[h]
        /\ Queues' = Queues /\ \A q \in Queues : Items(q)' = Items(q)
        /\ Lists' /\ QueuesKept({})
    BY <2>1, Zenon DEF Allocates
  <2>5. pc' \in [Procs -> Places] /\ pc'[p] = "snd_append" /\ \A r \in Procs : r # p => pc'[r] = pc[r]
    BY <2>1, Zenon DEF Allocates
  <2>6. /\ node' \in [Procs -> Pages \cup {None}] /\ node'[p] = g
        /\ \A r \in Procs : r # p => node'[r] = node[r]
    BY <2>1, Zenon DEF Allocates
  <2>7. TypeOK'
    BY <2>3, <2>4, <2>5, <2>6, Zenon DEF TypeOK
  <2>8. Hands'
    <3>1. \A h \in Pages : mem'[h].use = "node" => mem'[h].msg \in Messages
      BY <2>3, <2>4, Zenon DEF Hands
    <3>2. ASSUME NEW r \in Procs \ {p}, InHand(r)'
          PROVE  /\ InHand(r) /\ node'[r] = node[r] /\ (pc'[r] = "snd_append" => pc[r] = "snd_append")
                 /\ mem'[node[r]].use = mem[node[r]].use /\ mem'[node[r]].next = mem[node[r]].next
                 /\ \A q \in Queues' : node[r] \notin Range(Items(q)')
                 /\ InHand(p)' => node'[p] # node[r]
      <4>1. InHand(r) /\ node'[r] = node[r] /\ pc'[r] = pc[r]
        BY <2>5, <2>6, <3>2, Zenon DEF InHand
      <4>2. node[r] # g /\ mem'[node[r]] = mem[node[r]]
        BY <2>2, <2>4, <4>1, Zenon
      <4>3. \A q \in Queues' : node[r] \notin Range(Items(q)')
        BY <2>4, <4>1, Zenon DEF Hands
      <4> QED BY <2>6, <4>1, <4>2, <4>3, Zenon
    <3>3. /\ node'[p] \in Pages /\ mem'[node'[p]].use = "node" /\ mem'[node'[p]].next = None
          /\ \A q \in Queues' : node'[p] \notin Range(Items(q)')
      BY <2>2, <2>3, <2>4, <2>6, Zenon
    <3> QED BY <3>1, <3>2, <3>3, HandsBut, Zenon
  <2>9. Listed'
    BY <2>3, <2>4, <2>5, ListedKept, Zenon DEF Removes
  <2>10. Pointers'
    BY <2>3, <2>4, <2>5, PointersKept, Zenon DEF Follows
  <2>11. Waiting'
    <3>1. \A r \in Procs : /\ asleep'[r] => asleep[r]
                           /\ asleep'[r] \/ pc'[r] = "rcv_sleep" =>
                                pc'[r] = pc[r] /\ queue'[r] = queue[r] /\ want'[r] = want[r]
      BY <2>3, <2>5, Zenon
    <3>2. \A q \in Queues' : \A h \in Range(Items(q)') :
            q \in Queues /\ h \in Range(Items(q)) /\ mem'[h].msg = mem[h].msg
      <4>1. ASSUME NEW q \in Queues', NEW h \in Range(Items(q)')
            PROVE  q \in Queues /\ h \in Range(Items(q)) /\ mem'[h].msg = mem[h].msg
        <5>1. q \in Queues /\ h \in Range(Items(q))
          BY <2>4, <4>1, Zenon
        <5>2. h \in Pages /\ h # g
          BY <2>2, <5>1, ItemsAre, Zenon
        <5> QED BY <2>4, <5>1, <5>2, Zenon
      <4> QED BY <4>1, Zenon
    <3> QED BY <3>1, <3>2, WaitingKept, Zenon
  <2> QED BY <2>4, <2>7, <2>8, <2>9, <2>10, <2>11, Zenon DEF IInv
<1> QED
  BY <1>2, <1>3, SndAllocDoes, Zenon

(* msgrcv() copies the message out and frees its node. *)
LEMMA RcvCopyStep ==
  ASSUME ChainsFound, IInv, NEW p \in Procs, RcvCopy(p)
  PROVE  IInv'
<1>0. TypeOK /\ Lists /\ Hands /\ Listed /\ Pointers /\ Waiting
  BY Zenon DEF IInv
<1> USE <1>0
<1>1. /\ pc[p] = "rcv_copy" /\ mem' = [mem EXCEPT ![node[p]] = Junk] /\ Return(p)
      /\ UNCHANGED <<list, nextId, asleep, killed, sends>>
      /\ got' \in {got, [got EXCEPT ![p] = mem[node[p]].msg]}
      /\ ~Removes(p) /\ ~asleep[p] /\ InHand(p)
  BY Zenon DEF RcvCopy, Waiting, Removes, InHand
<1>2. PICK g : g = node[p]
  BY Zenon
<1>3. /\ g \in Pages /\ mem[g].use = "node" /\ mem[g].msg \in Messages /\ g \notin Queues
      /\ \A q \in Queues : g \notin Range(Items(q))
      /\ \A r \in Procs \ {p} : InHand(r) => node[r] # g /\ node[r] \in Pages
  BY <1>1, <1>2, Zenon DEF Hands, Queues
<1>4. /\ mem' \in [Pages -> Frames] /\ mem'[g] = Junk /\ \A h \in Pages : h # g => mem'[h] = mem[h]
      /\ Queues' = Queues /\ \A q \in Queues : Items(q)' = Items(q)
      /\ Lists' /\ QueuesKept({})
  BY <1>1, <1>2, <1>3, JunkIs, NodePage, Zenon
<1>5. /\ pc' \in [Procs -> Places] /\ id' \in [Procs -> Nat] /\ want' \in [Procs -> Nat]
      /\ queue' \in [Procs -> Pages \cup {None}] /\ node' \in [Procs -> Pages \cup {None}]
      /\ pc'[p] = "user"
      /\ \A r \in Procs : r # p => /\ pc'[r] = pc[r] /\ id'[r] = id[r] /\ queue'[r] = queue[r]
                                   /\ node'[r] = node[r] /\ want'[r] = want[r]
  BY <1>1, ReturnIs, Zenon
<1> USE <1>5
<1>6. TypeOK'
  <2>1. got' \in [Procs -> Messages \cup {None}]
    BY <1>1, <1>2, <1>3, Zenon DEF TypeOK
  <2> QED BY <1>1, <1>4, <2>1, Zenon DEF TypeOK
<1>7. Hands'
  <2>1. \A h \in Pages : mem'[h].use = "node" => mem'[h].msg \in Messages
    BY <1>4, JunkIs, Zenon DEF Hands
  <2>2. ASSUME NEW r \in Procs \ {p}, InHand(r)'
        PROVE  /\ InHand(r) /\ node'[r] = node[r] /\ (pc'[r] = "snd_append" => pc[r] = "snd_append")
               /\ mem'[node[r]].use = mem[node[r]].use /\ mem'[node[r]].next = mem[node[r]].next
               /\ \A q \in Queues' : node[r] \notin Range(Items(q)')
    <3>1. InHand(r) /\ node'[r] = node[r] /\ pc'[r] = pc[r]
      BY <2>2, Zenon DEF InHand
    <3>2. mem'[node[r]] = mem[node[r]]
      BY <1>3, <1>4, <3>1, Zenon
    <3>3. \A q \in Queues' : node[r] \notin Range(Items(q)')
      BY <1>4, <3>1, Zenon DEF Hands
    <3> QED BY <3>1, <3>2, <3>3, Zenon
  <2>3. ~InHand(p)'
    BY Zenon DEF InHand
  <2> QED BY <2>1, <2>2, <2>3, HandsBut, Zenon
<1>8. Listed'
  BY <1>1, <1>4, ListedKept, Zenon DEF Removes
<1>9. Pointers'
  BY <1>1, <1>4, PointersKept, Zenon DEF Follows
<1>10. Waiting'
  <2>1. \A r \in Procs : /\ asleep'[r] => asleep[r]
                         /\ asleep'[r] \/ pc'[r] = "rcv_sleep" =>
                              pc'[r] = pc[r] /\ queue'[r] = queue[r] /\ want'[r] = want[r]
    BY <1>1, Zenon
  <2>2. ASSUME NEW q \in Queues', NEW h \in Range(Items(q)')
        PROVE  q \in Queues /\ h \in Range(Items(q)) /\ mem'[h].msg = mem[h].msg
    <3>1. q \in Queues /\ h \in Range(Items(q))
      BY <1>4, <2>2, Zenon
    <3>2. h \in Pages /\ h # g
      BY <1>3, <3>1, ItemsAre, Zenon
    <3> QED BY <1>4, <3>1, <3>2, Zenon
  <2> QED BY <2>1, <2>2, WaitingKept, Zenon
<1> QED
  BY <1>4, <1>6, <1>7, <1>8, <1>9, <1>10, Zenon DEF IInv

(* msgctl() frees the queue it took out of the list. *)
LEMMA RmFreeStep ==
  ASSUME ChainsFound, IInv, NEW p \in Procs, RmFree(p)
  PROVE  IInv'
<1>0. TypeOK /\ Lists /\ Hands /\ Listed /\ Pointers /\ Waiting
  BY Zenon DEF IInv
<1> USE <1>0
<1>1. /\ pc[p] = "rm_free" /\ mem' = [mem EXCEPT ![queue[p]] = Junk] /\ Return(p)
      /\ UNCHANGED <<list, nextId, asleep, killed, got, sends>>
      /\ Removes(p) /\ ~asleep[p]
  BY Zenon DEF RmFree, Waiting, Removes
<1> USE <1>1
<1>2. PICK g : g = queue[p]
  BY Zenon
<1> USE <1>2
<1>3. /\ g \in Queues /\ g \in Pages /\ mem[g].use = "queue" /\ ~InList(mem[g].id)
      /\ \A r \in Procs \ {p} : Removes(r) => queue[r] # g
  BY Zenon DEF Listed, Queues
<1>4. \A q \in Queues : g \notin Range(Items(q))
  <2>1. ASSUME NEW q \in Queues, g \in Range(Items(q))
        PROVE  FALSE
    <3>1. mem[g].use = "node"
      BY <2>1, ItemsAre, Zenon
    <3> QED BY <1>3, <3>1, Zenon
  <2> QED BY <2>1, Zenon
<1>5. /\ mem' \in [Pages -> Frames] /\ mem'[g] = Junk /\ \A h \in Pages : h # g => mem'[h] = mem[h]
      /\ Queues' = Queues \ {g}
      /\ \A q \in Queues : q # g => Items(q)' = Items(q)
      /\ Lists'
  <2>1. mem \in [Pages -> Frames]
    BY Zenon DEF TypeOK
  <2>2. mem' = [mem EXCEPT ![g] = Junk]
    BY Zenon
  <2> QED BY <1>3, <1>4, <2>1, <2>2, JunkIs, PageStep, Zenon
<1> USE <1>5
<1>6. QueuesKept({g})
  BY <1>3, Zenon DEF QueuesKept, Queues
<1>7. /\ pc' \in [Procs -> Places] /\ id' \in [Procs -> Nat] /\ want' \in [Procs -> Nat]
      /\ queue' \in [Procs -> Pages \cup {None}] /\ node' \in [Procs -> Pages \cup {None}]
      /\ pc'[p] = "user"
      /\ \A r \in Procs : r # p => /\ pc'[r] = pc[r] /\ id'[r] = id[r] /\ queue'[r] = queue[r]
                                   /\ node'[r] = node[r] /\ want'[r] = want[r]
  BY ReturnIs, Zenon
<1>8. TypeOK'
  BY <1>7, Zenon DEF TypeOK
<1>9. Hands'
  <2>1. \A h \in Pages : mem'[h].use = "node" => mem'[h].msg \in Messages
    BY JunkIs, Zenon DEF Hands
  <2>2. ASSUME NEW r \in Procs \ {p}, InHand(r)'
        PROVE  /\ InHand(r) /\ node'[r] = node[r] /\ (pc'[r] = "snd_append" => pc[r] = "snd_append")
               /\ mem'[node[r]].use = mem[node[r]].use /\ mem'[node[r]].next = mem[node[r]].next
               /\ \A q \in Queues' : node[r] \notin Range(Items(q)')
    <3>1. InHand(r) /\ node'[r] = node[r] /\ pc'[r] = pc[r]
      BY <1>7, <2>2, Zenon DEF InHand
    <3>2. mem'[node[r]] = mem[node[r]]
      BY <1>3, <3>1, Zenon DEF Hands
    <3>3. \A q \in Queues' : node[r] \notin Range(Items(q)')
      BY <3>1 DEF Hands
    <3> QED BY <3>1, <3>2, <3>3, Zenon
  <2>3. ~InHand(p)'
    BY <1>7, Zenon DEF InHand
  <2> QED BY <2>1, <2>2, <2>3, HandsBut, Zenon
<1>10. Listed'
  <2>1. \A r \in Procs : /\ Removes(r)' <=> Removes(r) /\ queue[r] \notin {g}
                         /\ Removes(r)' => queue'[r] = queue[r]
    BY <1>3, <1>7, Zenon DEF Removes
  <2> QED BY <1>6, <2>1, ListedKept, Zenon
<1>11. Pointers'
  BY <1>6, <1>7, PointersKept, Zenon DEF Follows
<1>12. Waiting'
  <2>1. \A r \in Procs : /\ asleep'[r] => asleep[r]
                         /\ asleep'[r] \/ pc'[r] = "rcv_sleep" =>
                              pc'[r] = pc[r] /\ queue'[r] = queue[r] /\ want'[r] = want[r]
    BY <1>7, Zenon
  <2>2. ASSUME NEW q \in Queues', NEW h \in Range(Items(q)')
        PROVE  q \in Queues /\ h \in Range(Items(q)) /\ mem'[h].msg = mem[h].msg
    <3>1. q \in Queues /\ h \in Range(Items(q))
      BY <2>2, Zenon
    <3>2. h \in Pages /\ h # g
      BY <1>4, <3>1, ItemsAre, Zenon
    <3> QED BY <3>1, <3>2, Zenon
  <2> QED BY <2>1, <2>2, WaitingKept, Zenon
<1> QED
  BY <1>8, <1>9, <1>10, <1>11, <1>12, Zenon DEF IInv

(* A queue is put in front of the list. *)
Pushed(g, s) == <<g>> \o s

IsPushed(t, g, s) ==
  /\ g \in Range(t) /\ Range(s) \subseteq Range(t) /\ DOMAIN t \subseteq Nat
  /\ \A a \in DOMAIN t : \/ a = 1 /\ t[a] = g
                         \/ a - 1 \in DOMAIN s /\ t[a] = s[a - 1]

(* The sequence <<g>> \o s has g in front and the rest of it shifted by one. *)
LEMMA PushFront ==
  ASSUME NEW S, NEW s \in Seq(S), NEW g \in S
  PROVE  Pushed(g, s) \in Seq(S) /\ IsPushed(Pushed(g, s), g, s)
<1>0. PICK t : t = Pushed(g, s)
  BY Zenon
<1>1. /\ t \in Seq(S) /\ Len(t) = Len(s) + 1 /\ DOMAIN t = 1..Len(t) /\ DOMAIN s = 1..Len(s) /\ Len(s) \in Nat
      /\ \A a \in 1..Len(t) : t[a] = IF a <= 1 THEN g ELSE s[a - 1]
  BY <1>0 DEF Pushed
<1> USE <1>1
<1>2. t[1] = g /\ 1 \in DOMAIN t
  OBVIOUS
<1>3. \A l \in DOMAIN s : l + 1 \in DOMAIN t /\ t[l + 1] = s[l]
  OBVIOUS
<1>4. \A a \in DOMAIN t : \/ a = 1 /\ t[a] = g
                          \/ a - 1 \in DOMAIN s /\ t[a] = s[a - 1]
  OBVIOUS
<1>5. g \in Range(t) /\ Range(s) \subseteq Range(t)
  BY <1>2, <1>3 DEF Range
<1>6. DOMAIN t \subseteq Nat
  OBVIOUS
<1> QED
  BY <1>0, <1>4, <1>5, <1>6, Zenon DEF IsPushed

(* The page of a new queue. *)
NewQueue(i, k) == [Junk EXCEPT !.use = "queue", !.id = i, !.key = k]

(* A new queue is a frame in use as a queue, with no message. *)
LEMMA QueueIs ==
  ASSUME NEW k \in Keys, NEW i \in Nat
  PROVE  /\ NewQueue(i, k) \in Frames /\ NewQueue(i, k).use = "queue"
         /\ NewQueue(i, k).head = None /\ NewQueue(i, k).id = i
BY Zenon DEF Frames, Junk, NewQueue

(* What creating a queue on the page g does. *)
Creates(g) ==
  /\ g \in Pages /\ mem[g].use = "free" /\ g \notin Queues /\ (\A q \in Queues : g \notin Range(Items(q)))
  /\ \A r \in Procs : InHand(r) => node[r] # g /\ node[r] \in Pages
  /\ mem' \in [Pages -> Frames] /\ mem'[g].use = "queue" /\ mem'[g].id = nextId
  /\ \A h \in Pages : h # g => mem'[h] = mem[h]
  /\ Queues' = Queues \cup {g} /\ (\A q \in Queues : Items(q)' = Items(q)) /\ Items(g)' = <<>> /\ Lists'
  /\ list' \in Seq(Pages) /\ IsPushed(list', g, list)

(* msgget() creates a queue on a page nobody was using. *)
LEMMA MsggetDoes ==
  ASSUME ChainsFound, IInv, NEW p \in Procs, NEW key \in Keys, Msgget(p, key)
  PROVE  \E g : Creates(g)
<1>0. TypeOK /\ Lists /\ Hands
  BY Zenon DEF IInv
<1> USE <1>0
<1>1. PICK g \in FreePages :
        /\ mem' = [mem EXCEPT ![g] = [Junk EXCEPT !.use = "queue", !.id = nextId, !.key = key]]
        /\ list' = <<g>> \o list
  BY Zenon DEF Msgget
<1>2. PICK x : x = NewQueue(nextId, key)
  BY Zenon
<1>3. nextId \in Nat \ {0} /\ list \in Seq(Pages) /\ mem \in [Pages -> Frames]
  BY Zenon DEF TypeOK
<1>4. x \in Frames /\ x.use = "queue" /\ x.head = None /\ x.id = nextId
  <2>1. nextId \in Nat
    BY <1>3, Zenon
  <2> QED BY <1>2, <2>1, QueueIs, Zenon
<1>5. /\ g \in Pages /\ mem[g].use = "free" /\ g \notin Queues /\ \A q \in Queues : g \notin Range(Items(q))
      /\ \A r \in Procs : InHand(r) => node[r] # g /\ node[r] \in Pages
  BY FreeIs, Zenon
<1>6. /\ mem' \in [Pages -> Frames] /\ mem'[g] = x /\ \A h \in Pages : h # g => mem'[h] = mem[h]
      /\ Queues' = Queues \cup {g}
      /\ \A q \in Queues : Items(q)' = Items(q)
      /\ Items(g)' = <<>> /\ Lists'
  <2>1. mem' = [mem EXCEPT ![g] = x]
    BY <1>1, <1>2, Zenon DEF NewQueue
  <2>2. /\ mem' \in [Pages -> Frames] /\ mem'[g] = x /\ \A h \in Pages : h # g => mem'[h] = mem[h]
        /\ Queues' = Queues \cup {g}
        /\ \A q \in Queues : q # g => Items(q)' = Items(q)
        /\ Items(g)' = <<>> /\ Lists'
    BY <1>3, <1>4, <1>5, <2>1, PageStep, Zenon
  <2> QED BY <1>5, <2>2, Zenon
<1>7. list' \in Seq(Pages) /\ IsPushed(list', g, list)
  <2>1. list' = Pushed(g, list)
    BY <1>1, Zenon DEF Pushed
  <2> QED BY ONLY <1>3, <1>5, <2>1, PushFront, Zenon
<1>8. Creates(g)
  BY ONLY <1>4, <1>5, <1>6, <1>7, Zenon DEF Creates
<1> QED
  BY <1>8, Zenon

(* msgget() creates a queue. *)
LEMMA MsggetStep ==
  ASSUME ChainsFound, IInv, NEW p \in Procs, NEW key \in Keys, Msgget(p, key)
  PROVE  IInv'
<1>0. TypeOK /\ Lists /\ Hands /\ Listed /\ Pointers /\ Waiting
  BY Zenon DEF IInv
<1> USE <1>0
<1>1. nextId' = nextId + 1 /\ UNCHANGED <<pc, id, queue, node, want, asleep, killed, got, sends>>
  BY Zenon DEF Msgget, locals
<1> USE <1>1
<1>2. nextId \in Nat \ {0} /\ list \in Seq(Pages) /\ mem \in [Pages -> Frames]
  BY Zenon DEF TypeOK
<1>3. PICK g : Creates(g)
  BY MsggetDoes, Zenon
<1>4. /\ g \in Pages /\ g \notin Queues /\ \A q \in Queues : g \notin Range(Items(q))
      /\ \A r \in Procs : InHand(r) => node[r] # g /\ node[r] \in Pages
  BY <1>3, Zenon DEF Creates
<1>5. /\ mem' \in [Pages -> Frames] /\ mem'[g].use = "queue" /\ mem'[g].id = nextId
      /\ \A h \in Pages : h # g => mem'[h] = mem[h]
      /\ Queues' = Queues \cup {g}
      /\ \A q \in Queues : Items(q)' = Items(q)
      /\ Items(g)' = <<>> /\ Lists'
  BY <1>3, Zenon DEF Creates
<1>6. /\ list' \in Seq(Pages) /\ g \in Range(list') /\ Range(list) \subseteq Range(list')
      /\ \A a \in DOMAIN list' : \/ a = 1 /\ list'[a] = g
                                 \/ a - 1 \in DOMAIN list /\ list'[a] = list[a - 1]
      /\ DOMAIN list' \subseteq Nat
  BY <1>3, Zenon DEF Creates, IsPushed
<1>7. \A q \in Queues : q \in Pages /\ q # g /\ mem'[q] = mem[q]
  BY <1>4, <1>5, Zenon DEF Queues
<1>8. \A l \in DOMAIN list : list[l] \in Queues /\ mem'[list[l]] = mem[list[l]]
  <2>1. \A l \in DOMAIN list : list[l] \in Pages
    BY <1>2
  <2>2. \A l \in DOMAIN list : mem[list[l]].use = "queue"
    BY Zenon DEF Listed
  <2>3. \A l \in DOMAIN list : list[l] \in Queues
    BY ONLY <2>1, <2>2, Zenon DEF Queues
  <2> QED BY <1>7, <2>3, Zenon
<1>9. \A q \in Queues' : \A h \in Range(Items(q)') :
         q \in Queues /\ h \in Range(Items(q)) /\ mem'[h] = mem[h]
  <2>1. ASSUME NEW q \in Queues', NEW h \in Range(Items(q)')
        PROVE  q \in Queues /\ h \in Range(Items(q)) /\ mem'[h] = mem[h]
    <3>1. Range(<<>>) = {}
      BY DEF Range
    <3>2. q \in Queues /\ h \in Range(Items(q))
      BY <1>5, <2>1, <3>1, Zenon
    <3>3. h \in Pages /\ h # g
      BY <1>4, <3>2, ItemsAre, Zenon
    <3> QED BY <1>5, <3>2, <3>3, Zenon
  <2> QED BY <2>1, Zenon
<1>10. TypeOK'
  <2>1. nextId' \in Nat \ {0}
    BY <1>2
  <2> QED BY <1>5, <1>6, <2>1, Zenon DEF TypeOK
<1>11. Hands'
  <2>1. \A h \in Pages : mem'[h].use = "node" => mem'[h].msg \in Messages
    BY <1>5, Zenon DEF Hands
  <2>2. ASSUME NEW r \in Procs, InHand(r)'
        PROVE  /\ InHand(r) /\ node'[r] = node[r] /\ (pc'[r] = "snd_append" => pc[r] = "snd_append")
               /\ mem'[node[r]].use = mem[node[r]].use /\ mem'[node[r]].next = mem[node[r]].next
               /\ \A q \in Queues' : node[r] \notin Range(Items(q)')
    <3>1. InHand(r) /\ node'[r] = node[r] /\ pc'[r] = pc[r]
      BY <2>2, Zenon DEF InHand
    <3>2. mem'[node[r]] = mem[node[r]]
      BY <1>4, <1>5, <3>1, Zenon
    <3>3. \A q \in Queues' : node[r] \notin Range(Items(q)')
      BY <1>9, <3>1, Zenon DEF Hands
    <3> QED BY <3>1, <3>2, <3>3, Zenon
  <2>3. \A r \in Procs \ {p} : InHand(p)' /\ InHand(r)' => node'[p] # node[r]
    BY Zenon DEF Hands, InHand
  <2>4. InHand(p)' => /\ node'[p] \in Pages /\ mem'[node'[p]].use = "node"
                      /\ (pc'[p] = "snd_append" => mem'[node'[p]].next = None)
                      /\ \A q \in Queues' : node'[p] \notin Range(Items(q)')
    BY <2>2, Zenon DEF Hands
  <2> QED BY <2>1, <2>2, <2>3, <2>4, HandsBut, Zenon
<1>12. \A j : InList(j)' => j = nextId \/ InList(j)
  <2> SUFFICES ASSUME NEW j, InList(j)'
               PROVE  j = nextId \/ InList(j)
    BY Zenon
  <2>1. PICK a \in DOMAIN list' : mem'[list'[a]].id = j
    BY Zenon DEF InList
  <2>2. CASE a = 1 /\ list'[a] = g
    BY <1>5, <2>1, <2>2, Zenon
  <2>3. CASE a - 1 \in DOMAIN list /\ list'[a] = list[a - 1]
    BY <1>8, <2>1, <2>3, Zenon DEF InList
  <2> QED BY <1>6, <2>2, <2>3, Zenon
<1>13. \A j \in 1..(nextId - 1) : j # nextId /\ j \in 1..(nextId' - 1)
  BY <1>2
<1>14. Listed'
  <2>1. ASSUME NEW a \in DOMAIN list'
        PROVE  \/ a = 1 /\ list'[a] = g /\ mem'[list'[a]].id = nextId
               \/ /\ a - 1 \in DOMAIN list /\ list'[a] = list[a - 1] /\ mem'[list'[a]].id = mem[list[a - 1]].id
                  /\ mem[list[a - 1]].id # nextId
    BY <1>5, <1>6, <1>8, <1>13, Zenon DEF Listed
  <2>2. ASSUME NEW a \in DOMAIN list', NEW b \in DOMAIN list', mem'[list'[a]].id = mem'[list'[b]].id
        PROVE  a = b
    <3>1. a \in Nat /\ b \in Nat
      BY <1>6, Zenon
    <3>2. CASE mem'[list'[a]].id = nextId
      BY <2>1, <2>2, <3>2, Zenon
    <3>3. CASE mem'[list'[a]].id # nextId
      <4>0. /\ a - 1 \in DOMAIN list /\ b - 1 \in DOMAIN list
            /\ mem[list[a - 1]].id = mem[list[b - 1]].id
        BY <2>1, <2>2, <3>3, Zenon
      <4>1. a - 1 = b - 1
        BY ONLY <1>0, <4>0, Zenon DEF Listed
      <4> QED BY <3>1, <4>1
    <3> QED BY <3>2, <3>3, Zenon
  <2>3. ASSUME NEW a \in DOMAIN list'
        PROVE  mem'[list'[a]].use = "queue" /\ mem'[list'[a]].id \in 1..(nextId' - 1)
    <3>1. nextId \in 1..(nextId' - 1)
      BY <1>2
    <3>2. mem'[list'[a]].id \in 1..(nextId' - 1)
      BY <1>13, <2>1, <3>1, Zenon DEF Listed
    <3>3. list'[a] \in Queues'
      BY <1>5, <1>6, <1>8, Zenon
    <3> QED BY <3>2, <3>3, Zenon DEF Queues
  <2>4. ASSUME NEW r \in Procs, Removes(r)'
        PROVE  /\ queue'[r] \in Queues' /\ mem'[queue'[r]].id \in 1..(nextId' - 1)
               /\ ~InList(mem[queue[r]].id)'
               /\ \A s \in Procs \ {r} : Removes(s)' => queue'[s] # queue'[r]
    <3>1. Removes(r) /\ queue'[r] = queue[r]
      BY <2>4, Zenon DEF Removes
    <3>2. PICK j : j = mem[queue[r]].id
      BY Zenon
    <3>3. queue[r] \in Queues /\ j \in 1..(nextId - 1) /\ ~InList(j)
      BY <3>1, <3>2, Zenon DEF Listed
    <3>4. ~InList(j)' /\ mem'[queue'[r]].id = j
      BY <1>7, <1>12, <1>13, <3>1, <3>2, <3>3, Zenon
    <3>5. ~InList(mem[queue[r]].id)'
      BY <3>4, Zenon DEF InList
    <3>6. \A s \in Procs \ {r} : Removes(s)' => queue'[s] # queue'[r]
      BY <3>1, Zenon DEF Listed, Removes
    <3> QED BY <1>5, <1>13, <3>1, <3>3, <3>4, <3>5, <3>6, Zenon
  <2>5. ASSUME NEW q \in Queues'
        PROVE  q \in Range(list') \/ \E r \in Procs : Removes(r)' /\ queue'[r] = q
    <3>1. CASE q = g
      BY <1>6, <3>1, Zenon
    <3>2. CASE q # g
      <4>1. q \in Queues
        BY <1>5, <2>5, <3>2, Zenon
      <4> QED BY <1>6, <4>1, Zenon DEF Listed, Removes
    <3> QED BY <3>1, <3>2, Zenon
  <2> QED BY <2>2, <2>3, <2>4, <2>5, Zenon DEF Listed
<1>15. Pointers'
  <2>1. ASSUME NEW r \in Procs, Follows(r)'
        PROVE  /\ queue'[r] \in Pages /\ id'[r] \in 1..(nextId' - 1)
               /\ InList(id[r])' => queue'[r] \in Queues' /\ mem'[queue'[r]].id = id'[r]
    <3>1. Follows(r) /\ queue'[r] = queue[r] /\ id'[r] = id[r]
      BY <2>1, Zenon DEF Follows
    <3>2. queue[r] \in Pages /\ id[r] \in 1..(nextId - 1)
      BY <3>1, Zenon DEF Pointers
    <3>3. InList(id[r])' => InList(id[r])
      <4>1. PICK j : j = id[r]
        BY Zenon
      <4>2. InList(j)' => InList(j)
        BY <1>12, <1>13, <3>2, <4>1, Zenon
      <4> QED BY <3>1, <4>1, <4>2, Zenon DEF InList
    <3>4. InList(id[r]) => queue[r] \in Queues /\ mem[queue[r]].id = id[r]
      BY <3>1, Zenon DEF Pointers
    <3> QED BY <1>5, <1>7, <1>13, <3>1, <3>2, <3>3, <3>4, Zenon
  <2>2. \A r \in Procs : pc'[r] = "snd_alloc" => want'[r] \in Types
    BY Zenon DEF Pointers
  <2> QED BY <2>1, <2>2, Zenon DEF Pointers
<1>16. Waiting'
  BY <1>9, WaitingKept, Zenon
<1> QED
  BY <1>5, <1>10, <1>11, <1>14, <1>15, <1>16, Zenon DEF IInv

(* What a step that relinks one queue leaves alone. *)
LEMMA RelinkedKept ==
  ASSUME NEW q \in Queues, Relinked(mem, mem', q, Range(Items(q))), Queues' = Queues,
         UNCHANGED <<list, nextId>>, Hands
  PROVE  /\ QueuesKept({}) /\ mem' \in [Pages -> Frames]
         /\ \A g \in Pages : mem'[g].use = "node" => mem'[g].msg \in Messages
         /\ \A g \in Pages : mem'[g].use = mem[g].use /\ mem'[g].msg = mem[g].msg
         /\ \A g \in Pages : g \notin Range(Items(q)) => mem'[g].next = mem[g].next
BY Zenon DEF Relinked, QueuesKept, Queues, Hands

(* What appending a node does. *)
Appends(p, q, n) ==
  /\ q \in Queues /\ q = queue[p] /\ n \in Pages /\ n = node[p] /\ mem[n].msg \in Messages
  /\ \A r \in Procs \ {p} : InHand(r) => node[r] # n
  /\ Queues' = Queues /\ Items(q) \in Seq(Pages) /\ Items(q)' = Append(Items(q), n)
  /\ Range(Items(q)') = Range(Items(q)) \cup {n}
  /\ (\A r \in Queues : r # q => Items(r)' = Items(r)) /\ Lists' /\ QueuesKept({})
  /\ mem' \in [Pages -> Frames] /\ (\A g \in Pages : mem'[g].use = "node" => mem'[g].msg \in Messages)
  /\ \A g \in Pages : mem'[g].use = mem[g].use /\ mem'[g].msg = mem[g].msg
  /\ \A g \in Pages : g \notin Range(Items(q)) => mem'[g].next = mem[g].next

(* msgsnd() links the node it holds behind the last one of its queue. *)
LEMMA SndAppendDoes ==
  ASSUME ChainsFound, IInv, NEW p \in Procs, SndAppend(p)
  PROVE  \E q, n : Appends(p, q, n)
<1>0. TypeOK /\ Lists /\ Hands /\ Pointers
  BY Zenon DEF IInv
<1> USE <1>0
<1>1. PICK q, n : q = queue[p] /\ n = node[p]
  BY Zenon
<1> USE <1>1
<1>2. /\ pc[p] = "snd_append" /\ mem[q].use = "queue" /\ mem' = Linked(q, n)
      /\ UNCHANGED <<list, nextId>> /\ InHand(p) /\ Follows(p)
  BY Zenon DEF SndAppend, InHand, Follows
<1> USE <1>2
<1>3. q \in Pages /\ q \in Queues /\ mem \in [Pages -> Frames]
  BY Zenon DEF Pointers, Queues, TypeOK
<1> USE <1>3
<1>4. /\ n \in Pages /\ mem[n].use = "node" /\ mem[n].next = None /\ mem[n].msg \in Messages
      /\ \A r \in Procs \ {p} : InHand(r) => node[r] # n
      /\ \A r \in Queues : n \notin Range(Items(r))
  BY Zenon DEF Hands
<1>5. IsList(mem, q, Items(q)) /\ Items(q) \in Seq(Pages)
  BY ItemsAre, Zenon
<1>6. PICK s : s = Append(Items(q), n)
  BY Zenon
<1>7. Relinked(mem, mem', q, Range(Items(q))) /\ IsList(mem', q, s) /\ Range(s) = Range(Items(q)) \cup {n}
  BY <1>4, <1>5, <1>6, AppendLinks
<1> USE <1>7
<1>8. \A r \in Queues : r # q => Range(s) \cap Range(Items(r)) = {}
  BY <1>4, Zenon DEF Lists
<1>9. Queues' = Queues /\ Items(q)' = s /\ (\A r \in Queues : r # q => Items(r)' = Items(r)) /\ Lists'
  BY <1>8, RelinkStep, Zenon
<1>10. /\ QueuesKept({}) /\ mem' \in [Pages -> Frames]
       /\ \A g \in Pages : mem'[g].use = "node" => mem'[g].msg \in Messages
       /\ \A g \in Pages : mem'[g].use = mem[g].use /\ mem'[g].msg = mem[g].msg
       /\ \A g \in Pages : g \notin Range(Items(q)) => mem'[g].next = mem[g].next
  BY <1>9, RelinkedKept, Zenon
<1>11. Appends(p, q, n)
  <2>1. Items(q)' = Append(Items(q), n) /\ Range(Items(q)') = Range(Items(q)) \cup {n}
    BY <1>6, <1>9, Zenon
  <2> QED BY ONLY <1>1, <1>3, <1>4, <1>5, <1>9, <1>10, <2>1, Zenon DEF Appends
<1> QED
  BY <1>11, Zenon

(* msgsnd() appends the node and wakes the receivers up. *)
LEMMA SndAppendStep ==
  ASSUME ChainsFound, IInv, NEW p \in Procs, SndAppend(p)
  PROVE  IInv'
<1>0. TypeOK /\ Lists /\ Hands /\ Listed /\ Pointers /\ Waiting
  BY Zenon DEF IInv
<1> USE <1>0
<1>1. PICK q, n : Appends(p, q, n)
  BY SndAppendDoes, Zenon
<1> USE <1>1
<1>2. /\ q \in Queues /\ q = queue[p] /\ n \in Pages
      /\ \A r \in Procs \ {p} : InHand(r) => node[r] # n
  BY Zenon DEF Appends
<1>3. /\ pc[p] = "snd_append" /\ Unlocked(q) /\ Wakeup(q) /\ Return(p)
      /\ UNCHANGED <<list, nextId, killed, got, sends>> /\ ~Removes(p)
  BY <1>2, Zenon DEF SndAppend, Removes
<1> USE <1>3
<1>4. /\ Queues' = Queues /\ Range(Items(q)') = Range(Items(q)) \cup {n}
      /\ (\A r \in Queues : r # q => Items(r)' = Items(r)) /\ Lists'
  BY Zenon DEF Appends
<1>5. /\ QueuesKept({}) /\ mem' \in [Pages -> Frames]
      /\ \A g \in Pages : mem'[g].use = "node" => mem'[g].msg \in Messages
      /\ \A g \in Pages : mem'[g].use = mem[g].use /\ mem'[g].msg = mem[g].msg
      /\ \A g \in Pages : g \notin Range(Items(q)) => mem'[g].next = mem[g].next
  BY Zenon DEF Appends
<1>6. /\ pc' \in [Procs -> Places] /\ id' \in [Procs -> Nat] /\ want' \in [Procs -> Nat]
      /\ queue' \in [Procs -> Pages \cup {None}] /\ node' \in [Procs -> Pages \cup {None}]
      /\ pc'[p] = "user"
      /\ \A r \in Procs : r # p => /\ pc'[r] = pc[r] /\ id'[r] = id[r] /\ queue'[r] = queue[r]
                                   /\ node'[r] = node[r] /\ want'[r] = want[r]
  BY ReturnIs, Zenon
<1>7. /\ asleep' \in [Procs -> BOOLEAN]
      /\ \A r \in Procs : asleep'[r] => asleep[r] /\ queue[r] # q
  BY Zenon DEF Wakeup
<1> USE <1>7
<1>8. TypeOK'
  BY <1>5, <1>6, Zenon DEF TypeOK
<1>9. Hands'
  <2>1. ASSUME NEW r \in Procs \ {p}, InHand(r)'
        PROVE  /\ InHand(r) /\ node'[r] = node[r] /\ (pc'[r] = "snd_append" => pc[r] = "snd_append")
               /\ mem'[node[r]].use = mem[node[r]].use /\ mem'[node[r]].next = mem[node[r]].next
               /\ \A x \in Queues' : node[r] \notin Range(Items(x)')
    <3>1. InHand(r) /\ node'[r] = node[r] /\ pc'[r] = pc[r]
      BY <1>6, <2>1, Zenon DEF InHand
    <3>2. node[r] \in Pages /\ node[r] # n /\ \A x \in Queues : node[r] \notin Range(Items(x))
      BY <1>2, <3>1, Zenon DEF Hands
    <3>3. \A x \in Queues' : node[r] \notin Range(Items(x)')
      BY <1>4, <3>2, Zenon
    <3> QED BY <1>2, <1>5, <3>1, <3>2, <3>3, Zenon
  <2>2. ~InHand(p)'
    BY <1>6, Zenon DEF InHand
  <2> QED BY <1>5, <2>1, <2>2, HandsBut, Zenon
<1>10. Listed'
  BY <1>5, <1>6, ListedKept, Zenon DEF Removes
<1>11. Pointers'
  BY <1>5, <1>6, PointersKept, Zenon DEF Follows
<1>12. Waiting'
  <2>0. ~asleep[p]
    BY Zenon DEF Waiting
  <2>1. \A r \in Procs : /\ asleep'[r] => asleep[r]
                         /\ asleep'[r] \/ pc'[r] = "rcv_sleep" =>
                              pc'[r] = pc[r] /\ queue'[r] = queue[r] /\ want'[r] = want[r]
    BY <1>6, <2>0, Zenon
  <2>2. \A r \in Procs : asleep'[r] \/ pc'[r] = "rcv_sleep" => queue[r] # q
    BY <2>1, Zenon DEF Unlocked
  <2>3. ASSUME NEW x \in Queues', x # q, NEW h \in Range(Items(x)')
        PROVE  x \in Queues /\ h \in Range(Items(x)) /\ mem'[h].msg = mem[h].msg
    <3>1. x \in Queues /\ h \in Range(Items(x))
      BY <1>4, <2>3, Zenon
    <3>2. h \in Pages
      BY <3>1, ItemsAre, Zenon
    <3> QED BY <1>5, <3>1, <3>2, Zenon
  <2> QED BY <2>1, <2>2, <2>3, WaitingKept, Zenon
<1> QED
  BY <1>4, <1>8, <1>9, <1>10, <1>11, <1>12, Zenon DEF IInv

(* msgctl() frees the messages of the queue it took out of the list. *)
LEMMA RmDrainStep ==
  ASSUME ChainsFound, IInv, NEW p \in Procs, RmDrain(p)
  PROVE  IInv'
<1>0. TypeOK /\ Lists /\ Hands /\ Listed /\ Pointers /\ Waiting
  BY Zenon DEF IInv
<1> USE <1>0
<1>1. PICK q : q = queue[p]
  BY Zenon
<1>2. /\ pc[p] = "rm_drain" /\ Removes(p) /\ Wakeup(q) /\ Goto(p, "rm_free")
      /\ mem' = [g \in Pages |->
                   IF g = q THEN [mem[q] EXCEPT !.head = None, !.tail = None]
                   ELSE IF g \in Range(Items(q)) THEN Junk ELSE mem[g]]
      /\ UNCHANGED <<list, nextId, id, queue, node, want, killed, got, sends>>
  BY <1>1, Zenon DEF RmDrain, Removes, locals
<1>3. q \in Queues /\ mem \in [Pages -> Frames]
  BY <1>1, <1>2, Zenon DEF Listed, TypeOK
<1>4. /\ mem' \in [Pages -> Frames]
      /\ mem'[q].id = mem[q].id /\ mem'[q].use = "queue"
      /\ \A g \in Pages : g # q => mem'[g] = IF g \in Range(Items(q)) THEN Junk ELSE mem[g]
      /\ Queues' = Queues /\ Items(q)' = <<>> /\ (\A r \in Queues : r # q => Items(r)' = Items(r))
      /\ Lists'
  BY <1>2, <1>3, DrainStep, Zenon
<1> USE <1>4
<1>5. \A r \in Queues : r \in Pages /\ \A g \in Range(Items(r)) : g \in Pages /\ mem[g].use = "node"
  BY ItemsAre, Zenon
<1>6. QueuesKept({})
  <2>1. \A r \in Queues : mem'[r].id = mem[r].id
    BY <1>3, <1>5, Zenon DEF Queues
  <2> QED BY <1>2, <2>1, Zenon DEF QueuesKept
<1>7. pc' \in [Procs -> Places] /\ pc'[p] = "rm_free" /\ \A r \in Procs : r # p => pc'[r] = pc[r]
  <2>1. "rm_free" \in Places
    BY Zenon DEF Places
  <2> QED BY <1>2, <2>1, GotoIs, Zenon
<1>8. asleep' \in [Procs -> BOOLEAN] /\ \A r \in Procs : asleep'[r] => asleep[r]
  BY <1>2, Zenon DEF Wakeup
<1>9. TypeOK'
  BY <1>2, <1>7, <1>8, Zenon DEF TypeOK
<1>10. \A x \in Queues' : \A h \in Range(Items(x)') :
         x \in Queues /\ h \in Range(Items(x)) /\ mem'[h] = mem[h]
  <2>1. ASSUME NEW x \in Queues', NEW h \in Range(Items(x)')
        PROVE  x \in Queues /\ h \in Range(Items(x)) /\ mem'[h] = mem[h]
    <3>1. Range(<<>>) = {}
      BY DEF Range
    <3>2. x \in Queues /\ x # q /\ h \in Range(Items(x))
      BY <2>1, <3>1, Zenon
    <3>3. h \notin Range(Items(q))
      BY <1>3, <3>2, Zenon DEF Lists
    <3>4. h \in Pages /\ h # q
      BY <1>3, <1>5, <3>2, Zenon DEF Queues
    <3> QED BY <3>2, <3>3, <3>4, Zenon
  <2> QED BY <2>1, Zenon
<1>11. Hands'
  <2>1. \A h \in Pages : mem'[h].use = "node" => mem'[h].msg \in Messages
    BY JunkIs, Zenon DEF Hands
  <2>2. ASSUME NEW r \in Procs \ {p}, InHand(r)'
        PROVE  /\ InHand(r) /\ node'[r] = node[r] /\ (pc'[r] = "snd_append" => pc[r] = "snd_append")
               /\ mem'[node[r]].use = mem[node[r]].use /\ mem'[node[r]].next = mem[node[r]].next
               /\ \A x \in Queues' : node[r] \notin Range(Items(x)')
    <3>1. InHand(r) /\ node'[r] = node[r] /\ pc'[r] = pc[r]
      BY <1>2, <1>7, <2>2, Zenon DEF InHand
    <3>2. node[r] \in Pages /\ node[r] # q /\ \A x \in Queues : node[r] \notin Range(Items(x))
      BY <1>3, <3>1, Zenon DEF Hands, Queues
    <3>3. mem'[node[r]] = mem[node[r]]
      BY <1>3, <3>2, Zenon
    <3>4. \A x \in Queues' : node[r] \notin Range(Items(x)')
      BY <1>10, <3>2, Zenon
    <3> QED BY <3>1, <3>3, <3>4, Zenon
  <2>3. ~InHand(p)'
    BY <1>7, Zenon DEF InHand
  <2> QED BY <2>1, <2>2, <2>3, HandsBut, Zenon
<1>12. Listed'
  BY <1>2, <1>6, <1>7, ListedKept, Zenon DEF Removes
<1>13. Pointers'
  BY <1>2, <1>6, <1>7, PointersKept, Zenon DEF Follows
<1>14. Waiting'
  <2>0. ~asleep[p]
    BY <1>2, Zenon DEF Waiting
  <2>1. \A r \in Procs : /\ asleep'[r] => asleep[r]
                         /\ asleep'[r] \/ pc'[r] = "rcv_sleep" =>
                              pc'[r] = pc[r] /\ queue'[r] = queue[r] /\ want'[r] = want[r]
    BY <1>2, <1>7, <1>8, <2>0, Zenon
  <2> QED BY <1>10, <2>1, WaitingKept, Zenon
<1> QED
  BY <1>9, <1>11, <1>12, <1>13, <1>14, Zenon DEF IInv

(* What taking the message at place k out of a queue does. *)
Unlinks(q, k, n) ==
  /\ q \in Queues /\ n \in Pages /\ n = Items(q)[k] /\ mem[n].use = "node" /\ n \in Range(Items(q))
  /\ Queues' = Queues /\ Items(q) \in Seq(Pages) /\ Items(q)' = Without(Items(q), k)
  /\ \A x \in Queues' : \A h \in Range(Items(x)') : x \in Queues /\ h \in Range(Items(x)) /\ h # n
  /\ (\A r \in Queues : r # q => Items(r)' = Items(r)) /\ Lists' /\ QueuesKept({})
  /\ mem' \in [Pages -> Frames] /\ (\A g \in Pages : mem'[g].use = "node" => mem'[g].msg \in Messages)
  /\ \A g \in Pages : mem'[g].use = mem[g].use /\ mem'[g].msg = mem[g].msg
  /\ \A g \in Pages : g \notin Range(Items(q)) => mem'[g].next = mem[g].next

(* The relinking in msgrcv() takes one node out and keeps the others in order. *)
LEMMA UnlinkDoes ==
  ASSUME ChainsFound, IInv, NEW p \in Procs, NEW q, q = queue[p], pc[p] = "rcv_scan", mem[q].use = "queue",
         NEW k \in DOMAIN Items(q), mem' = Unlink(q, Items(q), k), UNCHANGED <<list, nextId>>
  PROVE  \E n : Unlinks(q, k, n)
<1>0. TypeOK /\ Lists /\ Hands /\ Pointers
  BY Zenon DEF IInv
<1> USE <1>0
<1>1. q \in Pages /\ q \in Queues /\ mem \in [Pages -> Frames]
  BY Zenon DEF Pointers, Follows, Queues, TypeOK
<1> USE <1>1
<1>2. PICK s, w, n : s = Items(q) /\ w = Without(s, k) /\ n = s[k]
  BY Zenon
<1>3. IsList(mem, q, s) /\ s \in Seq(Pages) /\ k \in DOMAIN s /\ \A i, j \in DOMAIN s : s[i] = s[j] => i = j
  <2>1. IsList(mem, q, s) /\ k \in DOMAIN s
    BY <1>2, ItemsAre, Zenon
  <2> QED BY <2>1, Zenon DEF IsList
<1>4. Relinked(mem, mem', q, Range(Items(q))) /\ IsList(mem', q, w)
  <2>1. Relinked(mem, Unlink(q, s, k), q, Range(s)) /\ IsList(Unlink(q, s, k), q, Without(s, k))
    BY ONLY <1>1, <1>3, RemoveUnlinks, mem[q].use = "queue", Zenon
  <2> QED BY <1>2, <2>1, Zenon
<1>5. Range(w) \subseteq Range(s) /\ n \notin Range(w) /\ n \in Range(s) /\ n \in Pages /\ mem[n].use = "node"
  <2>1. Range(w) \subseteq Range(s)
    BY ONLY <1>2, <1>3, WithoutIs, Zenon
  <2>2. n \notin Range(w)
    BY ONLY <1>2, <1>3, WithoutInjective, Zenon
  <2>3. n \in Range(s) /\ n \in Pages
    BY ONLY <1>2, <1>3 DEF Range
  <2>4. mem[n].use = "node"
    BY <1>2, <1>3, Zenon DEF IsList
  <2> QED BY <2>1, <2>2, <2>3, <2>4, Zenon
<1> USE <1>5
<1>6. \A r \in Queues : r # q => Range(s) \cap Range(Items(r)) = {}
  BY <1>2, Zenon DEF Lists
<1>7. Queues' = Queues /\ Items(q)' = w /\ (\A r \in Queues : r # q => Items(r)' = Items(r)) /\ Lists'
  <2>1. \A r \in Queues : r # q => Range(w) \cap Range(Items(r)) = {}
    BY <1>6, Zenon
  <2> QED BY <1>4, <2>1, RelinkStep, Zenon
<1> USE <1>7
<1>8. /\ QueuesKept({}) /\ mem' \in [Pages -> Frames]
      /\ \A g \in Pages : mem'[g].use = "node" => mem'[g].msg \in Messages
      /\ \A g \in Pages : mem'[g].use = mem[g].use /\ mem'[g].msg = mem[g].msg
      /\ \A g \in Pages : g \notin Range(Items(q)) => mem'[g].next = mem[g].next
  BY <1>4, RelinkedKept, Zenon
<1>9. \A x \in Queues' : \A h \in Range(Items(x)') : x \in Queues /\ h \in Range(Items(x)) /\ h # n
  <2>1. ASSUME NEW x \in Queues', NEW h \in Range(Items(x)')
        PROVE  x \in Queues /\ h \in Range(Items(x)) /\ h # n
    <3>1. CASE x = q
      BY <1>2, <2>1, <3>1, Zenon
    <3>2. CASE x # q
      BY <1>6, <2>1, <3>2, Zenon
    <3> QED BY <3>1, <3>2, Zenon
  <2> QED BY <2>1, Zenon
<1>10. Unlinks(q, k, n)
  BY ONLY <1>1, <1>2, <1>3, <1>5, <1>7, <1>8, <1>9, Zenon DEF Unlinks
<1> QED
  BY <1>10, Zenon

(* msgrcv() takes a message out of the queue. *)
LEMMA TakeStep ==
  ASSUME ChainsFound, IInv, NEW p \in Procs, NEW q, q = queue[p], pc[p] = "rcv_scan", ~asleep[p], mem[q].use = "queue",
         NEW k \in DOMAIN Items(q), mem' = Unlink(q, Items(q), k),
         node' = [node EXCEPT ![p] = Items(q)[k]], Goto(p, "rcv_copy"),
         UNCHANGED <<id, queue, want, list, nextId, asleep, killed, got, sends>>
  PROVE  IInv'
<1>0. TypeOK /\ Lists /\ Hands /\ Listed /\ Pointers /\ Waiting
  BY Zenon DEF IInv
<1> USE <1>0
<1>1. PICK n : Unlinks(q, k, n)
  BY UnlinkDoes, Zenon
<1> USE <1>1
<1>2. /\ q \in Queues /\ n \in Pages /\ n = Items(q)[k] /\ mem[n].use = "node" /\ n \in Range(Items(q))
      /\ Queues' = Queues /\ Lists'
  BY Zenon DEF Unlinks
<1> USE <1>2
<1>3. /\ QueuesKept({}) /\ mem' \in [Pages -> Frames]
      /\ \A g \in Pages : mem'[g].use = "node" => mem'[g].msg \in Messages
      /\ \A g \in Pages : mem'[g].use = mem[g].use /\ mem'[g].msg = mem[g].msg
      /\ \A g \in Pages : g \notin Range(Items(q)) => mem'[g].next = mem[g].next
  BY Zenon DEF Unlinks
<1>4. \A x \in Queues' : \A h \in Range(Items(x)') : x \in Queues /\ h \in Range(Items(x)) /\ h # n
  BY Zenon DEF Unlinks
<1>5. pc' \in [Procs -> Places] /\ pc'[p] = "rcv_copy" /\ \A r \in Procs : r # p => pc'[r] = pc[r]
  <2>1. "rcv_copy" \in Places
    BY Zenon DEF Places
  <2> QED BY <2>1, GotoIs, Zenon
<1> USE <1>5
<1>6. node' \in [Procs -> Pages \cup {None}] /\ node'[p] = n /\ \A r \in Procs : r # p => node'[r] = node[r]
  <2>1. node \in [Procs -> Pages \cup {None}] /\ node' = [node EXCEPT ![p] = n]
    BY Zenon DEF TypeOK
  <2> QED BY <2>1, Zenon
<1>7. TypeOK'
  BY <1>3, <1>6, Zenon DEF TypeOK
<1>8. Hands'
  <2>1. ASSUME NEW r \in Procs \ {p}, InHand(r)'
        PROVE  /\ InHand(r) /\ node'[r] = node[r] /\ (pc'[r] = "snd_append" => pc[r] = "snd_append")
               /\ mem'[node[r]].use = mem[node[r]].use /\ mem'[node[r]].next = mem[node[r]].next
               /\ \A x \in Queues' : node[r] \notin Range(Items(x)')
               /\ InHand(p)' => node'[p] # node[r]
    <3>1. InHand(r) /\ node'[r] = node[r] /\ pc'[r] = pc[r]
      BY <1>6, <2>1, Zenon DEF InHand
    <3>2. node[r] \in Pages /\ \A x \in Queues : node[r] \notin Range(Items(x))
      BY <3>1, Zenon DEF Hands
    <3>3. \A x \in Queues' : node[r] \notin Range(Items(x)')
      BY <1>4, <3>2, Zenon
    <3>4. node[r] # n
      BY <3>2, Zenon
    <3> QED BY <1>3, <1>6, <3>1, <3>2, <3>3, <3>4, Zenon
  <2>2. /\ node'[p] \in Pages /\ mem'[node'[p]].use = "node" /\ pc'[p] # "snd_append"
        /\ \A x \in Queues' : node'[p] \notin Range(Items(x)')
    BY <1>3, <1>6, <1>4, Zenon
  <2> QED BY <1>3, <2>1, <2>2, HandsBut, Zenon
<1>9. Listed'
  BY <1>3, ListedKept, Zenon DEF Removes
<1>10. Pointers'
  BY <1>3, PointersKept, Zenon DEF Follows
<1>11. Waiting'
  <2>1. \A r \in Procs : /\ asleep'[r] => asleep[r]
                         /\ asleep'[r] \/ pc'[r] = "rcv_sleep" =>
                              pc'[r] = pc[r] /\ queue'[r] = queue[r] /\ want'[r] = want[r]
    BY Zenon
  <2>2. \A x \in Queues' : \A h \in Range(Items(x)') :
          x \in Queues /\ h \in Range(Items(x)) /\ mem'[h].msg = mem[h].msg
    <3>1. \A x \in Queues : Range(Items(x)) \subseteq Pages
      BY ItemsAre, Zenon
    <3> QED BY <1>3, <1>4, <3>1, Zenon
  <2> QED BY <2>1, <2>2, WaitingKept, Zenon
<1> QED
  BY <1>7, <1>8, <1>9, <1>10, <1>11, Zenon DEF IInv

(* msgrcv() finds nothing and is about to sleep. *)
LEMMA GiveUpStep ==
  ASSUME IInv, NEW p \in Procs, pc[p] = "rcv_scan", ~asleep[p], Matches(queue[p], want[p]) = {},
         Goto(p, "rcv_sleep"),
         UNCHANGED <<mem, id, queue, node, want, list, nextId, asleep, killed, got, sends>>
  PROVE  IInv'
<1>0. TypeOK /\ Lists /\ Hands /\ Listed /\ Pointers /\ Waiting
  BY Zenon DEF IInv
<1> USE <1>0
<1>1. pc' \in [Procs -> Places] /\ pc'[p] = "rcv_sleep" /\ \A r \in Procs : r # p => pc'[r] = pc[r]
  <2>1. "rcv_sleep" \in Places
    BY Zenon DEF Places
  <2> QED BY <2>1, GotoIs, Zenon
<1> USE <1>1
<1>2. TypeOK'
  BY Zenon DEF TypeOK
<1>3. Lists' /\ Queues' = Queues
  BY MemSame, Zenon
<1>4. Hands'
  BY HandsSame, Zenon DEF InHand
<1>5. Listed'
  BY ListedSame, Zenon DEF Removes
<1>6. Pointers'
  BY PointersSame, Zenon DEF Follows
<1>7. Waiting'
  <2>1. ASSUME NEW r \in Procs
        PROVE  asleep'[r] => pc'[r] = "rcv_scan"
    BY Zenon DEF Waiting
  <2>2. ASSUME NEW r \in Procs, asleep'[r] \/ pc'[r] = "rcv_sleep", queue'[r] \in Queues'
        PROVE  \A g \in Range(Items(queue[r])') : want'[r] \notin {0, mem'[g].msg.typ}
    <3>1. Items(queue[r])' = Items(queue[r]) /\ queue[r] \in Queues
      BY <1>3, <2>2, Zenon DEF Items
    <3>2. \A g \in Range(Items(queue[r])) : want[r] \notin {0, mem[g].msg.typ}
      <4>1. CASE r = p
        BY <4>1, Zenon DEF Matches, Range
      <4>2. CASE r # p
        BY <2>2, <3>1, <4>2, Zenon DEF Waiting
      <4> QED BY <4>1, <4>2, Zenon
    <3> QED BY <3>1, <3>2, Zenon
  <2> QED BY <2>1, <2>2, Zenon DEF Waiting
<1> QED
  BY <1>2, <1>3, <1>4, <1>5, <1>6, <1>7, Zenon DEF IInv

(* One pass of msgrcv() over the messages. *)
LEMMA RcvScanStep ==
  ASSUME ChainsFound, IInv, NEW p \in Procs, RcvScan(p)
  PROVE  IInv'
<1>1. PICK q : q = queue[p]
  BY Zenon
<1>2. /\ pc[p] = "rcv_scan" /\ ~asleep[p] /\ mem[q].use = "queue"
      /\ UNCHANGED <<list, nextId, asleep, killed, got, sends>>
      /\ \/ \E k \in Matches(q, want[p]) :
              /\ mem' = Unlink(q, Items(q), k)
              /\ node' = [node EXCEPT ![p] = Items(q)[k]]
              /\ Goto(p, "rcv_copy") /\ UNCHANGED <<id, queue, want>>
         \/ Return(p) /\ UNCHANGED mem
         \/ Matches(q, want[p]) = {} /\ Goto(p, "rcv_sleep") /\ UNCHANGED <<mem, id, queue, node, want>>
  BY <1>1, Zenon DEF RcvScan, locals
<1> USE <1>2
<1>3. CASE \E k \in Matches(q, want[p]) :
             /\ mem' = Unlink(q, Items(q), k)
             /\ node' = [node EXCEPT ![p] = Items(q)[k]]
             /\ Goto(p, "rcv_copy") /\ UNCHANGED <<id, queue, want>>
  <2>1. PICK k \in Matches(q, want[p]) :
             /\ mem' = Unlink(q, Items(q), k)
             /\ node' = [node EXCEPT ![p] = Items(q)[k]]
             /\ Goto(p, "rcv_copy") /\ UNCHANGED <<id, queue, want>>
    BY <1>3, Zenon
  <2>2. k \in DOMAIN Items(q)
    BY Zenon DEF Matches
  <2> QED BY <1>1, <2>1, <2>2, TakeStep, Zenon
<1>4. CASE Return(p) /\ UNCHANGED mem
  <2>1. ~Removes(p)
    BY Zenon DEF Removes
  <2> QED BY <1>4, <2>1, QuietReturn, Zenon
<1>5. CASE Matches(q, want[p]) = {} /\ Goto(p, "rcv_sleep") /\ UNCHANGED <<mem, id, queue, node, want>>
  BY <1>1, <1>5, GiveUpStep, Zenon
<1> QED
  BY <1>3, <1>4, <1>5, Zenon

-----------------------------------------------------------------------------
(* Every step *)

LEMMA NextStep ==
  ASSUME ChainsFound, IInv, Next
  PROVE  IInv'
<1>1. PICK p \in Procs :
        \/ \E k \in Keys : Msgget(p, k)
        \/ \E i \in Ids, t \in Types : SndLookup(p, i, t)
        \/ \E i \in Ids, t \in Types \cup {0} : RcvLookup(p, i, t)
        \/ SndAlloc(p) \/ SndAppend(p) \/ RcvScan(p) \/ RcvSleep(p) \/ RcvCopy(p)
        \/ \E i \in Ids : RmUnlink(p, i)
        \/ RmDrain(p) \/ RmFree(p) \/ Kill(p) \/ Derails(p)
  BY Zenon DEF Next
<1>2. CASE \E k \in Keys : Msgget(p, k)
  BY <1>2, MsggetStep, Zenon
<1>3. CASE \E i \in Ids, t \in Types : SndLookup(p, i, t)
  BY <1>3, SndLookupStep, Zenon
<1>4. CASE \E i \in Ids, t \in Types \cup {0} : RcvLookup(p, i, t)
  BY <1>4, RcvLookupStep, Zenon
<1>5. CASE SndAlloc(p) \/ SndAppend(p) \/ RcvScan(p) \/ RcvSleep(p) \/ RcvCopy(p)
  BY <1>5, SndAllocStep, SndAppendStep, RcvScanStep, RcvSleepStep, RcvCopyStep, Zenon
<1>6. CASE \E i \in Ids : RmUnlink(p, i)
  BY <1>6, RmUnlinkStep, Zenon
<1>7. CASE RmDrain(p) \/ RmFree(p) \/ Kill(p) \/ Derails(p)
  BY <1>7, RmDrainStep, RmFreeStep, KillStep, DerailsStep, Zenon
<1> QED
  BY <1>1, <1>2, <1>3, <1>4, <1>5, <1>6, <1>7, Zenon

(* A step that changes nothing. *)
LEMMA StutterStep ==
  ASSUME IInv, UNCHANGED vars
  PROVE  IInv'
<1>0. TypeOK /\ Lists /\ Hands /\ Listed /\ Pointers /\ Waiting
  BY Zenon DEF IInv
<1> USE <1>0
<1>1. UNCHANGED <<mem, list, nextId, pc, id, queue, node, want, asleep, killed, got, sends>>
  BY Zenon DEF vars
<1> USE <1>1
<1>2. TypeOK'
  BY Zenon DEF TypeOK
<1>3. Lists'
  BY MemSame, Zenon
<1>4. Hands'
  BY HandsSame, Zenon DEF InHand
<1>5. Listed'
  BY ListedSame, Zenon DEF Removes
<1>6. Pointers'
  BY PointersSame, Zenon DEF Follows
<1>7. Waiting'
  BY WaitingSame, Zenon
<1> QED
  BY <1>2, <1>3, <1>4, <1>5, <1>6, <1>7, Zenon DEF IInv

-----------------------------------------------------------------------------
(* Who owns the nodes *)

(* What a step has to keep. *)
LEMMA OwnedBy ==
  ASSUME Lists', late' \subseteq Pages,
         \A g \in Pages : /\ mem'[g].use = "node" <=> Queued(g)' \/ Carried(g)' \/ g \in late'
                          /\ Carried(g)' => ~Queued(g)' /\ g \notin late',
         \A p, r \in Procs : node'[p] = node'[r] /\ node'[p] # None => p = r,
         \A q \in Queues' : \A g \in Range(Items(q)') : g \in late' <=> Drained(q)',
         \A p \in Procs : node'[p] # None => InHand(p)' \/ pc'[p] = "derailed"
  PROVE  Owned'
BY Zenon DEF Owned, NodeOwnedOnce, Lists

(* What Owned says, with the definitions of its parts expanded. *)
LEMMA OwnedIs ==
  ASSUME Owned
  PROVE  /\ late \subseteq Pages
         /\ \A g \in Pages : /\ mem[g].use = "node" <=> Queued(g) \/ Carried(g) \/ g \in late
                             /\ Carried(g) => ~Queued(g) /\ g \notin late
         /\ \A p, r \in Procs : node[p] = node[r] /\ node[p] # None => p = r
         /\ \A q \in Queues : \A g \in Range(Items(q)) : g \in late <=> Drained(q)
         /\ \A p \in Procs : node[p] # None => pc[p] \in {"snd_append", "rcv_copy", "derailed"}
BY Zenon DEF Owned, NodeOwnedOnce, InHand

(* Nobody starts or ends freeing a queue. *)
LEMMA DrainedSame ==
  ASSUME \A r \in Procs : /\ pc'[r] = "rm_free" <=> pc[r] = "rm_free"
                          /\ pc[r] = "rm_free" => queue'[r] = queue[r]
  PROVE  \A q : Drained(q)' <=> Drained(q)
BY Zenon DEF Drained

(* The nodes stay where they are. *)
LEMMA OwnedSame ==
  ASSUME Owned, Lists', UNCHANGED late,
         \A g \in Pages : /\ mem'[g].use = "node" <=> mem[g].use = "node"
                          /\ Queued(g)' <=> Queued(g),
         \A r \in Procs : node'[r] = node[r],
         \A r \in Procs : node[r] # None => InHand(r)' \/ pc'[r] = "derailed",
         \A q \in Queues' : \A g \in Range(Items(q)') :
           q \in Queues /\ g \in Range(Items(q)) /\ (Drained(q)' <=> Drained(q))
  PROVE  Owned'
<1>1. \A g : Carried(g)' <=> Carried(g)
  BY Zenon DEF Carried
<1>2. \A p, r \in Procs : node'[p] = node'[r] /\ node'[p] # None => p = r
  BY OwnedIs, Zenon
<1>3. \A q \in Queues' : \A g \in Range(Items(q)') : g \in late' <=> Drained(q)'
  BY OwnedIs, Zenon
<1>4. /\ late' \subseteq Pages
      /\ \A g \in Pages : /\ mem'[g].use = "node" <=> Queued(g)' \/ Carried(g)' \/ g \in late'
                          /\ Carried(g)' => ~Queued(g)' /\ g \notin late'
  BY <1>1, OwnedIs, Zenon
<1>5. \A p \in Procs : node'[p] # None => InHand(p)' \/ pc'[p] = "derailed"
  BY Zenon
<1> QED
  BY <1>2, <1>3, <1>4, <1>5, OwnedBy, Zenon

(* Nothing moves in the memory, and one process goes on. *)
LEMMA QuietOwned ==
  ASSUME Lists, Owned, UNCHANGED <<mem, late>>, NEW p \in Procs,
         \A r \in Procs : node'[r] = node[r] /\ (r # p => pc'[r] = pc[r] /\ queue'[r] = queue[r]),
         \/ pc[p] # "rm_free" /\ pc'[p] # "rm_free"
         \/ pc'[p] = pc[p] /\ queue'[p] = queue[p],
         node[p] # None => pc'[p] \in {"snd_append", "rcv_copy", "derailed"}
  PROVE  Owned'
<1>1. Lists' /\ Queues' = Queues /\ \A q : Items(q)' = Items(q)
  BY MemSame, Zenon
<1>2. \A g : Queued(g)' <=> Queued(g)
  BY <1>1, Zenon DEF Queued
<1>3. \A q : Drained(q)' <=> Drained(q)
  <2>1. \A r \in Procs : /\ pc'[r] = "rm_free" <=> pc[r] = "rm_free"
                         /\ pc[r] = "rm_free" => queue'[r] = queue[r]
    BY Zenon
  <2> QED BY <2>1, DrainedSame, Zenon
<1>4. \A r \in Procs : node[r] # None => InHand(r)' \/ pc'[r] = "derailed"
  BY OwnedIs, Zenon DEF InHand
<1> QED
  BY <1>1, <1>2, <1>3, <1>4, OwnedSame, Zenon

(* A system call that holds no node returns. *)
LEMMA ReturnOwned ==
  ASSUME IInv, Owned, UNCHANGED <<mem, late>>, NEW p \in Procs, pc[p] \in {"snd_alloc", "rcv_scan"}, Return(p)
  PROVE  Owned'
<1>0. TypeOK /\ Lists
  BY Zenon DEF IInv
<1>1. /\ pc'[p] = "user"
      /\ \A r \in Procs : r # p => pc'[r] = pc[r] /\ queue'[r] = queue[r] /\ node'[r] = node[r]
  BY <1>0, ReturnIs, Zenon
<1>2. node[p] = None /\ node'[p] = None
  BY <1>0, OwnedIs, Zenon DEF Return, TypeOK
<1> QED
  BY <1>0, <1>1, <1>2, QuietOwned, Zenon

(* The steps that leave the memory and the nodes alone. *)
LEMMA LookOwned ==
  ASSUME IInv, Owned, NEW p \in Procs,
         \/ \E i \in Ids, t \in Types : SndLookup(p, i, t)
         \/ \E i \in Ids, t \in Types \cup {0} : RcvLookup(p, i, t)
         \/ \E i \in Ids : RmUnlink(p, i)
         \/ RcvSleep(p) \/ Kill(p) \/ Derails(p)
  PROVE  Owned'
<1>0. TypeOK /\ Lists
  BY Zenon DEF IInv
<1>1. UNCHANGED <<mem, node, late>>
  BY Zenon DEF SndLookup, RcvLookup, RmUnlink, RcvSleep, Kill, Derails, locals
<1>2. CASE Kill(p)
  <2>1. UNCHANGED <<pc, queue>>
    BY <1>2, Zenon DEF Kill, locals
  <2>2. node[p] # None => pc'[p] \in {"snd_append", "rcv_copy", "derailed"}
    BY <2>1, OwnedIs, Zenon
  <2> QED BY <1>0, <1>1, <2>1, <2>2, QuietOwned, Zenon
<1>3. CASE Derails(p)
  <2>1. pc[p] # "rm_free" /\ Goto(p, "derailed") /\ UNCHANGED queue /\ "derailed" \in Places
    BY <1>3, Zenon DEF Derails, locals, Places
  <2>2. pc'[p] = "derailed" /\ \A r \in Procs : r # p => pc'[r] = pc[r]
    BY <1>0, <2>1, GotoIs, Zenon
  <2> QED BY <1>0, <1>1, <2>1, <2>2, QuietOwned, Zenon
<1>4. CASE RcvSleep(p)
  <2>1. pc[p] = "rcv_sleep" /\ Goto(p, "rcv_scan") /\ UNCHANGED queue /\ "rcv_scan" \in Places
    BY <1>4, Zenon DEF RcvSleep, locals, Places
  <2>2. pc'[p] = "rcv_scan" /\ \A r \in Procs : r # p => pc'[r] = pc[r]
    BY <1>0, <2>1, GotoIs, Zenon
  <2>3. node[p] = None
    BY <2>1, OwnedIs, Zenon
  <2> QED BY <1>0, <1>1, <2>1, <2>2, <2>3, QuietOwned, Zenon
<1>5. ASSUME NEW i, NEW k, NEW place \in {"snd_alloc", "rcv_scan", "rm_drain"}, Calls(p), Lookup(p, i, k, place)
      PROVE  Owned'
  <2>1. pc[p] = "user" /\ Goto(p, place) /\ queue' = [queue EXCEPT ![p] = list[k]] /\ place \in Places
    BY <1>5, Zenon DEF Calls, Lookup, Places
  <2>2. pc'[p] = place /\ \A r \in Procs : r # p => pc'[r] = pc[r]
    BY <1>0, <2>1, GotoIs, Zenon
  <2>3. node[p] = None
    BY <2>1, OwnedIs, Zenon
  <2>4. \A r \in Procs : r # p => queue'[r] = queue[r]
    BY <1>0, <2>1, Zenon DEF TypeOK
  <2> QED BY <1>0, <1>1, <1>5, <2>1, <2>2, <2>3, <2>4, QuietOwned, Zenon
<1>6. CASE \/ \E i \in Ids, t \in Types : SndLookup(p, i, t)
           \/ \E i \in Ids, t \in Types \cup {0} : RcvLookup(p, i, t)
           \/ \E i \in Ids : RmUnlink(p, i)
  BY <1>5, <1>6, Zenon DEF SndLookup, RcvLookup, RmUnlink
<1> QED
  BY <1>2, <1>3, <1>4, <1>6, Zenon

(* A new queue has no nodes. *)
LEMMA MsggetOwned ==
  ASSUME ChainsFound, IInv, Owned, NEW p \in Procs, NEW key \in Keys, Msgget(p, key)
  PROVE  Owned'
<1>1. UNCHANGED <<pc, queue, node, late>>
  BY Zenon DEF Msgget, locals
<1>2. PICK g : Creates(g)
  BY MsggetDoes, Zenon
<1>3. /\ g \in Pages /\ g \notin Queues /\ mem[g].use = "free" /\ mem'[g].use = "queue"
      /\ \A h \in Pages : h # g => mem'[h] = mem[h]
      /\ Queues' = Queues \cup {g} /\ (\A q \in Queues : Items(q)' = Items(q)) /\ Items(g)' = <<>> /\ Lists'
  BY <1>2, Zenon DEF Creates
<1>4. Range(<<>>) = {}
  BY DEF Range
<1>5. \A h \in Pages : mem'[h].use = "node" <=> mem[h].use = "node"
  BY <1>3, Zenon
<1>6. \A h : Queued(h)' <=> Queued(h)
  BY <1>3, <1>4, Zenon DEF Queued
<1>7. \A q : Drained(q)' <=> Drained(q)
  BY <1>1, DrainedSame, Zenon
<1>8. \A r \in Procs : node[r] # None => InHand(r)' \/ pc'[r] = "derailed"
  BY <1>1, OwnedIs, Zenon DEF InHand
<1>9. \A q \in Queues' : \A h \in Range(Items(q)') : q \in Queues /\ h \in Range(Items(q))
  BY <1>3, <1>4, Zenon
<1> QED
  BY <1>1, <1>3, <1>5, <1>6, <1>7, <1>8, <1>9, OwnedSame, Zenon

(* A process that holds no node picks up the node n. *)
LEMMA PicksUp ==
  ASSUME Owned, NEW p \in Procs, NEW n \in Pages, node[p] = None, node'[p] = n, ~Carried(n),
         \A r \in Procs : r # p => node'[r] = node[r] /\ pc'[r] = pc[r],
         pc'[p] \in {"snd_append", "rcv_copy"}
  PROVE  /\ \A h \in Pages : Carried(h)' <=> Carried(h) \/ h = n
         /\ \A r, s \in Procs : node'[r] = node'[s] /\ node'[r] # None => r = s
         /\ \A r \in Procs : node'[r] # None => InHand(r)' \/ pc'[r] = "derailed"
<1>1. ASSUME NEW h \in Pages
      PROVE  Carried(h)' <=> Carried(h) \/ h = n
  <2>1. h # None
    BY MsgAssumption, Zenon
  <2>2. Carried(h) => Carried(h)'
    BY <2>1, Zenon DEF Carried
  <2>3. Carried(h)' => Carried(h) \/ h = n
    BY Zenon DEF Carried
  <2>4. Carried(n)'
    BY Zenon DEF Carried
  <2> QED BY <2>2, <2>3, <2>4, Zenon
<1>2. ASSUME NEW r \in Procs, NEW s \in Procs, node'[r] = node'[s], node'[r] # None
      PROVE  r = s
  <2>1. \A t \in Procs : node[t] # n
    BY Zenon DEF Carried
  <2>2. CASE r = p \/ s = p
    BY <1>2, <2>1, <2>2, Zenon
  <2>3. CASE r # p /\ s # p
    BY <1>2, <2>3, OwnedIs, Zenon
  <2> QED BY <2>2, <2>3, Zenon
<1>3. \A r \in Procs : node'[r] # None => InHand(r)' \/ pc'[r] = "derailed"
  BY OwnedIs, Zenon DEF InHand
<1> QED
  BY <1>1, <1>2, <1>3, Zenon

(* A node appears in the hands of a sender. *)
LEMMA SndAllocOwned ==
  ASSUME ChainsFound, IInv, Owned, NEW p \in Procs, SndAlloc(p)
  PROVE  Owned'
<1>1. pc[p] = "snd_alloc" /\ UNCHANGED late
  BY Zenon DEF SndAlloc
<1>2. CASE Return(p) /\ UNCHANGED <<mem, sends>>
  BY <1>1, <1>2, ReturnOwned, Zenon
<1>3. CASE \E g, m : Allocates(p, g, m)
  <2>1. PICK g, m : Allocates(p, g, m)
    BY <1>3, Zenon
  <2>2. /\ g \in Pages /\ mem[g].use = "free" /\ mem'[g].use = "node" /\ \A h \in Pages : h # g => mem'[h] = mem[h]
        /\ Queues' = Queues /\ (\A q \in Queues : Items(q)' = Items(q)) /\ Lists'
        /\ pc'[p] = "snd_append" /\ (\A r \in Procs : r # p => pc'[r] = pc[r])
        /\ node'[p] = g /\ (\A r \in Procs : r # p => node'[r] = node[r]) /\ UNCHANGED queue
    BY <2>1, Zenon DEF Allocates
  <2>3. node[p] = None
    BY <1>1, OwnedIs, Zenon
  <2>4. ~Queued(g) /\ ~Carried(g) /\ g \notin late
    BY <2>2, OwnedIs, Zenon
  <2>5. \A h : Queued(h)' <=> Queued(h)
    BY <2>2, Zenon DEF Queued
  <2>6. /\ \A h \in Pages : Carried(h)' <=> Carried(h) \/ h = g
        /\ \A r, s \in Procs : node'[r] = node'[s] /\ node'[r] # None => r = s
        /\ \A r \in Procs : node'[r] # None => InHand(r)' \/ pc'[r] = "derailed"
    BY <2>2, <2>3, <2>4, PicksUp, Zenon
  <2>7. \A q : Drained(q)' <=> Drained(q)
    BY <1>1, <2>2, DrainedSame, Zenon
  <2>8. \A h \in Pages : /\ mem'[h].use = "node" <=> Queued(h)' \/ Carried(h)' \/ h \in late'
                         /\ Carried(h)' => ~Queued(h)' /\ h \notin late'
    BY <1>1, <2>2, <2>4, <2>5, <2>6, OwnedIs, Zenon
  <2>9. \A q \in Queues' : \A h \in Range(Items(q)') : h \in late' <=> Drained(q)'
    BY <1>1, <2>2, <2>7, OwnedIs, Zenon
  <2> QED BY <1>1, <2>2, <2>6, <2>8, <2>9, OwnedIs, OwnedBy, Zenon
<1> QED
  BY <1>2, <1>3, SndAllocDoes, Zenon

(* The one process that holds the node n gives it up. *)
LEMMA HandsOver ==
  ASSUME Owned, NEW p \in Procs, NEW n \in Pages, node[p] = n, node'[p] = None,
         \A r \in Procs : r # p => node'[r] = node[r] /\ pc'[r] = pc[r]
  PROVE  /\ \A h \in Pages : Carried(h)' <=> Carried(h) /\ h # n
         /\ ~Queued(n) /\ n \notin late
         /\ \A r, s \in Procs : node'[r] = node'[s] /\ node'[r] # None => r = s
         /\ \A r \in Procs : node'[r] # None => InHand(r)' \/ pc'[r] = "derailed"
<1>1. n # None
  BY MsgAssumption, Zenon
<1>2. \A r \in Procs : r # p => node[r] # n
  BY <1>1, OwnedIs, Zenon
<1>3. ASSUME NEW h \in Pages
      PROVE  Carried(h)' <=> Carried(h) /\ h # n
  <2>1. h # None
    BY MsgAssumption, Zenon
  <2> QED BY <1>2, <2>1, Zenon DEF Carried
<1>4. Carried(n)
  BY Zenon DEF Carried
<1>5. ~Queued(n) /\ n \notin late
  BY <1>4, OwnedIs, Zenon
<1>6. \A r, s \in Procs : node'[r] = node'[s] /\ node'[r] # None => r = s
  BY OwnedIs, Zenon
<1>7. \A r \in Procs : node'[r] # None => InHand(r)' \/ pc'[r] = "derailed"
  BY OwnedIs, Zenon DEF InHand
<1> QED
  BY <1>3, <1>5, <1>6, <1>7, Zenon

(* A node goes from the hands of the sender into the queue. *)
LEMMA SndAppendOwned ==
  ASSUME ChainsFound, IInv, Owned, NEW p \in Procs, SndAppend(p)
  PROVE  Owned'
<1>0. TypeOK
  BY Zenon DEF IInv
<1>1. PICK q, n : Appends(p, q, n)
  BY SndAppendDoes, Zenon
<1>2. /\ q \in Queues /\ q = queue[p] /\ n \in Pages /\ n = node[p] /\ Queues' = Queues
      /\ Range(Items(q)') = Range(Items(q)) \cup {n}
      /\ (\A r \in Queues : r # q => Items(r)' = Items(r)) /\ Lists'
      /\ \A g \in Pages : mem'[g].use = mem[g].use
  BY <1>1, Zenon DEF Appends
<1>3. /\ pc[p] = "snd_append" /\ Return(p) /\ late' = late \cup {g \in {n} : Drained(q)}
  BY <1>2, Zenon DEF SndAppend
<1>4. /\ pc'[p] = "user" /\ node'[p] = None
      /\ \A r \in Procs : r # p => pc'[r] = pc[r] /\ queue'[r] = queue[r] /\ node'[r] = node[r]
  BY <1>0, <1>3, ReturnIs, Zenon DEF Return, TypeOK
<1>5. /\ \A h \in Pages : Carried(h)' <=> Carried(h) /\ h # n
      /\ ~Queued(n) /\ n \notin late
      /\ \A r, s \in Procs : node'[r] = node'[s] /\ node'[r] # None => r = s
      /\ \A r \in Procs : node'[r] # None => InHand(r)' \/ pc'[r] = "derailed"
  BY <1>2, <1>4, HandsOver, Zenon
<1>6. \A h : Queued(h)' <=> Queued(h) \/ h = n
  <2>1. \A h : Queued(h) => Queued(h)'
    BY <1>2, Zenon DEF Queued
  <2>2. Queued(n)'
    BY <1>2, Zenon DEF Queued
  <2>3. \A h : Queued(h)' => Queued(h) \/ h = n
    BY <1>2, Zenon DEF Queued
  <2> QED BY <2>1, <2>2, <2>3, Zenon
<1>7. \A x : Drained(x)' <=> Drained(x)
  BY <1>3, <1>4, DrainedSame, Zenon
<1>8. late' \subseteq Pages /\ (n \in late' <=> Drained(q)) /\ \A h : h # n => (h \in late' <=> h \in late)
  BY <1>2, <1>3, <1>5, OwnedIs, Zenon
<1>9. mem[n].use = "node" /\ Carried(n)
  <2>1. Carried(n)
    BY <1>2, Zenon DEF Carried
  <2> QED BY <1>2, <2>1, OwnedIs, Zenon
<1>10. \A h \in Pages : /\ mem'[h].use = "node" <=> Queued(h)' \/ Carried(h)' \/ h \in late'
                        /\ Carried(h)' => ~Queued(h)' /\ h \notin late'
  BY <1>2, <1>5, <1>6, <1>8, <1>9, OwnedIs, Zenon
<1>11. ASSUME NEW x \in Queues', NEW h \in Range(Items(x)')
       PROVE  h \in late' <=> Drained(x)'
  <2>1. CASE h = n
    <3>1. x = q
      BY <1>2, <1>5, <1>11, <2>1, Zenon DEF Queued
    <3> QED BY <1>7, <1>8, <2>1, <3>1, Zenon
  <2>2. CASE h # n
    <3>1. x \in Queues /\ h \in Range(Items(x))
      BY <1>2, <1>11, <2>2, Zenon
    <3> QED BY <1>7, <1>8, <2>2, <3>1, OwnedIs, Zenon
  <2> QED BY <2>1, <2>2, Zenon
<1> QED
  BY <1>2, <1>5, <1>8, <1>10, <1>11, OwnedBy, Zenon

(* The receiver frees the node it holds. *)
LEMMA RcvCopyOwned ==
  ASSUME ChainsFound, IInv, Owned, NEW p \in Procs, RcvCopy(p)
  PROVE  Owned'
<1>0. TypeOK /\ Lists /\ Hands
  BY Zenon DEF IInv
<1>1. /\ pc[p] = "rcv_copy" /\ InHand(p) /\ mem' = [mem EXCEPT ![node[p]] = Junk] /\ Return(p)
      /\ UNCHANGED <<list, nextId, late>>
  BY Zenon DEF RcvCopy, InHand
<1>2. PICK n : n = node[p]
  BY Zenon
<1>3. /\ n \in Pages /\ n \notin Queues /\ \A q \in Queues : n \notin Range(Items(q))
  BY <1>0, <1>1, <1>2, Zenon DEF Hands, Queues
<1>4. /\ mem'[n] = Junk /\ \A h \in Pages : h # n => mem'[h] = mem[h]
      /\ Queues' = Queues /\ (\A q \in Queues : Items(q)' = Items(q)) /\ Lists'
  BY <1>0, <1>1, <1>2, <1>3, JunkIs, NodePage, Zenon
<1>5. /\ pc'[p] = "user" /\ node'[p] = None
      /\ \A r \in Procs : r # p => pc'[r] = pc[r] /\ queue'[r] = queue[r] /\ node'[r] = node[r]
  BY <1>0, <1>1, ReturnIs, Zenon DEF Return, TypeOK
<1>6. /\ \A h \in Pages : Carried(h)' <=> Carried(h) /\ h # n
      /\ ~Queued(n) /\ n \notin late
      /\ \A r, s \in Procs : node'[r] = node'[s] /\ node'[r] # None => r = s
      /\ \A r \in Procs : node'[r] # None => InHand(r)' \/ pc'[r] = "derailed"
  BY <1>2, <1>3, <1>5, HandsOver, Zenon
<1>7. \A h : Queued(h)' <=> Queued(h)
  BY <1>4, Zenon DEF Queued
<1>8. \A x : Drained(x)' <=> Drained(x)
  BY <1>1, <1>5, DrainedSame, Zenon
<1>9. \A h \in Pages : /\ mem'[h].use = "node" <=> Queued(h)' \/ Carried(h)' \/ h \in late'
                       /\ Carried(h)' => ~Queued(h)' /\ h \notin late'
  BY <1>1, <1>4, <1>6, <1>7, JunkIs, OwnedIs, Zenon
<1>10. \A q \in Queues' : \A h \in Range(Items(q)') : h \in late' <=> Drained(q)'
  BY <1>1, <1>4, <1>8, OwnedIs, Zenon
<1> QED
  BY <1>1, <1>4, <1>6, <1>9, <1>10, OwnedIs, OwnedBy, Zenon

(* Taking one element out of a sequence keeps the others. *)
LEMMA WithoutKeeps ==
  ASSUME NEW S, NEW s \in Seq(S), NEW k \in DOMAIN s, NEW x \in Range(s), x # s[k]
  PROVE  x \in Range(Without(s, k))
<1>1. PICK w : w = Without(s, k)
  BY Zenon
<1>2. /\ Len(s) \in Nat \ {0} /\ DOMAIN s = 1..Len(s) /\ DOMAIN w = 1..(Len(s) - 1)
      /\ \A l \in 1..(Len(s) - 1) : w[l] = IF l < k THEN s[l] ELSE s[l + 1]
  BY <1>1, WithoutIs
<1>3. PICK j \in DOMAIN s : x = s[j]
  BY Zenon DEF Range
<1>4. j # k
  BY <1>3, Zenon
<1>5. CASE j < k
  <2>1. j \in DOMAIN w /\ w[j] = x
    BY <1>2, <1>3, <1>5
  <2> QED BY <1>1, <2>1, Zenon DEF Range
<1>6. CASE ~(j < k)
  <2>1. j - 1 \in DOMAIN w /\ w[j - 1] = x
    BY <1>2, <1>3, <1>4, <1>6
  <2> QED BY <1>1, <2>1, Zenon DEF Range
<1> QED
  BY <1>5, <1>6, Zenon

(* A node goes from the queue into the hands of the receiver. *)
LEMMA TakeOwned ==
  ASSUME ChainsFound, IInv, Owned, NEW p \in Procs, NEW q, q = queue[p], pc[p] = "rcv_scan", mem[q].use = "queue",
         NEW k \in DOMAIN Items(q), mem' = Unlink(q, Items(q), k), late' = late \ {Items(q)[k]},
         node' = [node EXCEPT ![p] = Items(q)[k]], Goto(p, "rcv_copy"), UNCHANGED <<queue, list, nextId>>
  PROVE  Owned'
<1>0. TypeOK /\ Lists
  BY Zenon DEF IInv
<1>1. PICK n : Unlinks(q, k, n)
  BY UnlinkDoes, Zenon
<1>2. /\ q \in Queues /\ n \in Pages /\ n = Items(q)[k] /\ mem[n].use = "node" /\ n \in Range(Items(q))
      /\ Queues' = Queues /\ Items(q) \in Seq(Pages) /\ Items(q)' = Without(Items(q), k)
      /\ (\A x \in Queues' : \A h \in Range(Items(x)') : x \in Queues /\ h \in Range(Items(x)) /\ h # n)
      /\ (\A r \in Queues : r # q => Items(r)' = Items(r)) /\ Lists'
      /\ \A g \in Pages : mem'[g].use = mem[g].use
  BY <1>1, Zenon DEF Unlinks
<1>3. pc'[p] = "rcv_copy" /\ \A r \in Procs : r # p => pc'[r] = pc[r]
  <2>1. "rcv_copy" \in Places
    BY Zenon DEF Places
  <2> QED BY <1>0, <2>1, GotoIs, Zenon
<1>4. node'[p] = n /\ (\A r \in Procs : r # p => node'[r] = node[r]) /\ late' = late \ {n}
  BY <1>0, <1>2, Zenon DEF TypeOK
<1>5. node[p] = None
  BY OwnedIs, Zenon
<1>6. Queued(n) /\ ~Carried(n)
  <2>1. Queued(n)
    BY <1>2, Zenon DEF Queued
  <2> QED BY <1>2, <2>1, OwnedIs, Zenon
<1>7. \A h : Queued(h)' <=> Queued(h) /\ h # n
  <2>1. \A h : Queued(h)' => Queued(h) /\ h # n
    BY <1>2, Zenon DEF Queued
  <2>2. ASSUME NEW h, Queued(h), h # n
        PROVE  Queued(h)'
    <3>1. PICK x \in Queues : h \in Range(Items(x))
      BY <2>2, Zenon DEF Queued
    <3>2. CASE x = q
      <4>1. h \in Range(Without(Items(q), k))
        BY <1>2, <2>2, <3>1, <3>2, WithoutKeeps, Zenon
      <4> QED BY <1>2, <4>1, Zenon DEF Queued
    <3>3. CASE x # q
      BY <1>2, <3>1, <3>3, Zenon DEF Queued
    <3> QED BY <3>2, <3>3, Zenon
  <2> QED BY <2>1, <2>2, Zenon
<1>8. /\ \A h \in Pages : Carried(h)' <=> Carried(h) \/ h = n
      /\ \A r, s \in Procs : node'[r] = node'[s] /\ node'[r] # None => r = s
      /\ \A r \in Procs : node'[r] # None => InHand(r)' \/ pc'[r] = "derailed"
  BY <1>2, <1>3, <1>4, <1>5, <1>6, PicksUp, Zenon
<1>9. \A x : Drained(x)' <=> Drained(x)
  BY <1>3, DrainedSame, Zenon
<1>10. ASSUME NEW h \in Pages
       PROVE  /\ mem'[h].use = "node" <=> Queued(h)' \/ Carried(h)' \/ h \in late'
              /\ Carried(h)' => ~Queued(h)' /\ h \notin late'
  <2>1. /\ mem'[h].use = mem[h].use /\ (Queued(h)' <=> Queued(h) /\ h # n)
        /\ (Carried(h)' <=> Carried(h) \/ h = n) /\ (h \in late' <=> h \in late /\ h # n)
    BY <1>2, <1>4, <1>7, <1>8, Zenon
  <2>2. CASE h = n
    BY <1>2, <2>1, <2>2, Zenon
  <2>3. CASE h # n
    BY <2>1, <2>3, OwnedIs, Zenon
  <2> QED BY <2>2, <2>3, Zenon
<1>11. \A x \in Queues' : \A h \in Range(Items(x)') : h \in late' <=> Drained(x)'
  BY <1>2, <1>4, <1>9, OwnedIs, Zenon
<1>12. late' \subseteq Pages
  BY <1>4, OwnedIs, Zenon
<1> QED
  BY <1>2, <1>8, <1>10, <1>11, <1>12, OwnedBy, Zenon

(* One pass of msgrcv() over the messages. *)
LEMMA RcvScanOwned ==
  ASSUME ChainsFound, IInv, Owned, NEW p \in Procs, RcvScan(p)
  PROVE  Owned'
<1>0. TypeOK /\ Lists
  BY Zenon DEF IInv
<1>1. PICK q : q = queue[p]
  BY Zenon
<1>2. /\ pc[p] = "rcv_scan" /\ mem[q].use = "queue" /\ UNCHANGED <<list, nextId>>
      /\ \/ \E k \in Matches(q, want[p]) :
              /\ mem' = Unlink(q, Items(q), k) /\ late' = late \ {Items(q)[k]}
              /\ node' = [node EXCEPT ![p] = Items(q)[k]]
              /\ Goto(p, "rcv_copy") /\ UNCHANGED queue
         \/ Return(p) /\ UNCHANGED <<mem, late>>
         \/ Goto(p, "rcv_sleep") /\ UNCHANGED <<mem, late, queue, node>>
  BY <1>1, Zenon DEF RcvScan, locals
<1>3. ASSUME NEW k \in Matches(q, want[p]),
             mem' = Unlink(q, Items(q), k), late' = late \ {Items(q)[k]},
             node' = [node EXCEPT ![p] = Items(q)[k]],
             Goto(p, "rcv_copy"), UNCHANGED queue
      PROVE  Owned'
  <2>1. k \in DOMAIN Items(q)
    BY Zenon DEF Matches
  <2> QED BY <1>1, <1>2, <1>3, <2>1, TakeOwned, Zenon
<1>4. CASE Return(p) /\ UNCHANGED <<mem, late>>
  BY <1>2, <1>4, ReturnOwned, Zenon
<1>5. CASE Goto(p, "rcv_sleep") /\ UNCHANGED <<mem, late, queue, node>>
  <2>1. "rcv_sleep" \in Places /\ node[p] = None
    BY <1>2, OwnedIs, Zenon DEF Places
  <2>2. pc'[p] = "rcv_sleep" /\ \A r \in Procs : r # p => pc'[r] = pc[r]
    BY <1>0, <1>5, <2>1, GotoIs, Zenon
  <2> QED BY <1>0, <1>2, <1>5, <2>1, <2>2, QuietOwned, Zenon
<1> QED
  BY <1>2, <1>3, <1>4, <1>5, Zenon

(* msgctl() frees the nodes that are in the queue, none of which is late. *)
LEMMA RmDrainOwned ==
  ASSUME ChainsFound, IInv, Owned, NEW p \in Procs, RmDrain(p)
  PROVE  Owned'
<1>0. TypeOK /\ Lists /\ Listed
  BY Zenon DEF IInv
<1>1. PICK q : q = queue[p]
  BY Zenon
<1>2. /\ pc[p] = "rm_drain" /\ Removes(p) /\ Goto(p, "rm_free") /\ "rm_free" \in Places
      /\ mem' = [g \in Pages |->
                   IF g = q THEN [mem[q] EXCEPT !.head = None, !.tail = None]
                   ELSE IF g \in Range(Items(q)) THEN Junk ELSE mem[g]]
      /\ UNCHANGED <<queue, node, late>>
  BY <1>1, Zenon DEF RmDrain, Removes, locals, Places
<1>3. q \in Queues /\ q \in Pages /\ mem[q].use = "queue" /\ mem \in [Pages -> Frames]
      /\ \A r \in Procs : pc[r] = "rm_free" => queue[r] # q
  BY <1>0, <1>1, <1>2, Zenon DEF Listed, TypeOK, Removes, Queues
<1>4. /\ mem'[q].use = "queue"
      /\ \A g \in Pages : g # q => mem'[g] = IF g \in Range(Items(q)) THEN Junk ELSE mem[g]
      /\ Queues' = Queues /\ Items(q)' = <<>> /\ (\A r \in Queues : r # q => Items(r)' = Items(r))
      /\ Lists'
  BY <1>0, <1>2, <1>3, DrainStep, Zenon
<1>5. pc'[p] = "rm_free" /\ \A r \in Procs : r # p => pc'[r] = pc[r]
  BY <1>0, <1>2, GotoIs, Zenon
<1>6. Range(<<>>) = {}
  BY DEF Range
<1>7. ~Drained(q) /\ \A x : x # q => (Drained(x)' <=> Drained(x))
  BY <1>1, <1>2, <1>3, <1>5, Zenon DEF Drained
<1>8. \A h \in Range(Items(q)) : h \in Pages /\ h # q /\ h \notin late /\ ~Carried(h)
  <2>1. \A h \in Range(Items(q)) : h \in Pages /\ h # q /\ Queued(h)
    BY <1>0, <1>3, ItemsAre, Zenon DEF Queued
  <2> QED BY <1>3, <1>7, <2>1, OwnedIs, Zenon
<1>9. \A h : Queued(h)' <=> Queued(h) /\ h \notin Range(Items(q))
  <2>1. \A x \in Queues : x # q => Range(Items(x)) \cap Range(Items(q)) = {}
    BY <1>0, <1>3, Zenon DEF Lists
  <2>2. \A h : Queued(h)' => Queued(h) /\ h \notin Range(Items(q))
    BY <1>4, <1>6, <2>1, Zenon DEF Queued
  <2>3. \A h : Queued(h) /\ h \notin Range(Items(q)) => Queued(h)'
    BY <1>4, Zenon DEF Queued
  <2> QED BY <2>2, <2>3, Zenon
<1>10. \A h : Carried(h)' <=> Carried(h)
  BY <1>2, Zenon DEF Carried
<1>11. \A h \in Pages : mem'[h].use = "node" <=> mem[h].use = "node" /\ h \notin Range(Items(q))
  BY <1>3, <1>4, JunkIs, Zenon
<1>12. \A h \in Pages : /\ mem'[h].use = "node" <=> Queued(h)' \/ Carried(h)' \/ h \in late'
                        /\ Carried(h)' => ~Queued(h)' /\ h \notin late'
  BY <1>2, <1>8, <1>9, <1>10, <1>11, OwnedIs, Zenon
<1>13. \A x \in Queues' : \A h \in Range(Items(x)') : h \in late' <=> Drained(x)'
  BY <1>2, <1>4, <1>6, <1>7, OwnedIs, Zenon
<1>14. \A r \in Procs : node'[r] # None => InHand(r)' \/ pc'[r] = "derailed"
  BY <1>2, <1>5, OwnedIs, Zenon DEF InHand
<1> QED
  BY <1>2, <1>4, <1>12, <1>13, <1>14, OwnedIs, OwnedBy, Zenon

(* msgctl() frees the queue; the nodes still in it are late ones. *)
LEMMA RmFreeOwned ==
  ASSUME ChainsFound, IInv, Owned, NEW p \in Procs, RmFree(p)
  PROVE  Owned'
<1>0. TypeOK /\ Lists /\ Listed
  BY Zenon DEF IInv
<1>1. /\ pc[p] = "rm_free" /\ mem' = [mem EXCEPT ![queue[p]] = Junk] /\ Return(p) /\ UNCHANGED late /\ Removes(p)
  BY Zenon DEF RmFree, Removes
<1>2. PICK q : q = queue[p]
  BY Zenon
<1>3. q \in Queues /\ q \in Pages /\ mem[q].use = "queue" /\ mem \in [Pages -> Frames]
  BY <1>0, <1>1, <1>2, Zenon DEF Listed, Queues, TypeOK
<1>4. \A x \in Queues : q \notin Range(Items(x))
  <2>1. ASSUME NEW x \in Queues, q \in Range(Items(x))
        PROVE  FALSE
    BY <1>0, <1>3, <2>1, ItemsAre, Zenon
  <2> QED BY <2>1, Zenon
<1>5. /\ mem'[q] = Junk /\ \A h \in Pages : h # q => mem'[h] = mem[h]
      /\ Queues' = Queues \ {q} /\ (\A x \in Queues : x # q => Items(x)' = Items(x)) /\ Lists'
  BY <1>0, <1>1, <1>2, <1>3, <1>4, JunkIs, PageStep, Zenon
<1>6. /\ pc'[p] = "user" /\ node'[p] = None
      /\ \A r \in Procs : r # p => pc'[r] = pc[r] /\ queue'[r] = queue[r] /\ node'[r] = node[r]
  BY <1>0, <1>1, ReturnIs, Zenon DEF Return, TypeOK
<1>7. node[p] = None
  BY <1>1, OwnedIs, Zenon
<1>8. \A h : Carried(h)' <=> Carried(h)
  BY <1>6, <1>7, Zenon DEF Carried
<1>9. \A h \in Range(Items(q)) : h \in late
  BY <1>1, <1>2, <1>3, OwnedIs, Zenon DEF Drained
<1>10. \A h : (Queued(h)' => Queued(h)) /\ (Queued(h) => Queued(h)' \/ h \in late)
  <2>1. \A h : Queued(h)' => Queued(h)
    BY <1>5, Zenon DEF Queued
  <2>2. \A h : Queued(h) => Queued(h)' \/ h \in Range(Items(q))
    BY <1>5, Zenon DEF Queued
  <2> QED BY <1>9, <2>1, <2>2, Zenon
<1>11. \A x : x # q => (Drained(x)' <=> Drained(x))
  BY <1>1, <1>2, <1>6, Zenon DEF Drained
<1>12. \A h \in Pages : mem'[h].use = "node" <=> mem[h].use = "node"
  BY <1>3, <1>5, JunkIs, Zenon
<1>13. \A h \in Pages : /\ mem'[h].use = "node" <=> Queued(h)' \/ Carried(h)' \/ h \in late'
                        /\ Carried(h)' => ~Queued(h)' /\ h \notin late'
  BY <1>1, <1>8, <1>10, <1>12, OwnedIs, Zenon
<1>14. \A x \in Queues' : \A h \in Range(Items(x)') : h \in late' <=> Drained(x)'
  BY <1>1, <1>5, <1>11, OwnedIs, Zenon
<1>15. \A r, s \in Procs : node'[r] = node'[s] /\ node'[r] # None => r = s
  BY <1>6, OwnedIs, Zenon
<1>16. \A r \in Procs : node'[r] # None => InHand(r)' \/ pc'[r] = "derailed"
  BY <1>6, OwnedIs, Zenon DEF InHand
<1> QED
  BY <1>1, <1>5, <1>13, <1>14, <1>15, <1>16, OwnedIs, OwnedBy, Zenon

(* At first there are no nodes. *)
LEMMA InitOwned == Init => Owned
<1> SUFFICES ASSUME Init
             PROVE  Owned
  BY Zenon
<1>1. \A g \in Pages : mem[g].use = "free"
  BY JunkIs, Zenon DEF Init
<1>2. Queues = {} /\ late = {} /\ \A p \in Procs : node[p] = None
  BY <1>1, Zenon DEF Queues, Init
<1>3. \A g \in Pages : ~Queued(g) /\ ~Carried(g)
  BY <1>2, MsgAssumption, Zenon DEF Queued, Carried
<1> QED
  BY <1>1, <1>2, <1>3, Zenon DEF Owned, NodeOwnedOnce

(* Every step keeps each node with one owner. *)
LEMMA OwnedStep ==
  ASSUME ChainsFound, IInv, Owned, Next
  PROVE  Owned'
<1>1. PICK p \in Procs :
        \/ \E k \in Keys : Msgget(p, k)
        \/ \E i \in Ids, t \in Types : SndLookup(p, i, t)
        \/ \E i \in Ids, t \in Types \cup {0} : RcvLookup(p, i, t)
        \/ SndAlloc(p) \/ SndAppend(p) \/ RcvScan(p) \/ RcvSleep(p) \/ RcvCopy(p)
        \/ \E i \in Ids : RmUnlink(p, i)
        \/ RmDrain(p) \/ RmFree(p) \/ Kill(p) \/ Derails(p)
  BY Zenon DEF Next
<1>2. CASE \/ \E i \in Ids, t \in Types : SndLookup(p, i, t)
           \/ \E i \in Ids, t \in Types \cup {0} : RcvLookup(p, i, t)
           \/ \E i \in Ids : RmUnlink(p, i)
           \/ RcvSleep(p) \/ Kill(p) \/ Derails(p)
  BY <1>2, LookOwned, Zenon
<1>3. CASE \E k \in Keys : Msgget(p, k)
  BY <1>3, MsggetOwned, Zenon
<1>4. CASE SndAlloc(p) \/ SndAppend(p) \/ RcvScan(p) \/ RcvCopy(p)
  BY <1>4, SndAllocOwned, SndAppendOwned, RcvScanOwned, RcvCopyOwned, Zenon
<1>5. CASE RmDrain(p) \/ RmFree(p)
  BY <1>5, RmDrainOwned, RmFreeOwned, Zenon
<1> QED
  BY <1>1, <1>2, <1>3, <1>4, <1>5, Zenon

-----------------------------------------------------------------------------
(* The queues of TypedQueue, as long as none is removed *)

(* Two queues never have the same id. *)
Unique == \A q, r \in Queues : mem[q].id = mem[r].id => q = r

(* The messages on the nodes s of the memory m, and of a queue. *)
MsgsOf(m, s) == [k \in DOMAIN s |-> m[s[k]].msg]
Msgs(q) == MsgsOf(mem, Items(q))

(* While every id handed out is in the list, what a process looked up is   *)
(* the queue it asked for.                                                *)
LEMMA NotRemoved ==
  ASSUME IInv, ~Removed
  PROVE  /\ Unique /\ \A p \in Procs : ~Removes(p)
         /\ \A q \in Queues : mem[q].id \in 1..(nextId - 1)
         /\ \A p \in Procs : Follows(p) =>
              queue[p] \in Queues /\ mem[queue[p]].id = id[p] /\ id[p] \in 1..(nextId - 1)
<1>0. Listed /\ Pointers
  BY Zenon DEF IInv
<1> USE <1>0
<1>1. \A i \in 1..(nextId - 1) : InList(i)
  BY Zenon DEF Removed
<1>2. \A p \in Procs : ~Removes(p)
  BY <1>1, Zenon DEF Listed
<1>3. \A q \in Queues : \E k \in DOMAIN list : q = list[k]
  BY <1>2, Zenon DEF Listed, Range
<1>4. Unique
  <2>1. \A k, l \in DOMAIN list : mem[list[k]].id = mem[list[l]].id => k = l
    BY Zenon DEF Listed
  <2> QED BY ONLY <1>3, <2>1 DEF Unique
<1>5. \A q \in Queues : mem[q].id \in 1..(nextId - 1)
  BY <1>3, Zenon DEF Listed
<1>6. \A p \in Procs : Follows(p) =>
        queue[p] \in Queues /\ mem[queue[p]].id = id[p] /\ id[p] \in 1..(nextId - 1)
  BY <1>1, Zenon DEF Pointers
<1> QED
  BY <1>2, <1>4, <1>5, <1>6, Zenon

(* The messages under an id are those of the queue with that id. *)
LEMMA ContentOf ==
  ASSUME Unique, NEW q \in Queues, NEW i, i = mem[q].id
  PROVE  Content(i) = Msgs(q)
<1>1. {g \in Queues : mem[g].id = i} = {q}
  BY Zenon DEF Unique
<1>2. (CHOOSE g \in {q} : TRUE) = q
  BY Zenon
<1> QED
  BY <1>1, <1>2, Zenon DEF Content, Msgs, MsgsOf

(* The same after a step. *)
LEMMA ContentThen ==
  ASSUME Unique', NEW q \in Queues', NEW i, i = mem'[q].id
  PROVE  Content(i)' = Msgs(q)'
<1>1. {g \in Queues' : mem'[g].id = i} = {q}
  BY Zenon DEF Unique
<1>2. (CHOOSE g \in {q} : TRUE) = q
  BY Zenon
<1> QED
  BY <1>1, <1>2, Zenon DEF Content, Msgs, MsgsOf

(* No message is in the empty sequence. *)
LEMMA Nothing ==
  ASSUME NEW m
  PROVE  MsgsOf(m, <<>>) = <<>>
<1>1. DOMAIN <<>> = {}
  OBVIOUS
<1>2. [k \in DOMAIN <<>> |-> m[<<>>[k]].msg] \in Seq({})
  <2>1. DOMAIN <<>> = 1..0
    OBVIOUS
  <2>2. [k \in DOMAIN <<>> |-> m[<<>>[k]].msg] \in [1..0 -> {}]
    BY <1>1, <2>1, Zenon
  <2> QED BY <2>2
<1> QED
  BY <1>1, <1>2 DEF MsgsOf

(* An id without a queue has no messages. *)
LEMMA ContentNone ==
  ASSUME NEW i, \A q \in Queues : mem[q].id # i
  PROVE  Content(i) = <<>>
<1>1. {g \in Queues : mem[g].id = i} = {}
  BY Zenon
<1> QED
  BY <1>1, Nothing, Zenon DEF Content, MsgsOf

(* The same of the state after a step: an id no queue has stands for no message. *)
LEMMA ContentNoneThen ==
  ASSUME NEW i, \A q \in Queues' : mem'[q].id # i
  PROVE  Content(i)' = <<>>
<1>1. {g \in Queues' : mem'[g].id = i} = {}
  BY Zenon
<1>2. MsgsOf(mem', <<>>) = <<>>
  BY Nothing, Zenon
<1> QED
  BY <1>1, <1>2, Zenon DEF Content, MsgsOf

(* An id keeps its messages when its queue keeps its nodes. *)
LEMMA ContentKept ==
  ASSUME Unique, Unique', Queues' = Queues, NEW i, \A q \in Queues : mem'[q].id = mem[q].id,
         \A q \in Queues : mem[q].id = i =>
           Items(q)' = Items(q) /\ \A g \in Range(Items(q)) : mem'[g].msg = mem[g].msg
  PROVE  Content(i)' = Content(i)
<1>1. CASE \E q \in Queues : mem[q].id = i
  <2>1. PICK q \in Queues : mem[q].id = i
    BY <1>1, Zenon
  <2>2. Content(i) = Msgs(q)
    BY <2>1, ContentOf, Zenon
  <2>3. Content(i)' = Msgs(q)'
    BY <2>1, ContentThen, Zenon
  <2>4. Items(q)' = Items(q) /\ \A k \in DOMAIN Items(q) : mem'[Items(q)[k]].msg = mem[Items(q)[k]].msg
    BY <2>1, Zenon DEF Range
  <2>5. Msgs(q)' = Msgs(q)
    BY <2>4, Zenon DEF Msgs, MsgsOf
  <2> QED BY <2>2, <2>3, <2>5, Zenon
<1>2. CASE \A q \in Queues : mem[q].id # i
  <2>1. Content(i) = <<>>
    BY <1>2, ContentNone, Zenon
  <2>2. Content(i)' = <<>>
    BY <1>2, ContentNoneThen, Zenon
  <2> QED BY <2>1, <2>2, Zenon
<1> QED
  BY <1>1, <1>2, Zenon

(* The variables of TypedQueue. *)
OutOf(p) == IF pc[p] = "snd_append" THEN mem[node[p]].msg ELSE None
HeldOf(p) == IF pc[p] = "rcv_copy" THEN mem[node[p]].msg ELSE None

All == [i \in Ids |-> Content(i)]
Out == [p \in Procs |-> OutOf(p)]
Held == [p \in Procs |-> HeldOf(p)]

(* The messages on their way after a step of p. *)
LEMMA OnTheWay ==
  ASSUME NEW p \in Procs,
         \A r \in Procs \ {p} :
           pc'[r] = pc[r] /\ (InHand(r) => node'[r] = node[r] /\ mem'[node[r]].msg = mem[node[r]].msg)
  PROVE  /\ Out[p] = OutOf(p) /\ Out' = [Out EXCEPT ![p] = OutOf(p)']
         /\ Held[p] = HeldOf(p) /\ Held' = [Held EXCEPT ![p] = HeldOf(p)']
<1>1. \A r \in Procs \ {p} : OutOf(r)' = OutOf(r) /\ HeldOf(r)' = HeldOf(r)
  BY Zenon DEF OutOf, HeldOf, InHand
<1>2. Out' = [Out EXCEPT ![p] = OutOf(p)']
  BY <1>1, Zenon DEF Out
<1>3. Held' = [Held EXCEPT ![p] = HeldOf(p)']
  BY <1>1, Zenon DEF Held
<1> QED
  BY <1>2, <1>3, Zenon DEF Out, Held

(* A removed queue stays removed. *)
LEMMA StaysRemoved ==
  ASSUME TypeOK, Listed, NEW D, QueuesKept(D), ~Removed'
  PROVE  ~Removed
<1>1. \A j : InList(j)' <=> InList(j)
  BY InListKept, Zenon
<1> QED
  BY <1>1, Zenon DEF Removed, QueuesKept

(* The queues keep their messages when their nodes do. *)
LEMMA AllKept ==
  ASSUME Unique, Unique', QueuesKept({}),
         \A q \in Queues : Items(q)' = Items(q) /\ \A g \in Range(Items(q)) : mem'[g].msg = mem[g].msg
  PROVE  All' = All
<1>1. Queues' = Queues /\ \A q \in Queues : mem'[q].id = mem[q].id
  BY Zenon DEF QueuesKept
<1>2. \A i : Content(i)' = Content(i)
  BY <1>1, ContentKept, Zenon
<1> QED
  BY <1>2, Zenon DEF All

(* A step that does not touch the queues is invisible. *)
LEMMA Invisible ==
  ASSUME UNCHANGED <<mem, got>>, nextId' = nextId,
         \A r \in Procs : InHand(r) \/ InHand(r)' => pc'[r] = pc[r] /\ node'[r] = node[r]
  PROVE  UNCHANGED Abstract!vars
<1>1. \A i : Content(i)' = Content(i)
  BY Zenon DEF Content, Items, Queues
<1>2. \A r \in Procs : OutOf(r)' = OutOf(r) /\ HeldOf(r)' = HeldOf(r)
  BY Zenon DEF OutOf, HeldOf, InHand
<1>3. All' = All /\ Out' = Out /\ Held' = Held
  BY <1>1, <1>2, Zenon DEF All, Out, Held
<1> QED
  BY <1>3, Zenon DEF Abstract!vars, All, Out, Held, OutOf, HeldOf

(* While no queue is removed, no two have the same id. *)
LEMMA UniqueThen ==
  ASSUME IInv', ~Removed'
  PROVE  Unique'
<1>0. Listed'
  BY Zenon DEF IInv
<1> USE <1>0
<1>1. \A i \in 1..(nextId' - 1) : InList(i)'
  BY Zenon DEF Removed
<1>2. \A r \in Procs : ~Removes(r)'
  BY <1>1, Zenon DEF Listed
<1>3. \A q \in Queues' : \E k \in DOMAIN list' : q = list'[k]
  BY <1>2, Zenon DEF Listed, Range
<1>4. \A k, l \in DOMAIN list' : mem'[list'[k]].id = mem'[list'[l]].id => k = l
  BY Zenon DEF Listed
<1> QED
  BY ONLY <1>3, <1>4 DEF Unique

(* msgget() is Create. *)
LEMMA MsggetCreates ==
  ASSUME ChainsFound, IInv, IInv', NEW p \in Procs, NEW key \in Keys, Msgget(p, key), ~Removed'
  PROVE  Abstract!Next
<1>0. TypeOK /\ Lists
  BY Zenon DEF IInv
<1>1. /\ nextId' = nextId + 1 /\ nextId <= MaxIds
      /\ UNCHANGED <<pc, id, queue, node, want, asleep, killed, got, sends>>
  BY Zenon DEF Msgget, locals
<1>2. nextId \in Nat \ {0} /\ MaxIds \in Nat
  BY <1>0, MsgAssumption, Zenon DEF TypeOK
<1>3. PICK g : Creates(g)
  BY MsggetDoes, Zenon
<1>4. /\ g \in Pages /\ g \notin Queues /\ (\A r \in Procs : InHand(r) => node[r] # g /\ node[r] \in Pages)
      /\ mem'[g].id = nextId /\ (\A h \in Pages : h # g => mem'[h] = mem[h])
      /\ Queues' = Queues \cup {g} /\ (\A q \in Queues : Items(q)' = Items(q)) /\ Items(g)' = <<>>
      /\ \A q \in Queues : g \notin Range(Items(q))
  BY <1>3, Zenon DEF Creates
<1> USE <1>4
<1>5. \A q \in Queues : q \in Pages /\ q # g /\ mem'[q] = mem[q]
  BY Zenon DEF Queues
<1> USE <1>5
<1>6. Unique'
  BY UniqueThen, Zenon
<1>7. Unique /\ \A q \in Queues : mem[q].id # nextId
  BY <1>6, Zenon DEF Unique
<1>8. ASSUME NEW i
      PROVE  Content(i)' = Content(i)
  <2>1. CASE i = nextId
    <3>1. Content(i) = <<>>
      BY <1>7, <2>1, ContentNone, Zenon
    <3>2. Content(i)' = Msgs(g)'
      BY <1>6, <2>1, ContentThen, Zenon
    <3>3. Msgs(g)' = MsgsOf(mem', <<>>)
      BY Zenon DEF Msgs
    <3> QED BY <3>1, <3>2, <3>3, Nothing, Zenon
  <2>2. CASE i # nextId /\ \E q \in Queues : mem[q].id = i
    <3>1. PICK q \in Queues : mem[q].id = i
      BY <2>2, Zenon
    <3>2. Content(i) = Msgs(q)
      BY <1>7, <3>1, ContentOf, Zenon
    <3>3. Content(i)' = Msgs(q)'
      BY <1>6, <3>1, ContentThen, Zenon
    <3>4. \A k \in DOMAIN Items(q) : Items(q)[k] \in Pages /\ Items(q)[k] # g
      <4>1. Range(Items(q)) \subseteq Pages
        BY <1>0, ItemsAre, Zenon
      <4> QED BY <4>1, Zenon DEF Range
    <3>5. Items(q)' = Items(q) /\ \A k \in DOMAIN Items(q) : mem'[Items(q)[k]].msg = mem[Items(q)[k]].msg
      BY <3>4, Zenon
    <3>6. Msgs(q)' = Msgs(q)
      BY <3>5, Zenon DEF Msgs, MsgsOf
    <3> QED BY <3>2, <3>3, <3>6, Zenon
  <2>3. CASE i # nextId /\ \A q \in Queues : mem[q].id # i
    <3>1. Content(i) = <<>>
      BY <2>3, ContentNone, Zenon
    <3>2. Content(i)' = <<>>
      BY <2>3, ContentNoneThen, Zenon
    <3> QED BY <3>1, <3>2, Zenon
  <2> QED BY <2>1, <2>2, <2>3, Zenon
<1>9. \A r \in Procs : OutOf(r)' = OutOf(r) /\ HeldOf(r)' = HeldOf(r)
  BY <1>1, Zenon DEF OutOf, HeldOf, InHand
<1>10. All' = All /\ Out' = Out /\ Held' = Held
  BY <1>8, <1>9, Zenon DEF All, Out, Held
<1>11. nextId \in Ids /\ nextId \notin 1..(nextId - 1) /\ 1..(nextId' - 1) = (1..(nextId - 1)) \cup {nextId}
  BY <1>1, <1>2 DEF Ids
<1>12. Abstract!Create(nextId)
  BY <1>1, <1>10, <1>11, Zenon DEF Abstract!Create, All, Out, Held, OutOf, HeldOf
<1> QED
  BY <1>11, <1>12, Zenon DEF Abstract!Next

(* msgsnd() prepares the message. *)
LEMMA SndAllocPrepares ==
  ASSUME ChainsFound, IInv, IInv', NEW p \in Procs, SndAlloc(p), ~Removed'
  PROVE  Abstract!Next \/ UNCHANGED Abstract!vars
<1>0. TypeOK /\ Lists /\ Listed
  BY Zenon DEF IInv
<1> USE <1>0
<1>1. pc[p] = "snd_alloc" /\ UNCHANGED <<list, nextId, got>>
  BY Zenon DEF SndAlloc
<1> USE <1>1
<1>2. CASE Return(p) /\ UNCHANGED <<mem, sends>>
  <2>1. pc'[p] = "user" /\ \A r \in Procs : r # p => pc'[r] = pc[r] /\ node'[r] = node[r]
    BY <1>2, ReturnIs, Zenon
  <2> QED BY <1>2, <2>1, Invisible, Zenon DEF InHand
<1>3. CASE \E g, m : Allocates(p, g, m)
  <2>1. PICK g, m : Allocates(p, g, m)
    BY <1>3, Zenon
  <2>2. /\ g \in Pages /\ (\A r \in Procs : InHand(r) => node[r] # g /\ node[r] \in Pages)
        /\ m \in Messages /\ mem'[g].msg = m /\ (\A h \in Pages : h # g => mem'[h] = mem[h])
        /\ (\A q \in Queues : Items(q)' = Items(q) /\ g \notin Range(Items(q))) /\ QueuesKept({})
        /\ pc'[p] = "snd_append" /\ node'[p] = g
        /\ \A r \in Procs : r # p => pc'[r] = pc[r] /\ node'[r] = node[r]
    BY <2>1, Zenon DEF Allocates
  <2>3. Unique /\ Unique'
    BY <2>2, StaysRemoved, NotRemoved, UniqueThen, Zenon
  <2>4. \A q \in Queues : \A h \in Range(Items(q)) : h \in Pages /\ h # g
    BY <2>2, ItemsAre, Zenon
  <2>5. All' = All
    BY <2>2, <2>3, <2>4, AllKept, Zenon
  <2>6. /\ Out[p] = OutOf(p) /\ Out' = [Out EXCEPT ![p] = OutOf(p)']
        /\ Held[p] = HeldOf(p) /\ Held' = [Held EXCEPT ![p] = HeldOf(p)']
    BY <2>2, OnTheWay, Zenon
  <2>7. OutOf(p) = None /\ OutOf(p)' = m /\ HeldOf(p)' = HeldOf(p)
    BY <2>2, Zenon DEF OutOf, HeldOf
  <2>8. Held' = Held
    BY <2>6, <2>7, Zenon DEF Held
  <2>9. Out[p] = None /\ Out' = [Out EXCEPT ![p] = m]
    BY <2>6, <2>7, Zenon
  <2>10. Abstract!Prepare(p, m)
    BY <2>5, <2>8, <2>9, Zenon DEF Abstract!Prepare, All, Out, Held, OutOf, HeldOf
  <2> QED BY <2>2, <2>10, Zenon DEF Abstract!Next
<1> QED
  BY <1>2, <1>3, SndAllocDoes, Zenon

(* The messages of a sequence of nodes. *)
LEMMA MsgsAre ==
  ASSUME NEW S, NEW s \in Seq(S), NEW m
  PROVE  /\ MsgsOf(m, s) \in Seq({m[s[k]].msg : k \in DOMAIN s}) /\ Len(MsgsOf(m, s)) = Len(s)
         /\ Len(s) \in Nat /\ DOMAIN s = 1..Len(s) /\ DOMAIN MsgsOf(m, s) = 1..Len(s)
         /\ \A k \in 1..Len(s) : MsgsOf(m, s)[k] = m[s[k]].msg
<1>1. Len(s) \in Nat /\ DOMAIN s = 1..Len(s)
  OBVIOUS
<1> USE <1>1
<1>2. MsgsOf(m, s) = [k \in 1..Len(s) |-> m[s[k]].msg]
  BY Zenon DEF MsgsOf
<1>3. PICK T : T = {m[s[k]].msg : k \in DOMAIN s}
  BY Zenon
<1>4. MsgsOf(m, s) \in [1..Len(s) -> T]
  BY <1>2, <1>3, Zenon
<1>5. MsgsOf(m, s) \in Seq(T) /\ Len(MsgsOf(m, s)) = Len(s)
  BY ONLY <1>1, <1>4
<1> QED
  BY <1>2, <1>3, <1>5, Zenon

(* A node is appended. *)
LEMMA AppendMsgs ==
  ASSUME NEW S, NEW s \in Seq(S), NEW n \in S, NEW m, NEW m2,
         \A g \in Range(s) \cup {n} : m2[g].msg = m[g].msg
  PROVE  MsgsOf(m2, Append(s, n)) = Append(MsgsOf(m, s), m[n].msg)
<1>1. /\ Len(s) \in Nat /\ DOMAIN s = 1..Len(s) /\ DOMAIN MsgsOf(m, s) = 1..Len(s) /\ Len(MsgsOf(m, s)) = Len(s)
      /\ \A k \in 1..Len(s) : MsgsOf(m, s)[k] = m[s[k]].msg
  BY MsgsAre, Zenon
<1>2. PICK a, b : a = Append(s, n) /\ b = MsgsOf(m, s)
  BY Zenon
<1> USE <1>2
<1>3. PICK T : b \in Seq(T)
  BY MsgsAre, Zenon
<1>4. /\ Len(a) = Len(s) + 1 /\ DOMAIN a = 1..(Len(s) + 1)
      /\ \A k \in 1..(Len(s) + 1) : a[k] = IF k = Len(s) + 1 THEN n ELSE s[k]
  BY ONLY <1>1, <1>2, s \in Seq(S), n \in S
<1>5. PICK c : c = Append(b, m[n].msg)
  BY Zenon
<1>6. Len(b) = Len(s) /\ \A k \in 1..Len(s) : b[k] = m[s[k]].msg
  BY <1>1, Zenon
<1>7. /\ c = [k \in 1..(Len(s) + 1) |-> IF k = Len(s) + 1 THEN m[n].msg ELSE b[k]]
  BY ONLY <1>1, <1>3, <1>5, <1>6
<1>8. \A k \in 1..(Len(s) + 1) : k # Len(s) + 1 => k \in 1..Len(s) /\ s[k] \in Range(s)
  BY <1>1 DEF Range
<1>9. MsgsOf(m2, a) = [k \in 1..(Len(s) + 1) |-> m2[a[k]].msg]
  BY <1>4, Zenon DEF MsgsOf
<1>10. \A k \in 1..(Len(s) + 1) : m2[a[k]].msg = IF k = Len(s) + 1 THEN m[n].msg ELSE b[k]
  BY <1>4, <1>6, <1>8, Zenon
<1>11. MsgsOf(m2, a) = c
  BY ONLY <1>7, <1>9, <1>10, Zenon
<1> QED
  BY <1>5, <1>11, Zenon

(* A node is taken out. *)
LEMMA WithoutMsgs ==
  ASSUME NEW S, NEW s \in Seq(S), NEW k \in DOMAIN s, NEW m, NEW m2,
         \A g \in Range(s) : m2[g].msg = m[g].msg
  PROVE  MsgsOf(m2, Without(s, k)) = Without(MsgsOf(m, s), k)
<1>1. /\ Len(s) \in Nat /\ DOMAIN s = 1..Len(s) /\ Len(MsgsOf(m, s)) = Len(s)
      /\ \A l \in 1..Len(s) : MsgsOf(m, s)[l] = m[s[l]].msg
  BY MsgsAre, Zenon
<1>2. PICK w, b : w = Without(s, k) /\ b = MsgsOf(m, s)
  BY Zenon
<1> USE <1>2
<1>3. /\ DOMAIN w = 1..(Len(s) - 1)
      /\ \A l \in 1..(Len(s) - 1) : w[l] = (IF l < k THEN s[l] ELSE s[l + 1]) /\ l \in DOMAIN s /\ (l + 1) \in DOMAIN s
  BY WithoutIs, Zenon
<1>4. Without(b, k) = [l \in 1..(Len(s) - 1) |-> IF l < k THEN b[l] ELSE b[l + 1]]
  BY <1>1, Zenon DEF Without
<1>5. MsgsOf(m2, w) = [l \in 1..(Len(s) - 1) |-> m2[w[l]].msg]
  BY <1>3, Zenon DEF MsgsOf
<1>6. \A l \in DOMAIN s : m2[s[l]].msg = b[l]
  BY <1>1, Zenon DEF Range
<1>7. \A l \in 1..(Len(s) - 1) : m2[w[l]].msg = IF l < k THEN b[l] ELSE b[l + 1]
  BY <1>3, <1>6, Zenon
<1> QED
  BY <1>4, <1>5, <1>7, Zenon

(* Only the queue with the id i changes. *)
LEMMA AllBut ==
  ASSUME Lists, Unique, Unique', QueuesKept({}), NEW q \in Queues, NEW i \in Ids, i = mem[q].id,
         \A r \in Queues : r # q => Items(r)' = Items(r),
         \A g \in Pages : mem'[g].msg = mem[g].msg
  PROVE  All[i] = Msgs(q) /\ All' = [All EXCEPT ![i] = Msgs(q)']
<1>1. Queues' = Queues /\ \A r \in Queues : mem'[r].id = mem[r].id
  BY Zenon DEF QueuesKept
<1>2. Content(i) = Msgs(q)
  BY ContentOf, Zenon
<1>3. Content(i)' = Msgs(q)'
  BY <1>1, ContentThen, Zenon
<1>4. ASSUME NEW j, j # i
      PROVE  Content(j)' = Content(j)
  <2>1. \A r \in Queues : Range(Items(r)) \subseteq Pages
    BY ItemsAre, Zenon
  <2>2. \A r \in Queues : mem[r].id = j =>
          Items(r)' = Items(r) /\ \A g \in Range(Items(r)) : mem'[g].msg = mem[g].msg
    BY <1>4, <2>1, Zenon
  <2> QED BY <1>1, <2>2, ContentKept, Zenon
<1>5. All' = [All EXCEPT ![i] = Msgs(q)']
  BY <1>3, <1>4, Zenon DEF All
<1> QED
  BY <1>2, <1>5, Zenon DEF All

(* msgsnd() sends the message. *)
LEMMA SndAppendSends ==
  ASSUME ChainsFound, IInv, IInv', NEW p \in Procs, SndAppend(p), ~Removed', nextId <= MaxIds + 1
  PROVE  Abstract!Next
<1>0. TypeOK /\ Lists /\ Hands /\ Listed
  BY Zenon DEF IInv
<1> USE <1>0
<1>1. pc[p] = "snd_append" /\ Return(p) /\ UNCHANGED <<list, nextId, got>>
  BY Zenon DEF SndAppend
<1> USE <1>1
<1>2. PICK q, n : Appends(p, q, n)
  BY SndAppendDoes, Zenon
<1>3. /\ q \in Queues /\ q = queue[p] /\ n \in Pages /\ n = node[p] /\ mem[n].msg \in Messages
      /\ Items(q) \in Seq(Pages) /\ Items(q)' = Append(Items(q), n)
      /\ (\A r \in Queues : r # q => Items(r)' = Items(r)) /\ QueuesKept({})
      /\ \A g \in Pages : mem'[g].msg = mem[g].msg
  BY <1>2, Zenon DEF Appends
<1> USE <1>3
<1>4. ~Removed
  BY StaysRemoved, Zenon
<1>5. Unique /\ Unique' /\ mem[q].id = id[p] /\ id[p] \in 1..(nextId - 1)
  <2>1. Unique /\ (Follows(p) => mem[queue[p]].id = id[p] /\ id[p] \in 1..(nextId - 1))
    BY ONLY IInv, <1>4, NotRemoved, p \in Procs, Zenon
  <2>2. Unique'
    BY ONLY IInv', ~Removed', UniqueThen, Zenon
  <2>3. Follows(p)
    BY Zenon DEF Follows
  <2> QED BY <2>1, <2>2, <2>3, Zenon
<1>6. PICK i : i = id[p]
  BY Zenon
<1>7. i \in Ids /\ i \in 1..(nextId - 1)
  <2>1. nextId \in Nat /\ MaxIds \in Nat /\ nextId <= MaxIds + 1
    BY MsgAssumption, Zenon DEF TypeOK
  <2> QED BY ONLY <1>5, <1>6, <2>1 DEF Ids
<1> USE <1>7
<1>8. All[i] = Msgs(q) /\ All' = [All EXCEPT ![i] = Msgs(q)']
  BY <1>5, <1>6, AllBut, Zenon
<1>9. Msgs(q)' = Append(Msgs(q), mem[n].msg)
  <2>0. \A g \in Range(Items(q)) : g \in Pages
    BY ONLY <1>3 DEF Range
  <2>1. \A g \in Range(Items(q)) \cup {n} : mem'[g].msg = mem[g].msg
    BY ONLY <1>3, <2>0, Zenon
  <2>2. MsgsOf(mem', Append(Items(q), n)) = Append(MsgsOf(mem, Items(q)), mem[n].msg)
    BY ONLY <1>3, <2>1, AppendMsgs
  <2> QED BY <2>2, Zenon DEF Msgs
<1>10. /\ Out[p] = OutOf(p) /\ Out' = [Out EXCEPT ![p] = OutOf(p)']
       /\ Held[p] = HeldOf(p) /\ Held' = [Held EXCEPT ![p] = HeldOf(p)'] /\ pc'[p] = "user"
  <2>1. pc'[p] = "user" /\ \A r \in Procs : r # p => pc'[r] = pc[r] /\ node'[r] = node[r]
    BY ReturnIs, Zenon
  <2>2. \A r \in Procs : InHand(r) => mem'[node[r]].msg = mem[node[r]].msg
    BY Zenon DEF Hands
  <2> QED BY <2>1, <2>2, OnTheWay, Zenon
<1> USE <1>10
<1>11. OutOf(p) = mem[n].msg /\ OutOf(p)' = None /\ HeldOf(p)' = HeldOf(p) /\ mem[n].msg # None
  <2>1. None \notin Messages
    BY MsgAssumption, Zenon DEF Messages
  <2> QED BY <2>1, Zenon DEF OutOf, HeldOf
<1>12. Held' = Held
  BY <1>11, Zenon DEF Held
<1>13. Out[p] # None /\ Out' = [Out EXCEPT ![p] = None] /\ All' = [All EXCEPT ![i] = Append(All[i], Out[p])]
  BY <1>8, <1>9, <1>11, Zenon
<1>14. Abstract!Send(p, i)
  BY <1>12, <1>13, Zenon DEF Abstract!Send, All, Out, Held, OutOf, HeldOf
<1> QED
  BY <1>14, Zenon DEF Abstract!Next

(* msgrcv() takes the first message of the type it wants. *)
LEMMA TakeTakes ==
  ASSUME ChainsFound, IInv, IInv', NEW p \in Procs, NEW q, q = queue[p], pc[p] = "rcv_scan", mem[q].use = "queue",
         NEW k \in Matches(q, want[p]), \A j \in Matches(q, want[p]) : k <= j,
         mem' = Unlink(q, Items(q), k), node' = [node EXCEPT ![p] = Items(q)[k]], Goto(p, "rcv_copy"),
         UNCHANGED <<list, nextId, got>>, ~Removed', nextId <= MaxIds + 1
  PROVE  Abstract!Next
<1>0. TypeOK /\ Lists /\ Hands /\ Listed
  BY Zenon DEF IInv
<1> USE <1>0
<1>1. k \in DOMAIN Items(q) /\ want[p] \in {0, mem[Items(q)[k]].msg.typ}
  BY Zenon DEF Matches
<1>2. PICK n : Unlinks(q, k, n)
  BY <1>1, UnlinkDoes, Zenon
<1>3. /\ q \in Queues /\ n \in Pages /\ n = Items(q)[k] /\ mem[n].use = "node"
      /\ Items(q) \in Seq(Pages) /\ Items(q)' = Without(Items(q), k)
      /\ (\A r \in Queues : r # q => Items(r)' = Items(r)) /\ QueuesKept({})
      /\ \A g \in Pages : mem'[g].msg = mem[g].msg
  BY <1>2, Zenon DEF Unlinks
<1>4. ~Removed
  BY <1>3, StaysRemoved, Zenon
<1>5. Unique /\ Unique' /\ mem[q].id = id[p] /\ id[p] \in 1..(nextId - 1)
  <2>1. Unique /\ (Follows(p) => mem[queue[p]].id = id[p] /\ id[p] \in 1..(nextId - 1))
    BY ONLY IInv, <1>4, NotRemoved, p \in Procs, Zenon
  <2>2. Unique'
    BY ONLY IInv', ~Removed', UniqueThen, Zenon
  <2>3. Follows(p)
    BY Zenon DEF Follows
  <2> QED BY <1>3, <2>1, <2>2, <2>3, Zenon
<1>6. PICK i, t : i = id[p] /\ t = want[p]
  BY Zenon
<1>7. i \in Ids /\ i \in 1..(nextId - 1)
  <2>1. nextId \in Nat /\ MaxIds \in Nat /\ nextId <= MaxIds + 1
    BY MsgAssumption, Zenon DEF TypeOK
  <2> QED BY ONLY <1>5, <1>6, <2>1 DEF Ids
<1> USE <1>7
<1>8. All[i] = Msgs(q) /\ All' = [All EXCEPT ![i] = Msgs(q)']
  BY <1>3, <1>5, <1>6, AllBut, Zenon
<1>9. Msgs(q)' = Without(Msgs(q), k)
  <2>1. \A g \in Range(Items(q)) : mem'[g].msg = mem[g].msg
    BY <1>3, ItemsAre, Zenon
  <2>2. MsgsOf(mem', Without(Items(q), k)) = Without(MsgsOf(mem, Items(q)), k)
    BY <1>1, <1>3, <2>1, WithoutMsgs
  <2> QED BY <1>3, <2>2, Zenon DEF Msgs
<1>10. /\ Out[p] = OutOf(p) /\ Out' = [Out EXCEPT ![p] = OutOf(p)']
       /\ Held[p] = HeldOf(p) /\ Held' = [Held EXCEPT ![p] = HeldOf(p)']
       /\ pc'[p] = "rcv_copy" /\ node'[p] = n
  <2>1. pc'[p] = "rcv_copy" /\ \A r \in Procs : r # p => pc'[r] = pc[r]
    <3>1. "rcv_copy" \in Places
      BY Zenon DEF Places
    <3> QED BY <3>1, GotoIs, Zenon
  <2>2. node'[p] = n /\ \A r \in Procs : r # p => node'[r] = node[r]
    BY <1>3, Zenon DEF TypeOK
  <2>3. \A r \in Procs : InHand(r) => mem'[node[r]].msg = mem[node[r]].msg
    BY <1>3, Zenon DEF Hands
  <2> QED BY <2>1, <2>2, <2>3, OnTheWay, Zenon
<1>11. HeldOf(p) = None /\ HeldOf(p)' = mem[n].msg /\ OutOf(p)' = OutOf(p)
  BY <1>3, <1>10, Zenon DEF OutOf, HeldOf
<1>12. Out' = Out
  BY <1>10, <1>11, Zenon DEF Out
<1>13. /\ DOMAIN All[i] = 1..Len(Items(q)) /\ DOMAIN Items(q) = 1..Len(Items(q)) /\ Len(Items(q)) \in Nat
       /\ \A l \in 1..Len(Items(q)) : All[i][l] = mem[Items(q)[l]].msg
  <2>1. PICK s, m : s = Items(q) /\ m = mem
    BY Zenon
  <2>2. s \in Seq(Pages) /\ All[i] = MsgsOf(m, s)
    BY <1>3, <1>8, <2>1, Zenon DEF Msgs
  <2>3. /\ Len(s) \in Nat /\ DOMAIN s = 1..Len(s) /\ DOMAIN MsgsOf(m, s) = 1..Len(s)
        /\ \A l \in 1..Len(s) : MsgsOf(m, s)[l] = m[s[l]].msg
    BY ONLY <2>2, MsgsAre, Zenon
  <2> QED BY ONLY <2>1, <2>2, <2>3, Zenon
<1>14. t \in Types \cup {0}
  <2>1. mem[n].msg \in Messages
    BY <1>3, Zenon DEF Hands
  <2>2. mem[n].msg.typ \in Types
    BY <2>1, Zenon DEF Messages
  <2> QED BY <1>1, <1>3, <1>6, <2>2, Zenon
<1>15. k \in DOMAIN All[i] /\ t \in {0, All[i][k].typ} /\ All[i][k] = mem[n].msg
  BY <1>1, <1>3, <1>6, <1>13, Zenon
<1>16. ASSUME NEW j \in 1..(k - 1)
       PROVE  t \notin {0, All[i][j].typ}
  <2>0. k \in 1..Len(Items(q)) /\ Len(Items(q)) \in Nat
    BY <1>1, <1>13, Zenon
  <2>1. j \in 1..Len(Items(q)) /\ ~(k <= j)
    BY ONLY <2>0, j \in 1..(k - 1)
  <2>2. j \notin Matches(q, want[p])
    BY <2>1, Zenon
  <2> QED BY <1>6, <1>13, <2>1, <2>2, Zenon DEF Matches
<1>17. /\ Held[p] = None /\ Held' = [Held EXCEPT ![p] = All[i][k]]
       /\ All' = [All EXCEPT ![i] = Without(All[i], k)]
  <2>1. Held[p] = None /\ Held' = [Held EXCEPT ![p] = All[i][k]]
    BY ONLY <1>10, <1>11, <1>15, Zenon
  <2>2. All' = [All EXCEPT ![i] = Without(All[i], k)]
    BY ONLY <1>8, <1>9, Zenon
  <2> QED BY <2>1, <2>2, Zenon
<1>18. Abstract!Take(p, i, t)
  <2>1. Abstract!Without(All[i], k) = Without(All[i], k)
    BY Zenon DEF Abstract!Without, Without
  <2> QED BY <1>12, <1>15, <1>16, <1>17, <2>1, Zenon DEF Abstract!Take, All, Out, Held, OutOf, HeldOf
<1> QED
  BY <1>14, <1>18, Zenon DEF Abstract!Next

(* The scan in msgrcv() takes the first matching message, or changes nothing
   that TypedQueue shows. *)
LEMMA RcvScanTakes ==
  ASSUME ChainsFound, IInv, IInv', NEW p \in Procs, RcvScan(p), ~Removed', nextId <= MaxIds + 1
  PROVE  Abstract!Next \/ UNCHANGED Abstract!vars
<1>0. TypeOK
  BY Zenon DEF IInv
<1>1. PICK q : q = queue[p]
  BY Zenon
<1>2. /\ pc[p] = "rcv_scan" /\ mem[q].use = "queue" /\ UNCHANGED <<list, nextId, got>>
      /\ \/ \E k \in Matches(q, want[p]) :
              /\ \A j \in Matches(q, want[p]) : k <= j
              /\ mem' = Unlink(q, Items(q), k)
              /\ node' = [node EXCEPT ![p] = Items(q)[k]]
              /\ Goto(p, "rcv_copy")
         \/ Return(p) /\ UNCHANGED mem
         \/ Goto(p, "rcv_sleep") /\ UNCHANGED <<mem, node>>
  BY <1>1, Zenon DEF RcvScan, locals
<1> USE <1>2
<1>3. CASE \E k \in Matches(q, want[p]) :
             /\ \A j \in Matches(q, want[p]) : k <= j
             /\ mem' = Unlink(q, Items(q), k)
             /\ node' = [node EXCEPT ![p] = Items(q)[k]]
             /\ Goto(p, "rcv_copy")
  <2>1. PICK k \in Matches(q, want[p]) :
             /\ \A j \in Matches(q, want[p]) : k <= j
             /\ mem' = Unlink(q, Items(q), k)
             /\ node' = [node EXCEPT ![p] = Items(q)[k]]
             /\ Goto(p, "rcv_copy")
    BY <1>3, Zenon
  <2> QED BY <1>1, <2>1, TakeTakes, Zenon
<1>4. CASE Return(p) /\ UNCHANGED mem
  <2>1. pc'[p] = "user" /\ \A r \in Procs : r # p => pc'[r] = pc[r] /\ node'[r] = node[r]
    BY <1>0, <1>4, ReturnIs, Zenon
  <2> QED BY <1>4, <2>1, Invisible, Zenon DEF InHand
<1>5. CASE Goto(p, "rcv_sleep") /\ UNCHANGED <<mem, node>>
  <2>1. pc'[p] = "rcv_sleep" /\ \A r \in Procs : r # p => pc'[r] = pc[r]
    <3>1. "rcv_sleep" \in Places
      BY Zenon DEF Places
    <3> QED BY <1>0, <1>5, <3>1, GotoIs, Zenon
  <2> QED BY <1>5, <2>1, Invisible, Zenon DEF InHand
<1> QED
  BY <1>3, <1>4, <1>5, Zenon

(* msgrcv() delivers the message. *)
LEMMA RcvCopyDelivers ==
  ASSUME ChainsFound, IInv, IInv', NEW p \in Procs, RcvCopy(p), ~Removed'
  PROVE  Abstract!Next
<1>0. TypeOK /\ Lists /\ Hands /\ Listed
  BY Zenon DEF IInv
<1> USE <1>0
<1>1. /\ pc[p] = "rcv_copy" /\ mem' = [mem EXCEPT ![node[p]] = Junk] /\ Return(p)
      /\ UNCHANGED <<list, nextId>> /\ got' \in {got, [got EXCEPT ![p] = mem[node[p]].msg]} /\ InHand(p)
  BY Zenon DEF RcvCopy, InHand
<1> USE <1>1
<1>2. PICK g : g = node[p]
  BY Zenon
<1> USE <1>2
<1>3. /\ g \in Pages /\ mem[g].msg \in Messages /\ g \notin Queues
      /\ \A q \in Queues : g \notin Range(Items(q))
      /\ \A r \in Procs \ {p} : InHand(r) => node[r] # g /\ node[r] \in Pages
  BY Zenon DEF Hands, Queues
<1> USE <1>3
<1>4. /\ \A h \in Pages : h # g => mem'[h] = mem[h]
      /\ \A q \in Queues : Items(q)' = Items(q)
      /\ QueuesKept({})
  BY JunkIs, NodePage, Zenon
<1> USE <1>4
<1>5. Unique /\ Unique'
  BY StaysRemoved, NotRemoved, UniqueThen, Zenon
<1>6. \A q \in Queues : \A h \in Range(Items(q)) : h \in Pages /\ h # g
  BY ItemsAre, Zenon
<1>7. All' = All
  BY <1>5, <1>6, AllKept, Zenon
<1>8. pc'[p] = "user" /\ \A r \in Procs : r # p => pc'[r] = pc[r] /\ node'[r] = node[r]
  BY ReturnIs, Zenon
<1>9. /\ Out[p] = OutOf(p) /\ Out' = [Out EXCEPT ![p] = OutOf(p)']
      /\ Held[p] = HeldOf(p) /\ Held' = [Held EXCEPT ![p] = HeldOf(p)']
  BY <1>8, OnTheWay, Zenon
<1>10. HeldOf(p) = mem[g].msg /\ HeldOf(p)' = None /\ OutOf(p)' = OutOf(p) /\ mem[g].msg # None
  <2>1. None \notin Messages
    BY MsgAssumption, Zenon DEF Messages
  <2> QED BY <1>8, <2>1, Zenon DEF OutOf, HeldOf
<1>11. Out' = Out
  BY <1>9, <1>10, Zenon DEF Out
<1>12. Held[p] # None /\ Held' = [Held EXCEPT ![p] = None] /\ got' \in {got, [got EXCEPT ![p] = Held[p]]}
  BY <1>9, <1>10, Zenon
<1>13. Abstract!Deliver(p)
  BY <1>7, <1>11, <1>12, Zenon DEF Abstract!Deliver, All, Out, Held, OutOf, HeldOf
<1> QED
  BY <1>13, Zenon DEF Abstract!Next

(* A queue that a process removes is removed. *)
LEMMA RemovesRemoved ==
  ASSUME IInv, IInv', NEW p \in Procs, ~Removed',
         (\E i \in Ids : RmUnlink(p, i)) \/ RmDrain(p) \/ RmFree(p)
  PROVE  FALSE
<1>0. TypeOK /\ Listed /\ Listed'
  BY Zenon DEF IInv
<1> USE <1>0
<1>1. \A i \in 1..(nextId' - 1) : InList(i)'
  BY Zenon DEF Removed
<1>2. ~Removes(p)'
  BY <1>1, Zenon DEF Listed
<1>3. CASE \E i \in Ids : RmUnlink(p, i)
  <2>1. Goto(p, "rm_drain")
    BY <1>3, Zenon DEF RmUnlink, Lookup
  <2> QED BY <1>2, <2>1, GotoIs, Zenon DEF Places, Removes
<1>4. CASE RmDrain(p)
  <2>1. Goto(p, "rm_free")
    BY <1>4, Zenon DEF RmDrain
  <2> QED BY <1>2, <2>1, GotoIs, Zenon DEF Places, Removes
<1>5. CASE RmFree(p)
  <2>1. PICK g, i : g = queue[p] /\ i = mem[g].id
    BY Zenon
  <2>2. /\ Removes(p) /\ mem' = [mem EXCEPT ![g] = Junk] /\ list' = list /\ nextId' = nextId
    BY <1>5, <2>1, Zenon DEF RmFree, Removes
  <2>3. i \in 1..(nextId - 1) /\ ~InList(i)
    BY <2>1, <2>2, Zenon DEF Listed
  <2>4. \A k \in DOMAIN list : list[k] # g /\ list[k] \in Pages /\ mem[list[k]].id # i
    BY <2>1, <2>3 DEF InList, TypeOK
  <2>5. \A k \in DOMAIN list : mem'[list[k]] = mem[list[k]]
    BY <2>2, <2>4, Zenon DEF TypeOK
  <2>6. ~InList(i)'
    BY <2>2, <2>4, <2>5, Zenon DEF InList
  <2> QED BY <1>1, <2>2, <2>3, <2>6, Zenon
<1> QED
  BY <1>3, <1>4, <1>5, Zenon

(* Every step of the code is a step of TypedQueue, or invisible, or        *)
(* leaves a queue removed.                                                *)
LEMMA NextRefines ==
  ASSUME ChainsFound, IInv, IInv', nextId <= MaxIds + 1, Next
  PROVE  Removed' \/ Abstract!Next \/ UNCHANGED Abstract!vars
<1> SUFFICES ASSUME ~Removed'
             PROVE  Abstract!Next \/ UNCHANGED Abstract!vars
  BY Zenon
<1>0. TypeOK
  BY Zenon DEF IInv
<1> USE <1>0
<1>1. PICK p \in Procs :
        \/ \E k \in Keys : Msgget(p, k)
        \/ \E i \in Ids, t \in Types : SndLookup(p, i, t)
        \/ \E i \in Ids, t \in Types \cup {0} : RcvLookup(p, i, t)
        \/ SndAlloc(p) \/ SndAppend(p) \/ RcvScan(p) \/ RcvSleep(p) \/ RcvCopy(p)
        \/ \E i \in Ids : RmUnlink(p, i)
        \/ RmDrain(p) \/ RmFree(p) \/ Kill(p) \/ Derails(p)
  BY Zenon DEF Next
<1>2. CASE \E k \in Keys : Msgget(p, k)
  BY <1>2, MsggetCreates, Zenon
<1>3. CASE \E i \in Ids, t \in Types : SndLookup(p, i, t)
  <2>1. pc[p] = "user" /\ UNCHANGED <<mem, nextId, node, got>> /\ Goto(p, "snd_alloc")
    BY <1>3, Zenon DEF SndLookup, Calls, Lookup
  <2>2. pc'[p] = "snd_alloc" /\ \A r \in Procs : r # p => pc'[r] = pc[r]
    BY <2>1, GotoIs, Zenon DEF Places
  <2> QED BY <2>1, <2>2, Invisible, Zenon DEF InHand
<1>4. CASE \E i \in Ids, t \in Types \cup {0} : RcvLookup(p, i, t)
  <2>1. pc[p] = "user" /\ UNCHANGED <<mem, nextId, node, got>> /\ Goto(p, "rcv_scan")
    BY <1>4, Zenon DEF RcvLookup, Calls, Lookup
  <2>2. pc'[p] = "rcv_scan" /\ \A r \in Procs : r # p => pc'[r] = pc[r]
    BY <2>1, GotoIs, Zenon DEF Places
  <2> QED BY <2>1, <2>2, Invisible, Zenon DEF InHand
<1>5. CASE SndAlloc(p) \/ SndAppend(p) \/ RcvScan(p) \/ RcvCopy(p)
  BY <1>5, SndAllocPrepares, SndAppendSends, RcvScanTakes, RcvCopyDelivers, Zenon
<1>6. CASE RcvSleep(p)
  <2>1. pc[p] = "rcv_sleep" /\ UNCHANGED <<mem, nextId, node, got>> /\ Goto(p, "rcv_scan")
    BY <1>6, Zenon DEF RcvSleep, locals
  <2>2. pc'[p] = "rcv_scan" /\ \A r \in Procs : r # p => pc'[r] = pc[r]
    BY <2>1, GotoIs, Zenon DEF Places
  <2> QED BY <2>1, <2>2, Invisible, Zenon DEF InHand
<1>7. CASE (\E i \in Ids : RmUnlink(p, i)) \/ RmDrain(p) \/ RmFree(p)
  BY <1>7, RemovesRemoved, Zenon
<1>8. CASE Kill(p)
  <2>1. UNCHANGED <<mem, nextId, node, got, pc>>
    BY <1>8, Zenon DEF Kill, locals
  <2> QED BY <2>1, Invisible, Zenon
<1>9. CASE Derails(p)
  <2>1. UNCHANGED <<mem, list, nextId>> /\ Follows(p) /\ mem[queue[p]].use # "queue"
    BY <1>9, Zenon DEF Derails, Follows
  <2>2. ~Removed
    BY <2>1, Zenon DEF Removed, InList
  <2>3. queue[p] \in Queues
    BY <2>1, <2>2, NotRemoved, Zenon
  <2> QED BY <2>1, <2>3, Zenon DEF Queues
<1> QED
  BY <1>1, <1>2, <1>3, <1>4, <1>5, <1>6, <1>7, <1>8, <1>9, Zenon

(* The initial states are those of TypedQueue. *)
LEMMA InitRefines == Init => Abstract!Init
<1> SUFFICES ASSUME Init
             PROVE  Abstract!Init
  BY Zenon
<1>1. \A g \in Pages : mem[g].use = "free"
  BY JunkIs, Zenon DEF Init
<1>2. \A i : Content(i) = <<>>
  BY <1>1, ContentNone, Zenon DEF Queues
<1>3. 1..(nextId - 1) = {}
  BY DEF Init
<1>4. \A p \in Procs : pc[p] = "user"
  BY Zenon DEF Init
<1>5. got = [p \in Procs |-> None]
  BY Zenon DEF Init
<1> QED
  BY <1>2, <1>3, <1>4, <1>5, Zenon DEF Abstract!Init

(* msgget() hands out no id beyond the bound of the model. *)
LEMMA IdsBounded == Spec => [](nextId <= MaxIds + 1 /\ nextId \in Nat)
<1>1. Init => nextId <= MaxIds + 1 /\ nextId \in Nat
  BY MsgAssumption DEF Init
<1>2. nextId <= MaxIds + 1 /\ nextId \in Nat /\ [Next]_vars => (nextId <= MaxIds + 1 /\ nextId \in Nat)'
  <2> SUFFICES ASSUME nextId <= MaxIds + 1, nextId \in Nat, [Next]_vars
               PROVE  (nextId <= MaxIds + 1 /\ nextId \in Nat)'
    BY Zenon
  <2>1. nextId' = nextId \/ (nextId <= MaxIds /\ nextId' = nextId + 1)
    BY Zenon DEF Next, vars, Msgget, SndLookup, RcvLookup, SndAlloc, SndAppend, RcvScan, RcvSleep, RcvCopy,
           RmUnlink, RmDrain, RmFree, Kill, Derails
  <2> QED BY <2>1, MsgAssumption
<1> QED
  BY <1>1, <1>2, PTL DEF Spec

-----------------------------------------------------------------------------
(* Chain() *)

INSTANCE FiniteSetTheorems

(* A set of natural numbers that is not empty has a least element. *)
LEMMA Least ==
  ASSUME NEW T, T \subseteq Nat, T # {}
  PROVE  \E q \in T : \A r \in T : q <= r
<1>1. PICK q \in T : \A r \in T : ~(<<r, q>> \in OpToRel(<, Nat))
  BY NatLessThanWellFounded, WFMin, Zenon
<1>2. \A r \in T : q <= r
  <2> TAKE r \in T
  <2>1. q \in Nat /\ r \in Nat
    BY Zenon
  <2>2. ~(r < q)
    BY <1>1, <2>1, Zenon DEF OpToRel
  <2> QED BY <2>1, <2>2
<1> QED
  BY <1>2, Zenon

(* f[n] walks at most n steps along the next pointers of m. *)
IsWalk(f, m, N) ==
  f = [n \in 0..N |->
        [g \in Pages \cup {None} |-> IF g = None \/ n = 0 THEN <<>> ELSE <<g>> \o f[n - 1][m[g].next]]]

(* There is such a function. *)
LEMMA WalkExists ==
  ASSUME NEW m, NEW N \in Nat
  PROVE  \E f : IsWalk(f, m, N)
<1> DEFINE T == {n \in Nat : ~\E f : IsWalk(f, m, n)}
<1> SUFFICES ASSUME T # {}
             PROVE  FALSE
  BY Zenon
<1>1. PICK n \in T : \A r \in T : n <= r
  BY Least, Zenon
<1>2. CASE n = 0
  <2> DEFINE f == [k \in 0..0 |-> [g \in Pages \cup {None} |-> <<>>]]
  <2>1. \A k \in 0..0 : k = 0
    OBVIOUS
  <2>2. f = [k \in 0..0 |-> [g \in Pages \cup {None} |->
               IF g = None \/ k = 0 THEN <<>> ELSE <<g>> \o f[k - 1][m[g].next]]]
    BY ONLY <2>1, Zenon
  <2>3. IsWalk(f, m, 0)
    BY ONLY <2>2, Zenon DEF IsWalk
  <2> QED BY <1>1, <1>2, <2>3, Zenon
<1>3. CASE n # 0
  <2>1. n - 1 \in Nat /\ n - 1 \notin T /\ n \in Nat
    BY <1>1, <1>3
  <2>2. PICK f : IsWalk(f, m, n - 1)
    BY <2>1, Zenon
  <2> DEFINE h == [k \in 0..n |->
                    [g \in Pages \cup {None} |-> IF g = None \/ k = 0 THEN <<>> ELSE <<g>> \o f[k - 1][m[g].next]]]
  <2>3. ASSUME NEW k \in 0..(n - 1)
        PROVE  h[k] = f[k]
    <3> DEFINE G(i) == [g \in Pages \cup {None} |-> IF g = None \/ i = 0 THEN <<>> ELSE <<g>> \o f[i - 1][m[g].next]]
    <3>1. k \in 0..n
      BY <2>1
    <3>2. f = [i \in 0..(n - 1) |-> G(i)]
      BY <2>2, Zenon DEF IsWalk
    <3>3. h = [i \in 0..n |-> G(i)]
      BY Zenon
    <3> HIDE DEF G, h, T
    <3>4. f[k] = G(k)
      BY <3>2, Zenon
    <3>5. h[k] = G(k)
      BY <3>1, <3>3, Zenon
    <3> QED BY <3>4, <3>5, Zenon
  <2>4. ASSUME NEW k \in 0..n, k # 0
        PROVE  h[k - 1] = f[k - 1]
    <3>1. (k - 1) \in 0..(n - 1)
      BY <2>1, <2>4
    <3> HIDE DEF h, T
    <3> QED BY <2>3, <3>1, Zenon
  <2>5. h = [k \in 0..n |->
              [g \in Pages \cup {None} |-> IF g = None \/ k = 0 THEN <<>> ELSE <<g>> \o h[k - 1][m[g].next]]]
    <3> HIDE DEF T
    <3> DEFINE G(u, k) == [g \in Pages \cup {None} |-> IF g = None \/ k = 0 THEN <<>> ELSE <<g>> \o u[k - 1][m[g].next]]
    <3>1. ASSUME NEW k \in 0..n
          PROVE  G(f, k) = G(h, k)
      <4>1. CASE k = 0
        BY <4>1, Zenon
      <4>2. CASE k # 0
        <5>1. h[k - 1] = f[k - 1]
          BY <2>4, <4>2, Zenon
        <5> HIDE DEF h
        <5> QED BY <5>1, Zenon
      <4> QED BY <4>1, <4>2, Zenon
    <3>2. h = [k \in 0..n |-> G(f, k)]
      BY Zenon
    <3> HIDE DEF h, G
    <3>3. h = [k \in 0..n |-> G(h, k)]
      BY <3>1, <3>2, Zenon
    <3> QED BY <3>3, Zenon DEF G
  <2>6. IsWalk(h, m, n)
    <3> HIDE DEF h
    <3> QED BY <2>5, Zenon DEF IsWalk
  <2> QED BY <2>1, <2>6, <1>1, Zenon
<1> QED
  BY <1>2, <1>3, Zenon

(* The pages t are linked from x on. *)
LinkedFrom(m, x, t) ==
  /\ t \in Seq(Pages)
  /\ x = IF t = <<>> THEN None ELSE t[1]
  /\ \A k \in DOMAIN t : m[t[k]].next = IF k = Len(t) THEN None ELSE t[k + 1]

(* The sequence of length 0. *)
LEMMA EmptyIs ==
  ASSUME NEW S, NEW u \in Seq(S), Len(u) = 0
  PROVE  u = <<>>
OBVIOUS

(* A walk that is long enough finds them. *)
LEMMA WalkFinds ==
  ASSUME NEW m, NEW N \in Nat, NEW f, IsWalk(f, m, N), NEW n \in 0..N,
         NEW x, NEW t, LinkedFrom(m, x, t), Len(t) <= n
  PROVE  f[n][x] = t
<1> DEFINE P(i) == \A y, s : LinkedFrom(m, y, s) /\ Len(s) <= i => f[i][y] = s
           T == {i \in 0..N : ~P(i)}
<1> SUFFICES ASSUME T # {}
             PROVE  FALSE
  BY Zenon
<1> HIDE DEF P
<1>0. T \subseteq Nat
  OBVIOUS
<1>1. PICK i \in T : \A r \in T : i <= r
  <2> HIDE DEF T
  <2> QED BY <1>0, Least, Zenon
<1>2. i \in 0..N /\ ~P(i)
  BY <1>1, Zenon
<1> USE <1>2
<1>3. PICK y, s : LinkedFrom(m, y, s) /\ Len(s) <= i /\ f[i][y] # s
  BY Zenon DEF P
<1> USE <1>3
<1>4. f[i] = [g \in Pages \cup {None} |-> IF g = None \/ i = 0 THEN <<>> ELSE <<g>> \o f[i - 1][m[g].next]]
  BY Zenon DEF IsWalk
<1>5. s \in Seq(Pages) /\ Len(s) \in Nat /\ DOMAIN s = 1..Len(s)
  BY DEF LinkedFrom
<1> USE <1>5
<1>6. CASE s = <<>>
  <2>1. y = None
    BY <1>6, Zenon DEF LinkedFrom
  <2> QED BY <1>4, <1>6, <2>1, Zenon
<1>7. CASE s # <<>>
  <2>1. Len(s) # 0 /\ i # 0 /\ i - 1 \in 0..N /\ 1 \in DOMAIN s /\ i \in Nat
    BY <1>7
  <2>2. y = s[1] /\ y \in Pages /\ y # None
    BY <1>7, <2>1, MsgAssumption DEF LinkedFrom
  <2>3. Tail(s) \in Seq(Pages) /\ Len(Tail(s)) = Len(s) - 1 /\ DOMAIN Tail(s) = 1..(Len(s) - 1)
        /\ \A k \in 1..(Len(s) - 1) : Tail(s)[k] = s[k + 1]
    BY <1>7
  <2>4. LinkedFrom(m, m[y].next, Tail(s))
    <3>1. m[y].next = IF Tail(s) = <<>> THEN None ELSE Tail(s)[1]
      <4>0. m[s[1]].next = IF 1 = Len(s) THEN None ELSE s[1 + 1]
        BY <2>1, Zenon DEF LinkedFrom
      <4>1. m[s[1]].next = IF 1 = Len(s) THEN None ELSE s[2]
        BY <4>0
      <4>2. Tail(s) = <<>> <=> Len(s) = 1
        <5>1. Len(Tail(s)) = 0 => Tail(s) = <<>>
          BY <2>3, EmptyIs, Zenon
        <5>2. Len(<<>>) = 0
          BY Zenon
        <5>3. Tail(s) = <<>> => Len(Tail(s)) = 0
          BY <5>2, Zenon
        <5> QED BY <2>3, <5>1, <5>3
      <4>3. Len(s) # 1 => Tail(s)[1] = s[2]
        BY <2>1, <2>3
      <4> QED BY <2>2, <4>1, <4>2, <4>3, Zenon
    <3>2. ASSUME NEW k \in DOMAIN Tail(s)
          PROVE  m[Tail(s)[k]].next = IF k = Len(Tail(s)) THEN None ELSE Tail(s)[k + 1]
      <4>1. k \in 1..(Len(s) - 1) /\ k + 1 \in DOMAIN s
        BY <2>1, <2>3
      <4>2. m[s[k + 1]].next = IF k + 1 = Len(s) THEN None ELSE s[(k + 1) + 1]
        BY <4>1, Zenon DEF LinkedFrom
      <4>3. k + 1 = Len(s) <=> k = Len(s) - 1
        BY <4>1
      <4>4. k # Len(s) - 1 => k + 1 \in 1..(Len(s) - 1)
        BY <4>1
      <4> QED BY <2>3, <4>1, <4>2, <4>3, <4>4, Zenon
    <3> QED BY <2>3, <3>1, <3>2, Zenon DEF LinkedFrom
  <2>5. P(i - 1)
    BY <1>1, <2>1
  <2>6. Len(Tail(s)) <= i - 1
    BY <2>1, <2>3
  <2>7. f[i - 1][m[y].next] = Tail(s)
    BY <2>4, <2>5, <2>6, Zenon DEF P
  <2>8. f[i][y] = <<y>> \o Tail(s)
    BY <1>4, <2>1, <2>2, <2>7, Zenon
  <2>9. <<y>> \o Tail(s) = s
    BY <1>7, <2>2
  <2> QED BY <2>8, <2>9, Zenon
<1> QED
  BY <1>6, <1>7, Zenon

(* Chain() finds the pages of a list without repetitions. *)
LEMMA ChainFinds ==
  ASSUME NEW m, NEW x, NEW t, LinkedFrom(m, x, t), \A k, l \in DOMAIN t : t[k] = t[l] => k = l
  PROVE  Chain(m, x) = t
<1> DEFINE N == Cardinality(Pages)
<1>1. N \in Nat
  BY FS_CardinalityType, MsgAssumption, Zenon
<1>2. Len(t) <= N
  <2>1. t \in Seq(Pages) /\ Len(t) \in Nat /\ DOMAIN t = 1..Len(t)
    BY DEF LinkedFrom
  <2>2. t \in Injection(1..Len(t), Pages)
    BY <2>1 DEF Injection, IsInjective
  <2>3. IsFiniteSet(1..Len(t)) /\ Cardinality(1..Len(t)) = Len(t)
    BY <2>1, FS_Interval
  <2>4. Cardinality(1..Len(t)) <= Cardinality(Pages)
    BY <2>2, FS_Injection, MsgAssumption, Zenon
  <2> QED BY <2>3, <2>4, Zenon
<1>3. Chain(m, x) = (CHOOSE f : IsWalk(f, m, N))[N][x]
  BY Zenon DEF Chain, IsWalk
<1>4. IsWalk(CHOOSE f : IsWalk(f, m, N), m, N)
  BY <1>1, WalkExists, Zenon
<1> HIDE DEF N
<1>5. N \in 0..N
  BY <1>1
<1> QED
  BY <1>1, <1>2, <1>3, <1>4, <1>5, WalkFinds

(* What a list links is what Chain() finds. *)
LEMMA ChainFindsLists == ChainsFound
<1> SUFFICES ASSUME NEW m, NEW q, NEW s, IsList(m, q, s)
             PROVE  Chain(m, m[q].head) = s
  BY Zenon DEF ChainsFound
<1>1. LinkedFrom(m, m[q].head, s)
  BY Zenon DEF IsList, LinkedFrom
<1>2. \A k, l \in DOMAIN s : s[k] = s[l] => k = l
  BY Zenon DEF IsList
<1> QED
  BY <1>1, <1>2, ChainFinds, Zenon

-----------------------------------------------------------------------------
(* The theorems *)

(* The linked lists, the nodes in hand, the list of queues, what          *)
(* processes looked up and who sleeps stay as IInv says, in every         *)
(* interleaving of msgget, msgsnd, msgrcv, msgctl and kill, for any       *)
(* number of processes, pages, queues and messages.                       *)
THEOREM Inductive == Spec => []IInv
<1>1. IInv /\ [Next]_vars => IInv'
  BY NextStep, StutterStep, ChainFindsLists, Zenon
<1> QED
  BY InitIInv, <1>1, PTL DEF Spec

(* Every message node is in exactly one queue or in exactly one hand,     *)
(* for any number of processes, pages and queues: msgrcv and msgctl never *)
(* free the same node (sysproc.c:636, 692), and the only nodes nothing    *)
(* points at are those appended between the release of the queue's lock   *)
(* in msgctl and its kfree() (sysproc.c:698, 700).                        *)
THEOREM NodesOwnedOnce == Spec => []NodeOwnedOnce
<1>1. IInv /\ Owned /\ [Next]_vars => Owned'
  <2> SUFFICES ASSUME IInv, Owned, [Next]_vars
               PROVE  Owned'
    BY Zenon
  <2>1. CASE Next
    BY <2>1, OwnedStep, ChainFindsLists, Zenon
  <2>2. CASE UNCHANGED vars
    <3>1. UNCHANGED <<mem, late, pc, queue, node>> /\ Lists
      BY <2>2, Zenon DEF vars, IInv
    <3>2. Queues' = Queues /\ \A q : Items(q)' = Items(q)
      BY <3>1, MemSame, Zenon
    <3>3. \A g : (Queued(g)' <=> Queued(g)) /\ (Carried(g)' <=> Carried(g)) /\ (Drained(g)' <=> Drained(g))
      BY <3>1, <3>2, Zenon DEF Queued, Carried, Drained
    <3>4. \A p : InHand(p)' <=> InHand(p)
      BY <3>1, Zenon DEF InHand
    <3> QED BY <3>1, <3>2, <3>3, <3>4, Zenon DEF Owned, NodeOwnedOnce
  <2> QED BY <2>1, <2>2, Zenon
<1>2. Owned => NodeOwnedOnce
  BY Zenon DEF Owned
<1> QED
  BY Inductive, InitOwned, <1>1, <1>2, PTL DEF Spec

(* A receiver sleeps in msgrcv only while its queue holds no message for   *)
(* it: holding the lock of the queue from the scan to sleep(), and the    *)
(* wakeup() of every msgsnd, leave no gap (sysproc.c:570, 600-657).       *)
THEOREM NoMessageMissed == Spec => []NoMissedMessage
<1>1. ASSUME IInv
      PROVE  NoMissedMessage
  <2>1. ASSUME NEW p \in Procs, asleep[p], mem[queue[p]].use = "queue"
        PROVE  Matches(queue[p], want[p]) = {}
    <3>1. Waiting /\ Pointers
      BY <1>1, Zenon DEF IInv
    <3>2. pc[p] = "rcv_scan" /\ queue[p] \in Queues
      BY <2>1, <3>1, Zenon DEF Waiting, Pointers, Follows, Queues
    <3>3. \A g \in Range(Items(queue[p])) : want[p] \notin {0, mem[g].msg.typ}
      BY <2>1, <3>1, <3>2, Zenon DEF Waiting
    <3> QED BY <3>3, Zenon DEF Matches, Range
  <2> QED BY <2>1, Zenon DEF NoMissedMessage
<1> QED
  BY Inductive, <1>1, PTL

(* The linked lists implement TypedQueue until a queue is removed: msgsnd *)
(* appends, msgrcv takes the first message of the type it asks for, none  *)
(* is lost or duplicated, and the order is kept, whoever else is at work  *)
(* on the queue (sysproc.c:557-568, 600-642).                             *)
THEOREM Implements == Spec => TypedFifo
<1>1. ASSUME IInv, IInv', nextId <= MaxIds + 1 /\ nextId \in Nat, [Next]_vars
      PROVE  [Removed' \/ Abstract!Next]_(Abstract!vars)
  <2>1. CASE Next
    BY <1>1, <2>1, NextRefines, ChainFindsLists, Zenon
  <2>2. CASE UNCHANGED vars
    <3>1. UNCHANGED <<mem, nextId, node, got, pc>>
      BY <2>2, Zenon DEF vars
    <3> QED BY <3>1, Invisible, Zenon
  <2> QED BY <1>1, <2>1, <2>2, Zenon
<1> QED
  BY Inductive, IdsBounded, InitRefines, <1>1, PTL DEF Spec, TypedFifo

=============================================================================
