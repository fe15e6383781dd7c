----------------------------- MODULE PipeProofs -----------------------------
(***************************************************************************)
(* Proofs about Pipe: IInv is inductive, and with it the pipe is a stream, *)
(* nobody sleeps through what it waits for, and the page outlives its use. *)
(*                                                                         *)
(* The argument about the ring is arithmetic: nread and nwrite are the     *)
(* numbers of bytes read and written, modulo Wrap.  Since PIPESIZE divides *)
(* Wrap, byte k is in slot (k - 1) % PIPESIZE whatever wrapped around      *)
(* (ModMod), and since at most PIPESIZE bytes are in the ring, no two of   *)
(* them share a slot (ModDistinct).                                        *)
(***************************************************************************)
EXTENDS Pipe, SequenceTheorems, FiniteSetTheorems, TLAPS

-----------------------------------------------------------------------------
(* Remainders *)

(* Quotient and remainder. *)
LEMMA DivMod ==
  ASSUME NEW a \in Int, NEW m \in Nat \ {0}
  PROVE /\ a % m \in 0..(m-1) /\ a \div m \in Int /\ a = m * (a \div m) + (a % m)
  <1>1. a % m \in 0..(m-1)
    BY SMT
  <1>2. a \div m \in Int
    BY SMT
  <1>3. a = m * (a \div m) + (a % m)
    BY SMT
  <1> QED BY <1>1, <1>2, <1>3

(* Only 0 is a multiple of m that is smaller than m. *)
LEMMA Mult ==
  ASSUME NEW m \in Nat \ {0}, NEW d \in Int, m * d < m, m * d > -m PROVE d = 0
  <1>1. d >= 1 => m * d >= m
   BY SMT
  <1>2. d <= -1 => m * d <= -m
   BY SMT
  <1> QED BY <1>1, <1>2

(* The remainder is the only r in its range. *)
LEMMA ModUnique ==
  ASSUME NEW m \in Nat \ {0}, NEW q \in Int, NEW r \in 0..(m-1)
  PROVE (m*q + r) % m = r
  BY SMT

(* A number below m is its own remainder. *)
LEMMA ModSmall ==
  ASSUME NEW m \in Nat \ {0}, NEW r \in 0..(m-1)
  PROVE r % m = r
  BY SMT

(* A counter that wraps around keeps its remainder when it is advanced. *)
LEMMA ModAdd ==
  ASSUME NEW m \in Nat \ {0}, NEW a \in Nat, NEW b \in Int
  PROVE ((a % m) + b) % m = (a + b) % m
  <1> DEFINE r == (a+b) % m  q == (a+b) \div m  qa == a \div m
  <1>1. a = m * qa + (a % m) /\ qa \in Int /\ a % m \in Int
    BY DivMod
  <1>2. a + b = m * q + r /\ q \in Int /\ r \in 0..(m-1)
    <2>1. a + b \in Int
      OBVIOUS
    <2> QED BY <2>1, DivMod
  <1>a. r = (a + b) % m
    OBVIOUS
  <1> HIDE DEF r, q, qa
  <1>3. (a % m) + b = m * (q - qa) + r
    BY <1>1, <1>2
  <1>4. q - qa \in Int
    BY <1>1, <1>2
  <1>5. (m * (q - qa) + r) % m = r
    BY <1>2, <1>4, ModUnique, Zenon
  <1> QED BY <1>a, <1>3, <1>5, Zenon

(* Wrapping at a multiple of m does not change the remainder by m. *)
LEMMA ModMod ==
  ASSUME NEW m \in Nat \ {0}, NEW k \in Nat \ {0}, NEW a \in Nat
  PROVE (a % (k * m)) % m = a % m
  <1> DEFINE w == k * m  r == a % m  q == a \div m  qa == a \div w
  <1>0. w \in Nat \ {0}
    OBVIOUS
  <1> HIDE DEF w
  <1>1. a = w * qa + (a % w) /\ qa \in Int /\ a % w \in 0..(w-1)
    BY <1>0, DivMod
  <1>2. a = m * q + r /\ q \in Int /\ r \in 0..(m-1)
    BY DivMod
  <1>a. r = a % m
    OBVIOUS
  <1> HIDE DEF r, q, qa
  <1>3. a % w = m * (q - k * qa) + r
    BY <1>1, <1>2 DEF w
  <1>4. q - k * qa \in Int
    BY <1>1, <1>2
  <1>5. (m * (q - k * qa) + r) % m = r
    BY <1>2, <1>4, ModUnique, Zenon
  <1> QED BY <1>a, <1>3, <1>5, Zenon DEF w

(* Numbers less than m apart have different remainders. *)
LEMMA ModDistinct ==
  ASSUME NEW m \in Nat \ {0}, NEW a \in Nat, NEW b \in Nat, a - b < m, b - a < m, a % m = b % m
  PROVE a = b
  <1> DEFINE qa == a \div m qb == b \div m
  <1>1. a = m * qa + (a % m) /\ qa \in Int /\ a % m \in Int
    BY DivMod
  <1>2. b = m * qb + (b % m) /\ qb \in Int
    BY DivMod
  <1> HIDE DEF qa, qb
  <1>3. a - b = m * (qa - qb)
    BY <1>1, <1>2
  <1>4. qa - qb = 0
    BY <1>1, <1>2, <1>3, Mult
  <1> QED BY <1>3, <1>4

-----------------------------------------------------------------------------
(* The ring *)

(* The constants, as the proofs use them. *)
LEMMA Constants ==
  /\ PIPESIZE \in Nat \ {0} /\ Wrap \in Nat \ {0} /\ PIPESIZE < Wrap
  /\ \E k \in Nat \ {0} : Wrap = k * PIPESIZE
  /\ None \notin Procs /\ None \notin Ends /\ IsFiniteSet(Procs)
  <1>1. PICK k \in 2..Wrap : Wrap = k * PIPESIZE
    BY PipeAssumption
  <1>2. PIPESIZE \in Nat \ {0}
    BY PipeAssumption
  <1>3. k \in Nat /\ k >= 2
    BY <1>1, <1>2
  <1>4. k * PIPESIZE >= 2 * PIPESIZE /\ k * PIPESIZE \in Nat
    BY <1>2, <1>3
  <1>5. PIPESIZE < Wrap /\ Wrap \in Nat \ {0}
    BY <1>1, <1>2, <1>4
  <1> QED BY <1>1, <1>2, <1>3, <1>5, PipeAssumption DEF Ends

(* The slot a wrapped counter leads to. *)
LEMMA IndexIs ==
  ASSUME NEW n \in Nat, NEW k \in Nat \ {0}
  PROVE  Index(n % Wrap, k) = (n + k - 1) % PIPESIZE
  <1>1. PICK c \in Nat \ {0} : Wrap = c * PIPESIZE
    BY Constants
  <1>2. ((n % Wrap) + (k - 1)) % Wrap = (n + (k - 1)) % Wrap
    <2>1. k - 1 \in Int
      OBVIOUS
    <2> QED BY <2>1, Constants, ModAdd
  <1>3. ((n + (k - 1)) % Wrap) % PIPESIZE = (n + (k - 1)) % PIPESIZE
    <2>1. n + (k - 1) \in Nat
      OBVIOUS
    <2> QED BY <1>1, <2>1, Constants, ModMod
  <1>4. (n % Wrap) \in Int
    BY Constants, DivMod
  <1>5. (n % Wrap) + k - 1 = (n % Wrap) + (k - 1) /\ n + k - 1 = n + (k - 1)
    BY <1>4
  <1> QED BY <1>2, <1>3, <1>5, Zenon DEF Index

(* The counters tell how many bytes are in the ring. *)
LEMMA FillIs ==
  ASSUME TypeOK, Ring
  PROVE  /\ Fill = sent - Len(rcvd) /\ Fill \in 0..PIPESIZE
         /\ Room = PIPESIZE - (sent - Len(rcvd)) /\ Room \in 0..PIPESIZE
         /\ nread = nwrite <=> sent = Len(rcvd)
         /\ Len(rcvd) \in Nat
  <1> DEFINE r == Len(rcvd)
  <1>1. r \in Nat /\ sent \in Nat /\ r <= sent /\ sent - r <= PIPESIZE /\ PIPESIZE \in Nat \ {0}
    BY Constants DEF TypeOK, Ring
  <1>2. nread = r % Wrap /\ nwrite = sent % Wrap
    BY DEF Ring
  <1> HIDE DEF r
  <1>3. nread \in Nat /\ nwrite \in Nat /\ Wrap \in Nat \ {0} /\ PIPESIZE < Wrap
    BY Constants DEF TypeOK
  <1>4. (nwrite - nread) % Wrap = (sent - nread) % Wrap
    <2>1. 0 - nread \in Int
      BY <1>3
    <2>2. ((sent % Wrap) + (0 - nread)) % Wrap = (sent + (0 - nread)) % Wrap
      BY <1>1, <1>3, <2>1, ModAdd
    <2>3. nwrite - nread = (sent % Wrap) + (0 - nread) /\ sent - nread = sent + (0 - nread)
      BY <1>1, <1>2, <1>3
    <2> QED BY <2>2, <2>3, Zenon
  <1>5. PICK q \in Int : r = Wrap * q + nread
    <2>1. r \in Int
      BY <1>1
    <2>2. r = Wrap * (r \div Wrap) + (r % Wrap) /\ r \div Wrap \in Int
      BY <1>3, <2>1, DivMod
    <2> QED BY <1>2, <2>2, Zenon
  <1>6. (sent - nread) % Wrap = sent - r
    <2>1. sent - nread = Wrap * q + (sent - r)
      BY <1>1, <1>3, <1>5
    <2>2. sent - r \in 0..(Wrap - 1)
      BY <1>1, <1>3
    <2> QED BY <1>3, <1>5, <2>1, <2>2, ModUnique
  <1>7. Fill = sent - r
    BY <1>4, <1>6, Zenon DEF Fill
  <1>8. nread = nwrite => sent = r
    <2>1. nread = nwrite => nwrite - nread = 0
      BY <1>3
    <2>2. 0 % Wrap = 0
      BY <1>3, ModSmall
    <2>3. nread = nwrite => Fill = 0
      BY <2>1, <2>2, Zenon DEF Fill
    <2> QED BY <1>1, <1>7, <2>3
  <1>9. sent = r => nread = nwrite
    BY <1>2
  <1>10. Room = PIPESIZE - (sent - r)
    BY <1>7 DEF Room
  <1> QED BY <1>1, <1>7, <1>8, <1>9, <1>10 DEF r

(* The bytes in the ring are those written and not yet read, in order. *)
LEMMA ContentIs ==
  ASSUME TypeOK, Ring
  PROVE  /\ Content \in Seq(Nat) /\ Len(Content) = Fill
         /\ \A k \in 1..Fill : Content[k] = Len(rcvd) + k
  <1> DEFINE r == Len(rcvd)
  <1>1. r \in Nat /\ sent \in Nat /\ Fill = sent - r /\ Fill \in Nat
    BY FillIs, Constants DEF TypeOK
  <1>2. ASSUME NEW k \in 1..Fill
        PROVE  data[Index(nread, k)] = r + k
    <2>1. k \in Nat \ {0} /\ r + k \in 1..sent /\ r + k > r /\ r + k - 1 = (r + k) - 1
      BY <1>1, <1>2
    <2>2. Index(nread, k) = (r + k - 1) % PIPESIZE
      BY <1>1, <2>1, IndexIs DEF Ring
    <2> HIDE DEF r
    <2>3. data[((r + k) - 1) % PIPESIZE] = r + k
      BY <2>1 DEF Ring, r
    <2> QED BY <2>1, <2>2, <2>3
  <1>3. \A k \in 1..Fill : Content[k] = r + k /\ r + k \in Nat
    BY <1>1, <1>2 DEF Content
  <1>4. Content = [k \in 1..Fill |-> Content[k]]
    BY DEF Content
  <1> HIDE DEF r, Content
  <1>5. Content \in [1..Fill -> Nat]
    BY <1>3, <1>4
  <1>6. Content \in Seq(Nat) /\ Len(Content) = Fill
    BY <1>1, <1>5
  <1> QED BY <1>3, <1>6 DEF r

(* Bytes that fit go into slots of their own. *)
LEMMA PutStep ==
  ASSUME TypeOK, Ring, NEW k \in Nat, k <= Room, Put(k), UNCHANGED rcvd
  PROVE  /\ Ring' /\ sent' = sent + k /\ sent' \in Nat /\ nwrite' \in Nat
         /\ data' \in [0..(PIPESIZE - 1) -> Nat]
  <1> DEFINE r == Len(rcvd)
             P == PIPESIZE
  <1>1. r \in Nat /\ sent \in Nat /\ r <= sent /\ sent + k <= r + P /\ P \in Nat \ {0}
    <2>1. r \in Nat /\ sent \in Nat /\ r <= sent /\ P \in Nat \ {0}
      BY Constants DEF TypeOK, Ring
    <2>2. Room = P - (sent - r)
      BY FillIs
    <2> HIDE DEF r, P
    <2> QED BY <2>1, <2>2
  <1>2. sent' = sent + k /\ sent' \in Nat
    BY <1>1 DEF Put
  <1>3. nwrite' = sent' % Wrap /\ nwrite' \in Nat
    <2>1. ((sent % Wrap) + k) % Wrap = (sent + k) % Wrap
      <3>1. k \in Int
        OBVIOUS
      <3> QED BY <1>1, <3>1, Constants, ModAdd
    <2>2. nwrite' = sent' % Wrap
      BY <1>2, <2>1 DEF Put, Ring
    <2>3. sent' % Wrap \in 0..(Wrap - 1)
      BY <1>2, Constants, DivMod
    <2> QED BY <2>2, <2>3, Constants
  <1>4. ASSUME NEW j \in 1..k
        PROVE  Index(nwrite, j) = (sent + j - 1) % P
    BY <1>1, IndexIs DEF Ring
  <1> DEFINE S(n) == (n - 1) % P
  <1>5. \A m, n \in 1..(sent + k) : m > r /\ n > r /\ S(m) = S(n) => m = n
    <2> SUFFICES ASSUME NEW m \in 1..(sent + k), NEW n \in 1..(sent + k), m > r, n > r, S(m) = S(n)
                 PROVE  m = n
      OBVIOUS
    <2> HIDE DEF r, P
    <2>1. m - 1 \in Nat /\ n - 1 \in Nat /\ (m - 1) - (n - 1) < P /\ (n - 1) - (m - 1) < P
      BY <1>1
    <2>2. m - 1 = n - 1
      BY <1>1, <2>1, ModDistinct
    <2> QED BY <2>2, <1>1
  <1>6. \A j \in 1..k : sent + j \in 1..(sent + k) /\ sent + j > r /\ Index(nwrite, j) = S(sent + j)
    <2>1. \A j \in 1..k : sent + j - 1 = (sent + j) - 1
      BY <1>1
    <2> QED BY <1>1, <1>4, <2>1
  <1>7. \A n \in 1..(sent + k) : S(n) \in 0..(P - 1)
    <2>1. \A n \in 1..(sent + k) : n - 1 \in Int
      BY <1>1
    <2> QED BY <1>1, <2>1, DivMod
  <1>8. DOMAIN data = 0..(P - 1)
    BY DEF TypeOK
  <1> HIDE DEF r, P, S
  <1>9. \A i \in 0..(P - 1) : data'[i] =
          IF \E j \in 1..k : Index(nwrite, j) = i
            THEN sent + (CHOOSE j \in 1..k : Index(nwrite, j) = i)
            ELSE data[i]
    BY <1>8 DEF Put
  <1>10. ASSUME NEW j \in 1..k
         PROVE  data'[S(sent + j)] = sent + j
    <2> DEFINE c == CHOOSE l \in 1..k : Index(nwrite, l) = S(sent + j)
    <2>1. c \in 1..k /\ Index(nwrite, c) = S(sent + j)
      BY <1>6, Zenon
    <2>2. data'[S(sent + j)] = sent + c
      BY <1>6, <1>7, <1>9
    <2> HIDE DEF c
    <2>3. sent + c = sent + j
      BY <1>5, <1>6, <2>1
    <2> QED BY <2>2, <2>3
  <1>11. ASSUME NEW n \in 1..sent, n > r
         PROVE  data'[S(n)] = n
    <2>1. n \in 1..(sent + k)
      BY <1>1
    <2>2. ~ \E j \in 1..k : Index(nwrite, j) = S(n)
      <3> SUFFICES ASSUME NEW j \in 1..k, Index(nwrite, j) = S(n)
                   PROVE  FALSE
        OBVIOUS
      <3>1. sent + j = n
        BY <1>5, <1>6, <1>11, <2>1
      <3> QED BY <1>1, <3>1
    <2>3. data'[S(n)] = data[S(n)]
      BY <1>7, <1>9, <2>1, <2>2
    <2>4. data[S(n)] = n
      BY <1>11 DEF Ring, S, r, P
    <2> QED BY <2>3, <2>4
  <1>12. \A n \in 1..sent' : n > r => data'[S(n)] = n
    <2> SUFFICES ASSUME NEW n \in 1..sent', n > r
                 PROVE  data'[S(n)] = n
      OBVIOUS
    <2>1. CASE n <= sent
      BY <1>1, <1>2, <1>11, <2>1
    <2>2. CASE n > sent
      <3>1. n - sent \in 1..k /\ n = sent + (n - sent)
        BY <1>1, <1>2, <2>2
      <3> QED BY <1>10, <3>1
    <2> QED BY <1>1, <1>2, <2>1, <2>2
  <1>13. data' \in [0..(P - 1) -> Nat]
    <2>1. \A i \in 0..(P - 1) : data'[i] \in Nat
      <3> SUFFICES ASSUME NEW i \in 0..(P - 1)
                   PROVE  data'[i] \in Nat
        OBVIOUS
      <3>1. CASE \E j \in 1..k : Index(nwrite, j) = i
        <4> DEFINE c == CHOOSE j \in 1..k : Index(nwrite, j) = i
        <4>1. c \in 1..k
          BY <3>1, Zenon
        <4>2. data'[i] = sent + c
          BY <1>9, <3>1
        <4> HIDE DEF c
        <4> QED BY <1>1, <4>1, <4>2
      <3>2. CASE ~ \E j \in 1..k : Index(nwrite, j) = i
        <4>1. data'[i] = data[i]
          BY <1>9, <3>2
        <4> QED BY <4>1 DEF TypeOK, P
      <3> QED BY <3>1, <3>2
    <2>2. data' = [i \in 0..(P - 1) |-> data'[i]]
      BY <1>8 DEF Put
    <2> QED BY <2>1, <2>2
  <1>14. Ring'
    <2>1. Len(rcvd') = r /\ \A n \in 1..Len(rcvd') : rcvd'[n] = n
      BY DEF Ring, r
    <2>2. nread' = Len(rcvd') % Wrap
      BY DEF Ring, Put
    <2>3. Len(rcvd') <= sent' /\ sent' <= Len(rcvd') + PIPESIZE
      BY <1>1, <1>2, <2>1 DEF P
    <2>4. \A n \in 1..sent' : n > Len(rcvd') => data'[(n - 1) % PIPESIZE] = n
      BY <1>12, <2>1 DEF S, P
    <2> QED BY <1>3, <2>1, <2>2, <2>3, <2>4 DEF Ring
  <1> QED BY <1>2, <1>3, <1>13, <1>14 DEF P

(* Readers get the oldest bytes. *)
LEMMA TakeStep ==
  ASSUME TypeOK, Ring, NEW k \in Nat, k <= Fill, nread' = (nread + k) % Wrap,
         rcvd' = rcvd \o SubSeq(Content, 1, k), UNCHANGED <<data, nwrite, sent>>
  PROVE  Ring' /\ nread' \in Nat /\ rcvd' \in Seq(Nat) /\ Len(rcvd') = Len(rcvd) + k
  <1> DEFINE r == Len(rcvd)
             t == SubSeq(Content, 1, k)
  <1>1. r \in Nat /\ sent \in Nat /\ Fill = sent - r /\ rcvd \in Seq(Nat)
    BY FillIs DEF TypeOK
  <1>2. Content \in Seq(Nat) /\ Len(Content) = Fill /\ \A i \in 1..Fill : Content[i] = r + i
    BY ContentIs
  <1> HIDE DEF r
  <1>3. t \in Seq(Nat) /\ Len(t) = k /\ \A i \in 1..k : t[i] = r + i
    <2>1. \A i \in 1..k : Content[i] \in Nat /\ Content[i] = r + i
      BY <1>1, <1>2
    <2>2. 1 \in Int /\ k \in Int
      OBVIOUS
    <2>3. /\ SubSeq(Content, 1, k) \in Seq(Nat)
          /\ Len(SubSeq(Content, 1, k)) = IF 1 <= k THEN k - 1 + 1 ELSE 0
          /\ \A i \in 1..(k - 1 + 1) : SubSeq(Content, 1, k)[i] = Content[1 + i - 1]
      BY <2>1, <2>2, SubSeqProperties
    <2>4. k - 1 + 1 = k /\ \A i \in 1..k : 1 + i - 1 = i
      OBVIOUS
    <2>5. Len(t) = k
      BY <2>3, <2>4
    <2>6. \A i \in 1..k : t[i] = Content[i]
      BY <2>3, <2>4
    <2> QED BY <2>1, <2>3, <2>5, <2>6
  <1> HIDE DEF t
  <1>4. /\ rcvd' \in Seq(Nat) /\ Len(rcvd') = r + k
        /\ \A i \in 1..(r + k) : rcvd'[i] = IF i <= r THEN rcvd[i] ELSE t[i - r]
    <2>1. rcvd' = rcvd \o t
      BY DEF t
    <2>2. /\ rcvd \o t \in Seq(Nat) /\ Len(rcvd \o t) = Len(rcvd) + Len(t)
          /\ \A i \in 1..(Len(rcvd) + Len(t)) :
               (rcvd \o t)[i] = IF i <= Len(rcvd) THEN rcvd[i] ELSE t[i - Len(rcvd)]
      BY <1>1, <1>3, ConcatProperties
    <2> QED BY <1>3, <2>1, <2>2, Zenon DEF r
  <1>5. \A i \in 1..(r + k) : rcvd'[i] = i
    <2> SUFFICES ASSUME NEW i \in 1..(r + k)
                 PROVE  rcvd'[i] = i
      OBVIOUS
    <2>1. CASE i <= r
      <3>1. i \in 1..r
        BY <1>1, <2>1
      <3> QED BY <1>4, <2>1, <3>1 DEF Ring, r
    <2>2. CASE ~(i <= r)
      <3>1. i - r \in 1..k /\ r + (i - r) = i
        BY <1>1, <2>2
      <3> QED BY <1>3, <1>4, <2>2, <3>1
    <2> QED BY <2>1, <2>2
  <1>6. nread' = (r + k) % Wrap /\ nread' \in Nat
    <2>1. k \in Int /\ r + k \in Int
      BY <1>1
    <2>2. ((r % Wrap) + k) % Wrap = (r + k) % Wrap
      BY <1>1, <2>1, Constants, ModAdd
    <2>3. nread = r % Wrap
      BY DEF Ring, r
    <2>4. (r + k) % Wrap \in 0..(Wrap - 1)
      BY <2>1, Constants, DivMod
    <2>5. nread' = (r + k) % Wrap
      BY <2>2, <2>3
    <2> QED BY <2>4, <2>5, Constants
  <1>7. r + k <= sent /\ sent <= r + k + PIPESIZE
    BY <1>1, Constants DEF Ring, r
  <1>8. \A n \in 1..sent' : n > r + k => data'[(n - 1) % PIPESIZE] = n
    <2>1. \A n \in 1..sent' : n > r + k => n \in 1..sent /\ n > r
      BY <1>1
    <2> QED BY <2>1 DEF Ring, r
  <1>9. Ring'
    <2>1. nwrite' = sent' % Wrap
      BY DEF Ring
    <2> QED BY <1>4, <1>5, <1>6, <1>7, <1>8, <2>1 DEF Ring
  <1> QED BY <1>4, <1>6, <1>9 DEF r

(* The stream, from the ring. *)
LEMMA StreamIs ==
  ASSUME TypeOK, Ring
  PROVE  Stream
  <1> DEFINE r == Len(rcvd)
  <1>1. r \in Nat /\ sent \in Nat /\ Fill = sent - r /\ rcvd \in Seq(Nat)
    BY FillIs DEF TypeOK
  <1>2. Content \in Seq(Nat) /\ Len(Content) = Fill /\ \A i \in 1..Fill : Content[i] = r + i
    BY ContentIs
  <1> HIDE DEF r
  <1>3. /\ rcvd \o Content \in Seq(Nat) /\ Len(rcvd \o Content) = sent
        /\ \A i \in 1..sent : (rcvd \o Content)[i] = IF i <= r THEN rcvd[i] ELSE Content[i - r]
    <2>1. r + Fill = sent
      BY <1>1
    <2> QED BY <1>1, <1>2, <2>1, ConcatProperties DEF r
  <1>4. \A i \in 1..sent : (rcvd \o Content)[i] = i
    <2> SUFFICES ASSUME NEW i \in 1..sent
                 PROVE  (rcvd \o Content)[i] = i
      OBVIOUS
    <2>1. CASE i <= r
      <3>1. i \in 1..r
        BY <1>1, <2>1
      <3> QED BY <1>3, <2>1, <3>1 DEF Ring, r
    <2>2. CASE ~(i <= r)
      <3>1. i - r \in 1..Fill /\ r + (i - r) = i
        BY <1>1, <2>2
      <3> QED BY <1>2, <1>3, <2>2, <3>1
    <2> QED BY <2>1, <2>2
  <1> DEFINE all == [k \in 1..sent |-> k]
  <1>5. all \in [1..sent -> Nat]
    BY <1>1
  <1>6. all \in Seq(Nat) /\ Len(all) = sent /\ \A i \in 1..sent : all[i] = i
    BY <1>1, <1>5
  <1> HIDE DEF all
  <1>7. rcvd \o Content = all
    BY <1>3, <1>4, <1>6, SeqEqual
  <1> QED BY <1>7 DEF Stream, all

-----------------------------------------------------------------------------
(* Descriptors *)

(* An end somebody has a descriptor of is open, and so the page is there. *)
LEMMA HeldOpen ==
  ASSUME TypeOK, RefsCounted, NEW p \in Procs, NEW e \in fds[p]
  PROVE  /\ e \in Ends /\ ref[e] \in Nat /\ ref[e] > 0 /\ Open(e) /\ used
         /\ \A q \in Procs : closing[q] # e
  <1>1. e \in Ends
    BY DEF TypeOK
  <1>2. Holders(e) \subseteq Procs /\ p \in Holders(e)
    BY DEF Holders
  <1>3. IsFiniteSet(Holders(e)) /\ Cardinality(Holders(e)) \in Nat
    BY <1>2, Constants, FS_Subset, FS_CardinalityType
  <1>4. Cardinality(Holders(e)) # 0
    BY <1>2, <1>3, FS_EmptySet
  <1>5. ref[e] = Cardinality(Holders(e))
    BY <1>1 DEF RefsCounted
  <1>6. ref[e] > 0
    BY <1>3, <1>4, <1>5
  <1>7. Open(e)
    BY <1>1, <1>6 DEF RefsCounted
  <1>8. used
    BY <1>7, Zenon DEF RefsCounted, Open
  <1>9. \A q \in Procs : closing[q] # e
    BY <1>1, <1>6 DEF RefsCounted
  <1> QED BY <1>1, <1>3, <1>5, <1>6, <1>7, <1>8, <1>9

(* What the counts of references depend on. *)
LEMMA RefsFrame ==
  ASSUME RefsCounted, UNCHANGED <<used, readopen, writeopen, ref, fds, closing>>,
         ~used => sent' = 0 /\ rcvd' = <<>>
  PROVE  RefsCounted'
  <1>1. \A e \in Ends : Holders(e)' = Holders(e) /\ (Open(e)' <=> Open(e))
    BY DEF Holders, Open
  <1> QED BY <1>1 DEF RefsCounted

(* The first process has no descriptors. *)
LEMMA InitIInv == Init => IInv
  <1> SUFFICES ASSUME Init
               PROVE  IInv
    OBVIOUS
  <1>0. PIPESIZE \in Nat \ {0} /\ Wrap \in Nat \ {0} /\ None \notin Ends
    BY Constants
  <1>1. TypeOK
    <2>1. pc \in [Procs -> Places]
      BY DEF Init, Places
    <2>2. data \in [0..(PIPESIZE - 1) -> Nat] /\ left \in [Procs -> Nat] /\ ref \in [Ends -> Nat]
      BY DEF Init
    <2>3. asleep \in [Procs -> Ends \cup {None}] /\ closing \in [Procs -> Ends \cup {None}]
      BY DEF Init
    <2>4. fds \in [Procs -> SUBSET Ends] /\ killed \in [Procs -> BOOLEAN]
      BY DEF Init
    <2>5. sent \in Nat /\ rcvd \in Seq(Nat) /\ nread \in Nat /\ nwrite \in Nat
      BY DEF Init
    <2> QED BY <2>1, <2>2, <2>3, <2>4, <2>5 DEF TypeOK, Init
  <1>2. Ring
    <2>1. 0 % Wrap = 0
      BY <1>0, ModSmall
    <2>2. Len(rcvd) = 0 /\ sent = 0
      BY DEF Init
    <2> QED BY <1>0, <2>1, <2>2 DEF Ring, Init
  <1>3. RefsCounted
    <2>1. ASSUME NEW e \in Ends
          PROVE  Holders(e) = {}
      BY DEF Holders, Init
    <2>2. \A e \in Ends : ref[e] = 0 /\ Cardinality(Holders(e)) = 0
      BY <2>1, FS_EmptySet DEF Init
    <2>3. \A e \in Ends : \A p \in Procs : closing[p] # e
      BY <1>0 DEF Init
    <2>4. \A e \in Ends : ~Open(e)
      BY DEF Init, Open
    <2>5. used = (readopen \/ writeopen)
      BY DEF Init
    <2>6. sent = 0 /\ rcvd = <<>>
      BY DEF Init
    <2>7. \A e \in Ends : ~(ref[e] > 0)
      BY <2>2
    <2> QED BY <2>2, <2>3, <2>4, <2>5, <2>6, <2>7 DEF RefsCounted
  <1>4. Holding
    BY DEF Holding, Init
  <1>5. GoingToSleep
    BY DEF GoingToSleep, Init
  <1>6. Sleepers
    BY <1>0 DEF Sleepers, Init, Ends
  <1> QED BY <1>1, <1>2, <1>3, <1>4, <1>5, <1>6 DEF IInv

(* pipe(): both ends are open, each with one descriptor. *)
LEMMA PipeallocStep ==
  ASSUME IInv, NEW p \in Procs, Pipealloc(p)
  PROVE  IInv'
  <1> USE DEF IInv
  <1>0. PIPESIZE \in Nat \ {0} /\ Wrap \in Nat \ {0} /\ None \notin Ends
    BY Constants
  <1>1. UNCHANGED <<data, lock, pc, left, closing, asleep, killed, sent, rcvd, cut>>
    BY DEF Pipealloc
  <1>2. ~used /\ sent = 0 /\ rcvd = <<>> /\ ~readopen /\ ~writeopen
    BY DEF Pipealloc, RefsCounted, TypeOK
  <1>3. TypeOK'
    <2>1. used' \in BOOLEAN /\ readopen' \in BOOLEAN /\ writeopen' \in BOOLEAN
      BY DEF Pipealloc
    <2>2. nread' \in Nat /\ nwrite' \in Nat /\ ref' \in [Ends -> Nat]
      BY DEF Pipealloc
    <2>3. fds' \in [Procs -> SUBSET Ends]
      BY DEF Pipealloc, TypeOK
    <2> QED BY <1>1, <2>1, <2>2, <2>3 DEF TypeOK
  <1>4. Ring'
    <2>1. 0 % Wrap = 0
      BY <1>0, ModSmall
    <2>2. Len(rcvd') = 0 /\ sent' = 0
      BY <1>1, <1>2
    <2> QED BY <1>0, <2>1, <2>2 DEF Ring, Pipealloc
  <1>5. RefsCounted'
    <2>1. \A e \in Ends : Holders(e) = {}
      <3> SUFFICES ASSUME NEW e \in Ends, NEW q \in Procs, e \in fds[q]
                   PROVE  FALSE
        BY DEF Holders
      <3>1. ref[e] > 0
        BY HeldOpen
      <3> QED BY <3>1 DEF Pipealloc
    <2>2. \A e \in Ends : Holders(e)' = {p}
      BY <2>1 DEF Holders, Pipealloc, TypeOK
    <2>3. \A e \in Ends : ref'[e] = 1 /\ Cardinality(Holders(e)') = 1
      BY <2>2, FS_Singleton DEF Pipealloc
    <2>4. \A e \in Ends : Open(e)'
      BY DEF Open, Pipealloc
    <2>5. \A e \in Ends : \A q \in Procs : closing'[q] # e
      BY <1>1, <1>2 DEF RefsCounted, Open, Ends
    <2>6. used' /\ used' = (readopen' \/ writeopen')
      BY DEF Pipealloc
    <2>7. \A e \in Ends : ref'[e] > 0
      BY <2>3
    <2> QED BY <2>3, <2>4, <2>5, <2>6, <2>7 DEF RefsCounted
  <1>6. Holding'
    BY <1>1 DEF Holding, Pipealloc, TypeOK, Calls, Ends
  <1>7. GoingToSleep'
    BY <1>1, <1>2, Zenon DEF GoingToSleep
  <1>8. Sleepers'
    BY <1>1, <1>2, Zenon DEF Sleepers
  <1> QED BY <1>3, <1>4, <1>5, <1>6, <1>7, <1>8

(* fork(): the child's descriptors are counted. *)
LEMMA ForkStep ==
  ASSUME IInv, NEW p \in Procs, NEW q \in Procs, Fork(p, q)
  PROVE  IInv'
  <1> USE DEF IInv
  <1>1. UNCHANGED <<used, data, nread, nwrite, readopen, writeopen, lock, left, asleep, killed,
                    sent, rcvd, cut, closing>>
    BY DEF Fork, pipe
  <1>2. pc[q] = "unused"
    <2>1. \E c \in Procs \cup {None} :
            IF \E r \in Procs : pc[r] = "unused" THEN c \in Procs /\ pc[c] = "unused" ELSE c = None
      <3>1. CASE \E r \in Procs : pc[r] = "unused"
        BY <3>1
      <3>2. CASE ~ \E r \in Procs : pc[r] = "unused"
        BY <3>2
      <3> QED BY <3>1, <3>2
    <2>2. IF \E r \in Procs : pc[r] = "unused" THEN FreeSlot \in Procs /\ pc[FreeSlot] = "unused"
                                                ELSE FreeSlot = None
      BY <2>1, Zenon DEF FreeSlot
    <2> QED BY <2>2, Constants, Zenon DEF Fork
  <1>3. fds[q] = {} /\ p # q
    BY <1>2 DEF Holding, Fork, Calls
  <1>4. TypeOK'
    <2>1. pc' \in [Procs -> Places]
      BY DEF Fork, TypeOK, Goto, Places
    <2>2. fds' \in [Procs -> SUBSET Ends]
      BY DEF Fork, TypeOK
    <2>3. ref' \in [Ends -> Nat]
      BY DEF Fork, TypeOK
    <2> QED BY <1>1, <2>1, <2>2, <2>3 DEF TypeOK
  <1>5. Ring'
    BY <1>1 DEF Ring
  <1>6. RefsCounted'
    <2>1. ASSUME NEW e \in Ends
          PROVE  /\ ref'[e] = Cardinality(Holders(e)') /\ ref'[e] >= ref[e]
                 /\ ref'[e] > ref[e] => e \in fds[p]
      <3>0. IsFiniteSet(Holders(e)) /\ ref[e] \in Nat /\ ref[e] = Cardinality(Holders(e))
        BY Constants, FS_Subset DEF Holders, TypeOK, RefsCounted
      <3>1. CASE e \in fds[p]
        <4>1. Holders(e)' = Holders(e) \cup {q} /\ q \notin Holders(e)
          BY <1>3, <3>1 DEF Holders, Fork, TypeOK
        <4>2. Cardinality(Holders(e) \cup {q}) = Cardinality(Holders(e)) + 1
          BY <3>0, <4>1, FS_AddElement
        <4>3. ref'[e] = ref[e] + 1
          BY <3>1 DEF Fork
        <4> QED BY <3>0, <3>1, <4>1, <4>2, <4>3
      <3>2. CASE e \notin fds[p]
        <4>1. Holders(e)' = Holders(e)
          BY <1>3, <3>2 DEF Holders, Fork, TypeOK
        <4>2. ref'[e] = ref[e]
          BY <3>0, <3>2 DEF Fork
        <4> QED BY <3>0, <4>1, <4>2
      <3> QED BY <3>1, <3>2
    <2>2. \A e \in Ends : Open(e)' <=> Open(e)
      BY <1>1 DEF Open
    <2>3. \A e \in Ends : ref[e] \in Nat /\ ref'[e] \in Nat
      BY <1>4 DEF TypeOK
    <2>4. \A e \in Ends : (ref'[e] > 0) <=> (ref[e] > 0)
      <3> SUFFICES ASSUME NEW e \in Ends
                   PROVE  (ref'[e] > 0) <=> (ref[e] > 0)
        OBVIOUS
      <3>1. e \in fds[p] => ref[e] > 0
        BY HeldOpen
      <3> QED BY <2>1, <2>3, <3>1
    <2>5. \A e \in Ends : ref[e] = 0 => ref'[e] = 0
      BY <2>3, <2>4
    <2> QED BY <1>1, <2>1, <2>2, <2>4, <2>5 DEF RefsCounted
  <1>7. Holding'
    <2>1. \A o \in Procs : o # q => fds'[o] = fds[o] /\ pc'[o] = pc[o]
      BY DEF Fork, Goto, TypeOK
    <2>2. pc'[q] = "user"
      BY DEF Fork, Goto, TypeOK
    <2> QED BY <2>1, <2>2 DEF Holding
  <1>8. GoingToSleep'
    <2>1. \A o \in Procs : o # q => pc'[o] = pc[o]
      BY DEF Fork, Goto, TypeOK
    <2>2. pc'[q] = "user"
      BY DEF Fork, Goto, TypeOK
    <2>3. lock # None => lock \in Procs /\ lock # q
      BY <1>2 DEF GoingToSleep, TypeOK
    <2> QED BY <1>1, <2>1, <2>2, <2>3 DEF GoingToSleep
  <1>9. Sleepers'
    BY <1>1 DEF Sleepers
  <1> QED BY <1>4, <1>5, <1>6, <1>7, <1>8, <1>9

(* close(): the last descriptor of an end leaves it to its process. *)
LEMMA FilecloseStep ==
  ASSUME IInv, NEW p \in Procs, NEW e \in Ends, Fileclose(p, e)
  PROVE  IInv'
  <1> USE DEF IInv
  <1>1. UNCHANGED <<used, data, nread, nwrite, readopen, writeopen, lock, pc, left, asleep, killed,
                    sent, rcvd, cut>>
    BY DEF Fileclose, pipe
  <1>2. closing[p] = None /\ pc[p] \in {"user", "exit"} /\ e \in fds[p]
    BY DEF Fileclose, Calls
  <1>3. ref[e] \in Nat /\ ref[e] > 0 /\ Open(e) /\ \A q \in Procs : closing[q] # e
    BY <1>2, HeldOpen
  <1>4. TypeOK'
    <2>1. fds' \in [Procs -> SUBSET Ends]
      BY DEF Fileclose, TypeOK
    <2>2. ref' \in [Ends -> Nat]
      BY <1>3 DEF Fileclose, TypeOK
    <2>3. closing' \in [Procs -> Ends \cup {None}]
      BY DEF Fileclose, TypeOK
    <2> QED BY <1>1, <2>1, <2>2, <2>3 DEF TypeOK
  <1>5. Ring'
    BY <1>1 DEF Ring
  <1>6. RefsCounted'
    <2>1. ref'[e] = ref[e] - 1 /\ \A d \in Ends : d # e => ref'[d] = ref[d]
      BY DEF Fileclose, TypeOK
    <2>2. Holders(e)' = Holders(e) \ {p} /\ p \in Holders(e)
      BY <1>2 DEF Holders, Fileclose, TypeOK
    <2>3. \A d \in Ends : d # e => Holders(d)' = Holders(d)
      BY DEF Holders, Fileclose, TypeOK
    <2>4. IsFiniteSet(Holders(e)) /\ ref[e] = Cardinality(Holders(e))
      BY Constants, FS_Subset DEF Holders, RefsCounted
    <2>5. Cardinality(Holders(e)') = ref[e] - 1
      BY <2>2, <2>4, FS_RemoveElement
    <2>6. \A d \in Ends : ref'[d] = Cardinality(Holders(d)')
      BY <2>1, <2>3, <2>5 DEF RefsCounted
    <2>7. \A d \in Ends : Open(d)' <=> Open(d)
      BY <1>1 DEF Open
    <2>8. closing'[p] = (IF ref[e] > 1 THEN None ELSE e) /\ \A q \in Procs : q # p => closing'[q] = closing[q]
      BY DEF Fileclose, TypeOK
    <2>9. ASSUME NEW d \in Ends
          PROVE  /\ Open(d)' <=> ref'[d] > 0 \/ \E q \in Procs : closing'[q] = d
                 /\ \A q \in Procs : closing'[q] = d =>
                      ref'[d] = 0 /\ \A o \in Procs : closing'[o] = d => o = q
      <3>1. CASE d = e /\ ref[e] > 1
        <4>1. \A q \in Procs : closing'[q] # e
          BY <1>3, <2>8, <3>1, Constants
        <4>2. ref'[e] > 0
          BY <1>3, <2>1, <3>1
        <4> QED BY <1>3, <2>7, <3>1, <4>1, <4>2
      <3>2. CASE d = e /\ ~(ref[e] > 1)
        <4>1. ref'[e] = 0
          BY <1>3, <2>1, <3>2
        <4>2. closing'[p] = e /\ \A q \in Procs : q # p => closing'[q] # e
          BY <1>3, <2>8, <3>2
        <4> QED BY <1>3, <2>7, <3>2, <4>1, <4>2
      <3>3. CASE d # e
        <4>1. \A q \in Procs : closing'[q] = d <=> closing[q] = d
          BY <1>2, <2>8, <3>3, Constants
        <4> QED BY <2>1, <2>7, <3>3, <4>1 DEF RefsCounted
      <3> QED BY <3>1, <3>2, <3>3
    <2> QED BY <1>1, <2>6, <2>9 DEF RefsCounted
  <1>7. Holding'
    <2>1. \A q \in Procs : q # p => fds'[q] = fds[q]
      BY DEF Fileclose, TypeOK
    <2> QED BY <1>1, <1>2, <2>1 DEF Holding
  <1>8. GoingToSleep'
    BY <1>1 DEF GoingToSleep
  <1>9. Sleepers'
    BY <1>1 DEF Sleepers
  <1> QED BY <1>4, <1>5, <1>6, <1>7, <1>8, <1>9

(* pipeclose(): the end is closed, and the page freed with the second one. *)
LEMMA PipecloseStep ==
  ASSUME IInv, NEW p \in Procs, NEW e \in Ends, Pipeclose(p, e)
  PROVE  IInv'
  <1> USE DEF IInv
  <1>0. PIPESIZE \in Nat \ {0} /\ Wrap \in Nat \ {0} /\ None \notin Ends
    BY Constants
  <1>1. UNCHANGED <<lock, ref, fds, pc, left, killed>> /\ lock = None /\ closing[p] = e
    BY DEF Pipeclose, files
  <1>2. /\ readopen' = (readopen /\ e # "r") /\ writeopen' = (writeopen /\ e # "w")
        /\ used' = (readopen' \/ writeopen')
    BY DEF Pipeclose
  <1>3. readopen \in BOOLEAN /\ writeopen \in BOOLEAN /\ used \in BOOLEAN
    BY DEF TypeOK
  <1>4. readopen' \in BOOLEAN /\ writeopen' \in BOOLEAN /\ used' \in BOOLEAN
    BY <1>2, Zenon
  <1>5. used' => UNCHANGED <<data, nread, nwrite, sent, rcvd, cut>>
    BY DEF Pipeclose, Contents
  <1>6. ~used' => /\ data' = [i \in DOMAIN data |-> 0] /\ nread' = 0 /\ nwrite' = 0
                  /\ sent' = 0 /\ rcvd' = <<>> /\ cut' = FALSE
    BY DEF Pipeclose, Kfree
  <1>7. closing'[p] = None /\ \A q \in Procs : q # p => closing'[q] = closing[q]
    BY DEF Pipeclose, TypeOK
  <1>8. TypeOK'
    <2>1. data' \in [0..(PIPESIZE - 1) -> Nat]
      BY <1>4, <1>5, <1>6 DEF TypeOK
    <2>2. nread' \in Nat /\ nwrite' \in Nat /\ sent' \in Nat /\ cut' \in BOOLEAN /\ rcvd' \in Seq(Nat)
      <3>1. CASE used'
        BY <1>5, <3>1 DEF TypeOK
      <3>2. CASE ~used'
        <4>1. cut' \in BOOLEAN
          BY <1>6, <3>2
        <4>2. nread' \in Nat /\ nwrite' \in Nat /\ sent' \in Nat
          BY <1>6, <3>2
        <4>3. rcvd' \in Seq(Nat)
          BY <1>6, <3>2
        <4> QED BY <4>1, <4>2, <4>3
      <3> QED BY <3>1, <3>2
    <2>4. closing' \in [Procs -> Ends \cup {None}]
      BY DEF Pipeclose, TypeOK
    <2>5. asleep' \in [Procs -> Ends \cup {None}]
      BY DEF Pipeclose, Wakeup, TypeOK
    <2> QED BY <1>1, <1>4, <2>1, <2>2, <2>4, <2>5 DEF TypeOK
  <1>9. Ring'
    <2>1. CASE used'
      BY <1>5, <2>1 DEF Ring
    <2>2. CASE ~used'
      <3>1. 0 % Wrap = 0
        BY <1>0, ModSmall
      <3>2. Len(rcvd') = 0 /\ sent' = 0
        BY <1>6, <2>2
      <3> QED BY <1>0, <1>6, <2>2, <3>1, <3>2 DEF Ring
    <2> QED BY <2>1, <2>2
  <1>10. RefsCounted'
    <2>1. \A d \in Ends : Holders(d)' = Holders(d)
      BY <1>1 DEF Holders
    <2>2. ref[e] = 0 /\ \A q \in Procs : closing'[q] # e
      <3>1. ref[e] = 0 /\ \A q \in Procs : closing[q] = e => q = p
        BY <1>1, Zenon DEF RefsCounted
      <3> QED BY <1>0, <1>7, <3>1
    <2>3. ~Open(e)'
      BY <1>2, Zenon DEF Open, Ends
    <2>4. \A d \in Ends : d # e => (Open(d)' <=> Open(d))
      <3>1. CASE e = "r"
        <4>1. writeopen' <=> writeopen
          BY <1>2, <3>1, Zenon
        <4> QED BY <3>1, <4>1 DEF Open, Ends
      <3>2. CASE e = "w"
        <4>1. readopen' <=> readopen
          BY <1>2, <3>2, Zenon
        <4> QED BY <3>2, <4>1 DEF Open, Ends
      <3> QED BY <3>1, <3>2 DEF Ends
    <2>5. \A d \in Ends : d # e => \A q \in Procs : closing'[q] = d <=> closing[q] = d
      BY <1>0, <1>1, <1>7
    <2>6. ~(ref[e] > 0)
      BY <2>2
    <2>7. \A d \in Ends : ref'[d] = Cardinality(Holders(d)')
      BY <1>1, <2>1 DEF RefsCounted
    <2>8. ASSUME NEW d \in Ends
          PROVE  /\ Open(d)' <=> ref'[d] > 0 \/ \E q \in Procs : closing'[q] = d
                 /\ \A q \in Procs : closing'[q] = d =>
                      ref'[d] = 0 /\ \A o \in Procs : closing'[o] = d => o = q
      <3>1. CASE d = e
        BY <1>1, <2>2, <2>3, <2>6, <3>1, Zenon
      <3>2. CASE d # e
        <4>1. /\ Open(d) <=> ref[d] > 0 \/ \E q \in Procs : closing[q] = d
              /\ \A q \in Procs : closing[q] = d =>
                   ref[d] = 0 /\ \A o \in Procs : closing[o] = d => o = q
          BY Zenon DEF RefsCounted
        <4> QED BY <1>1, <2>4, <2>5, <3>2, <4>1
      <3> QED BY <3>1, <3>2
    <2> QED BY <1>2, <1>6, <2>7, <2>8 DEF RefsCounted
  <1>11. Holding'
    BY <1>1 DEF Holding
  <1>12. GoingToSleep'
    <2>1. \A q \in Procs : pc[q] \notin {"read_sleep", "write_sleep"}
      BY <1>1, Constants DEF GoingToSleep
    <2> QED BY <1>1, <2>1 DEF GoingToSleep
  <1>13. Sleepers'
    <2> SUFFICES ASSUME NEW q \in Procs
                 PROVE  /\ asleep'[q] = "r" => writeopen' /\ (Len(rcvd') = sent' \/ cut')
                        /\ asleep'[q] = "w" => readopen' /\ sent' = Len(rcvd') + PIPESIZE
      BY DEF Sleepers
    <2>1. asleep'[q] \in Ends => asleep'[q] = asleep[q] /\ asleep[q] # (IF e = "w" THEN "r" ELSE "w")
      BY <1>0 DEF Pipeclose, Wakeup, TypeOK
    <2>2. CASE asleep'[q] = "r"
      <3>1. asleep[q] = "r" /\ e # "w"
        BY <2>1, <2>2 DEF Ends
      <3>2. writeopen /\ (Len(rcvd) = sent \/ cut)
        BY <3>1 DEF Sleepers
      <3>3. writeopen' /\ used'
        BY <1>2, <3>1, <3>2, Zenon
      <3> QED BY <1>5, <2>2, <3>2, <3>3
    <2>3. CASE asleep'[q] = "w"
      <3>1. asleep[q] = "w" /\ e # "r"
        BY <2>1, <2>3 DEF Ends
      <3>2. readopen /\ sent = Len(rcvd) + PIPESIZE
        BY <3>1 DEF Sleepers
      <3>3. readopen' /\ used'
        BY <1>2, <3>1, <3>2, Zenon
      <3> QED BY <1>5, <2>3, <3>2, <3>3
    <2> QED BY <2>2, <2>3
  <1> QED BY <1>8, <1>9, <1>10, <1>11, <1>12, <1>13

(* exit(), kill() and the calls of read() and write() leave the pipe alone. *)
LEMMA QuietStep ==
  ASSUME IInv, NEW p \in Procs,
         Exit(p) \/ Kill(p) \/ \E e \in Ends, n \in ReadSizes \cup WriteSizes : Call(p, e, n)
  PROVE  IInv'
  <1> USE DEF IInv
  <1>1. UNCHANGED <<used, data, nread, nwrite, readopen, writeopen, lock, ref, fds, sent, rcvd, cut, closing>>
    BY DEF Exit, Kill, Call, pipe, files
  <1>2. TypeOK'
    <2>1. pc' \in [Procs -> Places]
      BY DEF Exit, Kill, Call, TypeOK, Goto, Places
    <2>2. left' \in [Procs -> Nat]
      BY PipeAssumption DEF Exit, Kill, Call, TypeOK
    <2>3. asleep' \in [Procs -> Ends \cup {None}] /\ killed' \in [Procs -> BOOLEAN]
      BY DEF Exit, Kill, Call, TypeOK
    <2> QED BY <1>1, <2>1, <2>2, <2>3 DEF TypeOK
  <1>3. Ring'
    BY <1>1 DEF Ring
  <1>4. RefsCounted'
    <2>1. ~used => sent' = 0 /\ rcvd' = <<>>
      BY <1>1 DEF RefsCounted
    <2> QED BY <1>1, <2>1, RefsFrame
  <1>5. /\ \A q \in Procs : q # p => pc'[q] = pc[q]
        /\ pc'[p] # pc[p] => pc[p] = "user" /\ pc'[p] \in {"exit", "read", "write"}
        /\ pc'[p] # pc[p] /\ pc'[p] = "read" => "r" \in fds[p]
        /\ pc'[p] # pc[p] /\ pc'[p] = "write" => "w" \in fds[p]
    <2>1. CASE Exit(p)
      BY <2>1 DEF Exit, TypeOK, Goto
    <2>2. CASE Kill(p)
      BY <2>2 DEF Kill
    <2>3. ASSUME NEW e \in Ends, NEW n \in ReadSizes \cup WriteSizes, Call(p, e, n)
          PROVE  <1>5!:
      BY <2>3 DEF Call, Calls, TypeOK, Goto, Ends
    <2> QED BY <2>1, <2>2, <2>3
  <1>6. Holding'
    BY <1>1, <1>5 DEF Holding
  <1>7. GoingToSleep'
    <2>1. \A q \in Procs : pc'[q] \in {"read_sleep", "write_sleep"} => pc'[q] = pc[q]
      BY <1>5
    <2>2. lock # None => lock \in Procs /\ pc[lock] \in {"read_sleep", "write_sleep"} /\ pc'[lock] = pc[lock]
      BY <1>5 DEF GoingToSleep, TypeOK
    <2> QED BY <1>1, <2>1, <2>2 DEF GoingToSleep
  <1>8. Sleepers'
    <2>1. \A q \in Procs : asleep'[q] = asleep[q] \/ asleep'[q] = None
      BY DEF Exit, Kill, Call, TypeOK
    <2> QED BY <1>1, <2>1, Constants DEF Sleepers, Ends
  <1> QED BY <1>2, <1>3, <1>4, <1>6, <1>7, <1>8

-----------------------------------------------------------------------------
(* read() and write() *)

(* sleep(): what the process found under p->lock is still so. *)
LEMMA SleepStep ==
  ASSUME IInv, NEW p \in Procs, NEW e \in Ends, Sleep(p, e)
  PROVE  IInv'
  <1> USE DEF IInv
  <1>1. UNCHANGED <<used, data, nread, nwrite, readopen, writeopen, ref, fds, left, killed, sent, rcvd, cut, closing>>
    BY DEF Sleep, pipe, files
  <1>2. /\ pc[p] = (IF e = "r" THEN "read_sleep" ELSE "write_sleep")
        /\ pc'[p] = (IF e = "r" THEN "read" ELSE "write") /\ asleep'[p] = e
        /\ \A q \in Procs : q # p => pc'[q] = pc[q] /\ asleep'[q] = asleep[q]
        /\ lock' = None
    BY DEF Sleep, Goto, TypeOK
  <1>3. TypeOK'
    <2>1. pc' \in [Procs -> Places]
      BY DEF Sleep, TypeOK, Goto, Places
    <2>2. asleep' \in [Procs -> Ends \cup {None}]
      BY DEF Sleep, TypeOK
    <2> QED BY <1>1, <1>2, <2>1, <2>2 DEF TypeOK
  <1>4. Ring'
    BY <1>1 DEF Ring
  <1>5. RefsCounted'
    <2>1. ~used => sent' = 0 /\ rcvd' = <<>>
      BY <1>1 DEF RefsCounted
    <2> QED BY <1>1, <2>1, RefsFrame
  <1>6. Holding'
    BY <1>1, <1>2 DEF Holding
  <1>7. GoingToSleep'
    BY <1>2 DEF GoingToSleep
  <1>8. Sleepers'
    BY <1>1, <1>2 DEF Sleepers, GoingToSleep, Ends
  <1> QED BY <1>3, <1>4, <1>5, <1>6, <1>7, <1>8

(* A process in read() or write() does not find the page freed. *)
LEMMA PageThere ==
  ASSUME IInv, NEW p \in Procs, pc[p] \notin {"unused", "user", "exit"}
  PROVE  used
  <1>1. \E e \in Ends : e \in fds[p]
    BY DEF IInv, TypeOK, Places, Holding, Ends
  <1> QED BY <1>1, HeldOpen DEF IInv

(* Where a process goes changes nothing for the others. *)
LEMMA GoesOn ==
  ASSUME IInv, NEW p \in Procs, lock = None, pc[p] \in {"read", "write"}, UNCHANGED fds,
         \/ pc' = [pc EXCEPT ![p] = "user"] /\ lock' = None
         \/ /\ pc[p] = "read" /\ pc' = [pc EXCEPT ![p] = "read_sleep"] /\ lock' = p
            /\ writeopen' /\ Len(rcvd') = sent'
         \/ /\ pc[p] = "write" /\ pc' = [pc EXCEPT ![p] = "write_sleep"] /\ lock' = p
            /\ readopen' /\ sent' = Len(rcvd') + PIPESIZE
  PROVE  pc' \in [Procs -> Places] /\ lock' \in Procs \cup {None} /\ Holding' /\ GoingToSleep'
  <1> USE DEF IInv
  <1>1. pc' \in [Procs -> Places] /\ lock' \in Procs \cup {None}
    BY DEF TypeOK, Places
  <1>2. \A q \in Procs : pc[q] \notin {"read_sleep", "write_sleep"}
    BY Constants DEF GoingToSleep
  <1>3. Holding'
    BY DEF Holding, TypeOK
  <1>4. GoingToSleep'
    BY <1>2, Constants DEF GoingToSleep, TypeOK
  <1> QED BY <1>1, <1>3, <1>4

(* piperead() takes what there is, and wakes the writers. *)
LEMMA PipereadStep ==
  ASSUME IInv, NEW p \in Procs, Piperead(p)
  PROVE  IInv'
  <1> USE DEF IInv
  <1> DEFINE k == Least(left[p], Fill)
  <1>1. /\ UNCHANGED <<used, data, nwrite, readopen, writeopen, lock, ref, fds, killed, sent, cut, closing>>
        /\ nread' = (nread + k) % Wrap /\ rcvd' = rcvd \o SubSeq(Content, 1, k)
        /\ pc[p] = "read" /\ lock = None /\ pc' = [pc EXCEPT ![p] = "user"]
        /\ left' = [left EXCEPT ![p] = 0]
        /\ asleep' = [q \in Procs |-> IF asleep[q] = "w" THEN None ELSE asleep[q]]
    BY DEF Piperead, files, Enters, Return, Goto, Wakeup
  <1>2. k \in Nat /\ k <= Fill
    BY FillIs, Constants DEF Least, TypeOK
  <1> HIDE DEF k
  <1>3. Ring' /\ nread' \in Nat /\ rcvd' \in Seq(Nat) /\ Len(rcvd') = Len(rcvd) + k
    BY <1>1, <1>2, TakeStep
  <1>4. pc' \in [Procs -> Places] /\ lock' \in Procs \cup {None} /\ Holding' /\ GoingToSleep'
    BY <1>1, GoesOn
  <1>5. TypeOK'
    <2>1. left' \in [Procs -> Nat] /\ asleep' \in [Procs -> Ends \cup {None}]
      BY <1>1 DEF TypeOK
    <2> QED BY <1>1, <1>3, <1>4, <2>1 DEF TypeOK
  <1>6. RefsCounted'
    <2>1. used
      BY <1>1, PageThere
    <2> QED BY <1>1, <2>1, RefsFrame
  <1>7. Sleepers'
    <2>1. \A q \in Procs : asleep'[q] # "w" /\ (asleep'[q] = "r" => asleep[q] = "r")
      BY <1>1, Constants DEF Ends
    <2>2. Len(rcvd) = sent => Len(rcvd') = sent'
      BY <1>1, <1>2, <1>3, FillIs DEF TypeOK
    <2> QED BY <1>1, <2>1, <2>2 DEF Sleepers
  <1> QED BY <1>3, <1>4, <1>5, <1>6, <1>7

(* piperead() of an empty pipe. *)
LEMMA PipereadEmptyStep ==
  ASSUME IInv, NEW p \in Procs, PipereadEmpty(p)
  PROVE  IInv'
  <1> USE DEF IInv
  <1>1. /\ UNCHANGED <<used, data, nread, nwrite, readopen, writeopen, ref, fds, asleep, killed, sent, rcvd, cut, closing>>
        /\ pc[p] = "read" /\ lock = None /\ nread = nwrite /\ writeopen
        /\ left' = left \/ left' = [left EXCEPT ![p] = 0]
        /\ \/ pc' = [pc EXCEPT ![p] = "user"] /\ lock' = None
           \/ pc' = [pc EXCEPT ![p] = "read_sleep"] /\ lock' = p
    BY DEF PipereadEmpty, files, pipe, Enters, Return, Goto
  <1>2. Len(rcvd) = sent
    BY <1>1, FillIs
  <1>3. pc' \in [Procs -> Places] /\ lock' \in Procs \cup {None} /\ Holding' /\ GoingToSleep'
    BY <1>1, <1>2, GoesOn
  <1>4. Ring'
    BY <1>1 DEF Ring
  <1>5. TypeOK'
    <2>1. left \in [Procs -> Nat]
      BY DEF TypeOK
    <2>2. [left EXCEPT ![p] = 0] \in [Procs -> Nat]
      BY <2>1
    <2>3. left' \in [Procs -> Nat]
      BY <1>1, <2>1, <2>2, Zenon
    <2> QED BY <1>1, <1>3, <2>3 DEF TypeOK
  <1>6. RefsCounted'
    <2>1. used
      BY <1>1, PageThere
    <2> QED BY <1>1, <2>1, RefsFrame
  <1>7. Sleepers'
    BY <1>1 DEF Sleepers
  <1> QED BY <1>3, <1>4, <1>5, <1>6, <1>7

(* pipewrite() of what fits, which wakes the readers. *)
LEMMA PipewriteStep ==
  ASSUME IInv, NEW p \in Procs, Pipewrite(p)
  PROVE  IInv'
  <1> USE DEF IInv
  <1>1. /\ UNCHANGED <<used, nread, readopen, writeopen, lock, ref, fds, killed, rcvd, closing>>
        /\ cut' = FALSE
        /\ pc[p] = "write" /\ lock = None /\ pc' = [pc EXCEPT ![p] = "user"]
        /\ left' = [left EXCEPT ![p] = 0] /\ left[p] <= Room /\ Put(left[p])
        /\ asleep' = [q \in Procs |-> IF asleep[q] = "r" THEN None ELSE asleep[q]]
    BY DEF Pipewrite, Put, files, Enters, Return, Goto, Wakeup
  <1>2. left[p] \in Nat
    BY DEF TypeOK
  <1>3. /\ Ring' /\ sent' = sent + left[p] /\ sent' \in Nat /\ nwrite' \in Nat
        /\ data' \in [0..(PIPESIZE - 1) -> Nat]
    BY <1>1, <1>2, PutStep
  <1>4. pc' \in [Procs -> Places] /\ lock' \in Procs \cup {None} /\ Holding' /\ GoingToSleep'
    BY <1>1, GoesOn
  <1>5. TypeOK'
    <2>1. left' \in [Procs -> Nat] /\ asleep' \in [Procs -> Ends \cup {None}]
      BY <1>1 DEF TypeOK
    <2>2. cut' \in BOOLEAN
      BY <1>1
    <2> QED BY <1>1, <1>3, <1>4, <2>1, <2>2 DEF TypeOK
  <1>6. RefsCounted'
    <2>1. used
      BY <1>1, PageThere
    <2> QED BY <1>1, <2>1, RefsFrame
  <1>7. Sleepers'
    <2>1. \A q \in Procs : asleep'[q] # "r" /\ (asleep'[q] = "w" => asleep[q] = "w")
      BY <1>1, Constants DEF Ends
    <2>2. sent = Len(rcvd) + PIPESIZE => sent' = Len(rcvd') + PIPESIZE
      <3>1. Room = PIPESIZE - (sent - Len(rcvd)) /\ sent \in Nat /\ Len(rcvd) \in Nat /\ PIPESIZE \in Nat
        BY FillIs, Constants DEF TypeOK
      <3> QED BY <1>1, <1>2, <1>3, <3>1
    <2> QED BY <1>1, <2>1, <2>2 DEF Sleepers
  <1> QED BY <1>3, <1>4, <1>5, <1>6, <1>7

(* pipewrite() of more than fits: the ring is filled. *)
LEMMA PipewriteFullStep ==
  ASSUME IInv, NEW p \in Procs, PipewriteFull(p)
  PROVE  IInv'
  <1> USE DEF IInv
  <1> DEFINE Fails == /\ pc' = [pc EXCEPT ![p] = "user"] /\ left' = [left EXCEPT ![p] = 0]
                      /\ cut' = (cut \/ Room > 0) /\ lock' = lock /\ asleep' = asleep
             Waits == /\ readopen /\ cut' = FALSE /\ lock' = p
                      /\ asleep' = [q \in Procs |-> IF asleep[q] = "r" THEN None ELSE asleep[q]]
                      /\ pc' = [pc EXCEPT ![p] = "write_sleep"]
                      /\ left' = [left EXCEPT ![p] = @ - Room]
  <1>1. /\ UNCHANGED <<used, nread, readopen, writeopen, ref, fds, killed, rcvd, closing>>
        /\ pc[p] = "write" /\ lock = None /\ left[p] > Room /\ Put(Room)
        /\ Fails \/ Waits
    BY DEF PipewriteFull, Put, files, Enters, Return, Goto, Wakeup
  <1>2. /\ Room = PIPESIZE - (sent - Len(rcvd)) /\ sent \in Nat /\ Len(rcvd) \in Nat
        /\ PIPESIZE \in Nat /\ Room \in Nat
    BY FillIs, Constants DEF TypeOK
  <1>3. /\ Ring' /\ sent' = sent + Room /\ sent' \in Nat /\ nwrite' \in Nat
        /\ data' \in [0..(PIPESIZE - 1) -> Nat]
    <2>1. Room <= Room
      BY <1>2
    <2> QED BY <1>1, <1>2, <2>1, PutStep
  <1>4. sent' = Len(rcvd') + PIPESIZE
    BY <1>1, <1>2, <1>3
  <1>5. pc' \in [Procs -> Places] /\ lock' \in Procs \cup {None} /\ Holding' /\ GoingToSleep'
    BY <1>1, <1>4, GoesOn
  <1>6. TypeOK'
    <2>1. left' \in [Procs -> Nat]
      <3>1. left \in [Procs -> Nat] /\ left[p] - Room \in Nat
        BY <1>1, <1>2 DEF TypeOK
      <3>2. CASE Fails
        BY <3>1, <3>2
      <3>3. CASE Waits
        BY <3>1, <3>3
      <3> QED BY <1>1, <3>2, <3>3
    <2>2. asleep' \in [Procs -> Ends \cup {None}]
      <3>1. CASE Fails
        BY <3>1 DEF TypeOK
      <3>2. CASE Waits
        BY <3>2 DEF TypeOK
      <3> QED BY <1>1, <3>1, <3>2
    <2>3. cut' \in BOOLEAN
      BY <1>1, Zenon
    <2> HIDE DEF Fails, Waits
    <2> QED BY <1>1, <1>3, <1>5, <2>1, <2>2, <2>3 DEF TypeOK
  <1>7. RefsCounted'
    <2>1. used
      BY <1>1, PageThere
    <2> QED BY <1>1, <2>1, RefsFrame
  <1>8. Sleepers'
    <2>1. CASE Fails
      <3>1. ASSUME NEW q \in Procs, asleep'[q] = "r"
            PROVE  writeopen' /\ (Len(rcvd') = sent' \/ cut')
        <4>1. writeopen /\ (Len(rcvd) = sent \/ cut)
          BY <2>1, <3>1 DEF Sleepers
        <4>2. CASE cut
          <5>1. cut'
            BY <2>1, <4>2, Zenon
          <5> QED BY <1>1, <4>1, <5>1
        <4>3. CASE Len(rcvd) = sent
          <5>1. Room > 0
            BY <1>2, <4>3, Constants
          <5>2. cut'
            BY <2>1, <5>1, Zenon
          <5> QED BY <1>1, <4>1, <5>2
        <4> QED BY <4>1, <4>2, <4>3
      <3>2. ASSUME NEW q \in Procs, asleep'[q] = "w"
            PROVE  readopen' /\ sent' = Len(rcvd') + PIPESIZE
        BY <1>1, <1>4, <2>1, <3>2 DEF Sleepers
      <3> QED BY <3>1, <3>2 DEF Sleepers
    <2>2. CASE Waits
      <3>1. \A q \in Procs : asleep'[q] # "r"
        BY <2>2, Constants DEF Ends
      <3> QED BY <1>1, <1>4, <2>2, <3>1 DEF Sleepers
    <2> QED BY <1>1, <2>1, <2>2
  <1> QED BY <1>3, <1>5, <1>6, <1>7, <1>8

-----------------------------------------------------------------------------
(* The invariant implies the properties. *)
LEMMA Enough ==
  ASSUME IInv
  PROVE  Stream /\ NoMissedWakeup /\ PageKept
  <1>1. Stream
    BY StreamIs DEF IInv
  <1>2. NoMissedWakeup
    <2>1. /\ Fill = sent - Len(rcvd) /\ Room = PIPESIZE - (sent - Len(rcvd))
          /\ sent \in Nat /\ Len(rcvd) \in Nat /\ PIPESIZE \in Nat
      BY FillIs, Constants DEF IInv, TypeOK
    <2>2. Len(rcvd) = sent => Fill = 0
      BY <2>1
    <2>3. sent = Len(rcvd) + PIPESIZE => Room = 0
      BY <2>1
    <2> QED BY <2>2, <2>3 DEF IInv, Sleepers, NoMissedWakeup
  <1>3. PageKept
    <2> SUFFICES ASSUME NEW p \in Procs, pc[p] \notin {"unused", "user", "exit"} \/ closing[p] # None
                 PROVE  used
      BY DEF PageKept
    <2>1. CASE pc[p] \notin {"unused", "user", "exit"}
      BY <2>1, PageThere
    <2>2. CASE closing[p] # None
      <3>1. closing[p] \in Ends
        BY <2>2 DEF IInv, TypeOK
      <3>2. Open(closing[p])
        BY <3>1 DEF IInv, RefsCounted
      <3> QED BY <3>2, Zenon DEF IInv, RefsCounted, Open
    <2> QED BY <2>1, <2>2
  <1> QED BY <1>1, <1>2, <1>3

(* Every step keeps the invariant. *)
LEMMA NextStep == IInv /\ [Next]_vars => IInv'
  <1> SUFFICES ASSUME IInv, [Next]_vars
               PROVE  IInv'
    OBVIOUS
  <1>1. CASE UNCHANGED vars
    <2> USE DEF IInv
    <2>1. UNCHANGED <<used, data, nread, nwrite, readopen, writeopen, lock, ref, fds, pc, left,
                      closing, asleep, killed, sent, rcvd, cut>>
      BY <1>1 DEF vars, pipe, files
    <2>2. TypeOK' /\ Ring'
      BY <2>1 DEF TypeOK, Ring
    <2>3. RefsCounted'
      <3>1. ~used => sent' = 0 /\ rcvd' = <<>>
        BY <2>1 DEF RefsCounted
      <3> QED BY <2>1, <3>1, RefsFrame
    <2>4. Holding' /\ GoingToSleep' /\ Sleepers'
      BY <2>1 DEF Holding, GoingToSleep, Sleepers
    <2> QED BY <2>2, <2>3, <2>4
  <1>2. ASSUME NEW p \in Procs, Kernel(p)
        PROVE  IInv'
    <2>1. CASE Piperead(p) \/ PipereadEmpty(p) \/ Pipewrite(p) \/ PipewriteFull(p)
      BY <2>1, PipereadStep, PipereadEmptyStep, PipewriteStep, PipewriteFullStep
    <2>2. CASE Exit(p)
      BY <2>2, QuietStep
    <2>3. ASSUME NEW e \in Ends, Fileclose(p, e) \/ Sleep(p, e) \/ Pipeclose(p, e)
          PROVE  IInv'
      BY <2>3, FilecloseStep, SleepStep, PipecloseStep
    <2> QED BY <1>2, <2>1, <2>2, <2>3 DEF Kernel
  <1>3. ASSUME NEW p \in Procs, Pipealloc(p)
        PROVE  IInv'
    BY <1>3, PipeallocStep
  <1>4. ASSUME NEW p \in Procs, NEW q \in Procs, Fork(p, q)
        PROVE  IInv'
    BY <1>4, ForkStep
  <1>5. ASSUME NEW p \in Procs, NEW e \in Ends, Fileclose(p, e)
        PROVE  IInv'
    BY <1>5, FilecloseStep
  <1>6. ASSUME NEW p \in Procs,
               Exit(p) \/ Kill(p) \/ \E e \in Ends, n \in ReadSizes \cup WriteSizes : Call(p, e, n)
        PROVE  IInv'
    BY <1>6, QuietStep
  <1> QED BY <1>1, <1>2, <1>3, <1>4, <1>5, <1>6 DEF Next

(* The counters, the references and the sleepers are what IInv says, in   *)
(* every reachable state (pipe.c, file.c).                                *)
THEOREM Inductive == Spec => []IInv
  <1>1. Init => IInv
    BY InitIInv
  <1>2. IInv /\ [Next]_vars => IInv'
    BY NextStep
  <1> QED BY <1>1, <1>2, PTL DEF Spec

(* A pipe of any size is a stream for any number of readers and writers,  *)
(* also when its counters wrap around (pipe.c:85-97, 106-119).            *)
THEOREM StreamKept == Spec => []Stream
  <1>1. IInv => Stream
    BY Enough
  <1> QED BY <1>1, Inductive, PTL

(* No reader sleeps while there is something to read, no writer while     *)
(* there is room, but for what a killed writer leaves behind (pipe.c:86,  *)
(* 91, 96, 111, 118).                                                     *)
THEOREM NobodySleepsThrough == Spec => []NoMissedWakeup
  <1>1. IInv => NoMissedWakeup
    BY Enough
  <1> QED BY <1>1, Inductive, PTL

(* The page is freed only when nobody will look at it again (pipe.c:60-75, *)
(* fileclose of file.c).                                                  *)
THEOREM FreedLast == Spec => []PageKept
  <1>1. IInv => PageKept
    BY Enough
  <1> QED BY <1>1, Inductive, PTL

=============================================================================
