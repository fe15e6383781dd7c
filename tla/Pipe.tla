-------------------------------- MODULE Pipe --------------------------------
(***************************************************************************)
(* A pipe (pipe.c) and the two files its ends are (file.c): descriptors    *)
(* are duplicated by fork and closed by close and exit, the last close of  *)
(* an end closes it, and the last end to be closed frees the page.         *)
(*                                                                         *)
(* What is done under p->lock up to the next sleep or return is one        *)
(* action.  p->killed is tested under p->lock, but kill() needs only       *)
(* ptable.lock, which sleep() takes later: going to sleep is a step of its *)
(* own, with p->lock held.                                                 *)
(***************************************************************************)
EXTENDS Integers, Sequences, FiniteSets

CONSTANTS
  Procs, None,
  PIPESIZE,
  Wrap,        \* nread and nwrite are unsigned: modulo 2^32
  ReadSizes, WriteSizes,  \* the n of the read and write calls
  MaxKilled,   \* bound: processes that are killed
  MaxBytes     \* bound: no write starts once so many bytes were written

ASSUME PipeAssumption ==
  /\ None \notin Procs /\ None \notin {"r", "w"} /\ IsFiniteSet(Procs)
  /\ PIPESIZE \in Nat \ {0} /\ \E k \in 2..Wrap : Wrap = k * PIPESIZE
  /\ ReadSizes \cup WriteSizes \subseteq Nat \ {0}
  /\ MaxKilled \in Nat /\ MaxBytes \in Nat

VARIABLES
  used,            \* is the page of the pipe allocated?
  data, nread, nwrite, readopen, writeopen,
  lock,            \* who holds p->lock between actions
  ref,             \* f->ref of the files "r" and "w"
  fds,             \* the ends each process has descriptors of
  pc, left,        \* where each process is; bytes its call has left
  closing,         \* the end on which it is going to call pipeclose()
  asleep,          \* the channel it sleeps on, &p->nread "r", &p->nwrite "w"
  killed,
  sent,            \* history: bytes written so far; byte k has the value k
  rcvd,            \* history: the bytes readers got
  cut              \* history: bytes from a failed write() nobody was woken for

pipe  == <<used, data, nread, nwrite, readopen, writeopen>>
files == <<ref, fds>>
vars  == <<pipe, lock, files, pc, left, closing, asleep, killed, sent, rcvd, cut>>

Ends == {"r", "w"}

(* No pipe yet; one process runs, each of the others is forked at most once. *)
Init ==
  /\ used = FALSE /\ data = [i \in 0..(PIPESIZE - 1) |-> 0]
  /\ nread = 0 /\ nwrite = 0 /\ readopen = FALSE /\ writeopen = FALSE
  /\ lock = None /\ ref = [e \in Ends |-> 0] /\ fds = [p \in Procs |-> {}]
  /\ pc = [q \in Procs |-> IF q = CHOOSE p \in Procs : TRUE THEN "user" ELSE "unused"]
  /\ left = [p \in Procs |-> 0]
  /\ asleep = [p \in Procs |-> None] /\ closing = asleep
  /\ killed = [p \in Procs |-> FALSE] /\ sent = 0 /\ rcvd = <<>> /\ cut = FALSE

Calls(p) == pc[p] = "user" /\ closing[p] = None /\ ~killed[p]

Goto(p, place) == pc' = [pc EXCEPT ![p] = place]

(* wakeup(chan) *)
Wakeup(e) == asleep' = [p \in Procs |-> IF asleep[p] = e THEN None ELSE asleep[p]]

Fill == (nwrite - nread) % Wrap

(* data[n++ % PIPESIZE], the k-th time. *)
Index(n, k) == ((n + k - 1) % Wrap) % PIPESIZE

(* The bytes in the ring, oldest first. *)
Content == [k \in 1..Fill |-> data[Index(nread, k)]]

Least(a, b) == IF a < b THEN a ELSE b

-----------------------------------------------------------------------------
(* Descriptors *)

Pipealloc(p) ==
  /\ Calls(p) /\ ~used /\ ref = [e \in Ends |-> 0]
  /\ used' = TRUE /\ readopen' = TRUE /\ writeopen' = TRUE
  /\ nread' = 0 /\ nwrite' = 0
  /\ ref' = [e \in Ends |-> 1] /\ fds' = [fds EXCEPT ![p] = Ends]
  /\ UNCHANGED <<data, lock, pc, left, closing, asleep, killed, sent, rcvd, cut>>

(* allocproc(): the first slot that is free. *)
FreeSlot == CHOOSE q \in Procs \cup {None} :
  IF \E r \in Procs : pc[r] = "unused" THEN q \in Procs /\ pc[q] = "unused" ELSE q = None

(* fork(): filedup() of every descriptor. *)
Fork(p, q) ==
  /\ Calls(p) /\ q = FreeSlot
  /\ fds' = [fds EXCEPT ![q] = fds[p]]
  /\ ref' = [e \in Ends |-> ref[e] + (IF e \in fds[p] THEN 1 ELSE 0)]
  /\ Goto(q, "user")
  /\ UNCHANGED <<pipe, lock, left, asleep, killed, sent, rcvd, cut, closing>>

(* fileclose() up to the release of ftable.lock, called by close(), or by *)
(* exit() for each descriptor that is left.                               *)
Fileclose(p, e) ==
  /\ Calls(p) \/ (pc[p] = "exit" /\ closing[p] = None)
  /\ e \in fds[p]
  /\ fds' = [fds EXCEPT ![p] = @ \ {e}]
  /\ ref' = [ref EXCEPT ![e] = @ - 1]
  /\ closing' = [closing EXCEPT ![p] = IF ref[e] > 1 THEN None ELSE e]
  /\ UNCHANGED <<pipe, lock, pc, left, asleep, killed, sent, rcvd, cut>>

(* kfree() fills the page with junk, here 0; the history starts afresh. *)
Kfree ==
  /\ data' = [i \in DOMAIN data |-> 0] /\ nread' = 0 /\ nwrite' = 0
  /\ sent' = 0 /\ rcvd' = <<>> /\ cut' = FALSE

Contents == <<data, nread, nwrite, sent, rcvd, cut>>

\* Slip: the sleepers at the other end are not told.
PipecloseSilent(p, e) ==
  /\ closing[p] = e /\ lock = None
  /\ readopen' = (readopen /\ e # "r") /\ writeopen' = (writeopen /\ e # "w")
  /\ used' = (readopen' \/ writeopen')
  /\ IF used' THEN UNCHANGED Contents ELSE Kfree
  /\ closing' = [closing EXCEPT ![p] = None]
  /\ UNCHANGED <<lock, files, pc, left, asleep, killed>>

Pipeclose(p, e) ==
  /\ closing[p] = e /\ lock = None
  /\ readopen' = (readopen /\ e # "r") /\ writeopen' = (writeopen /\ e # "w")
  /\ used' = (readopen' \/ writeopen')
  /\ IF used' THEN UNCHANGED Contents ELSE Kfree
  /\ Wakeup(IF e = "w" THEN "r" ELSE "w")
  /\ closing' = [closing EXCEPT ![p] = None]
  /\ UNCHANGED <<lock, files, pc, left, killed>>

(* exit(), called or, once it is killed, forced when it leaves the kernel. *)
Exit(p) ==
  /\ pc[p] = "user" /\ closing[p] = None /\ Goto(p, "exit")
  /\ UNCHANGED <<pipe, lock, files, left, asleep, killed, sent, rcvd, cut, closing>>

Kill(p) ==
  /\ pc[p] \notin {"unused", "exit"} /\ ~killed[p]
  /\ Cardinality({q \in Procs : killed[q]}) < MaxKilled
  /\ killed' = [killed EXCEPT ![p] = TRUE]
  /\ asleep' = [asleep EXCEPT ![p] = None]
  /\ UNCHANGED <<pipe, lock, files, pc, left, sent, rcvd, cut, closing>>

-----------------------------------------------------------------------------
(* read() and write() *)

Call(p, e, n) ==
  /\ Calls(p) /\ e \in fds[p]
  /\ IF e = "r" THEN n \in ReadSizes ELSE n \in WriteSizes /\ sent < MaxBytes
  /\ Goto(p, IF e = "r" THEN "read" ELSE "write")
  /\ left' = [left EXCEPT ![p] = n]
  /\ UNCHANGED <<pipe, lock, files, asleep, killed, sent, rcvd, cut, closing>>

(* A process that has been switched to again and gets p->lock. *)
Enters(p, place) == pc[p] = place /\ asleep[p] = None /\ lock = None

Return(p) == Goto(p, "user") /\ left' = [left EXCEPT ![p] = 0]

(* sleep(): from here on a kill finds the process asleep. *)
Sleep(p, e) ==
  /\ pc[p] = (IF e = "r" THEN "read_sleep" ELSE "write_sleep")
  /\ lock' = None /\ asleep' = [asleep EXCEPT ![p] = e]
  /\ Goto(p, IF e = "r" THEN "read" ELSE "write")
  /\ UNCHANGED <<pipe, files, left, killed, sent, rcvd, cut, closing>>

\* Slip: no wakeup() of the writers.
PipereadSilent(p) ==
  LET k == Least(left[p], Fill) IN
  /\ Enters(p, "read") /\ ~(nread = nwrite /\ writeopen)
  /\ nread' = (nread + k) % Wrap
  /\ rcvd' = rcvd \o SubSeq(Content, 1, k)
  /\ Return(p)
  /\ UNCHANGED <<used, data, nwrite, readopen, writeopen, lock, files, asleep, killed, sent, cut, closing>>

(* Data, or the end of the file. *)
Piperead(p) ==
  LET k == Least(left[p], Fill) IN
  /\ Enters(p, "read") /\ ~(nread = nwrite /\ writeopen)
  /\ nread' = (nread + k) % Wrap
  /\ rcvd' = rcvd \o SubSeq(Content, 1, k)
  /\ Wakeup("w") /\ Return(p)
  /\ UNCHANGED <<used, data, nwrite, readopen, writeopen, lock, files, killed, sent, cut, closing>>

(* The pipe is empty: the read fails if the process was killed, else it   *)
(* is going to sleep.                                                     *)
PipereadEmpty(p) ==
  /\ Enters(p, "read") /\ nread = nwrite /\ writeopen
  /\ \/ killed[p] /\ Return(p) /\ UNCHANGED lock
     \/ ~killed[p] /\ lock' = p /\ Goto(p, "read_sleep") /\ UNCHANGED left
  /\ UNCHANGED <<pipe, files, asleep, killed, sent, rcvd, cut, closing>>

Room == PIPESIZE - Fill

(* k bytes from the caller's buffer go into the ring. *)
Put(k) ==
  /\ data' = [i \in DOMAIN data |->
       IF \E j \in 1..k : Index(nwrite, j) = i
         THEN sent + (CHOOSE j \in 1..k : Index(nwrite, j) = i)
         ELSE data[i]]
  /\ nwrite' = (nwrite + k) % Wrap /\ sent' = sent + k
  /\ UNCHANGED <<used, nread, readopen, writeopen>>

\* Slip: the test for a full ring is off by one.
PipewriteOver(p) ==
  /\ Enters(p, "write") /\ left[p] <= Room + 1
  /\ Put(left[p]) /\ Wakeup("r") /\ Return(p)
  /\ cut' = FALSE
  /\ UNCHANGED <<lock, files, killed, rcvd, closing>>

(* What is left fits. *)
Pipewrite(p) ==
  /\ Enters(p, "write") /\ left[p] <= Room
  /\ Put(left[p]) /\ Wakeup("r") /\ Return(p)
  /\ cut' = FALSE
  /\ UNCHANGED <<lock, files, killed, rcvd, closing>>

(* It does not: the ring is filled, and then the write fails, without a   *)
(* wakeup(), or wakes the readers and is going to sleep.                  *)
PipewriteFull(p) ==
  /\ Enters(p, "write") /\ left[p] > Room
  /\ Put(Room)
  /\ \/ /\ ~readopen \/ killed[p]
        /\ Return(p) /\ cut' = (cut \/ Room > 0) /\ UNCHANGED <<lock, asleep>>
     \/ /\ readopen /\ ~killed[p]
        /\ Wakeup("r") /\ cut' = FALSE /\ lock' = p
        /\ Goto(p, "write_sleep") /\ left' = [left EXCEPT ![p] = @ - Room]
  /\ UNCHANGED <<files, killed, rcvd, closing>>

-----------------------------------------------------------------------------
Kernel(p) ==
  \/ \E e \in Ends :
       \/ pc[p] = "exit" /\ Fileclose(p, e)
       \/ Sleep(p, e) \/ Pipeclose(p, e)
  \/ killed[p] /\ Exit(p)
  \/ Piperead(p) \/ PipereadEmpty(p) \/ Pipewrite(p) \/ PipewriteFull(p)

Next ==
  \E p \in Procs :
    \/ Kernel(p) \/ Pipealloc(p) \/ Exit(p) \/ Kill(p)
    \/ \E q \in Procs : Fork(p, q)
    \/ \E e \in Ends : Fileclose(p, e) \/ \E n \in ReadSizes \cup WriteSizes : Call(p, e, n)

Spec == Init /\ [][Next]_vars

-----------------------------------------------------------------------------
(* A pipe is a stream: what the readers got and what is in the ring are   *)
(* the bytes written, in order, none lost, repeated or overwritten, also  *)
(* when the counters wrap around and several processes read and write     *)
(* (pipe.c:85-97, 106-119).                                               *)
Stream == rcvd \o Content = [k \in 1..sent |-> k]

(* Nobody sleeps through what it waits for: a sleeping reader has nothing *)
(* to read and somebody may still write, a sleeping writer has no room    *)
(* and somebody may still read.  One exception: a writer that is killed   *)
(* returns without waking the readers of what it wrote (pipe.c:86-89).    *)
NoMissedWakeup ==
  \A p \in Procs :
    /\ asleep[p] = "r" => writeopen /\ (Fill = 0 \/ cut)
    /\ asleep[p] = "w" => readopen /\ Room = 0

(* A process that is in the kernel goes on; a killed one exits. *)
FairSpec == Spec /\ \A p \in Procs : WF_vars(Kernel(p))

(* Readers see the end of the file: when all descriptors of the write end *)
(* are closed, every reader returns (piperead, pipe.c:106).               *)
EndOfFile ==
  \A p \in Procs : pc[p] = "read" /\ ref["w"] = 0 ~> pc[p] # "read"

-----------------------------------------------------------------------------
(* The inductive invariant. *)

Places == {"unused", "user", "exit", "read", "read_sleep", "write", "write_sleep"}

TypeOK ==
  /\ used \in BOOLEAN /\ readopen \in BOOLEAN /\ writeopen \in BOOLEAN /\ cut \in BOOLEAN
  /\ data \in [0..(PIPESIZE - 1) -> Nat] /\ nread \in Nat /\ nwrite \in Nat
  /\ lock \in Procs \cup {None} /\ ref \in [Ends -> Nat] /\ fds \in [Procs -> SUBSET Ends]
  /\ pc \in [Procs -> Places] /\ left \in [Procs -> Nat]
  /\ closing \in [Procs -> Ends \cup {None}] /\ asleep \in [Procs -> Ends \cup {None}]
  /\ killed \in [Procs -> BOOLEAN] /\ sent \in Nat /\ rcvd \in Seq(Nat)

(* The ring, by the number of the byte: byte k is in slot (k - 1) % PIPESIZE. *)
Ring ==
  /\ \A k \in 1..Len(rcvd) : rcvd[k] = k
  /\ Len(rcvd) <= sent /\ sent <= Len(rcvd) + PIPESIZE
  /\ nread = Len(rcvd) % Wrap /\ nwrite = sent % Wrap
  /\ \A k \in 1..sent : k > Len(rcvd) => data[(k - 1) % PIPESIZE] = k

Holders(e) == {p \in Procs : e \in fds[p]}

Open(e) == IF e = "r" THEN readopen ELSE writeopen

(* f->ref counts the descriptors; an end stays open until the process     *)
(* that closed its last descriptor has called pipeclose(), and only one   *)
(* process does.                                                          *)
RefsCounted ==
  /\ \A e \in Ends :
       /\ ref[e] = Cardinality(Holders(e))
       /\ Open(e) <=> ref[e] > 0 \/ \E p \in Procs : closing[p] = e
       /\ \A p \in Procs : closing[p] = e =>
            ref[e] = 0 /\ \A q \in Procs : closing[q] = e => q = p
  /\ used = (readopen \/ writeopen)
  /\ ~used => sent = 0 /\ rcvd = <<>>

(* A process in read() or write() has a descriptor of that end. *)
Holding ==
  \A p \in Procs :
    /\ pc[p] = "unused" => fds[p] = {}
    /\ pc[p] \in {"read", "read_sleep"} => "r" \in fds[p]
    /\ pc[p] \in {"write", "write_sleep"} => "w" \in fds[p]

(* Only a process that is going to sleep holds p->lock, and what it found *)
(* under the lock is still so.                                            *)
GoingToSleep ==
  /\ \A p \in Procs :
       /\ pc[p] \in {"read_sleep", "write_sleep"} => lock = p
       /\ pc[p] = "read_sleep" => writeopen /\ Len(rcvd) = sent
       /\ pc[p] = "write_sleep" => readopen /\ sent = Len(rcvd) + PIPESIZE
  /\ lock # None => pc[lock] \in {"read_sleep", "write_sleep"}

(* NoMissedWakeup, without the counters. *)
Sleepers ==
  \A p \in Procs :
    /\ asleep[p] = "r" => writeopen /\ (Len(rcvd) = sent \/ cut)
    /\ asleep[p] = "w" => readopen /\ sent = Len(rcvd) + PIPESIZE

IInv == TypeOK /\ Ring /\ RefsCounted /\ Holding /\ GoingToSleep /\ Sleepers

(* The page outlives every use of it: a process in read(), write() or on  *)
(* its way to pipeclose() finds it allocated (pipeclose, pipe.c:60-75).   *)
PageKept ==
  \A p \in Procs :
    pc[p] \notin {"unused", "user", "exit"} \/ closing[p] # None => used

=============================================================================
