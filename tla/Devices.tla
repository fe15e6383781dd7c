------------------------------ MODULE Devices -------------------------------
(***************************************************************************)
(* The two devices a process waits for by name: the keyboard (consoleintr  *)
(* and consoleread of console.c, with the input buffer between them) and   *)
(* the clock (sys_sleep of sysproc.c, the timer interrupt of trap.c).      *)
(*                                                                         *)
(* What is done under cons.lock or tickslock up to the next sleep or       *)
(* return is one action per character or test; who holds the lock then is  *)
(* explicit.  p->killed is tested under that lock, but kill() needs only   *)
(* ptable.lock, which sleep() takes later: going to sleep is a step of its *)
(* own.  The screen, and the inode lock that consoleread() gives up, are   *)
(* left out.                                                               *)
(***************************************************************************)
EXTENDS Integers, Sequences, FiniteSets, Processes

CONSTANTS
  Sleepers,    \* the processes that call sleep; all call read
  INPUT_BUF,
  Wrap,        \* r, w, e and ticks are unsigned: modulo 2^32
  Letters,     \* the keys that are neither NL nor a control character
  ReadSizes,   \* the n of the read calls
  Delays,      \* the n of the sleep calls, an int: as wide as ticks, and signed
  MaxKilled    \* bound: processes that are killed

NL == "nl"
EOF == "^D"

ASSUME DevicesAssumption ==
  /\ None \notin Procs /\ IsFiniteSet(Procs) /\ Sleepers \subseteq Procs /\ {NL, EOF, "^U", "^H", "^P"} \cap Letters = {}
  /\ INPUT_BUF \in Nat \ {0} /\ \E k \in 2..Wrap : Wrap = k * INPUT_BUF
  /\ ReadSizes \subseteq Nat /\ Delays \subseteq Int /\ \A n \in Delays : -Wrap <= 2 * n /\ 2 * n < Wrap
  /\ MaxKilled \in Nat

VARIABLES
  buf, r, w, e,    \* input
  cons, tickslock, \* who holds the lock between actions
  ticks,
  asleep,          \* the channel each process sleeps on
  n, target, ticks0,   \* locals of consoleread and sys_sleep, 0 outside
  killed,
  slept            \* history: the ticks since the start of sys_sleep, as many as it waits for

input  == <<buf, r, w, e>>
clock  == <<ticks, slept>>
locals == <<n, target, ticks0>>
deviceVars   == <<buf, r, w, e, cons, tickslock, ticks, pc, asleep, n, target, ticks0, killed, slept>>

DevicesInit ==
  /\ buf = [i \in 0..(INPUT_BUF - 1) |-> None] /\ r = 0 /\ w = 0 /\ e = 0
  /\ cons = None /\ tickslock = None /\ ticks = 0
  /\ pc = [p \in Procs |-> "user"] /\ asleep = [p \in Procs |-> None]
  /\ n = [p \in Procs |-> 0] /\ target = n /\ ticks0 = n /\ slept = n
  /\ killed = [p \in Procs |-> FALSE]

(* Slip: only one of the sleepers is woken. *)
WakeupOne(chan) ==
  IF \E p \in Procs : asleep[p] = chan
  THEN asleep' = [asleep EXCEPT ![CHOOSE p \in Procs : asleep[p] = chan] = None]
  ELSE UNCHANGED asleep

Wakeup(chan) == asleep' = [p \in Procs |-> IF asleep[p] = chan THEN None ELSE asleep[p]]

Plus(a, b) == (a + b) % Wrap

At(i) == buf[i % INPUT_BUF]

-----------------------------------------------------------------------------
(* consoleintr(), for one key; '\r' arrives as NL.  ^P lists the processes. *)

(* input.e after ^U: back to the start of the line. *)
KillLine ==
  CHOOSE i \in 0..(Wrap - 1) :
    LET back == (e - i) % Wrap
    IN  /\ back <= (e - w) % Wrap
        /\ \A k \in 1..back : At(Plus(e, -k)) # NL
        /\ back = (e - w) % Wrap \/ At(Plus(i, -1)) = NL

(* Slip: one character too many fits. *)
FitsOne(c) == c # None /\ (e - r) % Wrap <= INPUT_BUF

Fits(c) == c # None /\ (e - r) % Wrap < INPUT_BUF

(* Does c make the line readable? *)
EndsLine(c) == c \in {NL, EOF} \/ Plus(e, 1) = Plus(r, INPUT_BUF)

Consoleintr(c) ==
  /\ cons = None
  /\ \/ c = "^P" /\ UNCHANGED <<input, asleep>>
     \/ c = "^U" /\ e' = KillLine /\ UNCHANGED <<buf, r, w, asleep>>
     \/ c = "^H" /\ e' = (IF e = w THEN e ELSE Plus(e, -1)) /\ UNCHANGED <<buf, r, w, asleep>>
     \/ /\ c \in Letters \cup {NL, EOF} /\ Fits(c)
        /\ buf' = [buf EXCEPT ![e % INPUT_BUF] = c] /\ e' = Plus(e, 1)
        /\ IF EndsLine(c) THEN w' = e' /\ Wakeup("input") ELSE UNCHANGED <<w, asleep>>
        /\ UNCHANGED r
     \/ c \in Letters \cup {NL, EOF} /\ ~Fits(c) /\ UNCHANGED <<input, asleep>>
  /\ UNCHANGED <<cons, tickslock, clock, pc, locals, killed>>

-----------------------------------------------------------------------------
(* consoleread() *)

Calls(p) == pc[p] = "user" /\ ~killed[p]

Consoleread(p, size) ==
  /\ Calls(p) /\ cons = None
  /\ cons' = p /\ Goto(p, "read")
  /\ n' = [n EXCEPT ![p] = size] /\ target' = [target EXCEPT ![p] = size]
  /\ UNCHANGED <<input, tickslock, clock, asleep, ticks0, killed>>

ReadReturn(p) ==
  /\ cons' = None /\ Goto(p, "user")
  /\ n' = [n EXCEPT ![p] = 0] /\ target' = [target EXCEPT ![p] = 0]

(* n is 0, or the process was killed. *)
ReadEnds(p) ==
  /\ pc[p] = "read"
  /\ n[p] = 0 \/ (r = w /\ killed[p])
  /\ ReadReturn(p)
  /\ UNCHANGED <<input, tickslock, clock, asleep, ticks0, killed>>

ReadWaits(p) ==
  /\ pc[p] = "read" /\ n[p] > 0 /\ r = w /\ ~killed[p]
  /\ Goto(p, "read_sleep")
  /\ UNCHANGED <<input, cons, tickslock, clock, asleep, locals, killed>>

(* input.r after ^D: it stays for the next read unless this one got nothing. *)
AfterEOF(p) == IF n[p] < target[p] THEN r ELSE Plus(r, 1)

ReadChar(p) ==
  /\ pc[p] = "read" /\ n[p] > 0 /\ r # w
  /\ \/ At(r) = EOF /\ r' = AfterEOF(p) /\ ReadReturn(p)
     \/ At(r) = NL /\ r' = Plus(r, 1) /\ ReadReturn(p)
     \/ /\ At(r) \notin {NL, EOF} /\ r' = Plus(r, 1)
        /\ n' = [n EXCEPT ![p] = @ - 1] /\ UNCHANGED <<cons, pc, target>>
  /\ UNCHANGED <<buf, w, e, tickslock, clock, asleep, ticks0, killed>>

-----------------------------------------------------------------------------
(* The clock. *)

Napping(p) == pc[p] \in {"nap", "nap_sleep", "nap_woken"}

(* The timer interrupt of CPU 0.  It waits for nobody: the clock may go      *)
(* round before a process that it woke has run.                              *)
Tick ==
  /\ tickslock = None
  /\ ticks' = Plus(ticks, 1)
  /\ slept' = [p \in Procs |-> IF Napping(p) /\ slept[p] < n[p] % Wrap THEN slept[p] + 1 ELSE slept[p]]
  /\ Wakeup("ticks")
  /\ UNCHANGED <<input, cons, tickslock, pc, locals, killed>>

SysSleep(p, delay) ==
  /\ Calls(p) /\ tickslock = None
  /\ tickslock' = p /\ Goto(p, "nap")
  /\ n' = [n EXCEPT ![p] = delay] /\ ticks0' = [ticks0 EXCEPT ![p] = ticks]
  /\ UNCHANGED <<input, cons, clock, asleep, target, killed>>

(* Slip: a deadline is computed first, and it may wrap. *)
DueDeadline(p) == ticks >= Plus(ticks0[p], n[p])

(* ticks - ticks0 < n is unsigned: a negative n is a very large one. *)
Due(p) == (ticks - ticks0[p]) % Wrap >= n[p] % Wrap

NapEnds(p) ==
  /\ pc[p] = "nap" /\ (Due(p) \/ killed[p])
  /\ tickslock' = None /\ Goto(p, "user")
  /\ n' = [n EXCEPT ![p] = 0] /\ ticks0' = [ticks0 EXCEPT ![p] = 0] /\ slept' = [slept EXCEPT ![p] = 0]
  /\ UNCHANGED <<input, cons, ticks, asleep, target, killed>>

NapWaits(p) ==
  /\ pc[p] = "nap" /\ ~Due(p) /\ ~killed[p]
  /\ Goto(p, "nap_sleep")
  /\ UNCHANGED <<input, cons, tickslock, clock, asleep, locals, killed>>

-----------------------------------------------------------------------------
(* sleep() on both channels, kill() and exit(). *)

Chan == [read_sleep |-> "input", nap_sleep |-> "ticks"]
Woken == [read_sleep |-> "read_woken", nap_sleep |-> "nap_woken"]

Sleep(p) ==
  /\ pc[p] \in DOMAIN Chan
  /\ asleep' = [asleep EXCEPT ![p] = Chan[pc[p]]]
  /\ Goto(p, Woken[pc[p]])
  /\ cons' = (IF pc[p] = "read_sleep" THEN None ELSE cons)
  /\ tickslock' = (IF pc[p] = "nap_sleep" THEN None ELSE tickslock)
  /\ UNCHANGED <<input, clock, locals, killed>>

(* sleep() returns once it has the lock again: the loop goes round. *)
Resume(p) ==
  /\ asleep[p] = None
  /\ \/ pc[p] = "read_woken" /\ cons = None /\ cons' = p /\ Goto(p, "read") /\ UNCHANGED tickslock
     \/ pc[p] = "nap_woken" /\ tickslock = None /\ tickslock' = p /\ Goto(p, "nap") /\ UNCHANGED cons
  /\ UNCHANGED <<input, clock, asleep, locals, killed>>

KillOne(p) ==
  /\ ~killed[p] /\ pc[p] # "gone" /\ Cardinality({q \in Procs : killed[q]}) < MaxKilled
  /\ killed' = [killed EXCEPT ![p] = TRUE] /\ asleep' = [asleep EXCEPT ![p] = None]
  /\ UNCHANGED <<input, cons, tickslock, clock, pc, locals>>

(* trap() makes a killed process exit before it is back in user mode. *)
Exit(p) ==
  /\ pc[p] = "user" /\ killed[p]
  /\ Goto(p, "gone")
  /\ UNCHANGED <<input, cons, tickslock, clock, asleep, locals, killed>>

-----------------------------------------------------------------------------
Kernel(p) ==
  \/ ReadEnds(p) \/ ReadWaits(p) \/ ReadChar(p) \/ NapEnds(p) \/ NapWaits(p)
  \/ Sleep(p) \/ Resume(p) \/ Exit(p)

DevicesNext ==
  \/ Tick
  \/ \E c \in Letters \cup {NL, EOF, "^U", "^H", "^P"} : Consoleintr(c)
  \/ \E p \in Procs :
       \/ Kernel(p) \/ KillOne(p)
       \/ \E size \in ReadSizes : Consoleread(p, size)
       \/ \E delay \in Delays : p \in Sleepers /\ SysSleep(p, delay)

(* A process that is not asleep runs, and the timer goes on.  acquire() spins *)
(* until xchg finds the lock free, which it is again and again.              *)
Fairness == SF_deviceVars(Tick) /\ \A p \in Procs : WF_deviceVars(Kernel(p)) /\ SF_deviceVars(Resume(p))

DevicesSpec == DevicesInit /\ [][DevicesNext]_deviceVars /\ Fairness

-----------------------------------------------------------------------------
(* The ring is a line discipline: readable are the characters from r to w,  *)
(* and the line being typed is what is between w and e.                     *)
Ring(i, j) == [k \in 1..((j - i) % Wrap) |-> At(Plus(i, k - 1))]

Discipline == INSTANCE LineDiscipline WITH
  Size <- INPUT_BUF, queue <- Ring(r, w), line <- Ring(w, e)

Indices == 0..(Wrap - 1)
Keys == Letters \cup {NL, EOF}

DevicesTypeOK ==
  /\ buf \in [0..(INPUT_BUF - 1) -> Keys \cup {None}] /\ r \in Indices /\ w \in Indices /\ e \in Indices
  /\ cons \in Procs \cup {None} /\ tickslock \in Procs \cup {None} /\ ticks \in Indices
  /\ pc \in [Procs -> {"user", "gone"} \cup {"read", "read_sleep", "read_woken"} \cup {"nap", "nap_sleep", "nap_woken"}]
  /\ asleep \in [Procs -> {None, "input", "ticks"}] /\ killed \in [Procs -> BOOLEAN]
  /\ n \in [Procs -> Int] /\ target \in [Procs -> Nat] /\ ticks0 \in [Procs -> Indices]
  /\ slept \in [Procs -> Nat]

(* r, w and e are in this order, and not more than INPUT_BUF apart. *)
InOrder == ((w - r) % Wrap) + ((e - w) % Wrap) <= INPUT_BUF

(* What ends a line is not in the line being typed: ^U and ^H stop at w. *)
Typing == \A k \in 1..((e - w) % Wrap) : Ring(w, e)[k] \in Letters

(* What sys_sleep computes from two readings of a clock that wraps is the   *)
(* time that has gone by, until it has been long enough.                    *)
Counted(p) ==
  IF Napping(p) THEN slept[p] >= n[p] % Wrap \/ slept[p] = (ticks - ticks0[p]) % Wrap
  ELSE slept[p] = 0

Elapsed == \A p \in Procs : Counted(p)

DevicesIInv == DevicesTypeOK /\ InOrder /\ Typing /\ Elapsed

(* Keys and reads, in whatever order interrupts and readers interleave, do  *)
(* to the ring what they do to the queue and the line of LineDiscipline: no *)
(* character is lost, doubled, reordered or changed once it is readable,    *)
(* also when the indices wrap (console.c:181-271).                          *)
InputDiscipline == Discipline!Spec

(* sleep(n) does not return before n ticks have gone by, also when ticks    *)
(* wraps in between (sysproc.c:60-72); for n < 0 not before it was killed   *)
(* or the clock has gone nearly once round.                                 *)
SleepsLongEnough ==
  [][\A p \in Procs : pc[p] = "nap" /\ pc'[p] = "user" /\ ~killed[p] => slept[p] >= n[p] % Wrap]_deviceVars

Reading(p) == pc[p] \in {"read", "read_sleep", "read_woken"}

(* The clock takes back that the time of a sleep(n), n >= 0, is up: for     *)
(* half its range or more, 248 days of 100 ticks per second, a process that *)
(* is RUNNABLE did not run.                                                 *)
Overtaken == Tick /\ \E p \in Procs : Napping(p) /\ n[p] >= 0 /\ Due(p) /\ ~Due(p)'

(* No wait outlasts its cause (sysproc.c:60-72, console.c:243-251): sleep(n) *)
(* with n >= 0 returns, provided that no process is kept from running for   *)
(* half the range of the clock; a killed process leaves sleep() whatever n  *)
(* and the clock are; and a process in read() does not go on waiting while  *)
(* there is a character to take.                                            *)
WaitsEnd ==
  /\ <>[][~Overtaken]_deviceVars => \A p \in Sleepers : Napping(p) /\ n[p] >= 0 ~> ~Napping(p)
  /\ \A p \in Sleepers : Napping(p) /\ killed[p] ~> ~Napping(p)
  /\ \A p \in Procs : Reading(p) /\ r # w ~> ~Reading(p) \/ r = w
=============================================================================
