------------------------------ MODULE Session -------------------------------
(***************************************************************************)
(* One command line of the custom shell (custom_shell.c) and the custom    *)
(* utilities it runs: the shell forks, the children redirect and exec, the *)
(* utilities read, compute and write, and the shell waits.                 *)
(*                                                                         *)
(* A program is named without its custom_ prefix.  "filter" stands for any *)
(* other program of the PATH that copies its standard input to its         *)
(* standard output: no custom utility reads its standard input.            *)
(* One command line is one behaviour.  Lines in which two processes write  *)
(* to the same file are not among the Lines, and a directory is only given *)
(* to ls and rm.  Of a mode the owner's bits are kept, and no times.       *)
(***************************************************************************)
EXTENDS Text, FiniteSetsExt

CONSTANTS Lines,        \* the command lines, as typed, split at blanks
          Starts,       \* contents of file "f", permissions of "f" and "g": [text, f, g]
          Tree,         \* file name -> inode at the start, 0 when there is none; f and g are 1 and 2
          Devices,      \* file name -> the file system it is on
          Within,       \* file name -> the directory it is in, "." for the current one
          Order,        \* the file names, in the order readdir() returns them
          Hidden,       \* the names that start with a dot
          Chars,        \* the characters of the arguments that are numbers
          MAX_TOKENS, BUF_SIZE, MAX_LINE,
          PIPESIZE,     \* characters a pipe holds
          MaxFaults     \* forks, reads and writes that fail

ASSUME SessionAssumption == MAX_TOKENS > 2 /\ BUF_SIZE > 1 /\ MAX_LINE > 1 /\ PIPESIZE > 0

VARIABLES sh,       \* the shell: [pc, tokens, ends]; ends are its pipe descriptors
          child,    \* "left" (also a single command), "right" -> process
          pipe,     \* the characters in the pipe
          dir,      \* file name -> inode, 0 when there is none
          ino,      \* inode -> contents
          perm,     \* inode -> what its owner may do: a subset of {"r", "w"}
          faults,   \* what failed: [fork, read, write, kill], and how often
          was       \* history: the files at the start

vars == <<sh, child, pipe, dir, ino, perm, faults, was>>
fs   == <<dir, ino, perm>>

Children == {"left", "right"}
Names    == DOMAIN Devices
Dirs     == {Within[x] : x \in Names}          \* no command makes a directory
Inodes   == 1..Cardinality(Names) + 1

Tty     == <<"tty", 0>>
Pipe    == <<"pipe", 0>>
File(i) == <<"file", i>>

(* The locals of a process: its descriptors, the arguments still to do, the *)
(* chunk read, the line being collected, the lines kept, the output still to *)
(* write and where it goes on afterwards; text and sent are history.         *)
NoChild == [pc |-> "none", argv |-> <<>>, in |-> Tty, out |-> Tty, prog |-> "", args |-> <<>>,
            k |-> 0, opts |-> {}, fd |-> Tty, off |-> 0, buf |-> <<>>, line |-> <<>>, n |-> 0,
            kept |-> <<>>, wbuf |-> <<>>, dst |-> Tty, then |-> "", rc |-> 0, code |-> -1,
            text |-> <<>>, sent |-> <<>>, cut |-> FALSE]

Absent == [text |-> <<>>, perm |-> {"absent"}]

Init ==
  /\ sh = [pc |-> "prompt", tokens |-> <<>>, ends |-> {}]
  /\ child = [c \in Children |-> NoChild]
  /\ pipe = <<>>
  /\ dir = Tree
  /\ \E s \in Starts :
       /\ ino = [i \in Inodes |-> IF i = 1 THEN s.text ELSE IF i = 2 THEN <<97>> ELSE <<>>]
       /\ perm = [i \in Inodes |-> IF i = 1 THEN s.f ELSE IF i = 2 THEN s.g ELSE {"r", "w"}]
  /\ faults = [fork |-> 0, read |-> 0, write |-> 0, kill |-> 0]
  /\ was = [x \in Names |-> IF dir[x] = 0 THEN Absent ELSE [text |-> ino[dir[x]], perm |-> perm[dir[x]]]]

-----------------------------------------------------------------------------
(* The shell. *)

tokenize(line) == SubSeq(line, 1, IF Len(line) < MAX_TOKENS THEN Len(line) ELSE MAX_TOKENS - 1)

find_pipe(tokens) == SelectInSeq(tokens, LAMBDA t : t = "|")

LeftOf(tokens)  == IF find_pipe(tokens) = 0 THEN tokens ELSE SubSeq(tokens, 1, find_pipe(tokens) - 1)
RightOf(tokens) == Drop(tokens, find_pipe(tokens))

Builtins == {"exit", "cd", "pwd", "echo", "help"}

FaultLeft == FoldFunction(+, 0, [faults EXCEPT !.kill = 0]) < MaxFaults

(* main(): a builtin is recognised before a pipe or a redirection is looked *)
(* for.  "exit" stands for the end of the input too; where cd leads to only *)
(* matters to later command lines.                                          *)
ReadLine ==
  /\ sh.pc = "prompt" /\ sh.tokens = <<>>
  /\ \E line \in Lines :
       LET t == tokenize(line)
       IN  sh' = [sh EXCEPT !.tokens = t,
                            !.pc = IF t = <<>> THEN "prompt"
                                   ELSE IF Head(t) \in Builtins
                                        THEN IF Head(t) = "exit" THEN "exited" ELSE "prompt"
                                   ELSE IF find_pipe(t) = 0 THEN "fork"
                                   ELSE IF LeftOf(t) = <<>> \/ RightOf(t) = <<>> THEN "prompt"
                                   ELSE "pipe"]
  /\ UNCHANGED <<child, pipe, fs, faults, was>>

Forked(c, argv, pc) ==
  /\ child' = [child EXCEPT ![c] = [NoChild EXCEPT !.pc = "forked", !.argv = argv]]
  /\ sh' = [sh EXCEPT !.pc = pc]
  /\ UNCHANGED <<pipe, fs, faults, was>>

(* pipe() or fork() < 0: both launch functions just return. *)
ForkFails ==
  /\ sh.pc \in {"pipe", "fork", "fork_left", "fork_right"} /\ FaultLeft
  /\ sh' = [sh EXCEPT !.pc = "prompt"]
  /\ faults' = [faults EXCEPT !.fork = @ + 1]
  /\ UNCHANGED <<child, pipe, fs, was>>

LaunchSingle == sh.pc = "fork" /\ Forked("left", sh.tokens, "wait_left")

LaunchPipe ==
  /\ sh.pc = "pipe"
  /\ sh' = [sh EXCEPT !.pc = "fork_left", !.ends = {"r", "w"}]
  /\ UNCHANGED <<child, pipe, fs, faults, was>>

ForkLeft  == sh.pc = "fork_left" /\ Forked("left", LeftOf(sh.tokens), "fork_right")
ForkRight == sh.pc = "fork_right" /\ Forked("right", RightOf(sh.tokens), "close")

(* Slip: the parent keeps its write end. *)
CloseEndsKeep ==
  /\ sh.pc = "close"
  /\ sh' = [sh EXCEPT !.pc = "wait_left", !.ends = {"w"}]
  /\ UNCHANGED <<child, pipe, fs, faults, was>>

CloseEnds ==
  /\ sh.pc = "close"
  /\ sh' = [sh EXCEPT !.pc = "wait_left", !.ends = {}]
  /\ UNCHANGED <<child, pipe, fs, faults, was>>

Reaped(c, pc) ==
  /\ child[c].pc = "zombie"
  /\ child' = [child EXCEPT ![c].pc = "gone"]
  /\ sh' = [sh EXCEPT !.pc = pc]
  /\ UNCHANGED <<pipe, fs, faults, was>>

(* Slip: the shell returns once the left command has ended. *)
WaitLeftOnly == sh.pc = "wait_left" /\ Reaped("left", "prompt")

WaitLeft ==
  /\ sh.pc = "wait_left"
  /\ Reaped("left", IF find_pipe(sh.tokens) = 0 THEN "prompt" ELSE "wait_right")

WaitRight == sh.pc = "wait_right" /\ Reaped("right", "prompt")

ShellStep == ReadLine \/ LaunchSingle \/ LaunchPipe \/ ForkLeft \/ ForkRight \/ CloseEnds \/ WaitLeft \/ WaitRight

-----------------------------------------------------------------------------
(* Processes: pipe ends, descriptors, start and end. *)

Piped == find_pipe(sh.tokens) # 0

Alive(c) == child[c].pc \notin {"none", "zombie", "gone"}

EndsOf(c) ==
  IF child[c].pc = "forked" THEN IF Piped THEN {"r", "w"} ELSE {}
  ELSE {e \in {"r", "w"} : Alive(c) /\ Pipe = (IF e = "r" THEN child[c].in ELSE child[c].out)}

Open(e) == e \in sh.ends \/ \E c \in Children : e \in EndsOf(c)

Goto(c, p) == child' = [child EXCEPT ![c] = p]

Exited(p, code) == [p EXCEPT !.pc = "zombie", !.code = code]

InUse(d, i) ==
  \/ \E x \in Names : d[x] = i
  \/ \E c \in Children : Alive(c) /\ File(i) \in {child[c].in, child[c].out, child[c].fd, child[c].dst}

Create(d, x) == IF d[x] = 0 THEN [d EXCEPT ![x] = Min({i \in Inodes : ~InUse(d, i)})] ELSE d

Truncated(d, f, x) == [f EXCEPT ![d[x]] = <<>>]

(* open(): the permissions only count for a file that exists, mode for one that does not. *)
MayRead(d, m, x)  == d[x] # 0 /\ "r" \in m[d[x]]
MayWrite(d, m, x) == IF d[x] = 0 THEN Within[x] \in {"."} \cup {y \in Names : d[y] # 0} ELSE "w" \in m[d[x]]

WithMode(d, m, x, mode) == IF d[x] = 0 THEN [m EXCEPT ![Create(d, x)[x]] = mode] ELSE m

(* apply_redirections(): r = [argv, in, out, dir, ino, perm, ok] over the tokens left. *)
RECURSIVE apply_redirections(_, _)
apply_redirections(r, tokens) ==
  IF tokens = <<>> \/ ~r.ok THEN r
  ELSE LET op == Head(tokens)
       IN  IF op \notin {">", ">>", "<"}
           THEN apply_redirections([r EXCEPT !.argv = Append(@, op)], Tail(tokens))
           ELSE IF \/ Len(tokens) = 1
                   \/ ~IF op = "<" THEN MayRead(r.dir, r.perm, tokens[2]) ELSE MayWrite(r.dir, r.perm, tokens[2])
                THEN [r EXCEPT !.ok = FALSE]
                ELSE LET x == tokens[2]
                         d == Create(r.dir, x)
                     IN  apply_redirections(
                           IF op = "<" THEN [r EXCEPT !.in = File(r.dir[x])]
                           ELSE [r EXCEPT !.out = File(d[x]), !.dir = d, !.perm = WithMode(r.dir, @, x, {"r", "w"}),
                                          !.ino = IF op = ">>" /\ r.dir[x] # 0 THEN @ ELSE Truncated(d, @, x)],
                           Drop(tokens, 2))

(* A child from fork() to execvp(): signal(), close() and dup2() of the pipe *)
(* ends, then the redirections, which may replace a pipe end.                *)
Setup(c) ==
  /\ child[c].pc = "forked"
  /\ \E r \in {apply_redirections(
                 [argv |-> <<>>, in |-> IF Piped /\ c = "right" THEN Pipe ELSE Tty,
                  out |-> IF Piped /\ c = "left" THEN Pipe ELSE Tty,
                  dir |-> dir, ino |-> ino, perm |-> perm, ok |-> TRUE],
                 child[c].argv)} :
       LET p == [child[c] EXCEPT !.argv = r.argv, !.in = r.in, !.out = r.out, !.dst = r.out, !.pc = "exec"]
       IN  Goto(c, IF r.ok THEN p ELSE Exited(p, 1)) /\ dir' = r.dir /\ ino' = r.ino /\ perm' = r.perm
  /\ UNCHANGED <<sh, pipe, faults, was>>

-----------------------------------------------------------------------------
(* The command lines of the utilities: [ok, k, opts, args]. *)

(* strtol() *)
RECURSIVE Strtol(_, _, _)
Strtol(s, base, v) ==
  IF s = <<>> \/ Head(s) \notin 48..(47 + base) THEN v ELSE Strtol(Tail(s), base, base * v + Head(s) - 48)

Atoi(t) == IF t \in DOMAIN Chars THEN Strtol(Chars[t], 10, 0) ELSE 0

Bad == [ok |-> FALSE, k |-> 0, opts |-> {}, args |-> <<>>]

Fixed(args, n) == [ok |-> Len(args) = n, k |-> 0, opts |-> {}, args |-> args]

(* Options anywhere; the last other argument is the file. *)
Loose(args, options) ==
  LET file == SelectSeq(args, LAMBDA a : a \notin options)
  IN  [ok |-> file # <<>>, k |-> 0, opts |-> ToSet(args) \cap options, args |-> IF file = <<>> THEN file ELSE <<Last(file)>>]

RECURSIVE HeadArgs(_, _)
HeadArgs(args, r) ==
  IF args = <<>> THEN [r EXCEPT !.ok = r.args # <<>>]
  ELSE IF Head(args) # "-n" THEN HeadArgs(Tail(args), [r EXCEPT !.args = <<Head(args)>>])
  ELSE IF Len(args) = 1 \/ Atoi(args[2]) <= 0 THEN Bad
  ELSE HeadArgs(Drop(args, 2), [r EXCEPT !.k = Atoi(args[2])])

TailArgs(args) ==
  IF args = <<>> THEN Bad
  ELSE IF args[1] # "-n" THEN [Bad EXCEPT !.ok = TRUE, !.k = 10, !.args = <<args[1]>>]
  ELSE IF Len(args) < 3 THEN Bad
  ELSE [Bad EXCEPT !.ok = TRUE, !.k = IF Atoi(args[2]) <= 0 THEN 10 ELSE Atoi(args[2]), !.args = <<args[3]>>]

(* chmod: octal digits only, 07777 at most. *)
parse_mode(t) ==
  IF t \in DOMAIN Chars /\ ToSet(Chars[t]) \subseteq 48..55 /\ Strtol(Chars[t], 8, 0) <= 4095
  THEN Strtol(Chars[t], 8, 0) ELSE -1

Owner(mode) == {b \in {"r", "w"} : (mode \div (IF b = "r" THEN 256 ELSE 128)) % 2 = 1}

ChmodArgs(args) ==
  IF Len(args) < 2 \/ parse_mode(args[1]) = -1 THEN Bad
  ELSE [ok |-> TRUE, k |-> parse_mode(args[1]), opts |-> Owner(parse_mode(args[1])), args |-> Tail(args)]

(* ls: the current directory when no other is named. *)
LsArgs(args) ==
  LET a == Loose(args, {"-l"})
  IN  [a EXCEPT !.ok = TRUE, !.k = Cardinality(a.opts), !.args = IF @ = <<>> THEN <<".">> ELSE @]

Args(prog, args) ==
  CASE prog = "cat"          -> [Fixed(args, 1) EXCEPT !.ok = Len(args) >= 1]
    [] prog \in {"cp", "mv"} -> Fixed(args, 2)
    [] prog = "grep"         -> Fixed(args, 2)
    [] prog = "wc"           -> Fixed(args, 1)
    [] prog = "head"         -> HeadArgs(args, [Bad EXCEPT !.k = 10])
    [] prog = "tail"         -> TailArgs(args)
    [] prog = "sort"         -> Loose(args, {"-r", "-n"})
    [] prog = "rm"           -> Loose(args, {"-r"})
    [] prog = "touch"        -> Fixed(args, 1)
    [] prog = "chmod"        -> ChmodArgs(args)
    [] prog = "ls"           -> LsArgs(args)
    [] prog = "filter"       -> [Bad EXCEPT !.ok = TRUE]

Programs == {"cat", "cp", "mv", "grep", "wc", "head", "tail", "sort", "rm", "touch", "chmod", "ls", "filter"}

(* rm: the calls still to make, each with its path. *)
RmWork(a) == <<<<IF "-r" \in a.opts THEN "lstat" ELSE "unlink", Head(a.args)>>>>

(* execvp() and the argument check of main(): 127 when there is no such     *)
(* program; without a word left to name one execvp() follows a null pointer *)
(* and SIGSEGV (139) ends the child.                                        *)
Exec(c) ==
  /\ child[c].pc = "exec"
  /\ LET p == child[c]
         a == Args(Head(p.argv), Tail(p.argv))
     IN  IF p.argv = <<>> THEN Goto(c, Exited(p, 139))
         ELSE IF Head(p.argv) \notin Programs THEN Goto(c, Exited(p, 127))
         ELSE IF ~a.ok THEN Goto(c, Exited(p, 1))
         ELSE Goto(c, [p EXCEPT !.prog = Head(p.argv), !.k = a.k, !.opts = a.opts,
                                !.args = IF Head(p.argv) = "grep" THEN <<a.args[2]>> ELSE a.args,
                                !.line = IF Head(p.argv) = "wc" THEN <<0, 0, 0, 0>> ELSE <<>>,
                                !.kept = IF Head(p.argv) = "rm" THEN RmWork(a) ELSE <<>>,
                                !.fd = IF Head(p.argv) = "filter" THEN p.in ELSE Tty,
                                !.pc = CASE Head(p.argv) = "filter" -> "read"
                                         [] Head(p.argv) = "mv"     -> "rename"
                                         [] Head(p.argv) = "ls"     -> "opendir"
                                         [] Head(p.argv) \in {"rm", "touch", "chmod"} -> Head(p.argv)
                                         [] OTHER                   -> "open"])
  /\ UNCHANGED <<sh, pipe, fs, faults, was>>

-----------------------------------------------------------------------------
(* Opening, renaming and removing files. *)

Writing(p, text, then) == [p EXCEPT !.pc = "write", !.wbuf = text, !.then = then]

Ending(p, code) == [p EXCEPT !.rc = code, !.dst = p.out]

(* printf() and return: stdio writes the text out when the program ends. *)
Say(p, text, code) ==
  IF text = <<>> THEN Exited(p, code) ELSE Writing(Ending(p, code), text, "exit")

Moved == <<Num(0)>>          \* the "Moved ..." and "Copied ..." messages

(* A file name in what is printed. *)
Printed(x) == 2000 + SelectInSeq(Order, LAMBDA y : y = x)

OpenInput(c) ==
  /\ child[c].pc = "open"
  /\ LET p == child[c]
     IN  IF p.args = <<>> THEN Goto(c, Exited(p, p.rc))
         ELSE IF ~MayRead(dir, perm, Head(p.args))
              THEN Goto(c, IF p.prog = "cat" THEN [p EXCEPT !.args = Tail(@), !.rc = 1] ELSE Exited(p, 1))
         ELSE Goto(c, [p EXCEPT !.fd = File(dir[Head(p.args)]), !.off = 0, !.text = @ \o ino[dir[Head(p.args)]],
                                !.opts = IF p.prog \in {"cp", "mv"} THEN perm[dir[Head(p.args)]] ELSE @,
                                !.pc = IF p.prog \in {"cp", "mv"} THEN "opendst" ELSE "read"])
  /\ UNCHANGED <<sh, pipe, fs, faults, was>>

(* cp and mv open their destination with the mode fstat() gave for the source. *)
OpenOutput(c) ==
  /\ child[c].pc = "opendst"
  /\ LET p == child[c]
         x == p.args[2]
     IN  IF MayWrite(dir, perm, x)
         THEN /\ dir' = Create(dir, x)
              /\ ino' = Truncated(dir', ino, x)
              /\ perm' = WithMode(dir, perm, x, p.opts)
              /\ Goto(c, [p EXCEPT !.dst = File(dir'[x]), !.pc = "read"])
         ELSE Goto(c, Exited(p, 1)) /\ UNCHANGED fs
  /\ UNCHANGED <<sh, pipe, faults, was>>

(* rename(): EXDEV between file systems makes mv copy. *)
Rename(c) ==
  /\ child[c].pc = "rename"
  /\ LET p == child[c]
         s == p.args[1]
         d == p.args[2]
     IN  \/ /\ dir[s] = 0
            /\ Goto(c, Exited(p, 1)) /\ UNCHANGED dir
         \/ /\ dir[s] # 0 /\ Devices[s] # Devices[d]
            /\ Goto(c, [p EXCEPT !.pc = "open"]) /\ UNCHANGED dir
         \/ /\ dir[s] # 0 /\ Devices[s] = Devices[d]
            /\ Goto(c, Say(p, Moved, 0))
            /\ dir' = IF dir[s] = dir[d] THEN dir ELSE [dir EXCEPT ![d] = dir[s], ![s] = 0]
  /\ UNCHANGED <<sh, pipe, ino, perm, faults, was>>

(* unlink(): the end of a copying mv. *)
Unlink(c) ==
  /\ child[c].pc = "unlink"
  /\ LET p == child[c]
     IN  Goto(c, IF dir[Head(p.args)] = 0 THEN Exited(p, 1) ELSE Say(p, Moved, 0))
  /\ dir' = [dir EXCEPT ![Head(child[c].args)] = 0]
  /\ UNCHANGED <<sh, pipe, ino, perm, faults, was>>

(* touch: open() makes the file, and utime() looks it up again. *)
Touch(c) ==
  /\ LET p == child[c]
         x == Head(p.args)
     IN  \/ /\ p.pc = "touch" /\ MayWrite(dir, perm, x)
            /\ dir' = Create(dir, x)
            /\ ino' = IF dir[x] = 0 THEN Truncated(dir', ino, x) ELSE ino
            /\ perm' = WithMode(dir, perm, x, {"r", "w"})
            /\ Goto(c, [p EXCEPT !.pc = "utime"])
         \/ /\ p.pc = "touch" /\ ~MayWrite(dir, perm, x)
            /\ Goto(c, Exited(p, 1)) /\ UNCHANGED fs
         \/ /\ p.pc = "utime"
            /\ Goto(c, Exited(p, IF dir[x] = 0 THEN 1 ELSE 0)) /\ UNCHANGED fs
  /\ UNCHANGED <<sh, pipe, faults, was>>

(* chmod: every file in turn; what it prints is written at the end. *)
Chmod(c) ==
  /\ child[c].pc = "chmod"
  /\ LET p == child[c]
         x == Head(p.args)
     IN  \/ /\ p.args = <<>>
            /\ Goto(c, Say(p, p.kept, p.rc)) /\ UNCHANGED perm
         \/ /\ p.args # <<>> /\ dir[x] = 0
            /\ Goto(c, [p EXCEPT !.args = Tail(@), !.rc = 1]) /\ UNCHANGED perm
         \/ /\ p.args # <<>> /\ dir[x] # 0
            /\ Goto(c, [p EXCEPT !.args = Tail(@), !.kept = @ \o <<Printed(x), Num(p.k)>>])
            /\ perm' = [perm EXCEPT ![dir[x]] = p.opts]
  /\ UNCHANGED <<sh, pipe, dir, ino, faults, was>>

-----------------------------------------------------------------------------
(* Directories.  readdir() returns what was there at opendir(). *)

Entries(d, x) == SelectSeq(Order, LAMBDA e : Within[e] = x /\ d[e] # 0)

IsDir(d, x) == x = "." \/ (x \in Dirs /\ d[x] # 0)

Opendir(c) ==
  /\ child[c].pc = "opendir"
  /\ LET p == child[c]
         seen == Entries(dir, Head(p.args))
     IN  Goto(c, IF IsDir(dir, Head(p.args)) THEN [p EXCEPT !.text = seen, !.line = seen, !.pc = "list"] ELSE Exited(p, 1))
  /\ UNCHANGED <<sh, pipe, fs, faults, was>>

(* print_long(): the file may be gone by the time stat() looks at it. *)
print_long(x) ==
  IF dir[x] = 0 THEN <<>> ELSE <<IF x \in Dirs THEN 100 ELSE 45, Num(Len(ino[dir[x]])), Printed(x), NL>>

(* ls: one entry; stdio writes everything at the end. *)
List(c) ==
  /\ child[c].pc = "list"
  /\ LET p == child[c]
         x == Head(p.line)
     IN  Goto(c, IF p.line = <<>> THEN Say(p, IF p.k = 1 THEN p.kept ELSE Append(p.kept, NL), 0)
                 ELSE [p EXCEPT !.line = Tail(@),
                                !.kept = @ \o IF x \in Hidden THEN <<>> ELSE IF p.k = 1 THEN print_long(x) ELSE <<Printed(x)>>])
  /\ UNCHANGED <<sh, pipe, fs, faults, was>>

(* unlink() refuses a directory, rmdir() one that is not empty. *)
MayRemove(d, call, x) ==
  d[x] # 0 /\ IF call = "unlink" THEN x \notin Dirs ELSE Entries(d, x) = <<>>

(* rm: remove_recursive() as a list of calls.  lstat() puts those for the    *)
(* entries of a directory before the rmdir() of it; a failure is remembered. *)
RmStep(c) ==
  /\ child[c].pc = "rm"
  /\ LET p    == child[c]
         call == Head(p.kept)[1]
         x    == Head(p.kept)[2]
         Go(work, rc) == Goto(c, [p EXCEPT !.kept = work \o Tail(@), !.rc = IF @ = 1 THEN 1 ELSE rc])
     IN  \/ /\ p.kept = <<>>
            /\ Goto(c, Exited(p, p.rc)) /\ UNCHANGED dir
         \/ /\ p.kept # <<>> /\ call = "lstat"
            /\ \/ dir[x] = 0 /\ Go(<<>>, 1)
               \/ dir[x] # 0 /\ ~IsDir(dir, x) /\ Go(<<<<"unlink", x>>>>, 0)
               \/ /\ IsDir(dir, x)
                  /\ Go([i \in DOMAIN Entries(dir, x) |-> <<"lstat", Entries(dir, x)[i]>>] \o <<<<"rmdir", x>>>>, 0)
            /\ UNCHANGED dir
         \/ /\ p.kept # <<>> /\ call # "lstat"
            /\ Go(<<>>, IF MayRemove(dir, call, x) THEN 0 ELSE 1)
            /\ dir' = IF MayRemove(dir, call, x) THEN [dir EXCEPT ![x] = 0] ELSE dir
  /\ UNCHANGED <<sh, pipe, ino, perm, faults, was>>

-----------------------------------------------------------------------------
(* What the utilities do with a character, and at the end of their input. *)

Full(line) == Last(line) = NL \/ Len(line) = MAX_LINE - 1

(* tail: the line goes into slot count % keep_lines of the circular buffer. *)
Ring(p) ==
  [p EXCEPT !.kept = IF p.n < p.k THEN Append(@, p.line) ELSE [@ EXCEPT ![(p.n % p.k) + 1] = p.line],
            !.n = @ + 1, !.line = <<>>]

(* Slip: printing starts at the first slot. *)
UnrolledFirst(p) == [p EXCEPT !.pc = "print"]

(* tail: the lines from the oldest slot on. *)
Unrolled(p) ==
  LET start == IF p.n > p.k THEN p.n % p.k ELSE 0
      limit == IF p.n > p.k THEN p.k ELSE p.n
  IN  [p EXCEPT !.kept = [i \in 1..limit |-> p.kept[((start + i - 1) % p.k) + 1]], !.pc = "print"]

Pattern(p) == IF p.argv[2] = "a" THEN 97 ELSE 49

(* grep: a line numbered and, when it matches, printed. *)
Grepped(p) ==
  [p EXCEPT !.kept = IF Matches(p.line, Pattern(p)) THEN @ \o <<Num(p.n + 1)>> \o p.line ELSE @,
            !.n = @ + 1, !.line = <<>>]

(* wc: [lines, words, chars, in_word]. *)
Counted(t, ch) ==
  <<t[1] + (IF ch = NL THEN 1 ELSE 0), t[2] + (IF Blank(ch) \/ t[4] = 1 THEN 0 ELSE 1), t[3] + 1,
    IF Blank(ch) THEN 0 ELSE 1>>

(* sort: the lines of the data, as the loop over the newlines cuts them. *)
Split(data) ==
  LET starts == SetToSortSeq({1} \cup {i \in 2..Len(data) : data[i - 1] = NL}, <)
      End(i) == Min({j \in i..(Len(data) + 1) : j > Len(data) \/ data[j] = NL})
  IN  [l \in DOMAIN starts |-> SubSeq(data, starts[l], End(starts[l]) - 1)]

(* cmp_alpha(), cmp_numeric(): may s stand before t? *)
InOrder(s, t, opts) ==
  LET a == IF "-r" \in opts THEN t ELSE s
      b == IF "-r" \in opts THEN s ELSE t
  IN  IF "-n" \in opts THEN Strtol(a, 10, 0) <= Strtol(b, 10, 0) ELSE Before(a, b)

(* What malloc() left behind the data: a last line without NL runs into it. *)
Behind(data) == IF Last(data) = NL THEN {<<>>} ELSE {<<>>, <<49>>}

(* qsort(): the lines in any order the comparison allows, each with an NL. *)
Orders(l, opts) ==
  {FlattenSeq([i \in DOMAIN l |-> Append(l[f[i]], NL)]) :
     f \in {g \in [DOMAIN l -> DOMAIN l] :
              /\ \A i, j \in DOMAIN l : g[i] = g[j] => i = j
              /\ \A i \in 1..(Len(l) - 1) : InOrder(l[g[i]], l[g[i + 1]], opts)}}

-----------------------------------------------------------------------------
(* read() and what follows it. *)

Avail(p) == CASE p.fd[1] = "file" -> Drop(ino[p.fd[2]], p.off)
              [] p.fd[1] = "pipe" -> pipe
              [] p.fd[1] = "tty"  -> <<>>

Received(p, chunk) ==
  LET q == [p EXCEPT !.off = @ + Len(chunk)]
  IN  CASE p.prog = "filter"              -> Writing([q EXCEPT !.text = @ \o chunk], chunk, "read")
        [] p.prog \in {"cat", "cp", "mv"} -> Writing(q, chunk, "read")
        [] p.prog = "sort"                -> [q EXCEPT !.line = @ \o chunk]
        [] OTHER                          -> [q EXCEPT !.buf = chunk, !.pc = "eat"]

Read(c) ==
  /\ child[c].pc = "read"
  /\ \E n \in 1..Min({BUF_SIZE, Len(Avail(child[c]))}) :
       /\ Goto(c, Received(child[c], SubSeq(Avail(child[c]), 1, n)))
       /\ pipe' = IF child[c].fd = Pipe THEN Drop(pipe, n) ELSE pipe
  /\ UNCHANGED <<sh, fs, faults, was>>

(* What the program may do once its input has ended. *)
Ended(p) ==
  CASE p.prog = "cat"    -> {[p EXCEPT !.pc = "open", !.args = Tail(@)]}
    [] p.prog = "filter" -> {Exited(p, 0)}
    [] p.prog = "cp"     -> {Say(p, Moved, 0)}
    [] p.prog = "mv"     -> {[p EXCEPT !.pc = "unlink", !.fd = Tty, !.dst = p.out]}
    [] p.prog = "head"   -> {Say(p, p.line, 0)}
    [] p.prog = "tail"   -> {Unrolled(IF p.line = <<>> THEN p ELSE Ring(p))}
    [] p.prog = "wc"     -> {Say(p, <<Num(p.line[1]), Num(p.line[2]), Num(p.line[3])>>, 0)}
    [] p.prog = "grep"   -> LET q == IF p.line = <<>> THEN p ELSE Grepped(p)
                            IN  {Say(q, q.kept, IF q.kept = <<>> THEN 1 ELSE 0)}
    [] p.prog = "sort"   -> IF p.line = <<>> THEN {Say(p, <<>>, 0)}
                            ELSE {Say(p, out, 0) : out \in
                                    UNION {Orders(Split(p.line \o junk), p.opts) : junk \in Behind(p.line)}}

EndOfFile(c) ==
  /\ child[c].pc = "read" /\ Avail(child[c]) = <<>>
  /\ child[c].fd = Pipe => ~Open("w")
  /\ \E p \in Ended(child[c]) : Goto(c, p)
  /\ UNCHANGED <<sh, pipe, fs, faults, was>>

(* read() < 0: only head and sort give up; to the others it is the end of    *)
(* the file, where fgets() drops the line it has not read to its end.       *)
ReadFails(c) ==
  /\ child[c].pc = "read" /\ child[c].prog # "filter" /\ FaultLeft
  /\ \E p \in CASE child[c].prog \in {"head", "sort"} -> {Exited(child[c], 1)}
               [] child[c].prog = "grep"             -> Ended([child[c] EXCEPT !.line = <<>>])
               [] OTHER                              -> Ended(child[c]) :
       Goto(c, [p EXCEPT !.cut = TRUE])
  /\ faults' = [faults EXCEPT !.read = @ + 1]
  /\ UNCHANGED <<sh, pipe, fs, was>>

(* The next character of the chunk. *)
Eaten(p, ch, pc) ==
  LET q == [p EXCEPT !.buf = Tail(@), !.line = Append(@, ch), !.pc = pc]
      Flush(then) == Writing([q EXCEPT !.line = <<>>], q.line, then)
  IN  CASE p.prog = "wc"   -> [q EXCEPT !.line = Counted(p.line, ch)]
        [] p.prog = "tail" -> IF Full(q.line) THEN Ring(q) ELSE q
        [] p.prog = "grep" -> IF Full(q.line) THEN Grepped(q) ELSE q
        [] p.prog = "head" -> IF ch = NL THEN [Flush(IF p.n + 1 = p.k THEN "exit" ELSE pc) EXCEPT !.n = @ + 1]
                              ELSE IF Len(q.line) = BUF_SIZE - 1 THEN Flush(pc) ELSE q

Eat(c) ==
  /\ child[c].pc = "eat"
  /\ Goto(c, Eaten(child[c], Head(child[c].buf), IF Len(child[c].buf) = 1 THEN "read" ELSE "eat"))
  /\ UNCHANGED <<sh, pipe, fs, faults, was>>

(* tail: the loop over the lines kept. *)
PrintLine(c) ==
  /\ child[c].pc = "print"
  /\ LET p == child[c]
     IN  Goto(c, IF p.kept = <<>> THEN Exited(p, 0) ELSE Writing([p EXCEPT !.kept = Tail(@)], Head(p.kept), "print"))
  /\ UNCHANGED <<sh, pipe, fs, faults, was>>

-----------------------------------------------------------------------------
(* write(): a terminal takes all, a pipe what it has room for, a file any part. *)

Resumed(p) == IF p.wbuf # <<>> THEN p ELSE IF p.then = "exit" THEN Exited(p, p.rc) ELSE [p EXCEPT !.pc = p.then]

(* head does not look at what write() returns; a pipe makes it wait instead. *)
Unchecked(p) == p.prog = "head" /\ p.dst[1] = "file"

(* Slip: nobody looks at what write() returns. *)
WrittenOnce(p, w) ==
  Resumed([p EXCEPT !.sent = @ \o SubSeq(p.wbuf, 1, w), !.wbuf = IF p.dst[1] = "file" THEN <<>> ELSE Drop(p.wbuf, w)])

Written(p, w) ==
  Resumed([p EXCEPT !.sent = @ \o SubSeq(p.wbuf, 1, w),
                    !.wbuf = IF Unchecked(p) THEN <<>> ELSE Drop(p.wbuf, w),
                    !.cut = @ \/ (Unchecked(p) /\ w < Len(p.wbuf))])

Room(p) == CASE p.dst[1] = "tty"  -> {Len(p.wbuf)}
             [] p.dst[1] = "file" -> 1..Len(p.wbuf)
             [] p.dst[1] = "pipe" -> IF Open("r") THEN 1..Min({Len(p.wbuf), PIPESIZE - Len(pipe)}) ELSE {}

Write(c) ==
  /\ child[c].pc = "write"
  /\ LET p == child[c]
     IN  \E w \in Room(p) :
           /\ Goto(c, Written(p, w))
           /\ pipe' = IF p.dst = Pipe THEN pipe \o SubSeq(p.wbuf, 1, w) ELSE pipe
           /\ ino' = IF p.dst[1] = "file" THEN [ino EXCEPT ![p.dst[2]] = @ \o SubSeq(p.wbuf, 1, w)] ELSE ino
  /\ UNCHANGED <<sh, dir, perm, faults, was>>

(* write() < 0 on a file: cat goes to the next file, cp and mv give up, the *)
(* others go on as if it had been written.                                  *)
WriteFails(c) ==
  /\ child[c].pc = "write" /\ child[c].dst[1] = "file" /\ FaultLeft
  /\ LET p == [child[c] EXCEPT !.wbuf = <<>>, !.cut = TRUE]
     IN  Goto(c, CASE p.prog = "cat" -> [p EXCEPT !.pc = "open", !.args = Tail(@), !.rc = 1]
                   [] p.prog \in {"cp", "mv"} /\ p.then = "read" -> Exited(p, 1)
                   [] OTHER -> Resumed(p))
  /\ faults' = [faults EXCEPT !.write = @ + 1]
  /\ UNCHANGED <<sh, pipe, fs, was>>

(* SIGPIPE *)
BrokenPipe(c) ==
  /\ child[c].pc = "write" /\ child[c].dst = Pipe /\ ~Open("r")
  /\ Goto(c, Exited(child[c], 141))
  /\ UNCHANGED <<sh, pipe, fs, faults, was>>

(* Ctrl-C reaches every process that has restored the default handler. *)
Interrupt ==
  /\ faults.kill = 0
  /\ \E c \in Children : Alive(c) /\ child[c].pc # "forked"
  /\ child' = [c \in Children |-> IF Alive(c) /\ child[c].pc # "forked" THEN Exited(child[c], 130) ELSE child[c]]
  /\ faults' = [faults EXCEPT !.kill = 1]
  /\ UNCHANGED <<sh, pipe, fs, was>>

ChildStep(c) ==
  \/ Setup(c) \/ Exec(c) \/ OpenInput(c) \/ OpenOutput(c) \/ Rename(c) \/ Unlink(c)
  \/ Touch(c) \/ Chmod(c) \/ Opendir(c) \/ List(c) \/ RmStep(c)
  \/ Read(c) \/ EndOfFile(c) \/ Eat(c) \/ PrintLine(c) \/ Write(c) \/ BrokenPipe(c)

Next == \/ ShellStep \/ ForkFails \/ Interrupt
        \/ \E c \in Children : ChildStep(c) \/ ReadFails(c) \/ WriteFails(c)

(* The scheduler runs the shell and every process that can run. *)
Fairness == WF_vars(ShellStep) /\ \A c \in Children : WF_vars(ChildStep(c))

Spec == Init /\ [][Next]_vars /\ Fairness

-----------------------------------------------------------------------------
(* Properties. *)

LongLine(p) == \E i \in DOMAIN LinesOf(p.text) : Len(LinesOf(p.text)[i]) > MAX_LINE - 1

Unended(p) == p.text # <<>> /\ Last(p.text) # NL

(* `out' holds the lines of s, each as often, and every earlier line may *)
(* stand before every later one.                                         *)
IsSortOf(out, s, opts) ==
  LET o == LinesOf(out)
      l == LinesOf(s)
      Count(q, x) == Cardinality({i \in DOMAIN q : Chomp(q[i]) = x})
  IN  /\ Len(o) = Len(l)
      /\ \A i \in DOMAIN o : Count(o, Chomp(o[i])) = Count(l, Chomp(o[i]))
      /\ \A i, j \in DOMAIN o : i < j => InOrder(Chomp(o[i]), Chomp(o[j]), opts)

Touched(x) == \E c \in Children : child[c].prog = "touch" /\ Head(child[c].args) = x

(* What a utility printed, whatever the sizes of its reads and writes, is    *)
(* what its usage promises of the file it was given: a program that ended    *)
(* with status 0 and had no failed call printed exactly that.  For tail and  *)
(* grep a line longer than their buffer counts as several, sort ends only    *)
(* the lines that have an NL (custom_sort.c:150), and head may lose the part *)
(* of a line that a short write() left (custom_head.c:92).  ls misses only   *)
(* what is gone and the names that start with a dot, and rm leaves nothing   *)
(* of what it was to remove, except what a touch beside it has made again.   *)
ToolOutput ==
  \A c \in Children :
    LET p == child[c]
    IN  p.code = 0 /\ ~p.cut =>
          CASE p.prog \in {"cat", "filter"} -> p.sent = p.text
            [] p.prog = "head" -> p.sent = HeadOf(p.text, p.k)
            [] p.prog = "tail" -> LongLine(p) \/ p.sent = TailOf(p.text, p.k)
            [] p.prog = "wc"   -> p.sent = WcOf(p.text)
            [] p.prog = "grep" -> LongLine(p) \/ p.sent = GrepOf(p.text, Pattern(p))
            [] p.prog = "sort" -> Unended(p) \/ IsSortOf(p.sent, p.text, p.opts)
            [] p.prog = "ls"   -> \A x \in ToSet(p.text) \ Hidden : dir[x] = 0 \/ Printed(x) \in ToSet(p.sent)
            [] p.prog = "rm"   -> Entries(dir, Head(p.args)) = <<>> /\ (dir[Head(p.args)] = 0 \/ Touched(Head(p.args)))
            [] OTHER           -> TRUE

(* cp and mv never lose the text of their source, whether a call fails, a    *)
(* write is short or Ctrl-C kills them: it is under the source's name or in  *)
(* full under the destination's, and a destination they made has the         *)
(* permissions of the source (custom_cp.c:42).  The exception is a read()    *)
(* that fails (custom_mv.c:43 takes it for the end of the file and unlinks   *)
(* the source).                                                              *)
SourceKept ==
  \A c \in Children :
    LET p == child[c]
        Start(n) == was[p.args[n]]
        Holds(n) == dir[p.args[n]] # 0 /\ ino[dir[p.args[n]]] = Start(1).text
    IN  /\ p.prog \in {"cp", "mv"} /\ p.args[1] # p.args[2]
        /\ faults.read = 0 /\ Start(1) # Absent
        => /\ Holds(1) \/ Holds(2)
           /\ p.code = 0 => Holds(2) /\ (Start(2) = Absent => perm[dir[p.args[2]]] = Start(1).perm)

(* launch_single() and launch_pipe() leave nothing behind: back at the prompt *)
(* every child has been waited for and the shell holds no end of the pipe.    *)
(* The exception is a fork() that failed (custom_shell.c:244).                *)
NothingLeft ==
  sh.pc = "prompt" /\ sh.tokens # <<>> /\ faults.fork = 0 =>
    sh.ends = {} /\ \A c \in Children : child[c].pc \in {"none", "gone"}

(* Every command line ends: the reader of a pipeline sees the end of its     *)
(* input, the writer does not wait for a reader that is gone, and the prompt *)
(* comes back (custom_shell.c:220).                                          *)
PromptReturns == sh.pc # "prompt" ~> sh.pc \in {"prompt", "exited"}
=============================================================================
