------------------------------- MODULE Files --------------------------------
(***************************************************************************)
(* The inode cache, path lookup and the file system calls (fs.c, file.c,   *)
(* sysfile.c), by several processes at once.                               *)
(*                                                                         *)
(* An action runs from one place where the code may wait for an inode's    *)
(* lock, or gives up icache.lock, to the next.  The log is what AtomicDisk *)
(* says of it: `stable' is the disk after a crash, replaced when the last  *)
(* of the overlapping operations ends.                                     *)
(***************************************************************************)
EXTENDS FsDisk

CONSTANTS
  Procs, None,
  NINODE, NFILE, NOFILE,  \* inode cache, file table, descriptors of a process
  Calls,                  \* the system calls that processes make
  MaxCalls, MaxCrashes,   \* bounds
  MaxWrite,               \* words that filewrite() puts into one transaction
  Kinds                   \* what the inode "/a/b" may be at the start

Ops == {"open", "create", "mkdir", "mknod", "chdir", "unlink", "link"}

ASSUME FilesAssumption ==
  /\ IsFiniteSet(Procs) /\ None \notin Procs
  /\ {NINODE, NFILE, NOFILE} \subseteq Nat /\ NINODE > 1
  /\ \A c \in Calls : c.op \in Ops

VARIABLES
  disk, stable, active,   \* as seen, after a crash; processes in an operation
  icache,                 \* the struct inodes
  ftable,                 \* the struct files
  ofile, cwd,             \* of each process: descriptors, current directory
  at,                     \* of each process: where it is, and its locals
  calls, crashes          \* calls made, crashes so far

disks == <<disk, stable, active>>
vars  == <<disks, icache, ftable, ofile, cwd, at, calls, crashes>>

Slots == 1..NINODE
Fds   == 1..NOFILE

NoInode == [inum |-> 0, ref |-> 0, valid |-> FALSE, lock |-> None, ip |-> Dinode("free")]
NoFile  == [ref |-> 0, ip |-> 0, off |-> 0]
User    == [pc |-> "user", op |-> "", path |-> <<>>, new |-> <<>>, name |-> "", via |-> "",
            ip |-> 0, dp |-> 0, put |-> 0, then |-> "", buf |-> <<>>, fd |-> 0]

(* The processes of H are in "/a/b", the others in the root directory, and *)
(* nothing is open.  A file is opened for reading and writing.             *)
Icache0(H) ==
  [s \in Slots |-> CASE s = 1 -> [NoInode EXCEPT !.inum = ROOTINO, !.ref = Cardinality(Procs \ H)]
                    [] s = 2 -> [NoInode EXCEPT !.inum = 4, !.ref = Cardinality(H)]
                    [] OTHER -> NoInode]
Cwd0(H) == [p \in Procs |-> IF p \in H THEN 2 ELSE 1]
Ftable0 == [f \in 1..NFILE |-> NoFile]
Ofile0  == [p \in Procs |-> [k \in Fds |-> 0]]
Idle    == [p \in Procs |-> User]

(* mkfs, and since then mkdir("a") and a new inode "a/b". *)
Init ==
  /\ \E m \in {Mkfs("f")} :
     \E a \in {Created(m, 3, Dinode("dir"), ROOTINO, m.ino[ROOTINO], "a").d} :
     \E type \in Kinds : disk = Created(a, 4, Dinode(type), 3, a.ino[3], "b").d
  /\ \E H \in {{}} \cup {{p} : p \in Procs} :
       (H # {} => disk.ino[4].type = "dir") /\ icache = Icache0(H) /\ cwd = Cwd0(H)
  /\ stable = disk /\ active = {} /\ ftable = Ftable0 /\ ofile = Ofile0 /\ at = Idle
  /\ calls = 0 /\ crashes = 0

(* The machine stops, also after a panic; recover_from_log(). *)
Crash ==
  /\ crashes < MaxCrashes /\ crashes' = crashes + 1
  /\ disk' = stable /\ active' = {} /\ icache' = Icache0({}) /\ ftable' = Ftable0
  /\ ofile' = Ofile0 /\ cwd' = Cwd0({}) /\ at' = Idle
  /\ UNCHANGED <<stable, calls>>

At(p, place) == disk.panic = "" /\ at[p].pc = place

Goto(p, new) == at' = [at EXCEPT ![p] = new]

-----------------------------------------------------------------------------
(* The inode cache *)

Cached(c, i) == {s \in Slots : c[s].ref > 0 /\ c[s].inum = i}
Empty(c)     == {s \in Slots : c[s].ref = 0}

(* Where iget() finds or puts inode i; 0: iget panics. *)
Slot(c, i) ==
  IF Cached(c, i) # {} THEN First(Cached(c, i))
  ELSE IF Empty(c) # {} THEN First(Empty(c)) ELSE 0

Iget(c, i) ==
  LET s == Slot(c, i)
  IN  IF s = 0 THEN c
      ELSE IF Cached(c, i) # {} THEN [c EXCEPT ![s].ref = @ + 1]
      ELSE [c EXCEPT ![s].inum = i, ![s].ref = 1, ![s].valid = FALSE]

Idup(c, s) == [c EXCEPT ![s].ref = @ + 1]

Unlocked(s) == icache[s].lock = None

(* ilock(): the inode after it, and the cache with the lock taken. *)
Inode(s) == IF icache[s].valid THEN icache[s].ip ELSE disk.ino[icache[s].inum]
NoType(s) == ~icache[s].valid /\ Inode(s).type = "free"
Ilock(c, s, p, ip) == [c EXCEPT ![s].lock = p, ![s].valid = TRUE, ![s].ip = ip]

(* ilock() and, later in the same action, iunlock(), with ip changed between. *)
Touch(c, s, ip) == [c EXCEPT ![s].valid = TRUE, ![s].ip = ip]
Iunlock(c, s) == [c EXCEPT ![s].lock = None]

(* Leave for iput(s), and go on at `then' after it. *)
Put(me, s, then) == [me EXCEPT !.pc = "iput", !.put = s, !.then = then]

\* Slip: the last reference is not asked for.
IputTestAny(s) == icache[s].valid /\ icache[s].ip.nlink = 0

IputTest(s) == icache[s].valid /\ icache[s].ip.nlink = 0 /\ icache[s].ref = 1

(* iput(), up to its decision; a lock it does not keep is free again. *)
Iput(p) ==
  LET s == at[p].put IN
  /\ At(p, "iput") /\ Unlocked(s)
  /\ IF IputTest(s)
       THEN icache' = [icache EXCEPT ![s].lock = p] /\ Goto(p, [at[p] EXCEPT !.pc = "free"])
       ELSE UNCHANGED icache /\ Goto(p, [at[p] EXCEPT !.pc = "deref"])
  /\ UNCHANGED <<disks, ftable, ofile, cwd, calls, crashes>>

(* itrunc(), type = 0, iupdate() *)
IputFree(p) ==
  LET s == at[p].put
      t == Itrunc(disk, icache[s].ip)
      z == [t.ip EXCEPT !.type = "free"]
  IN  /\ At(p, "free")
      /\ disk' = Iupdate(t.d, icache[s].inum, z)
      /\ icache' = [icache EXCEPT ![s].ip = z]
      /\ Goto(p, [at[p] EXCEPT !.pc = "invalid"])
      /\ UNCHANGED <<stable, active, ftable, ofile, cwd, calls, crashes>>

\* Slip: the entry stays valid.
IputInvalidNot(p) ==
  /\ At(p, "invalid")
  /\ icache' = [icache EXCEPT ![at[p].put].lock = None]
  /\ Goto(p, [at[p] EXCEPT !.pc = "deref"])
  /\ UNCHANGED <<disks, ftable, ofile, cwd, calls, crashes>>

(* ip->valid = 0, releasesleep() *)
IputInvalid(p) ==
  /\ At(p, "invalid")
  /\ icache' = [icache EXCEPT ![at[p].put].valid = FALSE, ![at[p].put].lock = None]
  /\ Goto(p, [at[p] EXCEPT !.pc = "deref"])
  /\ UNCHANGED <<disks, ftable, ofile, cwd, calls, crashes>>

(* Where iput() returns to; "putip": iput(ip) follows. *)
Resume(me) ==
  IF me.then = "putip" THEN Put([me EXCEPT !.ip = 0], me.ip, "end")
  ELSE [me EXCEPT !.pc = me.then, !.put = 0, !.then = ""]

IputDeref(p) ==
  /\ At(p, "deref")
  /\ icache' = [icache EXCEPT ![at[p].put].ref = @ - 1]
  /\ Goto(p, Resume(at[p]))
  /\ UNCHANGED <<disks, ftable, ofile, cwd, calls, crashes>>

(* end_op(): the last operation to end commits all of them. *)
EndOp(p) ==
  /\ At(p, "end")
  /\ active' = active \ {p} /\ stable' = IF active' = {} THEN disk ELSE stable
  /\ Goto(p, IF at[p].buf # <<>> THEN [at[p] EXCEPT !.pc = "write"] ELSE User)
  /\ UNCHANGED <<disk, icache, ftable, ofile, cwd, calls, crashes>>

(* iget() of inode i, on disk d with cache c, and then to `new'. *)
Found(p, d, c, i, new) ==
  IF Slot(c, i) = 0
    THEN disk' = Panic(d, "iget: no inodes") /\ icache' = c /\ UNCHANGED at
    ELSE disk' = d /\ icache' = Iget(c, i) /\ Goto(p, new)

-----------------------------------------------------------------------------
(* Path lookup.  A path is the sequence that skipelem() makes of it, with  *)
(* "/" in front if it is absolute.                                         *)

Parent(me) == me.op \in {"create", "mkdir", "mknod", "unlink", "relink"}

(* The start of namex(), in `dp', on disk d with cache c. *)
Walk(p, d, c, me, path) ==
  IF Head(path) = "/"
    THEN Found(p, d, c, ROOTINO, [me EXCEPT !.pc = "namex", !.path = Tail(path), !.dp = Slot(c, ROOTINO)])
    ELSE /\ disk' = d /\ icache' = Idup(c, cwd[p])
         /\ Goto(p, [me EXCEPT !.pc = "namex", !.path = path, !.dp = cwd[p]])

(* Where a system call goes on when the lookup fails, and when it succeeds. *)
Failed(me) == IF me.op = "relink" THEN "unlinked" ELSE "end"
Served(me) == CASE me.op \in {"create", "mkdir", "mknod"} -> "create"
                [] OTHER -> me.op

SysPath(p) ==
  /\ At(p, "user") /\ calls < MaxCalls /\ calls' = calls + 1
  /\ \E c \in Calls : Walk(p, disk, icache, [User EXCEPT !.op = c.op, !.new = c.new], c.path)
  /\ active' = active \cup {p}
  /\ UNCHANGED <<stable, ftable, ofile, cwd, crashes>>

(* One round of namex()'s loop. *)
NamexNext(p) ==
  LET me   == at[p]
      s    == me.dp
      ip   == Inode(s)
      name == Head(me.path)
      last == Parent(me) /\ Len(me.path) = 1
      i    == Lookup(disk, ip, name)
      c    == Touch(icache, s, ip)
  IN  /\ At(p, "namex") /\ me.path # <<>> /\ Unlocked(s) /\ ~NoType(s)
      /\ IF ip.type # "dir" \/ (~last /\ i = 0)
           THEN icache' = c /\ Goto(p, Put([me EXCEPT !.dp = 0], s, Failed(me))) /\ UNCHANGED disk
         ELSE IF last
           THEN /\ icache' = c /\ UNCHANGED disk
                /\ Goto(p, [me EXCEPT !.pc = Served(me), !.name = name, !.path = <<>>])
         ELSE Found(p, disk, c, i, Put([me EXCEPT !.dp = Slot(c, i), !.path = Tail(@), !.via = name], s, "namex"))
      /\ UNCHANGED <<stable, active, ftable, ofile, cwd, calls, crashes>>

(* The end of namex(). *)
NamexDone(p) ==
  /\ At(p, "namex") /\ at[p].path = <<>>
  /\ Goto(p, IF Parent(at[p]) THEN Put([at[p] EXCEPT !.dp = 0], at[p].dp, Failed(at[p]))
             ELSE [at[p] EXCEPT !.pc = Served(at[p]), !.ip = at[p].dp, !.dp = 0])
  /\ UNCHANGED <<disks, icache, ftable, ofile, cwd, calls, crashes>>
-----------------------------------------------------------------------------
(* open, mkdir, mknod *)

(* The end of sys_open(), with inode s locked; c: the cache with it unlocked. *)
OpenFile(p, c, s) ==
  LET me == at[p]
      fs == {f \in DOMAIN ftable : ftable[f].ref = 0}
      ks == {k \in Fds : ofile[p][k] = 0}
  IN  /\ icache' = c
      /\ IF fs = {} \/ ks = {}
           THEN Goto(p, Put([me EXCEPT !.ip = 0], s, "end")) /\ UNCHANGED <<ftable, ofile>>
           ELSE /\ ftable' = [ftable EXCEPT ![First(fs)] = [ref |-> 1, ip |-> s, off |-> 0]]
                /\ ofile' = [ofile EXCEPT ![p][First(ks)] = First(fs)]
                /\ Goto(p, [me EXCEPT !.pc = "end", !.ip = 0])

(* Every open() is for reading and writing (O_RDWR): a directory refuses.   *)
Open(p) ==
  LET me == at[p]
      c  == Touch(icache, me.ip, Inode(me.ip))
  IN  /\ At(p, "open") /\ Unlocked(me.ip) /\ ~NoType(me.ip)
      /\ IF Inode(me.ip).type = "dir"
           THEN icache' = c /\ Goto(p, Put([me EXCEPT !.ip = 0], me.ip, "end")) /\ UNCHANGED <<ftable, ofile>>
           ELSE OpenFile(p, c, me.ip)
      /\ UNCHANGED <<disks, cwd, calls, crashes>>

TypeOf(op) == CASE op = "create" -> "file" [] op = "mkdir" -> "dir" [] op = "mknod" -> "dev"

(* create(), up to ialloc(), which leaves dp locked. *)
Create(p) ==
  LET me == at[p]
      dp == Inode(me.dp)
      i  == Lookup(disk, dp, me.name)
      c  == Touch(icache, me.dp, dp)
      lc == Ilock(icache, me.dp, p, dp)
      j  == First(FreeInums(disk))
  IN  /\ At(p, "create") /\ Unlocked(me.dp) /\ ~NoType(me.dp)
      /\ IF i # 0 THEN Found(p, disk, c, i, Put([me EXCEPT !.dp = 0, !.ip = Slot(c, i)], me.dp, "exists"))
         ELSE IF FreeInums(disk) = {}
           THEN disk' = Panic(disk, "ialloc: no inodes") /\ UNCHANGED <<icache, at>>
         ELSE Found(p, Iupdate(disk, j, Dinode(TypeOf(me.op))), lc, j,
                    [me EXCEPT !.pc = "made", !.ip = Slot(lc, j)])
      /\ UNCHANGED <<stable, active, ftable, ofile, cwd, calls, crashes>>

(* The name exists: create() returns a file, and nothing else. *)
CreateExists(p) ==
  LET me == at[p]
      c  == Touch(icache, me.ip, Inode(me.ip))
  IN  /\ At(p, "exists") /\ Unlocked(me.ip) /\ ~NoType(me.ip)
      /\ IF me.op = "create" /\ Inode(me.ip).type = "file" THEN OpenFile(p, c, me.ip)
         ELSE icache' = c /\ Goto(p, Put([me EXCEPT !.ip = 0], me.ip, "end")) /\ UNCHANGED <<ftable, ofile>>
      /\ UNCHANGED <<disks, cwd, calls, crashes>>

(* ilock() of the new inode, its name, and iunlock(dp). *)
CreateLink(p) ==
  LET me == at[p]
      r  == Created(disk, icache[me.ip].inum, Inode(me.ip), icache[me.dp].inum, icache[me.dp].ip, me.name)
  IN  /\ At(p, "made") /\ Unlocked(me.ip) /\ ~NoType(me.ip)
      /\ disk' = r.d
      /\ icache' = Ilock(Iunlock(Touch(icache, me.dp, r.dp), me.dp), me.ip, p, r.ip)
      /\ Goto(p, Put([me EXCEPT !.dp = 0], me.dp, "created"))
      /\ UNCHANGED <<stable, active, ftable, ofile, cwd, calls, crashes>>

(* create() has returned its new inode, locked. *)
CreateDone(p) ==
  LET me == at[p] IN
  /\ At(p, "created")
  /\ IF me.op = "create" THEN OpenFile(p, Iunlock(icache, me.ip), me.ip)
     ELSE /\ icache' = Iunlock(icache, me.ip) /\ Goto(p, Put([me EXCEPT !.ip = 0], me.ip, "end"))
          /\ UNCHANGED <<ftable, ofile>>
  /\ UNCHANGED <<disks, cwd, calls, crashes>>
-----------------------------------------------------------------------------
(* link *)

\* Slip: the new link is not counted.
LinkUncounted(p) ==
  LET me == at[p]
      ip == Inode(me.ip)
  IN  /\ At(p, "link") /\ Unlocked(me.ip) /\ ~NoType(me.ip)
      /\ IF ip.type = "dir"
           THEN /\ icache' = Touch(icache, me.ip, ip) /\ Goto(p, Put([me EXCEPT !.ip = 0], me.ip, "end"))
                /\ UNCHANGED disk
           ELSE Walk(p, disk, Touch(icache, me.ip, ip), [me EXCEPT !.op = "relink", !.new = <<>>], me.new)
      /\ UNCHANGED <<stable, active, ftable, ofile, cwd, calls, crashes>>

(* The new link is counted before it is made. *)
Link(p) ==
  LET me == at[p]
      ip == Inode(me.ip)
      up == [ip EXCEPT !.nlink = @ + 1]
  IN  /\ At(p, "link") /\ Unlocked(me.ip) /\ ~NoType(me.ip)
      /\ IF ip.type = "dir"
           THEN /\ icache' = Touch(icache, me.ip, ip) /\ Goto(p, Put([me EXCEPT !.ip = 0], me.ip, "end"))
                /\ UNCHANGED disk
           ELSE Walk(p, Iupdate(disk, icache[me.ip].inum, up), Touch(icache, me.ip, up),
                     [me EXCEPT !.op = "relink", !.new = <<>>], me.new)
      /\ UNCHANGED <<stable, active, ftable, ofile, cwd, calls, crashes>>

(* dirlink(); a name that exists is put back while dp is locked. *)
Relink(p) ==
  LET me == at[p]
      dp == Inode(me.dp)
      i  == Lookup(disk, dp, me.name)
      lc == Ilock(icache, me.dp, p, dp)
      r  == Dirlink(disk, icache[me.dp].inum, dp, me.name, icache[me.ip].inum)
  IN  /\ At(p, "relink") /\ Unlocked(me.dp) /\ ~NoType(me.dp)
      /\ IF i # 0 THEN Found(p, disk, lc, i, Put(me, Slot(lc, i), "dup"))
         ELSE /\ disk' = r.d /\ icache' = Touch(icache, me.dp, r.ip)
              /\ Goto(p, Put([me EXCEPT !.dp = 0], me.dp, "putip"))
      /\ UNCHANGED <<stable, active, ftable, ofile, cwd, calls, crashes>>

(* iunlockput(dp) after a dirlink() that failed. *)
RelinkDup(p) ==
  /\ At(p, "dup")
  /\ icache' = Iunlock(icache, at[p].dp) /\ Goto(p, Put([at[p] EXCEPT !.dp = 0], at[p].dp, "unlinked"))
  /\ UNCHANGED <<disks, ftable, ofile, cwd, calls, crashes>>

(* The label bad of sys_link(). *)
LinkBad(p) ==
  LET me   == at[p]
      down == [Inode(me.ip) EXCEPT !.nlink = @ - 1]
  IN  /\ At(p, "unlinked") /\ Unlocked(me.ip)
      /\ disk' = Iupdate(disk, icache[me.ip].inum, down) /\ icache' = Touch(icache, me.ip, down)
      /\ Goto(p, Put([me EXCEPT !.ip = 0], me.ip, "end"))
      /\ UNCHANGED <<stable, active, ftable, ofile, cwd, calls, crashes>>

-----------------------------------------------------------------------------
(* unlink *)

Unlink(p) ==
  LET me == at[p]
      dp == Inode(me.dp)
      i  == Lookup(disk, dp, me.name)
      lc == Ilock(icache, me.dp, p, dp)
  IN  /\ At(p, "unlink") /\ Unlocked(me.dp) /\ ~NoType(me.dp)
      /\ IF me.name \in {".", ".."} \/ i = 0
           THEN /\ icache' = Touch(icache, me.dp, dp) /\ Goto(p, Put([me EXCEPT !.dp = 0], me.dp, "end"))
                /\ UNCHANGED disk
           ELSE Found(p, disk, lc, i, [me EXCEPT !.pc = "victim", !.ip = Slot(lc, i)])
      /\ UNCHANGED <<stable, active, ftable, ofile, cwd, calls, crashes>>

(* ilock(ip); the entry is erased, unless ip is a directory in use. *)
UnlinkEntry(p) ==
  LET me == at[p]
      ip == Inode(me.ip)
      dp == icache[me.dp].ip
      di == icache[me.dp].inum
      w  == Writei(disk, di, dp, <<Word(0)>>, Place(Dirents(disk, dp), me.name) - 1)
      d1 == IF ip.type = "dir" THEN [w.ip EXCEPT !.nlink = @ - 1] ELSE w.ip
  IN  /\ At(p, "victim") /\ Unlocked(me.ip) /\ ~NoType(me.ip)
      /\ IF ip.nlink < 1 THEN disk' = Panic(disk, "unlink: nlink < 1") /\ UNCHANGED <<icache, at>>
         ELSE IF ip.type = "dir" /\ ~IsDirEmpty(disk, ip)
           THEN /\ icache' = Touch(icache, me.ip, ip) /\ Goto(p, Put([me EXCEPT !.ip = 0], me.ip, "refuse"))
                /\ UNCHANGED disk
         ELSE /\ disk' = Iupdate(w.d, di, d1)
              /\ icache' = Ilock(Iunlock(Touch(icache, me.dp, d1), me.dp), me.ip, p, ip)
              /\ Goto(p, Put([me EXCEPT !.dp = 0], me.dp, "drop"))
      /\ UNCHANGED <<stable, active, ftable, ofile, cwd, calls, crashes>>

(* The label bad of sys_unlink(), with dp still locked. *)
UnlinkRefuse(p) ==
  /\ At(p, "refuse")
  /\ icache' = Iunlock(icache, at[p].dp) /\ Goto(p, Put([at[p] EXCEPT !.dp = 0], at[p].dp, "end"))
  /\ UNCHANGED <<disks, ftable, ofile, cwd, calls, crashes>>

UnlinkDrop(p) ==
  LET me   == at[p]
      down == [icache[me.ip].ip EXCEPT !.nlink = @ - 1]
  IN  /\ At(p, "drop")
      /\ disk' = Iupdate(disk, icache[me.ip].inum, down)
      /\ icache' = Iunlock(Touch(icache, me.ip, down), me.ip)
      /\ Goto(p, Put([me EXCEPT !.ip = 0], me.ip, "end"))
      /\ UNCHANGED <<stable, active, ftable, ofile, cwd, calls, crashes>>

-----------------------------------------------------------------------------
(* chdir, and the calls on descriptors *)

Chdir(p) ==
  LET me == at[p]
      c  == Touch(icache, me.ip, Inode(me.ip))
  IN  /\ At(p, "chdir") /\ Unlocked(me.ip) /\ ~NoType(me.ip) /\ icache' = c
      /\ IF Inode(me.ip).type # "dir"
           THEN Goto(p, Put([me EXCEPT !.ip = 0], me.ip, "end")) /\ UNCHANGED cwd
           ELSE /\ cwd' = [cwd EXCEPT ![p] = me.ip]
                /\ Goto(p, Put([me EXCEPT !.ip = 0], cwd[p], "end"))
      /\ UNCHANGED <<disks, ftable, ofile, calls, crashes>>

Calling(p) == At(p, "user") /\ calls < MaxCalls /\ calls' = calls + 1

SysDup(p, k) ==
  LET ks == {j \in Fds : ofile[p][j] = 0} IN
  /\ Calling(p) /\ ofile[p][k] # 0 /\ ks # {}
  /\ ofile' = [ofile EXCEPT ![p][First(ks)] = ofile[p][k]]
  /\ ftable' = [ftable EXCEPT ![ofile[p][k]].ref = @ + 1]
  /\ UNCHANGED <<disks, icache, cwd, at, crashes>>

\* Slip: every close() puts the inode back.
SysCloseAll(p, k) ==
  LET f == ofile[p][k] IN
  /\ Calling(p) /\ f # 0
  /\ ofile' = [ofile EXCEPT ![p][k] = 0]
  /\ ftable' = [ftable EXCEPT ![f] = IF @.ref > 1 THEN [@ EXCEPT !.ref = @ - 1] ELSE NoFile]
  /\ active' = active \cup {p} /\ Goto(p, Put(User, ftable[f].ip, "end"))
  /\ UNCHANGED <<disk, stable, icache, cwd, crashes>>

(* fileclose(); the last reference puts the inode back, in an operation. *)
SysClose(p, k) ==
  LET f == ofile[p][k] IN
  /\ Calling(p) /\ f # 0
  /\ ofile' = [ofile EXCEPT ![p][k] = 0]
  /\ IF ftable[f].ref > 1
       THEN ftable' = [ftable EXCEPT ![f].ref = @ - 1] /\ UNCHANGED <<active, at>>
       ELSE /\ ftable' = [ftable EXCEPT ![f] = NoFile]
            /\ active' = active \cup {p} /\ Goto(p, Put(User, ftable[f].ip, "end"))
  /\ UNCHANGED <<disk, stable, icache, cwd, crashes>>

(* What a process writes at an offset: every writer writes the same there. *)
Data(off, n) == [j \in 1..n |-> Word(off + j)]

SysWrite(p, k, n) ==
  /\ Calling(p) /\ ofile[p][k] # 0
  /\ Goto(p, [User EXCEPT !.pc = "write", !.fd = k, !.buf = Data(ftable[ofile[p][k]].off, n)])
  /\ UNCHANGED <<disks, icache, ftable, ofile, cwd, crashes>>

(* A round of filewrite()'s loop: begin_op(), and writei() under the lock. *)
WriteBegin(p) ==
  /\ At(p, "write") /\ active' = active \cup {p} /\ Goto(p, [at[p] EXCEPT !.pc = "writei"])
  /\ UNCHANGED <<disk, stable, icache, ftable, ofile, cwd, calls, crashes>>

(* The part of the buffer that this round writes, and what is left of it. *)
Chunk(buf) == SubSeq(buf, 1, IF Len(buf) > MaxWrite THEN MaxWrite ELSE Len(buf))
Rest(buf)  == SubSeq(buf, MaxWrite + 1, Len(buf))

\* Slip: the next round writes to the same place.
WriteChunkStay(p) ==
  LET me == at[p]
      f  == ofile[p][me.fd]
      s  == ftable[f].ip
      w  == Writei(disk, icache[s].inum, Inode(s), Chunk(me.buf), ftable[f].off)
  IN  /\ At(p, "writei") /\ Unlocked(s)
      /\ IF Inode(s).type = "file" /\ CanWrite(Inode(s), Chunk(me.buf), ftable[f].off)
           THEN /\ disk' = w.d /\ icache' = Touch(icache, s, w.ip)
                /\ Goto(p, [me EXCEPT !.pc = "end", !.buf = Rest(@)]) /\ UNCHANGED ftable
           ELSE Goto(p, [me EXCEPT !.pc = "end", !.buf = <<>>]) /\ UNCHANGED <<disk, icache, ftable>>
      /\ UNCHANGED <<stable, active, ofile, cwd, calls, crashes>>

(* A device whose major number has no driver refuses, like a full file. *)
WriteChunk(p) ==
  LET me == at[p]
      f  == ofile[p][me.fd]
      s  == ftable[f].ip
      w  == Writei(disk, icache[s].inum, Inode(s), Chunk(me.buf), ftable[f].off)
  IN  /\ At(p, "writei") /\ Unlocked(s)
      /\ IF Inode(s).type = "file" /\ CanWrite(Inode(s), Chunk(me.buf), ftable[f].off)
           THEN /\ disk' = w.d /\ icache' = Touch(icache, s, w.ip)
                /\ ftable' = [ftable EXCEPT ![f].off = @ + Len(Chunk(me.buf))]
                /\ Goto(p, [me EXCEPT !.pc = "end", !.buf = Rest(@)])
           ELSE Goto(p, [me EXCEPT !.pc = "end", !.buf = <<>>]) /\ UNCHANGED <<disk, icache, ftable>>
      /\ UNCHANGED <<stable, active, ofile, cwd, calls, crashes>>

(* fileread() *)
SysRead(p, k, n) ==
  LET f == ofile[p][k]
      s == ftable[f].ip
  IN  /\ Calling(p) /\ f # 0 /\ Unlocked(s) /\ Inode(s).type # "dev"
      /\ ftable' = [ftable EXCEPT ![f].off = @ + Len(Readi(disk, Inode(s), @, n))]
      /\ icache' = Touch(icache, s, Inode(s))
      /\ UNCHANGED <<disks, ofile, cwd, at, crashes>>

-----------------------------------------------------------------------------
(* The inode whose lock a process is about to take; 0: none. *)
WaitsFor(p) ==
  LET me == at[p] IN
  CASE me.pc = "iput" -> me.put
    [] me.pc \in {"create", "unlink", "relink"} \/ (me.pc = "namex" /\ me.path # <<>>) -> me.dp
    [] me.pc \in {"open", "exists", "made", "link", "victim", "unlinked", "chdir"} -> me.ip
    [] me.pc = "writei" -> ftable[ofile[p][me.fd]].ip
    [] OTHER -> 0

(* ilock() of an inode that has been freed. *)
LocksFreed(p) ==
  at[p].pc # "iput" /\ WaitsFor(p) # 0 /\ Unlocked(WaitsFor(p)) /\ NoType(WaitsFor(p))

IlockPanic(p) ==
  /\ disk.panic = "" /\ LocksFreed(p)
  /\ disk' = Panic(disk, "ilock: no type")
  /\ UNCHANGED <<stable, active, icache, ftable, ofile, cwd, at, calls, crashes>>

Next ==
  \/ Crash
  \/ \E p \in Procs :
       \/ SysPath(p) \/ NamexNext(p) \/ NamexDone(p) \/ IlockPanic(p)
       \/ Iput(p) \/ IputFree(p) \/ IputInvalid(p) \/ IputDeref(p) \/ EndOp(p)
       \/ Open(p) \/ Create(p) \/ CreateExists(p) \/ CreateLink(p) \/ CreateDone(p)
       \/ Link(p) \/ Relink(p) \/ RelinkDup(p) \/ LinkBad(p)
       \/ Unlink(p) \/ UnlinkEntry(p) \/ UnlinkRefuse(p) \/ UnlinkDrop(p)
       \/ Chdir(p) \/ WriteBegin(p) \/ WriteChunk(p)
       \/ \E k \in Fds :
            SysDup(p, k) \/ SysClose(p, k) \/ \E n \in 1..2 : SysWrite(p, k, n) \/ SysRead(p, k, n)

Spec == Init /\ [][Next]_vars

-----------------------------------------------------------------------------
(* The blocks of the inodes in S: <<inode, place in BlocksOf, block>>. *)
OwnedBy(i, bs) == {<<i, k, bs[k]>> : k \in DOMAIN bs}
Owned(d, S) == UNION {OwnedBy(i, BlocksOf(d, d.ino[i])) : i \in S}

(* Every inode in use owns its blocks alone, the bitmap marks exactly the  *)
(* blocks that are owned, and a file has a block for all of its size: on   *)
(* the disk the processes see, and on the one a crash leaves (bmap(),      *)
(* itrunc(), balloc()).                                                    *)
BlocksExact ==
  \A d \in {disk, stable} :
    LET used == {i \in Inums : d.ino[i].type # "free"}
    IN  /\ \A own \in {Owned(d, used)} : \A bs \in {{x[3] : x \in own}} :
             Cardinality(bs) = Cardinality(own) /\ bs = d.used \ {0}
        /\ \A i \in used : \A off \in 0..(d.ino[i].size - 1) :
             Bmap(d, d.ino[i], off \div BSIZE).d = d

(* What was written to a file is what it holds, before and after a crash,  *)
(* whatever became of the blocks in between (readi(), writei()).           *)
ContentKept ==
  \A d \in {disk, stable} : \A i \in Inums :
    LET ip == d.ino[i] IN ip.type = "file" => Readi(d, ip, 0, ip.size) = Data(0, ip.size)

(* The entries of all directories: <<directory, name, inode>>. *)
Entries(d) ==
  UNION {{<<i, w[1], w[2]>> : w \in {v \in Range(Dirents(d, d.ino[i])) : v[2] # 0}} :
           i \in {j \in Inums : d.ino[j].type = "dir"}}

(* The inodes that paths from the inodes in S can reach: a path is no      *)
(* longer than there are directories.                                      *)
Reachable(ent, S) ==
  FoldFunction(LAMBDA k, T : T \cup {e[3] : e \in {e \in ent : e[1] \in T}}, S,
               [k \in 1..Cardinality({e[1] : e \in ent}) |-> k])

(* Every name that a path from the root can reach denotes an inode in use, *)
(* whose link count is at least the number of its names: no name dangles,  *)
(* now or after a crash (sys_link(), sys_unlink(), create(), iput()).      *)
NoDanglingName ==
  \A d \in {disk, stable} : \A ent \in {Entries(d)} : \A R \in {Reachable(ent, {ROOTINO})} : \A i \in R :
    /\ d.ino[i].type # "free"
    /\ d.ino[i].nlink >= Cardinality({e \in ent : e[1] \in R \ {i} /\ e[3] = i})

(* ip->ref is the number of pointers to the entry: current directories,    *)
(* open files and the variables of calls in progress (fs.c:122-127).       *)
RefsExact ==
  \A s \in Slots :
    icache[s].ref = Cardinality({p \in Procs : cwd[p] = s})
                  + Cardinality({f \in DOMAIN ftable : ftable[f].ref > 0 /\ ftable[f].ip = s})
                  + Cardinality({p \in Procs : at[p].ip = s}) + Cardinality({p \in Procs : at[p].dp = s})
                  + Cardinality({p \in Procs : at[p].put = s})

(* An inode has one entry in the cache, and the entry says what the disk   *)
(* says, unless somebody is about to change that under its lock (iget(),   *)
(* iput(), iupdate()).                                                     *)
CacheCoherent ==
  \A s \in Slots : icache[s].ref > 0 =>
    /\ Cached(icache, icache[s].inum) = {s}
    /\ icache[s].valid /\ Unlocked(s) => icache[s].ip = disk.ino[icache[s].inum]

(* The kernel panics for want of blocks, inodes or entries, or when it     *)
(* follows the ".." of a directory that was removed together with its      *)
(* parent (namex()), and for no other reason.                              *)
PanicsExplained ==
  /\ disk.panic \in {"", "balloc: out of blocks", "ialloc: no inodes", "iget: no inodes", "dirlink",
                      "ilock: no type"}
  /\ disk.panic = "ilock: no type" => \E p \in Procs : LocksFreed(p)
  /\ \A p \in Procs : LocksFreed(p) => at[p].via = ".."

(* No processes wait for inode locks that they hold themselves             *)
(* (fs.c:149: "The separation also helps avoid deadlock").                 *)
NoLockCycle ==
  \A P \in SUBSET Procs \ {{}} :
    \E p \in P : \/ WaitsFor(p) = 0
                 \/ icache[WaitsFor(p)].lock \notin P

(* An inode without links and without references is free (fs.c:118-120:    *)
(* "iput() frees if the reference and link counts have fallen to zero").   *)
FreedAtZero ==
  \A i \in Inums :
    disk.ino[i].type # "free" /\ disk.ino[i].nlink = 0 /\ crashes = 0
      => Cached(icache, i) # {} \/ \E p \in Procs : at[p].pc = "made"

-----------------------------------------------------------------------------
(* The inductive invariant *)

(* The struct inodes, the struct files and the locals of a call. *)
IsEntry(e) == e = [k \in DOMAIN NoInode |-> e[k]] /\ e.ref \in Nat
IsCache(c) == c = [s \in Slots |-> c[s]] /\ \A s \in Slots : IsEntry(c[s])
IsFile(f) == f = [k \in DOMAIN NoFile |-> f[k]] /\ f.ref \in Nat
IsFrame(me) == me = [k \in DOMAIN User |-> me[k]]

(* Where a call is, or goes on after the iput() it is in. *)
Putting   == {"iput", "free", "invalid", "deref"}
After(me) == IF me.pc \in Putting THEN me.then ELSE me.pc

(* The places at which ip or dp points to an inode. *)
IpPlaces == {"open", "link", "chdir", "relink", "exists", "made", "created", "dup", "unlinked", "putip",
             "victim", "drop"}
DpPlaces == {"namex", "create", "unlink", "relink", "made", "dup", "victim", "refuse"}
HasIp(me) == After(me) \in IpPlaces \/ (After(me) = "namex" /\ me.op = "relink")
HasDp(me) == After(me) \in DpPlaces

(* A call has the pointers that its place says, and no other. *)
Frame(me) ==
  /\ IsFrame(me) /\ me.pc # "putip" /\ After(me) \notin Putting
  /\ After(me) = "namex" => me.op \in Ops \cup {"relink"}
  /\ me.ip \in (IF HasIp(me) THEN Slots ELSE {0}) /\ me.dp \in (IF HasDp(me) THEN Slots ELSE {0})
  /\ me.put \in (IF me.pc \in Putting THEN Slots ELSE {0})

FilesTypeOK ==
  /\ IsCache(icache) /\ cwd \in [Procs -> Slots]
  /\ at = [p \in Procs |-> at[p]] /\ \A p \in Procs : Frame(at[p])
  /\ ftable = [f \in 1..NFILE |-> ftable[f]] /\ \A f \in 1..NFILE : IsFile(ftable[f])
  /\ ofile \in [Procs -> [Fds -> 0..NFILE]]

(* f->ref is the number of descriptors of f, and an open file has an inode. *)
FilesCounted ==
  \A f \in 1..NFILE :
    /\ ftable[f].ref = Cardinality({d \in Procs \X Fds : ofile[d[1]][d[2]] = f})
    /\ ftable[f].ref > 0 => ftable[f].ip \in Slots

(* No inode has two entries. *)
OneEntry ==
  \A s, t \in Slots : icache[s].ref > 0 /\ icache[t].ref > 0 /\ icache[s].inum = icache[t].inum => s = t

(* The locks that a call keeps during an iput(), and all of its locks. *)
Keeps(me) ==
  (IF After(me) \in {"made", "dup", "victim", "refuse"} THEN {me.dp} ELSE {})
    \cup (IF After(me) \in {"created", "drop"} THEN {me.ip} ELSE {})
Frees(me) == IF me.pc \in {"free", "invalid"} THEN {me.put} ELSE {}

(* The lock with which iget() panics, in the middle of an action. *)
Stuck(me) == IF me.pc \in {"create", "unlink", "relink"} THEN {me.dp} ELSE {}

(* An inode's lock is held by the call whose place says so, and by no other. *)
LocksExact ==
  /\ \A s \in Slots :
       /\ icache[s].lock \in Procs \cup {None}
       /\ \A p \in Procs : s \in Keeps(at[p]) \cup Frees(at[p]) => icache[s].lock = p
       /\ \A p \in Procs : icache[s].lock = p => s \in Keeps(at[p]) \cup Frees(at[p]) \cup Stuck(at[p])
  /\ \A p \in Procs : Keeps(at[p]) \cap Frees(at[p]) = {}

(* A call is inside an operation of the log wherever it may write, and what *)
(* a crash leaves while no operation is in progress is the disk as seen.    *)
InOperation == \A p \in Procs : at[p].pc \notin {"user", "write"} => p \in active
Committed   == active = {} => stable = disk

IInv == FilesTypeOK /\ FilesCounted /\ RefsExact /\ OneEntry /\ LocksExact /\ InOperation /\ Committed
=============================================================================
