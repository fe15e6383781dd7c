------------------------------- MODULE FsDisk -------------------------------
(***************************************************************************)
(* The layout of the file system (fs.h) and the operations of fs.c on it:  *)
(* the bitmap, the inodes with their direct and indirect blocks, and       *)
(* directories.  The operators are pure: each takes a disk and returns     *)
(* one; the callers hold the inode's lock.                                 *)
(*                                                                         *)
(* A block is a row of BSIZE words.  A word is <<name, number>>: a         *)
(* directory entry, or <<"", n>> for a byte of a file or a block number.   *)
(* Offsets count words.  off + n cannot wrap, since argptr() refuses a     *)
(* negative n and an offset is at most MAXFILE*BSIZE.                      *)
(***************************************************************************)
EXTENDS Integers, Sequences, FiniteSets, Functions, Folds

CONSTANTS BSIZE, NDIRECT, NBLOCKS, NINODES

ASSUME FsAssumption ==
  /\ {BSIZE, NDIRECT, NBLOCKS, NINODES} \subseteq Nat \ {0}

NINDIRECT == BSIZE
MAXFILE   == NDIRECT + NINDIRECT
Blocks    == 0..NBLOCKS          \* 0: the blocks before the data, always in use
Inums     == 1..NINODES
ROOTINO   == 1

Word(n) == <<"", n>>
Zeroes  == [k \in 1..BSIZE |-> Word(0)]

(* struct dinode; also what struct inode copies of it. *)
NoAddrs == [k \in 0..NDIRECT |-> 0]
Dinode(type) == [type |-> type, nlink |-> 0, size |-> 0, addrs |-> NoAddrs]

NoDinodes == [i \in Inums |-> Dinode("free")]
NoBlocks  == [b \in Blocks |-> Zeroes]

Panic(d, why) == [d EXCEPT !.panic = IF @ = "" THEN why ELSE @]

\* The least element of a set of numbers
First(S) == CHOOSE x \in S : \A y \in S : x <= y
Last(S)  == CHOOSE x \in S : \A y \in S : y <= x

-----------------------------------------------------------------------------
(* Blocks *)

Balloc(d) ==
  LET free == Blocks \ d.used
  IN  IF free = {} THEN [d |-> Panic(d, "balloc: out of blocks"), addr |-> 0]
      ELSE [d |-> [d EXCEPT !.used = @ \cup {First(free)}, !.blk[First(free)] = Zeroes],
            addr |-> First(free)]

Bfree(d, b) ==
  IF b \notin d.used THEN Panic(d, "freeing free block") ELSE [d EXCEPT !.used = @ \ {b}]

(* A block just found or allocated in ip->addrs[k]. *)
Assigned(a, ip, k) == [d |-> a.d, ip |-> [ip EXCEPT !.addrs[k] = a.addr], addr |-> a.addr]

AddrOf(d, ip, k) ==
  IF ip.addrs[k] # 0 THEN [d |-> d, ip |-> ip, addr |-> ip.addrs[k]] ELSE Assigned(Balloc(d), ip, k)

(* The same in entry k of the indirect block m.addr. *)
Entered(a, m, k) ==
  [d |-> [a.d EXCEPT !.blk[m.addr] = [@ EXCEPT ![k] = Word(a.addr)]], ip |-> m.ip, addr |-> a.addr]

EntryOf(m, k) ==
  IF m.d.blk[m.addr][k] # Word(0) THEN [m EXCEPT !.addr = m.d.blk[@][k][2]] ELSE Entered(Balloc(m.d), m, k)

Bmap(d, ip, bn) ==
  IF bn < NDIRECT THEN AddrOf(d, ip, bn) ELSE EntryOf(AddrOf(d, ip, NDIRECT), bn - NDIRECT + 1)

(* The blocks of an inode on the disk, as itrunc() finds them. *)
Indirect(d, ip) ==
  IF ip.addrs[NDIRECT] = 0 THEN <<>>
  ELSE [k \in 1..NINDIRECT |-> d.blk[ip.addrs[NDIRECT]][k][2]]

BlocksOf(d, ip) ==
  SelectSeq([k \in 1..NDIRECT |-> ip.addrs[k - 1]] \o Indirect(d, ip) \o <<ip.addrs[NDIRECT]>>,
            LAMBDA b : b # 0)

\* Slip: the indirect block's own entries are kept.
ItruncDirect(d, ip) ==
  [d |-> FoldFunction(LAMBDA b, x : Bfree(x, b), d,
                     SelectSeq([k \in 1..(NDIRECT + 1) |-> ip.addrs[k - 1]], LAMBDA b : b # 0)),
   ip |-> [Dinode(ip.type) EXCEPT !.nlink = ip.nlink]]

Itrunc(d, ip) ==
  [d |-> FoldFunction(LAMBDA b, x : Bfree(x, b), d, BlocksOf(d, ip)),
   ip |-> [Dinode(ip.type) EXCEPT !.nlink = ip.nlink]]

-----------------------------------------------------------------------------
(* Content *)

(* The words from off on that readi() copies.  bmap() finds every block    *)
(* below the size, so it allocates none (BlocksExact in Files).            *)
Readi(d, ip, off, n) ==
  LET upto == IF off + n > ip.size THEN ip.size ELSE off + n
  IN  [k \in 1..(upto - off) |->
        d.blk[Bmap(d, ip, (off + k - 1) \div BSIZE).addr][((off + k - 1) % BSIZE) + 1]]

(* The part of src, written at off, that falls into block bn. *)
Patch(old, src, off, bn) ==
  [k \in 1..BSIZE |->
    LET at == bn * BSIZE + k - off IN IF at \in DOMAIN src THEN src[at] ELSE old[k]]

CanWrite(ip, src, off) == off <= ip.size /\ off + Len(src) <= MAXFILE * BSIZE

(* Block bn as bmap() found it, with its part of src. *)
Filled(m, src, off, bn) ==
  [d |-> [m.d EXCEPT !.blk[m.addr] = Patch(@, src, off, bn)], ip |-> m.ip]

(* The loop of writei(), over the blocks that src falls into, in order. *)
WriteBlocks(m, src, off) ==
  MapThenFoldSet(LAMBDA bn, x : Filled(Bmap(x.d, x.ip, bn), src, off, bn), m, LAMBDA bn : bn, Last,
                 {k \div BSIZE : k \in off..(off + Len(src) - 1)})

(* iupdate() at the end of writei(), if the file grew. *)
Grown(m, i, size) ==
  IF size <= m.ip.size THEN [d |-> m.d, ip |-> m.ip]
  ELSE [d |-> [m.d EXCEPT !.ino[i] = [m.ip EXCEPT !.size = size]], ip |-> [m.ip EXCEPT !.size = size]]

Writei(d, i, ip, src, off) ==
  Grown(WriteBlocks([d |-> d, ip |-> ip], src, off), i, off + Len(src))

-----------------------------------------------------------------------------
(* Inodes and directories *)

Iupdate(d, i, ip) == [d EXCEPT !.ino[i] = ip]

(* ialloc(): the first inode with type 0. *)
FreeInums(d) == {i \in Inums : d.ino[i].type = "free"}

Dirents(d, ip) == Readi(d, ip, 0, ip.size)

(* dirlookup(): the place of a name, from 1, and its inode; 0: not found. *)
Index(S) == IF S = {} THEN 0 ELSE First(S)
Place(de, name) == Index({k \in DOMAIN de : de[k][2] # 0 /\ de[k][1] = name})
InumAt(de, k) == IF k = 0 THEN 0 ELSE de[k][2]
InumOf(de, name) == InumAt(de, Place(de, name))
Lookup(d, ip, name) == InumOf(Dirents(d, ip), name)

IsDirEmpty(d, ip) == \A k \in 3..ip.size : Dirents(d, ip)[k][2] = 0

(* The writing half of dirlink(): the first empty entry, or a new one. *)
Enter(d, i, ip, de, off) ==
  IF CanWrite(ip, <<de>>, off) THEN Writei(d, i, ip, <<de>>, off) ELSE [d |-> Panic(d, "dirlink"), ip |-> ip]

Offset(ip, empty) == IF empty = 0 THEN ip.size ELSE empty - 1

Dirlink(d, i, ip, name, inum) ==
  Enter(d, i, ip, <<name, inum>>, Offset(ip, Index({k \in 1..ip.size : Dirents(d, ip)[k][2] = 0})))

(* The middle of create(): the new inode ip with number i, named in the    *)
(* directory dp with number di.                                            *)
Dotdot(m, i, di) == Dirlink(m.d, i, m.ip, "..", di)
Dots(d, i, ip, di) == Dotdot(Dirlink(d, i, ip, ".", i), i, di)

Named(m, ip) == [d |-> m.d, ip |-> ip, dp |-> m.ip]
Name(m, i, di, dp, name) == Named(Dirlink(m.d, di, dp, name, i), m.ip)

Created(d, i, new, di, dp, name) ==
  LET ip == [new EXCEPT !.nlink = 1]
      up == [dp EXCEPT !.nlink = @ + 1]
  IN  IF new.type = "dir" THEN Name(Dots(Iupdate(Iupdate(d, i, ip), di, up), i, ip, di), i, di, up, name)
      ELSE Name([d |-> Iupdate(d, i, ip), ip |-> ip], i, di, dp, name)

(* mkfs: an inode with one link, and data added at the end of a file. *)
MkIalloc(d, i, type) == Iupdate(d, i, [Dinode(type) EXCEPT !.nlink = 1])
Iappend(d, i, src) == Writei(d, i, d.ino[i], src, d.ino[i].size).d

(* What mkfs writes: a root directory, and in it a file of one word.  The  *)
(* root's size is then moved to the end of its block: past it, if the      *)
(* entries fill the block.                                                 *)
Mkfs(name) ==
  LET zeroed == [ino |-> NoDinodes, used |-> {0}, blk |-> NoBlocks, panic |-> ""]
      root   == MkIalloc(zeroed, ROOTINO, "dir")
      dots   == Iappend(Iappend(root, ROOTINO, <<<<".", ROOTINO>>>>), ROOTINO, <<<<"..", ROOTINO>>>>)
      files  == Iappend(Iappend(MkIalloc(dots, 2, "file"), ROOTINO, <<<<name, 2>>>>), 2, <<Word(1)>>)
  IN  [files EXCEPT !.ino[ROOTINO].size = (@ \div BSIZE + 1) * BSIZE]
=============================================================================
