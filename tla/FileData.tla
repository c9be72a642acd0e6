------------------------------ MODULE FileData ------------------------------
(***************************************************************************)
(* The data of files: filewrite and fileread of kernel/file.c; writei,     *)
(* readi, bmap, itrunc, balloc and bfree of kernel/fs.c; and the end of a  *)
(* transaction, which the module Log models in detail, as one step that    *)
(* makes everything durable when the last call has ended.                  *)
(*                                                                         *)
(* A round of writei's loop is one step, and so is a bfree of itrunc: the  *)
(* inode is locked, and what other inodes share with it is the bitmap.     *)
(***************************************************************************)
EXTENDS Integers, Sequences, FiniteSets, FiniteSetsExt

CONSTANTS
  Process, Inode, File,
  InodeOf,      \* the inode of each open file structure
  Source,       \* Source[p]: the bytes p writes
  NBlocks,      \* data blocks of the disk
  BSIZE,        \* cells of a block: bytes, or addresses
  NDIRECT, NINDIRECT,
  BPB,          \* bits of a block of the bitmap
  MAXOPBLOCKS,
  Lengths,      \* of a read or a write (bound)
  MaxCalls,     \* writes and removals (bound)
  Crashes       \* crashes (bound)

ASSUME LayoutAssumption ==
  /\ BSIZE \in Nat \ {0} /\ BPB \in Nat \ {0} /\ NBlocks \in Nat
  /\ NDIRECT \in Nat /\ NINDIRECT \in 1..BSIZE
  /\ MAXOPBLOCKS \in Nat /\ MAXOPBLOCKS >= 6
  /\ NBlocks \div BPB - 1 \div BPB + 2 <= MAXOPBLOCKS   \* itrunc: bitmap, inode
  /\ Lengths \subseteq Nat \ {0} /\ Lengths # {}

Blocks == 1..NBlocks
MAXFILE == NDIRECT + NINDIRECT
Zeros == [k \in 0..(BSIZE - 1) |-> 0]
None == "none"
Closed == -1

\* A buffer holds what a write asks for: argptr in sys_write.
ASSUME SourceAssumption ==
  /\ Source \in [Process -> Seq(Nat)]
  /\ \A p \in Process, n \in Lengths : n <= Len(Source[p])

ASSUME NamesAssumption ==
  /\ InodeOf \in [File -> Inode]
  /\ None \notin Process \cup Inode \cup File

VARIABLES
  mem,          \* the buffers: bitmap, blocks, disk inodes
  disk,         \* what the log has committed
  inode,        \* the cached inodes: ip->size, ip->addrs
  lock,         \* of each inode
  outstanding,  \* log.outstanding: the calls inside a transaction
  off,          \* f->off, or Closed
  pc,
  call,         \* of each process: file, n, i, tot (of the chunk)
  logged,       \* blocks a transaction has passed to log_write
  panicked,
  calls, crashes

store == <<mem, disk>>
procs == <<pc, call, logged>>
counters == <<calls, crashes>>
vars == <<store, inode, lock, outstanding, off, procs, panicked, counters>>

NoCall == [file |-> None, ip |-> None, n |-> 0, i |-> 0, tot |-> 0]
Empty == [size |-> 0, addrs |-> [k \in 0..NDIRECT |-> 0]]

Lesser(a, b) == IF a < b THEN a ELSE b

\* Mutant of Chunk: without the slop for writes that are not aligned.
ChunkNoSlop == ((MAXOPBLOCKS - 1 - 1) \div 2) * BSIZE

\* filewrite's max: what fits in a transaction.
Chunk == ((MAXOPBLOCKS - 1 - 1 - 2) \div 2) * BSIZE

\* What is passed to log_write.
Data(b) == <<"block", b>>
Bitmap(b) == <<"bitmap", b \div BPB>>
DiskInode == <<"inode", 0>>

Init ==
  /\ mem = [used |-> {}, cell |-> [b \in Blocks |-> Zeros],
            dinode |-> [ip \in Inode |-> Empty]]
  /\ disk = mem
  /\ inode = mem.dinode
  /\ lock = [ip \in Inode |-> None]
  /\ outstanding = {}
  /\ off = [f \in File |-> Closed]
  /\ pc = [p \in Process |-> "user"]
  /\ call = [p \in Process |-> NoCall]
  /\ logged = [p \in Process |-> {}]
  /\ panicked = FALSE
  /\ calls = 0 /\ crashes = 0

----------------------------------------------------------------------------
(* bmap and balloc, on a state [used, cell, addrs, log] of the bitmap, the  *)
(* blocks, the inode's addresses and the blocks logged.                     *)

\* The address of block bn of an inode, 0 if it has none.
Addr(addrs, cell, bn) ==
  IF bn < NDIRECT THEN addrs[bn]
  ELSE IF addrs[NDIRECT] = 0 THEN 0 ELSE cell[addrs[NDIRECT]][bn - NDIRECT]

Free(st) == Blocks \ st.used

\* balloc: the first free block, marked and zeroed.
Taken(st) ==
  LET b == Min(Free(st))
  IN  [st EXCEPT !.used = @ \cup {b}, !.cell[b] = Zeros,
                 !.log = @ \cup {Data(b), Bitmap(b)}]
Direct(st, bn) == [Taken(st) EXCEPT !.addrs[bn] = Min(Free(st))]

\* The block of addresses, then the block.
Table(st) ==
  IF st.addrs[NDIRECT] # 0 THEN st
  ELSE [Taken(st) EXCEPT !.addrs[NDIRECT] = Min(Free(st))]
Entry(st, bn) ==
  LET a == st.addrs[NDIRECT]
  IN  [Taken(st) EXCEPT !.cell[a][bn - NDIRECT] = Min(Free(st)), !.log = @ \cup {Data(a)}]

Bmap(st, bn) ==
  IF Addr(st.addrs, st.cell, bn) # 0 THEN st
  ELSE IF bn < NDIRECT THEN Direct(st, bn) ELSE Entry(Table(st), bn)

\* The blocks bmap takes.
Needed(st, bn) ==
  IF Addr(st.addrs, st.cell, bn) # 0 THEN 0
  ELSE IF bn >= NDIRECT /\ st.addrs[NDIRECT] = 0 THEN 2 ELSE 1

State(p) == [used |-> mem.used, cell |-> mem.cell, addrs |-> inode[call[p].ip].addrs,
             log |-> logged[p]]

----------------------------------------------------------------------------
(* Calls. *)

Goto(p, l) == pc' = [pc EXCEPT ![p] = l]

User(p) == pc[p] = "user" /\ ~panicked

Unused(f) == \A p \in Process : call[p].file # f

\* sys_open: a file structure with offset 0.
Open(f) ==
  /\ ~panicked /\ off[f] = Closed
  /\ \A p \in Process : call[p].ip # InodeOf[f] \/ call[p].file # None
  /\ off' = [off EXCEPT ![f] = 0]
  /\ UNCHANGED <<store, inode, lock, outstanding, procs, panicked, counters>>

\* The last fileclose: nobody is in a call on f, which would hold it.
Close(f) ==
  /\ ~panicked /\ off[f] # Closed /\ Unused(f)
  /\ off' = [off EXCEPT ![f] = Closed]
  /\ UNCHANGED <<store, inode, lock, outstanding, procs, panicked, counters>>

\* filewrite
Write(p, f) ==
  /\ User(p) /\ off[f] # Closed /\ calls < MaxCalls
  /\ \E n \in Lengths :
       call' = [call EXCEPT ![p] = [NoCall EXCEPT !.file = f, !.ip = InodeOf[f], !.n = n]]
  /\ Goto(p, "begin")
  /\ calls' = calls + 1
  /\ UNCHANGED <<store, inode, lock, outstanding, off, logged, panicked, crashes>>

\* iput of an inode without links: nobody has the file open.
Remove(p, ip) ==
  /\ User(p) /\ calls < MaxCalls
  /\ \A f \in File : InodeOf[f] = ip => off[f] = Closed
  /\ \A q \in Process : call[q].ip # ip
  /\ call' = [call EXCEPT ![p] = [NoCall EXCEPT !.ip = ip]]
  /\ Goto(p, "begin")
  /\ calls' = calls + 1
  /\ UNCHANGED <<store, inode, lock, outstanding, off, logged, panicked, crashes>>

\* begin_op
BeginOp(p) ==
  /\ pc[p] = "begin" /\ ~panicked
  /\ outstanding' = outstanding \cup {p}
  /\ Goto(p, "lock")
  /\ UNCHANGED <<store, inode, lock, off, call, logged, panicked, counters>>

\* ilock, and the tests that writei begins with.
Ilock(p) ==
  LET c == call[p]
  IN  /\ pc[p] = "lock" /\ ~panicked
      /\ lock[c.ip] = None
      /\ lock' = [lock EXCEPT ![c.ip] = p]
      /\ Goto(p, IF c.file = None THEN "trunc" ELSE "write")
      /\ UNCHANGED <<store, inode, outstanding, off, call, logged, panicked, counters>>

----------------------------------------------------------------------------
(* filewrite and writei. *)

N1(p) == Lesser(call[p].n - call[p].i, Chunk)
Position(p) == off[call[p].file] + call[p].tot

\* off > ip->size || off + n > MAXFILE*BSIZE
BadRange(p) ==
  \/ off[call[p].file] > inode[call[p].ip].size
  \/ off[call[p].file] + N1(p) > MAXFILE * BSIZE

\* The bytes of a round, which end with the chunk or with the block.
Round(p) == Lesser(N1(p) - call[p].tot, BSIZE - (Position(p) % BSIZE))

\* Mutant of Copied: src starts again with every chunk.
CopiedAgain(p) ==
  LET bn == Position(p) \div BSIZE
      st == Bmap(State(p), bn)
      b  == Addr(st.addrs, st.cell, bn)
      at == Position(p) % BSIZE
      from == call[p].tot
  IN  [st EXCEPT
         !.cell[b] = [k \in 0..(BSIZE - 1) |->
                        IF k \in at..(at + Round(p) - 1)
                        THEN Source[p][from + (k - at) + 1] ELSE @[k]],
         !.log = @ \cup {Data(b)}]

\* The state after bmap and memmove of a round.
Copied(p) ==
  LET bn == Position(p) \div BSIZE
      st == Bmap(State(p), bn)
      b  == Addr(st.addrs, st.cell, bn)
      at == Position(p) % BSIZE
      from == call[p].i + call[p].tot
  IN  [st EXCEPT
         !.cell[b] = [k \in 0..(BSIZE - 1) |->
                        IF k \in at..(at + Round(p) - 1)
                        THEN Source[p][from + (k - at) + 1] ELSE @[k]],
         !.log = @ \cup {Data(b)}]

WriteBlock(p) ==
  LET ip == call[p].ip
      st == Copied(p)
  IN  /\ pc[p] = "write" /\ ~panicked
      /\ ~BadRange(p) /\ call[p].tot < N1(p)
      /\ Needed(State(p), Position(p) \div BSIZE) <= Cardinality(Free(State(p)))
      /\ mem' = [mem EXCEPT !.used = st.used, !.cell = st.cell]
      /\ inode' = [inode EXCEPT ![ip].addrs = st.addrs]
      /\ logged' = [logged EXCEPT ![p] = st.log]
      /\ call' = [call EXCEPT ![p].tot = @ + Round(p)]
      /\ UNCHANGED <<disk, lock, outstanding, off, pc, panicked, counters>>

\* "balloc: out of blocks"
BallocPanic(p) ==
  /\ pc[p] = "write" /\ ~panicked
  /\ ~BadRange(p) /\ call[p].tot < N1(p)
  /\ Needed(State(p), Position(p) \div BSIZE) > Cardinality(Free(State(p)))
  /\ panicked' = TRUE
  /\ UNCHANGED <<store, inode, lock, outstanding, off, procs, counters>>

\* Mutant of WriteDone: the size is set whether the file grows or not.
WriteDoneSets(p) ==
  LET ip == call[p].ip
      end == Position(p)
      node == [inode[ip] EXCEPT !.size = end]
  IN  /\ pc[p] = "write" /\ ~panicked
      /\ ~BadRange(p) /\ call[p].tot = N1(p)
      /\ IF end > 0
         THEN /\ inode' = [inode EXCEPT ![ip] = node]
              /\ mem' = [mem EXCEPT !.dinode[ip] = node]
              /\ logged' = [logged EXCEPT ![p] = @ \cup {DiskInode}]
         ELSE UNCHANGED <<inode, mem, logged>>
      /\ off' = [off EXCEPT ![call[p].file] = end]
      /\ lock' = [lock EXCEPT ![ip] = None]
      /\ Goto(p, "end")
      /\ UNCHANGED <<disk, outstanding, call, panicked, counters>>

\* The end of writei: the new size, iupdate; then f->off and iunlock.
WriteDone(p) ==
  LET ip == call[p].ip
      end == Position(p)
      node == [inode[ip] EXCEPT !.size = end]
  IN  /\ pc[p] = "write" /\ ~panicked
      /\ ~BadRange(p) /\ call[p].tot = N1(p)
      /\ IF end > inode[ip].size
         THEN /\ inode' = [inode EXCEPT ![ip] = node]
              /\ mem' = [mem EXCEPT !.dinode[ip] = node]
              /\ logged' = [logged EXCEPT ![p] = @ \cup {DiskInode}]
         ELSE UNCHANGED <<inode, mem, logged>>
      /\ off' = [off EXCEPT ![call[p].file] = end]
      /\ lock' = [lock EXCEPT ![ip] = None]
      /\ Goto(p, "end")
      /\ UNCHANGED <<disk, outstanding, call, panicked, counters>>

WriteBad(p) ==
  /\ pc[p] = "write" /\ ~panicked
  /\ BadRange(p)
  /\ lock' = [lock EXCEPT ![call[p].ip] = None]
  /\ Goto(p, "end")
  /\ UNCHANGED <<store, inode, outstanding, off, call, logged, panicked, counters>>

\* end_op: the last one commits.  filewrite goes on with the next chunk.
EndOp(p) ==
  LET c == call[p]
      i == c.i + c.tot
      more == c.tot > 0 /\ i < c.n
  IN  /\ pc[p] = "end" /\ ~panicked
      /\ outstanding' = outstanding \ {p}
      /\ disk' = IF outstanding = {p} THEN mem ELSE disk
      /\ logged' = [logged EXCEPT ![p] = {}]
      /\ call' = [call EXCEPT ![p] =
                    IF more THEN [c EXCEPT !.i = i, !.tot = 0] ELSE NoCall]
      /\ Goto(p, IF more THEN "begin" ELSE "user")
      /\ UNCHANGED <<mem, inode, lock, off, panicked, counters>>

----------------------------------------------------------------------------
(* itrunc. *)

\* The first block from call[p].tot on; the direct ones first.
Left(p) ==
  LET ip == call[p].ip
  IN  {bn \in call[p].tot..(MAXFILE - 1) : Addr(inode[ip].addrs, mem.cell, bn) # 0}

\* A round of the loops of itrunc, with bfree: it panics if the block is free.
TruncBlock(p) ==
  LET ip == call[p].ip
      bn == Min(Left(p))
      b  == Addr(inode[ip].addrs, mem.cell, bn)
  IN  /\ pc[p] = "trunc" /\ ~panicked
      /\ Left(p) # {}
      /\ panicked' = (b \notin mem.used)
      /\ mem' = [mem EXCEPT !.used = @ \ {b}]
      /\ inode' = IF bn < NDIRECT THEN [inode EXCEPT ![ip].addrs[bn] = 0] ELSE inode
      /\ logged' = [logged EXCEPT ![p] = @ \cup {Bitmap(b)}]
      /\ call' = [call EXCEPT ![p].tot = bn + 1]
      /\ UNCHANGED <<disk, lock, outstanding, off, pc, counters>>

\* Mutant of TruncDone: the block of addresses stays.
TruncDoneKeeps(p) ==
  LET ip == call[p].ip
      b  == inode[ip].addrs[NDIRECT]
  IN  /\ pc[p] = "trunc" /\ ~panicked
      /\ Left(p) = {}
      /\ panicked' = (b # 0 /\ b \notin mem.used)
      /\ mem' = [mem EXCEPT !.dinode[ip] = Empty]
      /\ inode' = [inode EXCEPT ![ip] = Empty]
      /\ logged' = [logged EXCEPT ![p] = @ \cup {DiskInode}]
      /\ lock' = [lock EXCEPT ![ip] = None]
      /\ Goto(p, "end")
      /\ UNCHANGED <<disk, outstanding, off, call, counters>>

\* The block of addresses, iupdate and the end of iput.
TruncDone(p) ==
  LET ip == call[p].ip
      b  == inode[ip].addrs[NDIRECT]
  IN  /\ pc[p] = "trunc" /\ ~panicked
      /\ Left(p) = {}
      /\ panicked' = (b # 0 /\ b \notin mem.used)
      /\ mem' = [mem EXCEPT !.used = @ \ {b}, !.dinode[ip] = Empty]
      /\ inode' = [inode EXCEPT ![ip] = Empty]
      /\ logged' = [logged EXCEPT ![p] =
                      @ \cup {DiskInode} \cup IF b = 0 THEN {} ELSE {Bitmap(b)}]
      /\ lock' = [lock EXCEPT ![ip] = None]
      /\ Goto(p, "end")
      /\ UNCHANGED <<disk, outstanding, off, call, counters>>

----------------------------------------------------------------------------
(* fileread and readi: the whole call is under the lock of the inode. *)

\* The bytes are Content(...) between the two offsets.
Read(p, f) ==
  LET node == inode[InodeOf[f]]
  IN  /\ User(p) /\ off[f] # Closed
      /\ lock[InodeOf[f]] = None
      /\ off[f] <= node.size
      /\ \E n \in Lengths :
           off' = [off EXCEPT ![f] = Lesser(@ + n, node.size)]
      /\ UNCHANGED <<store, inode, lock, outstanding, procs, panicked, counters>>

----------------------------------------------------------------------------
(* A crash, or the reboot after a panic; recovery is in the module Log. *)

Crash ==
  /\ crashes < Crashes
  /\ crashes' = crashes + 1
  /\ mem' = disk
  /\ inode' = disk.dinode
  /\ lock' = [ip \in Inode |-> None]
  /\ outstanding' = {}
  /\ off' = [f \in File |-> Closed]
  /\ pc' = [p \in Process |-> "user"]
  /\ call' = [p \in Process |-> NoCall]
  /\ logged' = [p \in Process |-> {}]
  /\ panicked' = FALSE
  /\ UNCHANGED <<disk, calls>>

Next ==
  \/ Crash
  \/ \E f \in File : Open(f) \/ Close(f)
  \/ \E p \in Process :
       \/ BeginOp(p) \/ Ilock(p) \/ EndOp(p)
       \/ WriteBlock(p) \/ BallocPanic(p) \/ WriteDone(p) \/ WriteBad(p)
       \/ TruncBlock(p) \/ TruncDone(p)
       \/ \E f \in File : Write(p, f) \/ Read(p, f)
       \/ \E ip \in Inode : Remove(p, ip)

Spec == Init /\ [][Next]_vars

----------------------------------------------------------------------------
(* Properties. *)

Byte == {Source[p][i] : p \in Process, i \in UNION {1..n : n \in Lengths}}
Points == {"user", "begin", "lock", "write", "trunc", "end"}

TypeOK ==
  /\ \A s \in {mem, disk} :
       /\ s.used \subseteq Blocks
       /\ s.cell \in [Blocks -> [0..(BSIZE - 1) -> Byte \cup Blocks \cup {0}]]
       /\ s.dinode \in [Inode -> [size : 0..(MAXFILE * BSIZE),
                                  addrs : [0..NDIRECT -> Blocks \cup {0}]]]
  /\ inode \in [Inode -> [size : 0..(MAXFILE * BSIZE),
                          addrs : [0..NDIRECT -> Blocks \cup {0}]]]
  /\ lock \in [Inode -> Process \cup {None}]
  /\ outstanding \subseteq Process
  /\ off \in [File -> 0..(MAXFILE * BSIZE) \cup {Closed}]
  /\ pc \in [Process -> Points]

\* The places of an inode: its addresses, then the entries of its block of
\* addresses; and what is there.
Places == 0..MAXFILE
Place(node, cell, k) ==
  IF k <= NDIRECT THEN node.addrs[k]
  ELSE IF node.addrs[NDIRECT] = 0 THEN 0
  ELSE cell[node.addrs[NDIRECT]][k - NDIRECT - 1]

\* The bitmap marks the blocks of the inodes, and no block has two places.
Owned(s, nodes) ==
  \A b \in Blocks :
    Cardinality({x \in Inode \X Places : Place(nodes[x[1]], s.cell, x[2]) = b})
      = IF b \in s.used THEN 1 ELSE 0

\* Whatever a crash interrupts, the disk has no block that two files share,
\* that is lost, or that is free and in a file; the same holds in memory
\* between two calls, and the cached inodes have been written.
BlocksOwned ==
  /\ TypeOK
  /\ Owned(disk, disk.dinode)
  /\ ~panicked /\ (\A ip \in Inode : lock[ip] = None) =>
       Owned(mem, inode) /\ mem.dinode = inode

\* A file has its blocks up to its size and no others: bmap allocates in
\* writei only, for a read is in no transaction.
Whole(node, cell) ==
  \A bn \in 0..(MAXFILE - 1) : bn * BSIZE < node.size <=> Addr(node.addrs, cell, bn) # 0
NoHoles ==
  \A ip \in Inode :
    /\ Whole(disk.dinode[ip], disk.cell)
    /\ lock[ip] = None => Whole(inode[ip], mem.cell)
    /\ \A f \in File : InodeOf[f] = ip => off[f] <= inode[ip].size

\* "write a few blocks at a time to avoid exceeding the maximum log
\* transaction size" (filewrite): data, bitmap, inode and addresses of a
\* chunk fit in MAXOPBLOCKS.
TxnFits == \A p \in Process : Cardinality(logged[p]) <= MAXOPBLOCKS

\* Who is inside writei or itrunc of an inode.
Holds(ip, l) == {p \in Process : lock[ip] = p /\ pc[p] = l}

Extent(ip) ==
  IF Holds(ip, "trunc") # {} THEN 0
  ELSE IF Holds(ip, "write") = {} THEN inode[ip].size
  ELSE LET p == CHOOSE q \in Holds(ip, "write") : TRUE
       IN  IF Position(p) > inode[ip].size THEN Position(p) ELSE inode[ip].size

\* The bytes of a file, through bmap.
Content(node, cell, size) ==
  [i \in 1..size |-> cell[Addr(node.addrs, cell, (i - 1) \div BSIZE)][(i - 1) % BSIZE]]

\* filewrite, fileread and itrunc implement files of bytes: chunks are atomic
\* and land at the offset, whatever blocks balloc finds and whoever writes,
\* and a crash loses whole chunks from the end of history only.
Files == INSTANCE ByteFile WITH
  Unit <- BSIZE,
  content <- [ip \in Inode |-> Content(inode[ip], mem.cell, Extent(ip))],
  stable <- [ip \in Inode |-> Content(disk.dinode[ip], disk.cell, disk.dinode[ip].size)],
  busy <- [ip \in Inode |->
             IF Holds(ip, "write") = {}
             THEN [who |-> "none", file |-> "none", done |-> 0]
             ELSE LET p == CHOOSE q \in Holds(ip, "write") : TRUE
                  IN  [who |-> p, file |-> call[p].file, done |-> call[p].tot]],
  sent <- [p \in Process |->
             IF call[p].file = None THEN 0 ELSE call[p].i + call[p].tot]
FileSpec == Files!Spec

=============================================================================
