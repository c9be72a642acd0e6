-------------------------------- MODULE Log ---------------------------------
(***************************************************************************)
(* The write-ahead log of kernel/log.c with the part of the buffer cache   *)
(* it relies on (kernel/bio.c): file system calls bracketed by begin_op    *)
(* and end_op, group commit, installation and recovery, and a crash at any *)
(* point between two disk writes, also during recovery.                    *)
(*                                                                         *)
(* A critical section of log.lock is one step; a block written to the disk *)
(* by bwrite is one step (a block is one sector, BSIZE = 512).             *)
(***************************************************************************)
EXTENDS Integers, Sequences, FiniteSets, SequencesExt

CONSTANTS
  Block,        \* home blocks of the file system
  Value,        \* contents of a block
  Process,      \* processes that make file system calls
  MAXOPBLOCKS,  \* blocks begin_op reserves for a call
  LOGSIZE,      \* entries of struct logheader
  LogBlocks,    \* log.size: blocks of the log region, header included
  InodeBlock,   \* the block behind the region: sb.inodestart
  OpBlocks,     \* blocks a call really writes (bound)
  Uncached      \* a block without a valid buffer

ASSUME SizeAssumption ==
  /\ MAXOPBLOCKS \in Nat \ {0} /\ LOGSIZE \in Nat \ {0} /\ LogBlocks \in Nat
  /\ LOGSIZE <= LogBlocks   \* mkfs.c: nlog = LOGSIZE
  /\ InodeBlock \in Block
  /\ OpBlocks \in 0..MAXOPBLOCKS
  /\ Uncached \notin Value /\ Uncached \notin Block
  /\ IsFiniteSet(Process)

VARIABLES
  (* disk *)
  home,         \* the home location of every block
  logdata,      \* the data blocks of the log region: header not included
  head,         \* the header block: the list block[0..n-1]
  (* buffer cache *)
  cache,        \* b->data of a valid buffer
  dirty,        \* blocks whose buffer has B_DIRTY
  (* struct log, in memory *)
  lh, outstanding, committing,
  (* processes *)
  pc,
  held,         \* block whose buffer the process has locked, Uncached: none
  quota,        \* log_write calls the current operation may still make
  tail,         \* loop variable of write_log and install_trans
  overrun       \* history: has a commit written behind the log region?

disk == <<home, logdata, head>>
bufs == <<cache, dirty>>
mem == <<lh, outstanding, committing>>
procs == <<pc, held, quota>>
vars == <<disk, bufs, mem, procs, tail, overrun>>

Points == {"user", "begin", "asleep", "op", "logging", "write_log",
           "write_head", "install", "erase", "done", "panic",
           "recover", "off", "stuck"}

----------------------------------------------------------------------------

Logged == ToSet(lh)

\* What bread(b) returns.
Content(b) == IF cache[b] = Uncached THEN home[b] ELSE cache[b]

Goto(p, l) == pc' = [pc EXCEPT ![p] = l]

\* wakeup(&log): sleepers look at begin_op's conditions again.
Wakeup(f) == [p \in Process |-> IF f[p] = "asleep" THEN "begin" ELSE f[p]]

\* Mutant of NoSpace: the operation that begins is not counted.
NoSpaceShort == Len(lh) + outstanding * MAXOPBLOCKS > LOGSIZE

\* log.lh.n + (log.outstanding+1)*MAXOPBLOCKS > LOGSIZE
NoSpace == Len(lh) + (outstanding + 1) * MAXOPBLOCKS > LOGSIZE

Init ==
  /\ home \in [Block -> Value]
  /\ logdata \in {[i \in 1..(LogBlocks - 1) |-> v] : v \in Value}
  /\ head = <<>>
  /\ cache = [b \in Block |-> Uncached]
  /\ dirty = {}
  /\ lh = <<>> /\ outstanding = 0 /\ committing = FALSE
  /\ pc = [p \in Process |-> "user"]
  /\ held = [p \in Process |-> Uncached]
  /\ quota = [p \in Process |-> 0]
  /\ tail = 0
  /\ overrun = FALSE

----------------------------------------------------------------------------
(* System calls. *)

Call(p) ==
  /\ pc[p] = "user"
  /\ Goto(p, "begin")
  /\ UNCHANGED <<disk, bufs, mem, held, quota, tail, overrun>>

BeginSleep(p) ==
  /\ pc[p] = "begin"
  /\ committing \/ NoSpace
  /\ Goto(p, "asleep")
  /\ UNCHANGED <<disk, bufs, mem, held, quota, tail, overrun>>

\* kill() wakes a sleeper of begin_op; it only looks again.
Killed(p) ==
  /\ pc[p] = "asleep"
  /\ Goto(p, "begin")
  /\ UNCHANGED <<disk, bufs, mem, held, quota, tail, overrun>>

BeginOp(p) ==
  /\ pc[p] = "begin"
  /\ ~committing /\ ~NoSpace
  /\ outstanding' = outstanding + 1
  /\ quota' = [quota EXCEPT ![p] = OpBlocks]
  /\ Goto(p, "op")
  /\ UNCHANGED <<disk, bufs, lh, committing, held, tail, overrun>>

\* A call reads a block: bread, brelse.
Read(p, b) ==
  /\ pc[p] = "op"
  /\ cache[b] = Uncached
  /\ cache' = [cache EXCEPT ![b] = home[b]]
  /\ UNCHANGED <<disk, dirty, mem, procs, tail, overrun>>

\* bread(b); modify b->data; the unlocked tests of log_write.
Modify(p, b) ==
  /\ pc[p] = "op"
  /\ quota[p] > 0
  /\ \A q \in Process : held[q] # b
  /\ \E v \in Value : cache' = [cache EXCEPT ![b] = v]
  /\ held' = [held EXCEPT ![p] = b]
  /\ quota' = [quota EXCEPT ![p] = @ - 1]
  /\ Goto(p, IF Len(lh) >= LOGSIZE \/ Len(lh) >= LogBlocks - 1 \/ outstanding < 1
               THEN "panic" ELSE "logging")
  /\ UNCHANGED <<disk, dirty, mem, tail, overrun>>

\* Mutant of LogWrite: B_DIRTY is not set.
LogWriteClean(p) ==
  /\ pc[p] = "logging"
  /\ lh' = IF held[p] \in Logged THEN lh ELSE Append(lh, held[p])
  /\ held' = [held EXCEPT ![p] = Uncached]
  /\ Goto(p, "op")
  /\ UNCHANGED <<disk, bufs, outstanding, committing, quota, tail, overrun>>

\* log_write's critical section with log absorption, then brelse.
LogWrite(p) ==
  /\ pc[p] = "logging"
  /\ lh' = IF held[p] \in Logged THEN lh ELSE Append(lh, held[p])
  /\ dirty' = dirty \cup {held[p]}
  /\ held' = [held EXCEPT ![p] = Uncached]
  /\ Goto(p, "op")
  /\ UNCHANGED <<disk, cache, outstanding, committing, quota, tail, overrun>>

\* Mutant of Evict: bget recycles dirty buffers, too.
EvictDirty(b) ==
  /\ cache[b] # Uncached
  /\ \A p \in Process : held[p] # b
  /\ cache' = [cache EXCEPT ![b] = Uncached]
  /\ UNCHANGED <<disk, dirty, mem, procs, tail, overrun>>

\* bget recycles the buffer of b for a block outside Block.
Evict(b) ==
  /\ cache[b] # Uncached
  /\ b \notin dirty
  /\ \A p \in Process : held[p] # b
  /\ cache' = [cache EXCEPT ![b] = Uncached]
  /\ UNCHANGED <<disk, dirty, mem, procs, tail, overrun>>

\* Mutant of EndOp: the last operation is recognised before it is counted down.
EndOpLate(p) ==
  /\ pc[p] = "op"
  /\ outstanding' = outstanding - 1
  /\ quota' = [quota EXCEPT ![p] = 0]
  /\ IF outstanding = 0
       THEN /\ committing' = TRUE
            /\ Goto(p, IF lh = <<>> THEN "done" ELSE "write_log")
       ELSE /\ UNCHANGED committing
            /\ pc' = [Wakeup(pc) EXCEPT ![p] = "user"]
  /\ UNCHANGED <<disk, bufs, lh, held, tail, overrun>>

\* end_op: the last operation commits, another one wakes the waiting calls.
EndOp(p) ==
  /\ pc[p] = "op"
  /\ outstanding' = outstanding - 1
  /\ quota' = [quota EXCEPT ![p] = 0]
  /\ IF outstanding = 1
       THEN /\ committing' = TRUE
            /\ Goto(p, IF lh = <<>> THEN "done" ELSE "write_log")
       ELSE /\ UNCHANGED committing
            /\ pc' = [Wakeup(pc) EXCEPT ![p] = "user"]
  /\ UNCHANGED <<disk, bufs, lh, held, tail, overrun>>

----------------------------------------------------------------------------
(* commit(), run by the process whose end_op was the last. *)

\* The loop of write_log.
NextEntry(p) ==
  IF tail + 1 < Len(lh) THEN tail' = tail + 1 /\ UNCHANGED pc
                        ELSE tail' = 0 /\ Goto(p, "write_head")

\* One iteration of write_log: cache block to log block.
WriteLog(p) ==
  /\ pc[p] = "write_log"
  /\ tail + 1 < LogBlocks
  /\ logdata' = [logdata EXCEPT ![tail + 1] = Content(lh[tail + 1])]
  /\ cache' = [cache EXCEPT ![lh[tail + 1]] = Content(lh[tail + 1])]
  /\ NextEntry(p)
  /\ UNCHANGED <<home, head, dirty, mem, held, quota, overrun>>

\* The same iteration when log.start+tail+1 is behind the region: the copy
\* goes through the buffer of the first inode block to its home, and bwrite
\* clears B_DIRTY.
WriteBehind(p) ==
  /\ pc[p] = "write_log"
  /\ tail + 1 = LogBlocks
  /\ lh[tail + 1] # InodeBlock
  /\ LET v == Content(lh[tail + 1]) IN
       /\ home' = [home EXCEPT ![InodeBlock] = v]
       /\ cache' = [cache EXCEPT ![InodeBlock] = v, ![lh[tail + 1]] = v]
  /\ dirty' = dirty \ {InodeBlock}
  /\ overrun' = TRUE
  /\ NextEntry(p)
  /\ UNCHANGED <<logdata, head, mem, held, quota>>

\* When that entry is the first inode block itself, "to" and "from" are one
\* buffer and the second bread waits for the lock that the first one took.
WriteStuck(p) ==
  /\ pc[p] = "write_log"
  /\ tail + 1 = LogBlocks
  /\ lh[tail + 1] = InodeBlock
  /\ held' = [held EXCEPT ![p] = InodeBlock]
  /\ overrun' = TRUE
  /\ Goto(p, "stuck")
  /\ UNCHANGED <<disk, bufs, mem, quota, tail>>

\* write_head: the commit point.
WriteHead(p) ==
  /\ pc[p] = "write_head"
  /\ head' = lh
  /\ Goto(p, "install")
  /\ UNCHANGED <<home, logdata, bufs, mem, held, quota, tail, overrun>>

\* What install_trans finds at log.start+i.
LogBlock(i) == IF i < LogBlocks THEN logdata[i] ELSE Content(InodeBlock)

\* One iteration of install_trans: log block to home block; bwrite's end
\* clears B_DIRTY.  (An entry whose log block is behind the region is not
\* the first inode block: write_log would not have come past it.)
InstallBlock ==
  /\ home' = [home EXCEPT ![lh[tail + 1]] = LogBlock(tail + 1)]
  /\ cache' = [b \in Block |->
                 IF b = lh[tail + 1] \/ (b = InodeBlock /\ tail + 1 = LogBlocks)
                   THEN LogBlock(tail + 1) ELSE cache[b]]
  /\ dirty' = dirty \ {lh[tail + 1]}

Install(p) ==
  /\ pc[p] = "install"
  /\ InstallBlock
  /\ IF tail + 1 < Len(lh)
       THEN tail' = tail + 1 /\ UNCHANGED <<pc, lh>>
       ELSE tail' = 0 /\ lh' = <<>> /\ Goto(p, "erase")
  /\ UNCHANGED <<logdata, head, outstanding, committing, held, quota, overrun>>

Erase(p) ==
  /\ pc[p] = "erase"
  /\ head' = lh
  /\ Goto(p, "done")
  /\ UNCHANGED <<home, logdata, bufs, mem, held, quota, tail, overrun>>

\* Mutants of Committed: the operation is counted down twice; nobody is woken.
CommittedTwice(p) ==
  /\ pc[p] = "done"
  /\ committing' = FALSE
  /\ outstanding' = outstanding - 1
  /\ pc' = [Wakeup(pc) EXCEPT ![p] = "user"]
  /\ UNCHANGED <<disk, bufs, lh, held, quota, tail, overrun>>

CommittedSilent(p) ==
  /\ pc[p] = "done"
  /\ committing' = FALSE
  /\ Goto(p, "user")
  /\ UNCHANGED <<disk, bufs, lh, outstanding, held, quota, tail, overrun>>

\* The end of end_op: other calls may begin.
Committed(p) ==
  /\ pc[p] = "done"
  /\ committing' = FALSE
  /\ pc' = [Wakeup(pc) EXCEPT ![p] = "user"]
  /\ UNCHANGED <<disk, bufs, lh, outstanding, held, quota, tail, overrun>>

----------------------------------------------------------------------------
(* A crash, and recover_from_log() by the first process of the next boot,  *)
(* before any other process runs.                                          *)

Crash ==
  /\ cache' = [b \in Block |-> Uncached]
  /\ dirty' = {}
  /\ lh' = <<>> /\ outstanding' = 0 /\ committing' = FALSE
  /\ \E first \in Process :
       pc' = [p \in Process |-> IF p = first THEN "recover" ELSE "off"]
  /\ held' = [p \in Process |-> Uncached]
  /\ quota' = [p \in Process |-> 0]
  /\ tail' = 0
  /\ UNCHANGED <<disk, overrun>>

\* read_head; then the loop of install_trans is entered, or the log erased.
RecoverHead(p) ==
  /\ pc[p] = "recover" /\ lh = <<>> /\ head # <<>>
  /\ lh' = head
  /\ UNCHANGED <<disk, bufs, outstanding, committing, procs, tail, overrun>>

RecoverInstall(p) ==
  /\ pc[p] = "recover" /\ tail < Len(lh)
  /\ InstallBlock
  /\ tail' = tail + 1
  /\ UNCHANGED <<logdata, head, mem, procs, overrun>>

\* log.lh.n = 0; write_head(): the system goes up.
RecoverErase(p) ==
  /\ pc[p] = "recover" /\ tail = Len(lh) /\ Len(lh) = Len(head)
  /\ lh' = <<>>
  /\ head' = <<>>
  /\ tail' = 0
  /\ pc' = [q \in Process |-> "user"]
  /\ UNCHANGED <<home, logdata, bufs, outstanding, committing, held, quota, overrun>>

\* panic(): the CPU of the process spins for ever; so does nothing else of a
\* process that waits for itself.
Panic(p) == pc[p] \in {"panic", "stuck"} /\ UNCHANGED vars

----------------------------------------------------------------------------

Commit(p) ==
  \/ WriteLog(p) \/ WriteBehind(p) \/ WriteStuck(p) \/ WriteHead(p)
  \/ Install(p) \/ Erase(p) \/ Committed(p)

Recover(p) == RecoverHead(p) \/ RecoverInstall(p) \/ RecoverErase(p)

Next ==
  \/ Crash
  \/ \E b \in Block : Evict(b)
  \/ \E p \in Process :
       \/ Call(p) \/ BeginSleep(p) \/ Killed(p) \/ BeginOp(p)
       \/ \E b \in Block : Read(p, b) \/ Modify(p, b)
       \/ LogWrite(p) \/ EndOp(p)
       \/ Commit(p) \/ Recover(p) \/ Panic(p)

Spec == Init /\ [][Next]_vars

----------------------------------------------------------------------------
(* Properties. *)

TypeOK ==
  /\ home \in [Block -> Value]
  /\ logdata \in [1..(LogBlocks - 1) -> Value]
  /\ head \in Seq(Block) /\ Len(head) <= LOGSIZE
  /\ cache \in [Block -> Value \cup {Uncached}]
  /\ dirty \subseteq Block
  /\ lh \in Seq(Block) /\ Len(lh) <= LOGSIZE
  /\ outstanding \in 0..Cardinality(Process)
  /\ committing \in BOOLEAN
  /\ pc \in [Process -> Points]
  /\ held \in [Process -> Block \cup {Uncached}]
  /\ quota \in [Process -> 0..OpBlocks]
  /\ tail \in 0..LOGSIZE
  /\ overrun \in BOOLEAN

Recovering == \E p \in Process : pc[p] = "recover"

\* The disk after a recovery, before a commit has written behind the region:
\* the header's blocks from the log.
Durable ==
  [b \in Block |->
     IF b \in ToSet(head)
       THEN LogBlock(CHOOSE i \in 1..Len(head) : head[i] = b)
       ELSE home[b]]

Current == IF Recovering THEN Durable ELSE [b \in Block |-> Content(b)]

Open == {p \in Process : pc[p] \in {"op", "logging", "panic"}}

\* The log implements the transactional store: a crash, whenever it comes,
\* loses or keeps every system call as a whole.  It does so until a commit
\* writes behind the log region: log_write reads log.lh.n without log.lock,
\* so two calls may both pass its test at n = log.size-2, and the header then
\* lists log.size blocks where the region has room for log.size-1.
Store == INSTANCE TxnStore WITH durable <- Durable, current <- Current,
                                open <- Open
StoreSpec == Store!Init /\ [][Store!Next \/ overrun']_(Store!vars)

\* end_op's promise: when no call is running and no commit is in progress,
\* everything written is durable, unless a commit wrote behind the region.
QuiescentDurable ==
  ~overrun /\ outstanding = 0 /\ ~committing /\ ~Recovering
    => Durable = Current

\* A buffer that differs from the disk is dirty or locked by its writer, so
\* bget cannot recycle it; it is in the log header unless its log_write is
\* still to come.  (Until a commit writes behind the region, which clears
\* B_DIRTY of the first inode block.)
Pinned ==
  ~overrun =>
    \A b \in Block :
      cache[b] \notin {Uncached, home[b]} =>
        \/ \E p \in Process : held[p] = b
        \/ b \in dirty /\ b \in Logged

\* begin_op's reservation: what the open calls may still log, one claim for
\* each block, fits, so that the header never holds more than LOGSIZE entries;
\* it holds one less when every call stays below MAXOPBLOCKS.
Claim(p) == quota[p] + (IF pc[p] = "logging" THEN 1 ELSE 0)
Claims == {c \in Open \X (1..OpBlocks) : c[2] <= Claim(c[1])}
Room == IF OpBlocks < MAXOPBLOCKS THEN LOGSIZE - 1 ELSE LOGSIZE
Reserved == ~Recovering => Len(lh) + Cardinality(Claims) <= Room

\* So no commit writes behind the log region, which log_write's "log.size - 1"
\* does not prevent, if every call stays below MAXOPBLOCKS, or if the region
\* has more room than the header.
InRegion == OpBlocks < MAXOPBLOCKS \/ LOGSIZE < LogBlocks => ~overrun

\* "max data blocks in on-disk log" (LOGSIZE, param.h): a call that keeps to
\* MAXOPBLOCKS blocks, as begin_op reserves them, is never "too big a
\* transaction" for log_write.
NoPanic == \A p \in Process : pc[p] # "panic"

----------------------------------------------------------------------------
(* Fairness: running processes go on; the disk answers; a process that     *)
(* finds log.lock free again and again gets it.                            *)

Fairness ==
  \A p \in Process :
    /\ WF_vars(LogWrite(p) \/ EndOp(p) \/ Commit(p) \/ Recover(p))
    /\ SF_vars(BeginOp(p))

FairSpec == Spec /\ Fairness

\* A system call does not wait for ever in begin_op, unless log_write has
\* panicked (log_full shows that it can) or the committing process waits for
\* itself.
CallsBegin ==
  \A p \in Process :
    pc[p] = "begin"
      ~> pc[p] \notin {"begin", "asleep"} \/ \E q \in Process : pc[q] \in {"panic", "stuck"}

=============================================================================
