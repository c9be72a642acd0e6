------------------------------- MODULE Bcache -------------------------------
(***************************************************************************)
(* The buffer cache (kernel/bio.c) with the sleep lock of each buffer      *)
(* (kernel/sleeplock.c) and the driver that fills and empties the buffers  *)
(* (kernel/ide.c): a request queue served by the disk's interrupt.         *)
(*                                                                         *)
(* A section of bcache.lock, of a sleep lock's lk or of idelock is one     *)
(* step.  The callers are the file system and the log: they take blocks in *)
(* an order (a bitmap block while they hold an indirect block, never the   *)
(* other way round) and leave at most MaxPinned buffers dirty.             *)
(***************************************************************************)
EXTENDS Integers, Sequences, FiniteSets

CONSTANTS
  Process,
  Block,
  Inner,        \* blocks that are taken while another one is held
  Value,
  Contents,     \* Contents[b]: what b may contain (bound)
  NBUF,         \* size of disk block cache
  MaxPinned,    \* buffers that log_write leaves dirty, below log.size - 1
  Zero,         \* the contents of a buffer after boot
  None

ASSUME CacheAssumption ==
  /\ Inner \subseteq Block
  /\ NBUF \in Nat \ {0} /\ MaxPinned \in Nat
  /\ Contents \in [Block -> SUBSET Value]
  /\ Zero \in Value
  /\ None \notin Process \cup Block \cup Value \cup Nat

Bufs == 1..NBUF

VARIABLES
  disk,
  (* struct buf *)
  blockno, valid, dirty, refcnt, data,
  lock,         \* b->lock: the process that holds it, or None
  lru,          \* the list from bcache.head.next on: most recently used first
  (* ide.c *)
  idequeue,
  irq,          \* the request at the head is done, its interrupt is pending
  (* processes *)
  pc,
  cur           \* b in bget, iderw and brelse

bufs == <<blockno, valid, dirty, refcnt, data, lock, lru>>
ide == <<disk, idequeue, irq>>
procs == <<pc, cur>>
vars == <<bufs, ide, procs>>

Points == {"run", "acquiresleep", "locksleep", "iderw", "iosleep", "iowoken",
           "brelse", "panic"}

----------------------------------------------------------------------------

Goto(p, l) == pc' = [pc EXCEPT ![p] = l]

\* bread, bwrite or iderw returns to the caller, or goes on at l.
GoOn(p, done, l) ==
  /\ Goto(p, IF done THEN "run" ELSE l)
  /\ cur' = IF done THEN [cur EXCEPT ![p] = None] ELSE cur

\* wakeup(chan), chan being the lock or the buffer i itself, by p at l.
WakeGoto(i, asleep, awake, p, l) ==
  pc' = [q \in Process |->
           IF q = p THEN l
           ELSE IF pc[q] = asleep /\ cur[q] = i THEN awake ELSE pc[q]]

\* The buffers p holds: it got them from bread() and did not release them.
Held(p) == {i \in Bufs : lock[i] = p}

InIderw == {"iderw", "iosleep", "iowoken"}

\* log_write has marked them, and commit() has not written them yet.
Pinned == {i \in Bufs : dirty[i] /\ \A p \in Process : cur[p] = i => pc[p] \notin InIderw}

Init ==
  /\ disk \in {f \in [Block -> Value] : \A b \in Block : f[b] \in Contents[b]}
  /\ blockno = [i \in Bufs |-> None]
  /\ valid = [i \in Bufs |-> FALSE]
  /\ dirty = [i \in Bufs |-> FALSE]
  /\ refcnt = [i \in Bufs |-> 0]
  /\ data = [i \in Bufs |-> Zero]
  /\ lock = [i \in Bufs |-> None]
  /\ lru = [k \in Bufs |-> NBUF + 1 - k]
  /\ idequeue = <<>>
  /\ irq = FALSE
  /\ pc = [p \in Process |-> "run"]
  /\ cur = [p \in Process |-> None]

----------------------------------------------------------------------------
(* bread: bget, acquiresleep, iderw if the buffer is not valid. *)

\* The order in which the file system takes blocks.
MayBread(p, b) ==
  /\ pc[p] = "run"
  /\ \A i \in Held(p) : blockno[i] \notin Inner /\ b \in Inner

\* The first, or the last, buffer of the list that is in S, if any.
FirstBuf(S) ==
  {i \in S : \E k \in Bufs : i = lru[k] /\ \A j \in 1..(k - 1) : lru[j] \notin S}

LastBuf(S) ==
  {i \in S : \E k \in Bufs : i = lru[k] /\ \A j \in (k + 1)..NBUF : lru[j] \notin S}

\* Mutant of Unused: bget recycles dirty buffers, too.
UnusedDirty == {i \in Bufs : refcnt[i] = 0}

Unused == {i \in Bufs : refcnt[i] = 0 /\ ~dirty[i]}

\* Mutant of Cached: a buffer that is not read yet does not count.
CachedValid(b) == {i \in Bufs : blockno[i] = b /\ valid[i]}

Cached(b) == {i \in Bufs : blockno[i] = b}

\* Mutant of BgetHit: the new user is not counted.
BgetHitFree(p, b) ==
  /\ MayBread(p, b)
  /\ \E i \in FirstBuf(Cached(b)) : cur' = [cur EXCEPT ![p] = i]
  /\ Goto(p, "acquiresleep")
  /\ UNCHANGED <<bufs, ide>>

BgetHit(p, b) ==
  /\ MayBread(p, b)
  /\ \E i \in FirstBuf(Cached(b)) :
       /\ refcnt' = [refcnt EXCEPT ![i] = @ + 1]
       /\ cur' = [cur EXCEPT ![p] = i]
  /\ Goto(p, "acquiresleep")
  /\ UNCHANGED <<blockno, valid, dirty, data, lock, lru, ide>>

BgetRecycle(p, b) ==
  /\ MayBread(p, b)
  /\ Cached(b) = {}
  /\ \E i \in LastBuf(Unused) :
       /\ blockno' = [blockno EXCEPT ![i] = b]
       /\ valid' = [valid EXCEPT ![i] = FALSE]
       /\ dirty' = [dirty EXCEPT ![i] = FALSE]
       /\ refcnt' = [refcnt EXCEPT ![i] = 1]
       /\ cur' = [cur EXCEPT ![p] = i]
  /\ Goto(p, "acquiresleep")
  /\ UNCHANGED <<data, lock, lru, ide>>

BgetPanic(p, b) ==
  /\ MayBread(p, b)
  /\ Cached(b) = {} /\ Unused = {}
  /\ Goto(p, "panic")
  /\ UNCHANGED <<bufs, ide, cur>>

\* acquiresleep, and the test of B_VALID that bread makes with the lock.
AcquireSleep(p) ==
  /\ pc[p] = "acquiresleep"
  /\ lock[cur[p]] = None
  /\ lock' = [lock EXCEPT ![cur[p]] = p]
  /\ GoOn(p, valid[cur[p]], "iderw")
  /\ UNCHANGED <<blockno, valid, dirty, refcnt, data, lru, ide>>

LockSleep(p) ==
  /\ pc[p] = "acquiresleep"
  /\ lock[cur[p]] # None
  /\ Goto(p, "locksleep")
  /\ UNCHANGED <<bufs, ide, cur>>

\* kill() wakes a sleeper; it tests its condition again.
Killed(p) ==
  /\ pc[p] \in {"locksleep", "iosleep"}
  /\ Goto(p, IF pc[p] = "locksleep" THEN "acquiresleep" ELSE "iowoken")
  /\ UNCHANGED <<bufs, ide, cur>>

----------------------------------------------------------------------------
(* bwrite, log_write and brelse, by the holder of the buffer. *)

\* The caller changes the data and calls bwrite.
Bwrite(p, i) ==
  /\ pc[p] = "run" /\ lock[i] = p
  /\ \E v \in Contents[blockno[i]] : data' = [data EXCEPT ![i] = v]
  /\ dirty' = [dirty EXCEPT ![i] = TRUE]
  /\ cur' = [cur EXCEPT ![p] = i]
  /\ Goto(p, "iderw")
  /\ UNCHANGED <<blockno, valid, refcnt, lock, lru, ide>>

\* The caller changes the data and calls log_write, which pins the buffer.
LogWrite(p, i) ==
  /\ pc[p] = "run" /\ lock[i] = p
  /\ i \in Pinned \/ Cardinality(Pinned) < MaxPinned
  /\ \E v \in Contents[blockno[i]] : data' = [data EXCEPT ![i] = v]
  /\ dirty' = [dirty EXCEPT ![i] = TRUE]
  /\ UNCHANGED <<blockno, valid, refcnt, lock, lru, ide, procs>>

\* Mutant of ReleaseSleep: nobody is woken.
ReleaseSleepSilent(p, i) ==
  /\ pc[p] = "run" /\ lock[i] = p
  /\ lock' = [lock EXCEPT ![i] = None]
  /\ cur' = [cur EXCEPT ![p] = i]
  /\ Goto(p, "brelse")
  /\ UNCHANGED <<blockno, valid, dirty, refcnt, data, lru, ide>>

\* releasesleep
ReleaseSleep(p, i) ==
  /\ pc[p] = "run" /\ lock[i] = p
  /\ lock' = [lock EXCEPT ![i] = None]
  /\ cur' = [cur EXCEPT ![p] = i]
  /\ WakeGoto(i, "locksleep", "acquiresleep", p, "brelse")
  /\ UNCHANGED <<blockno, valid, dirty, refcnt, data, lru, ide>>

\* The list with i in front.
MovedToFront(i) ==
  [k \in Bufs |-> IF k = 1 THEN i
                  ELSE IF \E j \in k..NBUF : lru[j] = i THEN lru[k - 1] ELSE lru[k]]

\* Then the section of bcache.lock.
Brelse(p) ==
  /\ pc[p] = "brelse"
  /\ LET i == cur[p]
     IN  /\ refcnt' = [refcnt EXCEPT ![i] = @ - 1]
         /\ lru' = IF refcnt[i] = 1 THEN MovedToFront(i) ELSE lru
  /\ cur' = [cur EXCEPT ![p] = None]
  /\ Goto(p, "run")
  /\ UNCHANGED <<blockno, valid, dirty, data, lock, ide>>

----------------------------------------------------------------------------
(* iderw and the disk. *)

Done(i) == valid[i] /\ ~dirty[i]

\* Append b to idequeue (and start the disk if it is the only one), sleep.
Iderw(p) ==
  /\ pc[p] = "iderw"
  /\ idequeue' = Append(idequeue, cur[p])
  /\ GoOn(p, Done(cur[p]), "iosleep")
  /\ UNCHANGED <<bufs, disk, irq>>

IderwWoken(p) ==
  /\ pc[p] = "iowoken"
  /\ GoOn(p, Done(cur[p]), "iosleep")
  /\ UNCHANGED <<bufs, ide>>

\* The disk has executed the request at the head of the queue.
DiskDone ==
  /\ idequeue # <<>> /\ ~irq
  /\ LET i == Head(idequeue)
     IN  disk' = IF dirty[i] THEN [disk EXCEPT ![blockno[i]] = data[i]] ELSE disk
  /\ irq' = TRUE
  /\ UNCHANGED <<bufs, idequeue, procs>>

\* Mutant of Ideintr: the waiter is not woken.
IdeintrSilent ==
  /\ irq
  /\ LET i == Head(idequeue)
     IN  /\ data' = IF dirty[i] THEN data ELSE [data EXCEPT ![i] = disk[blockno[i]]]
         /\ valid' = [valid EXCEPT ![i] = TRUE]
         /\ dirty' = [dirty EXCEPT ![i] = FALSE]
  /\ idequeue' = Tail(idequeue)
  /\ irq' = FALSE
  /\ UNCHANGED <<blockno, refcnt, lock, lru, disk, procs>>

\* ideintr: read the data, wake the waiter, start the next request.
Ideintr ==
  /\ irq
  /\ LET i == Head(idequeue)
     IN  /\ data' = IF dirty[i] THEN data ELSE [data EXCEPT ![i] = disk[blockno[i]]]
         /\ valid' = [valid EXCEPT ![i] = TRUE]
         /\ dirty' = [dirty EXCEPT ![i] = FALSE]
         /\ WakeGoto(i, "iosleep", "iowoken", None, "run")
  /\ idequeue' = Tail(idequeue)
  /\ irq' = FALSE
  /\ UNCHANGED <<blockno, refcnt, lock, lru, disk, cur>>

\* panic(): the CPU of the process spins for ever.
Panic(p) == pc[p] = "panic" /\ UNCHANGED vars

----------------------------------------------------------------------------

Next ==
  \/ DiskDone \/ Ideintr
  \/ \E p \in Process :
       \/ \E b \in Block : BgetHit(p, b) \/ BgetRecycle(p, b) \/ BgetPanic(p, b)
       \/ AcquireSleep(p) \/ LockSleep(p) \/ Killed(p)
       \/ \E i \in Bufs : Bwrite(p, i) \/ LogWrite(p, i) \/ ReleaseSleep(p, i)
       \/ Brelse(p) \/ Iderw(p) \/ IderwWoken(p) \/ Panic(p)

Spec == Init /\ [][Next]_vars

----------------------------------------------------------------------------
(* Properties. *)

TypeOK ==
  /\ disk \in [Block -> Value]
  /\ blockno \in [Bufs -> Block \cup {None}]
  /\ valid \in [Bufs -> BOOLEAN]
  /\ dirty \in [Bufs -> BOOLEAN]
  /\ refcnt \in [Bufs -> Nat]
  /\ data \in [Bufs -> Value]
  /\ lock \in [Bufs -> Process \cup {None}]
  /\ lru \in [Bufs -> Bufs]
  /\ idequeue \in Seq(Bufs)
  /\ irq \in BOOLEAN
  /\ pc \in [Process -> Points]
  /\ cur \in [Process -> Bufs \cup {None}]

\* A block is in its valid buffer, or else on the disk.
Content(b) ==
  IF \E i \in Bufs : blockno[i] = b /\ valid[i]
    THEN data[CHOOSE i \in Bufs : blockno[i] = b /\ valid[i]]
    ELSE disk[b]

Using(b) == {i \in Bufs : blockno[i] = b /\ valid[i] /\ lock[i] # None}

Cache == INSTANCE BlockCache WITH
  content <- [b \in Block |-> Content(b)],
  user <- [b \in Block |->
             IF Using(b) = {} THEN None ELSE lock[CHOOSE i \in Using(b) : TRUE]],
  view <- [b \in Block |->
             IF Using(b) = {} THEN None ELSE data[CHOOSE i \in Using(b) : TRUE]]

\* The cache implements the block cache: a buffer is recycled, read and
\* written back without a process ever losing or missing a change.
CacheSpec == Cache!Spec

\* "Is the block already cached?": two processes that miss the same block do
\* not both recycle a buffer for it.
OneCopy ==
  \A i, j \in Bufs : blockno[i] = blockno[j] /\ blockno[i] # None => i = j

Requested == {idequeue[k] : k \in DOMAIN idequeue}

\* A request in the queue belongs to the process that holds the buffer's lock
\* and waits for it, once; a process asleep in iderw has a request that the
\* disk will answer, and one asleep in acquiresleep waits for a lock that is
\* taken.
QueueOwned ==
  /\ \A i \in Requested :
       \E p \in Process : lock[i] = p /\ cur[p] = i /\ pc[p] \in {"iosleep", "iowoken"}
  /\ \A j, k \in DOMAIN idequeue : idequeue[j] = idequeue[k] => j = k
  /\ \A p \in Process :
       /\ pc[p] = "iosleep" => cur[p] \in Requested
       /\ pc[p] = "locksleep" => lock[cur[p]] # None

\* A buffer counts the processes that use it or wait for it, and only the log
\* or a request in progress keeps it dirty: bget, which recycles what nobody
\* needs and searches the whole list, panics only when every buffer is in use.
Users(i) ==
  {p \in Process : \/ lock[i] = p
                   \/ cur[p] = i /\ pc[p] \in {"acquiresleep", "locksleep", "brelse"}}

RefsAccounted ==
  /\ TypeOK
  /\ {lru[k] : k \in Bufs} = Bufs
  /\ \A i \in Bufs : refcnt[i] = Cardinality(Users(i))
  /\ \A i \in Bufs : dirty[i] => i \in Pinned \/ refcnt[i] > 0
  /\ Cardinality(Pinned) <= MaxPinned

----------------------------------------------------------------------------
(* Fairness: running processes go on, the disk answers, a sleep lock that  *)
(* is free again and again is won, and a buffer is released in the end     *)
(* ("do not keep them longer than necessary").                             *)

Fairness ==
  /\ WF_vars(DiskDone) /\ WF_vars(Ideintr)
  /\ \A p \in Process :
       /\ WF_vars(Iderw(p) \/ IderwWoken(p) \/ Brelse(p))
       /\ SF_vars(AcquireSleep(p))
       /\ \A i \in Bufs : SF_vars(ReleaseSleep(p, i))

FairSpec == Spec /\ Fairness

\* Every bread and bwrite returns, unless the system panics: no wakeup is lost
\* between the queue, the interrupt and the sleep locks, and the order of the
\* blocks excludes deadlock.
IoReturns ==
  \A p \in Process : pc[p] # "run" ~> pc[p] = "run" \/ \E q \in Process : pc[q] = "panic"

=============================================================================
