---------------------------- MODULE BcacheProofs ----------------------------
(***************************************************************************)
(* Proofs about Bcache for every number of processes, blocks and buffers.  *)
(***************************************************************************)
EXTENDS Bcache, FiniteSetTheorems, TLAPS

USE CacheAssumption

(* The inductive invariant, in parts. *)

\* p waits for the disk.
Waits(p, i) == cur[p] = i /\ pc[p] \in InIderw

\* A process has a current buffer inside the cache only; it holds the buffer
\* that it hands to the driver, and none that it still has to lock.
Calls ==
  \A p \in Process :
    /\ pc[p] \in {"run", "panic"} <=> cur[p] = None
    /\ pc[p] \in InIderw => lock[cur[p]] = p
    /\ pc[p] \notin InIderw => \A i \in Bufs : cur[p] = i => lock[i] # p

\* refcnt counts the users, and a buffer in use has a block.
Counted ==
  \A i \in Bufs :
    /\ IsFiniteSet(Users(i)) /\ refcnt[i] = Cardinality(Users(i))
    /\ valid[i] \/ Users(i) # {} => blockno[i] # None

\* A buffer that is held is valid, unless its holder waits for the disk.
Loaded ==
  \A i \in Bufs :
    /\ dirty[i] => valid[i]
    /\ lock[i] # None => valid[i] \/ Waits(lock[i], i)

\* Requests are in the queue from iderw to the interrupt.
Queue ==
  /\ irq => idequeue # <<>>
  /\ \A i \in Requested : ~Done(i)
  /\ \A p \in Process :
       /\ pc[p] = "iderw" => ~Done(cur[p]) /\ cur[p] \notin Requested
       /\ pc[p] = "iowoken" => cur[p] \in Requested \/ Done(cur[p])

\* A clean buffer is what the disk has, and so is a dirty one that the disk
\* has written.
Stored ==
  /\ \A i \in Bufs : Done(i) => data[i] = disk[blockno[i]]
  /\ irq /\ dirty[Head(idequeue)] =>
       data[Head(idequeue)] = disk[blockno[Head(idequeue)]]

IInv ==
  /\ TypeOK /\ OneCopy /\ Calls /\ Counted /\ Loaded
  /\ QueueOwned /\ Queue /\ Stored

\* The list is a list of all buffers.
Listed == {lru[k] : k \in Bufs} = Bufs

----------------------------------------------------------------------------
(* The request queue as a sequence. *)

LEMMA Appended ==
  ASSUME NEW i \in Bufs, idequeue \in Seq(Bufs), idequeue' = Append(idequeue, i)
  PROVE  /\ idequeue' \in Seq(Bufs) /\ idequeue' # <<>>
         /\ Requested' = Requested \cup {i}
         /\ idequeue # <<>> => Head(idequeue') = Head(idequeue)
         /\ (/\ i \notin Requested
             /\ \A j, k \in DOMAIN idequeue : idequeue[j] = idequeue[k] => j = k) =>
                \A j, k \in DOMAIN idequeue' : idequeue'[j] = idequeue'[k] => j = k
<1>1. /\ idequeue' \in Seq(Bufs)
      /\ DOMAIN idequeue = 1..Len(idequeue) /\ Len(idequeue) \in Nat
      /\ DOMAIN idequeue' = 1..(Len(idequeue) + 1)
      /\ idequeue'[Len(idequeue) + 1] = i
      /\ \A k \in 1..Len(idequeue) : idequeue'[k] = idequeue[k]
  OBVIOUS
<1>2. Requested' = Requested \cup {i}
  BY <1>1 DEF Requested
<1>3. idequeue' # <<>> /\ (idequeue # <<>> => Head(idequeue') = Head(idequeue))
  BY <1>1
<1> QED
  BY <1>1, <1>2, <1>3 DEF Requested

LEMMA Served ==
  ASSUME idequeue \in Seq(Bufs), idequeue # <<>>
  PROVE  /\ Head(idequeue) \in Requested /\ Requested \subseteq Bufs
         /\ (/\ idequeue' = Tail(idequeue)
             /\ \A j, k \in DOMAIN idequeue : idequeue[j] = idequeue[k] => j = k) =>
                /\ idequeue' \in Seq(Bufs)
                /\ Requested' = Requested \ {Head(idequeue)}
                /\ \A j, k \in DOMAIN idequeue' : idequeue'[j] = idequeue'[k] => j = k
<1>1. /\ DOMAIN idequeue = 1..Len(idequeue) /\ Len(idequeue) \in Nat \ {0}
      /\ Head(idequeue) = idequeue[1]
      /\ \A k \in DOMAIN idequeue : idequeue[k] \in Bufs
  OBVIOUS
<1>2. Head(idequeue) \in Requested /\ Requested \subseteq Bufs
  BY <1>1 DEF Requested
<1>3. SUFFICES ASSUME idequeue' = Tail(idequeue),
                      \A j, k \in DOMAIN idequeue : idequeue[j] = idequeue[k] => j = k
               PROVE  /\ idequeue' \in Seq(Bufs)
                      /\ Requested' = Requested \ {Head(idequeue)}
                      /\ \A j, k \in DOMAIN idequeue' : idequeue'[j] = idequeue'[k] => j = k
  BY <1>2
<1>4. /\ idequeue' \in Seq(Bufs)
      /\ DOMAIN idequeue' = 1..(Len(idequeue) - 1)
      /\ \A k \in 1..(Len(idequeue) - 1) : idequeue'[k] = idequeue[k + 1]
  BY <1>1, <1>3
<1>5. Requested' \subseteq Requested \ {Head(idequeue)}
  BY <1>1, <1>3, <1>4 DEF Requested
<1>6. ASSUME NEW i \in Requested, i # Head(idequeue)
      PROVE  i \in Requested'
  <2>1. PICK k \in 2..Len(idequeue) : idequeue[k] = i
    BY <1>1, <1>6 DEF Requested
  <2>2. k - 1 \in 1..(Len(idequeue) - 1) /\ idequeue'[k - 1] = i
    BY <1>1, <1>4, <2>1
  <2> QED
    BY <1>4, <2>2 DEF Requested
<1> QED
  BY <1>1, <1>3, <1>4, <1>5, <1>6

----------------------------------------------------------------------------
(* Users are counted. *)

\* A step that changes neither the locks nor who waits.
LEMMA SameUsers ==
  ASSUME UNCHANGED lock,
         \A q \in Process :
           (pc'[q] = pc[q] /\ cur'[q] = cur[q])
           \/ (/\ pc[q] \notin {"acquiresleep", "locksleep", "brelse"}
               /\ pc'[q] \notin {"acquiresleep", "locksleep", "brelse"})
           \/ (/\ pc[q] \in {"acquiresleep", "locksleep"}
               /\ pc'[q] \in {"acquiresleep", "locksleep"}
               /\ cur'[q] = cur[q])
  PROVE  \A i \in Bufs : Users(i)' = Users(i)
  BY DEF Users

LEMMA BufsType == Bufs \subseteq Nat /\ None \notin Bufs /\ IsFiniteSet(Bufs)
  BY FS_Interval DEF Bufs

LEMMA InitIInv == Init => IInv
<1> SUFFICES ASSUME Init PROVE IInv
  OBVIOUS
<1>1. TypeOK
  <2>1. disk \in [Block -> Value]
    BY DEF Init
  <2>2. lru \in [Bufs -> Bufs]
    BY DEF Init, Bufs
  <2>3. /\ blockno \in [Bufs -> Block \cup {None}] /\ valid \in [Bufs -> BOOLEAN]
        /\ dirty \in [Bufs -> BOOLEAN] /\ refcnt \in [Bufs -> Nat]
        /\ data \in [Bufs -> Value] /\ lock \in [Bufs -> Process \cup {None}]
    BY DEF Init
  <2>4. idequeue \in Seq(Bufs)
    BY DEF Init
  <2>5. irq \in BOOLEAN /\ pc \in [Process -> Points]
        /\ cur \in [Process -> Bufs \cup {None}]
    BY DEF Init, Points
  <2> QED
    BY <2>1, <2>2, <2>3, <2>4, <2>5 DEF TypeOK
<1>2. Requested = {}
  BY DEF Init, Requested
<1>3. \A i \in Bufs : Users(i) = {}
  BY BufsType DEF Init, Users
<1>4. Counted
  BY <1>3, FS_EmptySet DEF Counted, Init
<1>5. OneCopy /\ Calls /\ Loaded
  BY BufsType DEF Init, OneCopy, Calls, Loaded, Waits, InIderw
<1>6. QueueOwned
  BY <1>2 DEF Init, QueueOwned
<1>7. Queue /\ Stored
  BY <1>2 DEF Init, Queue, Stored, Done
<1> QED
  BY <1>1, <1>4, <1>5, <1>6, <1>7 DEF IInv

----------------------------------------------------------------------------
(* Types. *)

\* Moving a buffer to the front keeps the list a list of all buffers.
LEMMA ListMoved ==
  ASSUME lru \in [Bufs -> Bufs], NEW i \in Bufs, lru' = MovedToFront(i)
  PROVE  lru' \in [Bufs -> Bufs] /\ (Listed => Listed')
<1> DEFINE After(k) == \E j \in k..NBUF : lru[j] = i
<1>1. \A k \in Bufs : lru'[k] = IF k = 1 THEN i ELSE IF After(k) THEN lru[k - 1] ELSE lru[k]
  BY DEF MovedToFront
<1> HIDE DEF After
<1>2. 1 \in Bufs /\ \A k \in Bufs : k # 1 => k - 1 \in Bufs
  BY DEF Bufs
<1>3. lru' \in [Bufs -> Bufs]
  BY <1>1, <1>2 DEF MovedToFront
<1>4. ASSUME Listed, NEW x \in Bufs
      PROVE  \E k \in Bufs : lru'[k] = x
  <2>1. CASE x = i
    BY <1>1, <1>2, <2>1
  <2>2. CASE x # i
    <3>1. PICK j \in Bufs : lru[j] = x
      BY <1>4 DEF Listed
    <3>2. CASE After(j)
      <4>1. PICK k \in j..NBUF : lru[k] = i
        BY <3>2 DEF After
      <4>2. k # j
        BY <2>2, <3>1, <4>1
      <4>3. j + 1 \in Bufs /\ j + 1 # 1 /\ (j + 1) - 1 = j /\ k \in (j + 1)..NBUF
        BY <4>1, <4>2 DEF Bufs
      <4>4. After(j + 1)
        BY <4>1, <4>3 DEF After
      <4> QED
        BY <1>1, <3>1, <4>3, <4>4
    <3>3. CASE ~After(j)
      <4>1. CASE j # 1
        BY <1>1, <3>1, <3>3, <4>1
      <4>2. CASE j = 1
        <5>1. PICK k \in Bufs : lru[k] = i
          BY <1>4 DEF Listed
        <5> QED
          BY <3>3, <4>2, <5>1 DEF Bufs, After
      <4> QED
        BY <4>1, <4>2
    <3> QED
      BY <3>2, <3>3
  <2> QED
    BY <2>1, <2>2
<1> QED
  BY <1>3, <1>4 DEF Listed

LEMMA CurType ==
  ASSUME TypeOK
  PROVE  pc \in [Process -> Points] /\ cur \in [Process -> Bufs \cup {None}]
  BY DEF TypeOK

\* Where wakeup leaves the processes.
LEMMA Woken ==
  ASSUME TypeOK, NEW i \in Bufs, NEW asleep \in Points, NEW awake \in Points,
         NEW p, NEW l \in Points, WakeGoto(i, asleep, awake, p, l)
  PROVE  /\ pc' \in [Process -> Points]
         /\ \A q \in Process :
              pc'[q] = IF q = p THEN l
                       ELSE IF pc[q] = asleep /\ cur[q] = i THEN awake ELSE pc[q]
<1>1. pc' = [q \in Process |-> IF q = p THEN l
                ELSE IF pc[q] = asleep /\ cur[q] = i THEN awake ELSE pc[q]]
  BY DEF WakeGoto
<1>2. pc \in [Process -> Points]
  BY DEF TypeOK
<1> QED
  BY <1>1, <1>2

LEMMA NextType ==
  ASSUME IInv, [Next]_vars
  PROVE  TypeOK'
<1> TypeOK /\ Calls
  BY DEF IInv
<1> "run" \in Points /\ "acquiresleep" \in Points /\ "locksleep" \in Points
    /\ "iderw" \in Points /\ "iosleep" \in Points /\ "iowoken" \in Points
    /\ "brelse" \in Points /\ "panic" \in Points
  BY DEF Points
<1>1. ASSUME NEW p \in Process, NEW b \in Block, BgetHit(p, b)
      PROVE  TypeOK'
  BY <1>1 DEF TypeOK, BgetHit, FirstBuf, Cached, Goto, ide
<1>2. ASSUME NEW p \in Process, NEW b \in Block, BgetRecycle(p, b)
      PROVE  TypeOK'
  BY <1>2 DEF TypeOK, BgetRecycle, LastBuf, Unused, Goto, ide
<1>3. ASSUME NEW p \in Process, NEW b \in Block, BgetPanic(p, b)
      PROVE  TypeOK'
  BY <1>3 DEF TypeOK, BgetPanic, Goto, bufs, ide
<1>4. ASSUME NEW p \in Process, AcquireSleep(p)
      PROVE  TypeOK'
  <2>1. cur[p] \in Bufs
    BY <1>4, CurType DEF Calls, AcquireSleep
  <2>2. pc' \in [Process -> Points] /\ cur' \in [Process -> Bufs \cup {None}]
    BY <1>4, CurType DEF AcquireSleep, GoOn, Goto
  <2>3. lock' \in [Bufs -> Process \cup {None}]
    BY <1>4 DEF AcquireSleep, TypeOK
  <2>4. UNCHANGED <<blockno, valid, dirty, refcnt, data, lru, disk, idequeue, irq>>
    BY <1>4 DEF AcquireSleep, ide
  <2> QED
    BY <2>2, <2>3, <2>4 DEF TypeOK
<1>5. ASSUME NEW p \in Process, LockSleep(p) \/ Killed(p)
      PROVE  TypeOK'
  <2>1. CASE LockSleep(p)
    BY <2>1 DEF TypeOK, LockSleep, Goto, bufs, ide
  <2>2. CASE Killed(p)
    BY <2>2 DEF TypeOK, Killed, Goto, bufs, ide
  <2> QED
    BY <1>5, <2>1, <2>2
<1>6. ASSUME NEW p \in Process, NEW i \in Bufs, Bwrite(p, i) \/ LogWrite(p, i)
      PROVE  TypeOK'
  <2>1. blockno[i] \in Block /\ Contents[blockno[i]] \subseteq Value
    <3>1. p \in Users(i)
      BY <1>6 DEF Users, Bwrite, LogWrite
    <3>2. blockno[i] # None /\ blockno[i] \in Block \cup {None}
      BY <3>1 DEF IInv, Counted, TypeOK
    <3> QED
      BY <3>2
  <2>2. CASE Bwrite(p, i)
    BY <2>1, <2>2 DEF TypeOK, Bwrite, Goto, ide
  <2>3. CASE LogWrite(p, i)
    BY <2>1, <2>3 DEF TypeOK, LogWrite, ide, procs
  <2> QED
    BY <1>6, <2>2, <2>3
<1>7. ASSUME NEW p \in Process, NEW i \in Bufs, ReleaseSleep(p, i)
      PROVE  TypeOK'
  <2>1. pc' \in [Process -> Points]
    BY <1>7, Woken DEF ReleaseSleep
  <2> QED
    BY <1>7, <2>1 DEF TypeOK, ReleaseSleep, ide
<1>8. ASSUME NEW p \in Process, Brelse(p)
      PROVE  TypeOK'
  <2>1. /\ cur[p] \in Bufs /\ p \in Users(cur[p])
    BY <1>8, CurType DEF Calls, Brelse, Users
  <2>2. refcnt[cur[p]] \in Nat \ {0}
    BY <2>1, FS_EmptySet DEF IInv, Counted, TypeOK
  <2>3. lru' \in [Bufs -> Bufs]
    <3>1. lru \in [Bufs -> Bufs]
      BY DEF TypeOK
    <3>2. CASE refcnt[cur[p]] = 1
      BY <1>8, <2>1, <3>1, <3>2, ListMoved DEF Brelse
    <3>3. CASE refcnt[cur[p]] # 1
      BY <1>8, <3>1, <3>3 DEF Brelse
    <3> QED
      BY <3>2, <3>3
  <2> HIDE DEF Bufs
  <2>4. refcnt' \in [Bufs -> Nat]
    BY <1>8, <2>1, <2>2 DEF Brelse, TypeOK
  <2>5. pc' \in [Process -> Points] /\ cur' \in [Process -> Bufs \cup {None}]
    BY <1>8 DEF Brelse, TypeOK, Goto
  <2> QED
    BY <1>8, <2>3, <2>4, <2>5 DEF TypeOK, Brelse, ide
<1>9. ASSUME NEW p \in Process, Iderw(p) \/ IderwWoken(p)
      PROVE  TypeOK'
  <2>1. cur[p] \in Bufs
    BY <1>9, CurType DEF Calls, Iderw, IderwWoken
  <2>2. pc' \in [Process -> Points] /\ cur' \in [Process -> Bufs \cup {None}]
    BY <1>9, CurType DEF Iderw, IderwWoken, GoOn, Goto
  <2>3. idequeue' \in Seq(Bufs)
    BY <1>9, <2>1, Appended DEF Iderw, IderwWoken, TypeOK, ide
  <2> QED
    BY <1>9, <2>2, <2>3 DEF TypeOK, Iderw, IderwWoken, bufs, ide
<1>10. CASE DiskDone
  <2>1. Head(idequeue) \in Bufs
    BY <1>10, Served DEF DiskDone, TypeOK
  <2>2. disk' \in [Block -> Value]
    BY <1>10, <2>1 DEF DiskDone, TypeOK
  <2> QED
    BY <1>10, <2>2 DEF TypeOK, DiskDone, bufs, procs
<1>11. CASE Ideintr
  <2>1. /\ Head(idequeue) \in Bufs /\ idequeue' \in Seq(Bufs)
        /\ Head(idequeue) \in Requested
    BY <1>11, Served DEF Ideintr, TypeOK, IInv, Queue, QueueOwned
  <2>2. pc' \in [Process -> Points]
    BY <1>11, <2>1, Woken DEF Ideintr
  <2>3. blockno[Head(idequeue)] \in Block
    <3>1. PICK p \in Process : lock[Head(idequeue)] = p
      BY <2>1 DEF IInv, QueueOwned
    <3>2. Users(Head(idequeue)) # {}
      BY <3>1 DEF Users
    <3> QED
      BY <2>1, <3>2 DEF IInv, Counted, TypeOK
  <2>4. data' \in [Bufs -> Value] /\ valid' \in [Bufs -> BOOLEAN]
        /\ dirty' \in [Bufs -> BOOLEAN]
    BY <1>11, <2>1, <2>3 DEF Ideintr, TypeOK
  <2> QED
    BY <1>11, <2>1, <2>2, <2>4 DEF TypeOK, Ideintr
<1>12. CASE UNCHANGED vars
  BY <1>12 DEF TypeOK, vars, bufs, ide, procs
<1> QED
  BY <1>1, <1>2, <1>3, <1>4, <1>5, <1>6, <1>7, <1>8, <1>9, <1>10, <1>11, <1>12
     DEF Next, Panic

----------------------------------------------------------------------------
(* Each step keeps the invariant.  What a step does not touch is given by  *)
(* the lemmas Same..., so that a proof names what it moves.                *)

\* A process that uses a buffer keeps it from being recycled.
LEMMA InUse ==
  ASSUME IInv, NEW i \in Bufs, Users(i) # {}
  PROVE  refcnt[i] \in Nat \ {0} /\ blockno[i] \in Block
<1>1. refcnt[i] # 0
  BY FS_EmptySet DEF IInv, Counted
<1> QED
  BY <1>1 DEF IInv, Counted, TypeOK

\* The holder of a buffer, with what it may rely on.
LEMMA Holder ==
  ASSUME IInv, NEW p \in Process, pc[p] = "run", NEW i \in Bufs, lock[i] = p
  PROVE  /\ valid[i] /\ blockno[i] \in Block /\ p \in Users(i)
         /\ i \notin Requested
         /\ \A q \in Process : ~Waits(q, i)
<1>1. p \in Users(i)
  BY DEF Users
<1>2. p # None
  OBVIOUS
<1>3. \A q \in Process : ~Waits(q, i)
  BY <1>2 DEF IInv, Calls, Waits, InIderw
<1>4. valid[i]
  BY <1>2, <1>3 DEF IInv, Loaded
<1>5. i \notin Requested
  BY <1>3 DEF IInv, QueueOwned, Waits, InIderw
<1> QED
  BY <1>1, <1>3, <1>4, <1>5, InUse

\* A process that finds a sleep lock taken, or is woken by kill().
LEMMA LockSleepInv ==
  ASSUME IInv, NEW p \in Process, LockSleep(p) \/ Killed(p)
  PROVE  IInv'
<1> USE DEF IInv
<1>1. TypeOK'
  BY NextType DEF Next
<1>2. \A i \in Bufs : Users(i)' = Users(i)
  BY SameUsers DEF TypeOK, LockSleep, Killed, Goto, bufs, ide
<1>3. UNCHANGED <<blockno, valid, dirty, refcnt, data, lock, lru, disk, idequeue, irq, cur>>
  BY DEF LockSleep, Killed, bufs, ide
<1>4. /\ pc \in [Process -> Points]
      /\ \/ pc[p] = "acquiresleep" /\ lock[cur[p]] # None
            /\ pc' = [pc EXCEPT ![p] = "locksleep"]
         \/ pc[p] = "locksleep" /\ pc' = [pc EXCEPT ![p] = "acquiresleep"]
         \/ pc[p] = "iosleep" /\ pc' = [pc EXCEPT ![p] = "iowoken"]
  BY CurType DEF LockSleep, Killed, Goto
<1>5. \A q \in Process : /\ pc'[q] \in InIderw <=> pc[q] \in InIderw
                         /\ pc'[q] \in {"run", "panic"} <=> pc[q] \in {"run", "panic"}
  BY <1>4 DEF InIderw
<1>6. Calls'
  BY <1>3, <1>5 DEF Calls
<1>7. OneCopy' /\ Counted'
  BY <1>2, <1>3 DEF OneCopy, Counted
<1>8. Loaded'
  <2>1. \A i \in Bufs : lock[i] # None => lock[i] \in Process
    BY DEF TypeOK
  <2> QED
    BY <2>1, <1>3, <1>5 DEF Loaded, Waits
<1>9. Requested' = Requested /\ \A i \in Bufs : Done(i)' = Done(i)
  BY <1>3 DEF Requested, Done
<1>10. QueueOwned'
  <2>1. \A q \in Process : pc[q] \in {"iosleep", "iowoken"} => pc'[q] \in {"iosleep", "iowoken"}
    BY <1>4
  <2>2. \A q \in Process : pc'[q] = "iosleep" => pc[q] = "iosleep"
    BY <1>4
  <2>3. \A q \in Process : pc'[q] = "locksleep" => lock[cur[q]] # None
    BY <1>4 DEF QueueOwned
  <2> QED
    BY <1>3, <1>9, <2>1, <2>2, <2>3 DEF QueueOwned
<1>11. Queue'
  <2>1. \A q \in Process : pc'[q] = "iderw" => pc[q] = "iderw"
    BY <1>4
  <2>2. \A q \in Process :
          pc'[q] = "iowoken" => pc[q] = "iowoken" \/ cur[q] \in Requested
    BY <1>4 DEF QueueOwned
  <2>3. \A q \in Process : pc'[q] \in {"iderw", "iowoken"} => cur[q] \in Bufs
    BY <1>4, CurType DEF Calls
  <2>4. Requested \subseteq Bufs
    BY DEF Requested, TypeOK
  <2> QED
    BY <1>3, <1>9, <2>1, <2>2, <2>3, <2>4 DEF Queue
<1>12. Stored'
  BY <1>3, <1>9 DEF Stored
<1> QED
  BY <1>1, <1>6, <1>7, <1>8, <1>10, <1>11, <1>12

\* bget finds the block: the process is one more user.  It does not have the
\* buffer yet, because it takes blocks in an order.
LEMMA BgetHitInv ==
  ASSUME IInv, NEW p \in Process, NEW b \in Block, BgetHit(p, b)
  PROVE  IInv'
<1> USE DEF IInv
<1>1. TypeOK'
  BY NextType DEF Next
<1>2. PICK i \in Bufs : /\ blockno[i] = b
                        /\ refcnt' = [refcnt EXCEPT ![i] = @ + 1]
                        /\ cur' = [cur EXCEPT ![p] = i]
  BY DEF BgetHit, FirstBuf, Cached
<1>3. /\ pc[p] = "run" /\ pc' = [pc EXCEPT ![p] = "acquiresleep"]
      /\ UNCHANGED <<blockno, valid, dirty, data, lock, lru, disk, idequeue, irq>>
      /\ pc \in [Process -> Points] /\ cur \in [Process -> Bufs \cup {None}]
  BY CurType DEF BgetHit, MayBread, Goto, ide
<1>4. lock[i] # p
  BY <1>2 DEF BgetHit, MayBread, Held
<1>5. cur[p] = None /\ i # None
  BY <1>3, BufsType DEF Calls
<1>6. \A j \in Bufs : Users(j)' = IF j = i THEN Users(j) \cup {p} ELSE Users(j)
  BY <1>2, <1>3, <1>5, BufsType DEF Users
<1>7. p \notin Users(i)
  BY <1>3, <1>4 DEF Users
<1>8. \A q \in Process : /\ pc'[q] \in InIderw <=> pc[q] \in InIderw
                         /\ pc[q] \in InIderw \cup {"locksleep"} => cur'[q] = cur[q] /\ pc'[q] = pc[q]
  BY <1>2, <1>3 DEF InIderw
<1>9. Calls'
  BY <1>2, <1>3, <1>4, <1>5, <1>8, BufsType DEF Calls, InIderw
<1>10. OneCopy'
  BY <1>3 DEF OneCopy
<1>11. Counted'
  <2>1. \A j \in Bufs : refcnt'[j] = IF j = i THEN refcnt[i] + 1 ELSE refcnt[j]
    BY <1>2 DEF TypeOK
  <2>2. /\ IsFiniteSet(Users(i) \cup {p})
        /\ Cardinality(Users(i) \cup {p}) = Cardinality(Users(i)) + 1
    BY <1>7, FS_AddElement DEF Counted
  <2> QED
    BY <1>2, <1>3, <1>6, <2>1, <2>2 DEF Counted
<1>12. Loaded'
  <2>1. \A j \in Bufs : lock[j] # None => lock[j] \in Process
    BY DEF TypeOK
  <2> QED
    BY <2>1, <1>3, <1>8 DEF Loaded, Waits
<1>13. Requested' = Requested /\ \A j \in Bufs : Done(j)' = Done(j)
  BY <1>3 DEF Requested, Done
<1>14. QueueOwned'
  <2>1. \A q \in Process : /\ pc[q] \in {"iosleep", "iowoken"} => pc'[q] = pc[q] /\ cur'[q] = cur[q]
                           /\ pc'[q] \in {"iosleep", "locksleep"} => pc'[q] = pc[q] /\ cur'[q] = cur[q]
    BY <1>2, <1>3
  <2> QED
    BY <1>3, <1>13, <2>1 DEF QueueOwned
<1>15. Queue'
  <2>1. \A q \in Process :
          pc'[q] \in {"iderw", "iowoken"} => /\ pc'[q] = pc[q] /\ cur'[q] = cur[q]
                                             /\ cur[q] \in Bufs
    BY <1>2, <1>3 DEF Calls
  <2>2. Requested \subseteq Bufs
    BY DEF Requested, TypeOK
  <2> QED
    BY <1>3, <1>13, <2>1, <2>2 DEF Queue
<1>16. Stored'
  BY <1>3, <1>13 DEF Stored
<1> QED
  BY <1>1, <1>9, <1>10, <1>11, <1>12, <1>14, <1>15, <1>16

\* bget recycles a buffer that nobody uses or waits for.
LEMMA BgetRecycleInv ==
  ASSUME IInv, NEW p \in Process, NEW b \in Block, BgetRecycle(p, b)
  PROVE  IInv'
<1> USE DEF IInv
<1>1. TypeOK'
  BY NextType DEF Next
<1>2. PICK i \in Bufs : /\ i \in Unused
                        /\ blockno' = [blockno EXCEPT ![i] = b]
                        /\ valid' = [valid EXCEPT ![i] = FALSE]
                        /\ dirty' = [dirty EXCEPT ![i] = FALSE]
                        /\ refcnt' = [refcnt EXCEPT ![i] = 1]
                        /\ cur' = [cur EXCEPT ![p] = i]
  BY DEF BgetRecycle, LastBuf, Unused
<1>3. /\ pc[p] = "run" /\ pc' = [pc EXCEPT ![p] = "acquiresleep"]
      /\ UNCHANGED <<data, lock, lru, disk, idequeue, irq>>
      /\ pc \in [Process -> Points] /\ cur \in [Process -> Bufs \cup {None}]
      /\ \A j \in Bufs : blockno[j] # b
  BY CurType DEF BgetRecycle, MayBread, Goto, ide, Cached
<1>4. cur[p] = None /\ i # None
  BY <1>3, BufsType DEF Calls
<1>5. Users(i) = {}
  BY <1>2, FS_EmptySet DEF Counted, Unused
<1>6. /\ lock[i] \notin Process
      /\ \A q \in Process : cur[q] = i => pc[q] \notin {"acquiresleep", "locksleep", "brelse"}
  BY <1>5 DEF Users
<1>7. \A q \in Process : cur[q] # i
  <2> SUFFICES ASSUME NEW q \in Process, cur[q] = i PROVE FALSE
    OBVIOUS
  <2>1. pc[q] \notin {"run", "panic"} \cup InIderw
    BY <1>4, <1>6 DEF Calls
  <2> QED
    BY <1>3, <1>6, <2>1 DEF Points, InIderw
<1>8. i \notin Requested
  BY <1>7 DEF QueueOwned
<1>9. \A j \in Bufs : Users(j)' = IF j = i THEN {p} ELSE Users(j)
  <2>1. Users(i)' = {p}
    BY <1>2, <1>3, <1>6, <1>7 DEF Users
  <2>2. \A j \in Bufs : j # i => Users(j)' = Users(j)
    BY <1>2, <1>3, <1>4, BufsType DEF Users
  <2> QED
    BY <2>1, <2>2
<1>10. \A q \in Process : /\ pc'[q] \in InIderw <=> pc[q] \in InIderw
                          /\ pc[q] \in InIderw => cur'[q] = cur[q]
  BY <1>2, <1>3 DEF InIderw
<1>11. Calls'
  BY <1>2, <1>3, <1>4, <1>6, <1>10, BufsType DEF Calls, InIderw
<1>12. /\ \A j \in Bufs : blockno'[j] = IF j = i THEN b ELSE blockno[j]
       /\ \A j \in Bufs : valid'[j] = IF j = i THEN FALSE ELSE valid[j]
       /\ \A j \in Bufs : dirty'[j] = IF j = i THEN FALSE ELSE dirty[j]
       /\ \A j \in Bufs : refcnt'[j] = IF j = i THEN 1 ELSE refcnt[j]
  BY <1>2 DEF TypeOK
<1>13. OneCopy'
  BY <1>3, <1>12 DEF OneCopy
<1>14. Counted'
  <2>1. IsFiniteSet({p}) /\ Cardinality({p}) = 1
    BY FS_Singleton
  <2> QED
    BY <1>9, <1>12, <2>1 DEF Counted
<1>15. Loaded'
  <2>1. \A j \in Bufs : lock[j] # None => lock[j] \in Process
    BY DEF TypeOK
  <2> QED
    BY <2>1, <1>3, <1>6, <1>10, <1>12 DEF Loaded, Waits
<1>16. Requested' = Requested /\ \A j \in Bufs : j # i => Done(j)' = Done(j)
  <2>1. Requested' = Requested
    BY <1>3 DEF Requested
  <2>2. \A j \in Bufs : j # i => Done(j)' = Done(j)
    BY <1>12 DEF Done
  <2> QED
    BY <2>1, <2>2
<1>17. Requested \subseteq Bufs
  BY DEF Requested, TypeOK
<1>18. QueueOwned'
  <2>1. \A q \in Process : /\ pc[q] \in {"iosleep", "iowoken"} => pc'[q] = pc[q] /\ cur'[q] = cur[q]
                           /\ pc'[q] \in {"iosleep", "locksleep"} => pc'[q] = pc[q] /\ cur'[q] = cur[q]
    BY <1>2, <1>3
  <2> QED
    BY <1>3, <1>16, <2>1 DEF QueueOwned
<1>19. Queue'
  <2>1. \A q \in Process :
          pc'[q] \in {"iderw", "iowoken"} => /\ pc'[q] = pc[q] /\ cur'[q] = cur[q]
                                             /\ cur[q] \in Bufs \ {i}
    BY <1>2, <1>3, <1>7 DEF Calls
  <2> QED
    BY <1>3, <1>8, <1>16, <1>17, <2>1 DEF Queue
<1>20. Stored'
  <2>1. \A j \in Bufs : Done(j)' => j # i
    BY <1>12 DEF Done
  <2>2. irq => Head(idequeue) \in Requested
    BY Served DEF Queue, TypeOK
  <2> QED
    BY <1>3, <1>8, <1>12, <1>16, <1>17, <2>1, <2>2 DEF Stored
<1> QED
  BY <1>1, <1>11, <1>13, <1>14, <1>15, <1>18, <1>19, <1>20

\* bget finds no buffer.
LEMMA BgetPanicInv ==
  ASSUME IInv, NEW p \in Process, NEW b \in Block, BgetPanic(p, b)
  PROVE  IInv'
<1> USE DEF IInv
<1>1. TypeOK'
  BY NextType DEF Next
<1>2. /\ pc[p] = "run" /\ pc' = [pc EXCEPT ![p] = "panic"]
      /\ UNCHANGED <<blockno, valid, dirty, refcnt, data, lock, lru, disk, idequeue, irq, cur>>
      /\ pc \in [Process -> Points]
  BY CurType DEF BgetPanic, MayBread, Goto, bufs, ide
<1>3. \A i \in Bufs : Users(i)' = Users(i)
  BY <1>2, SameUsers
<1>4. \A q \in Process : /\ pc'[q] \notin {"run", "panic"} => pc'[q] = pc[q]
                         /\ pc[q] \notin {"run", "panic"} => pc'[q] = pc[q]
  BY <1>2
<1>5. Calls'
  BY <1>2, <1>4 DEF Calls, InIderw
<1>6. OneCopy' /\ Counted'
  BY <1>2, <1>3 DEF OneCopy, Counted
<1>7. Loaded'
  <2>1. \A j \in Bufs : lock[j] # None => lock[j] \in Process
    BY DEF TypeOK
  <2> QED
    BY <2>1, <1>2, <1>4 DEF Loaded, Waits, InIderw
<1>8. Requested' = Requested /\ \A j \in Bufs : Done(j)' = Done(j)
  BY <1>2 DEF Requested, Done
<1>9. QueueOwned'
  BY <1>2, <1>4, <1>8 DEF QueueOwned
<1>10. Queue'
  <2>1. \A q \in Process : pc'[q] \in {"iderw", "iowoken"} => pc'[q] = pc[q] /\ cur[q] \in Bufs
    BY <1>2, CurType DEF Calls
  <2>2. Requested \subseteq Bufs
    BY DEF Requested, TypeOK
  <2> QED
    BY <1>2, <1>8, <2>1, <2>2 DEF Queue
<1>11. Stored'
  BY <1>2, <1>8 DEF Stored
<1> QED
  BY <1>1, <1>5, <1>6, <1>7, <1>9, <1>10, <1>11

\* acquiresleep gets the lock.
LEMMA AcquireSleepInv ==
  ASSUME IInv, NEW p \in Process, AcquireSleep(p)
  PROVE  IInv'
<1> USE DEF IInv
<1>1. TypeOK'
  BY NextType DEF Next
<1>2. PICK i \in Bufs : i = cur[p]
  BY CurType DEF AcquireSleep, Calls
<1>3. /\ pc[p] = "acquiresleep" /\ lock[i] = None
      /\ lock' = [lock EXCEPT ![i] = p]
      /\ pc' = [pc EXCEPT ![p] = IF valid[i] THEN "run" ELSE "iderw"]
      /\ cur' = IF valid[i] THEN [cur EXCEPT ![p] = None] ELSE cur
      /\ UNCHANGED <<blockno, valid, dirty, refcnt, data, lru, disk, idequeue, irq>>
      /\ pc \in [Process -> Points] /\ cur \in [Process -> Bufs \cup {None}]
  BY <1>2, CurType DEF AcquireSleep, GoOn, Goto, ide
<1>4. /\ \A j \in Bufs : lock'[j] = IF j = i THEN p ELSE lock[j]
      /\ p # None /\ i # None
  BY <1>3, BufsType DEF TypeOK
<1>5. \A j \in Bufs : Users(j)' = Users(j)
  <2>1. \A q \in Process : q # p => pc'[q] = pc[q] /\ cur'[q] = cur[q]
    BY <1>3
  <2>2. ASSUME NEW j \in Bufs
        PROVE  Users(j)' = Users(j)
    <3>1. \A q \in Process : q # p => (q \in Users(j)' <=> q \in Users(j))
      BY <2>1, <1>3, <1>4 DEF Users
    <3>2. p \in Users(j)' <=> lock'[j] = p
      BY <1>3 DEF Users
    <3>3. p \in Users(j) <=> j = i \/ lock[j] = p
      BY <1>2, <1>3 DEF Users
    <3> QED
      BY <1>4, <3>1, <3>2, <3>3 DEF Users
  <2> QED
    BY <2>2
<1>6. \A j \in Bufs : j # i => lock[j] # p \/ cur[p] # j
  BY <1>2
<1>7. \A q \in Process : q # p => pc'[q] = pc[q] /\ cur'[q] = cur[q]
  BY <1>3
<1>8. /\ pc'[p] = IF valid[i] THEN "run" ELSE "iderw"
      /\ cur'[p] = IF valid[i] THEN None ELSE i
  BY <1>2, <1>3
<1>9. Calls'
  <2>1. ASSUME NEW q \in Process, q # p
        PROVE  /\ pc'[q] \in {"run", "panic"} <=> cur'[q] = None
               /\ pc'[q] \in InIderw => lock'[cur'[q]] = q
               /\ pc'[q] \notin InIderw => \A j \in Bufs : cur'[q] = j => lock'[j] # q
    <3>1. pc[q] \in InIderw => cur[q] \in Bufs /\ cur[q] # i
      BY <1>3, <2>1, BufsType DEF Calls, InIderw
    <3> QED
      BY <1>4, <1>7, <2>1, <3>1 DEF Calls
  <2>2. /\ pc'[p] \in {"run", "panic"} <=> cur'[p] = None
        /\ pc'[p] \in InIderw => lock'[cur'[p]] = p
        /\ pc'[p] \notin InIderw => \A j \in Bufs : cur'[p] = j => lock'[j] # p
    BY <1>4, <1>8, BufsType DEF InIderw
  <2> QED
    BY <2>1, <2>2 DEF Calls
<1>10. OneCopy' /\ Counted'
  BY <1>3, <1>5 DEF OneCopy, Counted
<1>11. Loaded'
  <2>1. \A j \in Bufs : lock[j] # None => lock[j] \in Process
    BY DEF TypeOK
  <2>2. ASSUME NEW j \in Bufs, lock'[j] # None
        PROVE  valid[j] \/ Waits(lock[j], j)'
    <3>1. CASE j = i
      BY <1>3, <1>4, <1>8, <3>1 DEF Waits, InIderw
    <3>2. CASE j # i
      BY <1>2, <1>3, <1>4, <1>7, <2>1, <2>2, <3>2 DEF Waits, InIderw, Loaded
    <3> QED
      BY <3>1, <3>2
  <2> QED
    BY <1>3, <2>2 DEF Loaded
<1>12. Requested' = Requested /\ \A j \in Bufs : Done(j)' = Done(j)
  BY <1>3 DEF Requested, Done
<1>13. i \notin Requested
  BY <1>3, <1>4 DEF QueueOwned
<1>14. QueueOwned'
  <2>1. \A j \in Requested : \E q \in Process \ {p} :
          lock[j] = q /\ cur[q] = j /\ pc[q] \in {"iosleep", "iowoken"}
    BY <1>3 DEF QueueOwned
  <2>2. Requested \subseteq Bufs
    BY DEF Requested, TypeOK
  <2>3. \A j \in Requested : \E q \in Process :
          lock'[j] = q /\ cur'[q] = j /\ pc'[q] \in {"iosleep", "iowoken"}
    BY <1>4, <1>7, <1>13, <2>1, <2>2
  <2>4. \A q \in Process : /\ pc'[q] = "iosleep" => cur'[q] \in Requested
                           /\ pc'[q] = "locksleep" => lock'[cur'[q]] # None
    <3>1. \A q \in Process : pc[q] = "locksleep" => cur[q] \in Bufs
      BY CurType DEF Calls
    <3> QED
      BY <1>4, <1>7, <1>8, <3>1 DEF QueueOwned
  <2> QED
    BY <1>3, <1>12, <2>3, <2>4 DEF QueueOwned
<1>15. Queue'
  <2>1. \A q \in Process : pc[q] \in {"iderw", "iowoken"} => cur[q] \in Bufs
    BY CurType DEF Calls
  <2>2. Requested \subseteq Bufs
    BY DEF Requested, TypeOK
  <2>3. ~valid[i] => ~Done(i)
    BY DEF Done
  <2> QED
    BY <1>2, <1>3, <1>7, <1>8, <1>12, <1>13, <2>1, <2>2, <2>3 DEF Queue
<1>16. Stored'
  BY <1>3, <1>12 DEF Stored
<1> QED
  BY <1>1, <1>9, <1>10, <1>11, <1>14, <1>15, <1>16

\* The holder changes the buffer and hands it to the driver.
LEMMA BwriteInv ==
  ASSUME IInv, NEW p \in Process, NEW i \in Bufs, Bwrite(p, i)
  PROVE  IInv'
<1> USE DEF IInv
<1>1. TypeOK'
  BY NextType DEF Next
<1>2. /\ pc[p] = "run" /\ lock[i] = p
      /\ dirty' = [dirty EXCEPT ![i] = TRUE]
      /\ cur' = [cur EXCEPT ![p] = i]
      /\ pc' = [pc EXCEPT ![p] = "iderw"]
      /\ UNCHANGED <<blockno, valid, refcnt, lock, lru, disk, idequeue, irq>>
      /\ pc \in [Process -> Points] /\ cur \in [Process -> Bufs \cup {None}]
  BY CurType DEF Bwrite, Goto, ide
<1>3. /\ valid[i] /\ i \notin Requested
      /\ \A q \in Process : ~Waits(q, i)
  BY <1>2, Holder
<1>4. /\ \A j \in Bufs : dirty'[j] = IF j = i THEN TRUE ELSE dirty[j]
      /\ \A j \in Bufs : j # i => data'[j] = data[j]
      /\ p # None /\ i # None
  BY <1>2, BufsType DEF TypeOK, Bwrite
<1>5. \A q \in Process : q # p => pc'[q] = pc[q] /\ cur'[q] = cur[q]
  BY <1>2
<1>6. pc'[p] = "iderw" /\ cur'[p] = i
  BY <1>2
<1>7. \A j \in Bufs : Users(j)' = Users(j)
  BY <1>2, <1>5, <1>6, SameUsers
<1>8. Calls'
  <2>1. ASSUME NEW q \in Process, q # p
        PROVE  /\ pc'[q] \in {"run", "panic"} <=> cur'[q] = None
               /\ pc'[q] \in InIderw => lock'[cur'[q]] = q
               /\ pc'[q] \notin InIderw => \A j \in Bufs : cur'[q] = j => lock'[j] # q
    BY <1>2, <1>5, <2>1 DEF Calls
  <2> QED
    BY <1>2, <1>4, <1>6, <2>1 DEF Calls, InIderw
<1>9. OneCopy' /\ Counted'
  BY <1>2, <1>7 DEF OneCopy, Counted
<1>10. Loaded'
  <2>1. \A j \in Bufs : lock[j] # None => lock[j] \in Process
    BY DEF TypeOK
  <2>2. \A j \in Bufs : lock[j] # None => valid[j] \/ Waits(lock[j], j)'
    BY <1>2, <1>3, <1>5, <2>1 DEF Loaded, Waits, InIderw
  <2>3. \A j \in Bufs : dirty'[j] => valid[j]
    BY <1>3, <1>4 DEF Loaded
  <2> QED
    BY <1>2, <2>2, <2>3 DEF Loaded
<1>11. Requested' = Requested /\ Requested \subseteq Bufs
  BY <1>2 DEF Requested, TypeOK
<1>12. \A j \in Bufs : j # i => Done(j)' = Done(j)
  BY <1>2, <1>4 DEF Done
<1>13. ~Done(i)'
  BY <1>4 DEF Done
<1>14. QueueOwned'
  <2>1. \A q \in Process : /\ pc[q] \in {"iosleep", "iowoken"} => pc'[q] = pc[q] /\ cur'[q] = cur[q]
                           /\ pc'[q] \in {"iosleep", "locksleep"} => pc'[q] = pc[q] /\ cur'[q] = cur[q]
    BY <1>2, <1>5, <1>6
  <2> QED
    BY <1>2, <1>11, <2>1 DEF QueueOwned
<1>15. Queue'
  <2>1. \A j \in Requested : ~Done(j)'
    BY <1>3, <1>11, <1>12 DEF Queue
  <2>2. ASSUME NEW q \in Process, q # p
        PROVE  /\ pc'[q] = "iderw" => ~Done(cur[q])' /\ cur'[q] \notin Requested
               /\ pc'[q] = "iowoken" => cur'[q] \in Requested \/ Done(cur[q])'
    <3>1. pc[q] \in {"iderw", "iowoken"} => cur[q] \in Bufs \ {i}
      BY <1>2, <1>3, CurType DEF Calls, Waits, InIderw
    <3> QED
      BY <1>5, <1>12, <2>2, <3>1 DEF Queue
  <2> QED
    BY <1>2, <1>3, <1>6, <1>11, <1>13, <2>1, <2>2 DEF Queue
<1>16. Stored'
  <2>1. irq => Head(idequeue) \in Requested
    BY Served DEF Queue, TypeOK
  <2> QED
    BY <1>2, <1>3, <1>4, <1>11, <1>12, <1>13, <2>1 DEF Stored
<1> QED
  BY <1>1, <1>8, <1>9, <1>10, <1>14, <1>15, <1>16

\* The holder changes the buffer and leaves it to the log.
LEMMA LogWriteInv ==
  ASSUME IInv, NEW p \in Process, NEW i \in Bufs, LogWrite(p, i)
  PROVE  IInv'
<1> USE DEF IInv
<1>1. TypeOK'
  BY NextType DEF Next
<1>2. /\ pc[p] = "run" /\ lock[i] = p
      /\ dirty' = [dirty EXCEPT ![i] = TRUE]
      /\ UNCHANGED <<blockno, valid, refcnt, lock, lru, disk, idequeue, irq, pc, cur>>
  BY DEF LogWrite, ide, procs
<1>3. /\ valid[i] /\ i \notin Requested
      /\ \A q \in Process : ~Waits(q, i)
  BY <1>2, Holder
<1>4. /\ \A j \in Bufs : dirty'[j] = IF j = i THEN TRUE ELSE dirty[j]
      /\ \A j \in Bufs : j # i => data'[j] = data[j]
  BY <1>2 DEF TypeOK, LogWrite
<1>5. \A j \in Bufs : Users(j)' = Users(j)
  BY <1>2, SameUsers
<1>6. Calls' /\ OneCopy' /\ Counted'
  BY <1>2, <1>5 DEF Calls, OneCopy, Counted
<1>7. Loaded'
  BY <1>2, <1>3, <1>4 DEF Loaded, Waits
<1>8. Requested' = Requested /\ Requested \subseteq Bufs
  BY <1>2 DEF Requested, TypeOK
<1>9. /\ \A j \in Bufs : j # i => Done(j)' = Done(j)
      /\ ~Done(i)'
  BY <1>2, <1>4 DEF Done
<1>10. QueueOwned'
  BY <1>2, <1>8 DEF QueueOwned
<1>11. Queue'
  <2>1. \A q \in Process : pc[q] \in {"iderw", "iowoken"} => cur[q] \in Bufs \ {i}
    BY <1>3, CurType DEF Calls, Waits, InIderw
  <2> QED
    BY <1>2, <1>3, <1>8, <1>9, <2>1 DEF Queue
<1>12. Stored'
  <2>1. irq => Head(idequeue) \in Requested
    BY Served DEF Queue, TypeOK
  <2> QED
    BY <1>2, <1>3, <1>4, <1>8, <1>9, <2>1 DEF Stored
<1> QED
  BY <1>1, <1>6, <1>7, <1>10, <1>11, <1>12

\* The holder releases the lock; who waits for it tries again.
LEMMA ReleaseSleepInv ==
  ASSUME IInv, NEW p \in Process, NEW i \in Bufs, ReleaseSleep(p, i)
  PROVE  IInv'
<1> USE DEF IInv
<1>1. TypeOK'
  BY NextType DEF Next
<1>2. /\ pc[p] = "run" /\ lock[i] = p
      /\ lock' = [lock EXCEPT ![i] = None]
      /\ cur' = [cur EXCEPT ![p] = i]
      /\ UNCHANGED <<blockno, valid, dirty, refcnt, data, lru, disk, idequeue, irq>>
      /\ pc \in [Process -> Points] /\ cur \in [Process -> Bufs \cup {None}]
  BY CurType DEF ReleaseSleep, ide
<1>3. /\ valid[i] /\ i \notin Requested
      /\ \A q \in Process : ~Waits(q, i)
  BY <1>2, Holder
<1>4. /\ \A j \in Bufs : lock'[j] = IF j = i THEN None ELSE lock[j]
      /\ p # None /\ i # None
  BY <1>2, BufsType DEF TypeOK
<1>5. /\ \A q \in Process : q # p => cur'[q] = cur[q]
      /\ cur'[p] = i /\ pc'[p] = "brelse"
      /\ \A q \in Process : q # p =>
           pc'[q] = IF pc[q] = "locksleep" /\ cur[q] = i THEN "acquiresleep" ELSE pc[q]
  <2>1. "locksleep" \in Points /\ "acquiresleep" \in Points /\ "brelse" \in Points
    BY DEF Points
  <2> QED
    BY <1>2, <2>1, Woken DEF ReleaseSleep
<1>6. \A j \in Bufs : Users(j)' = Users(j)
  <2>1. ASSUME NEW j \in Bufs
        PROVE  Users(j)' = Users(j)
    <3>1. \A q \in Process : q # p => (q \in Users(j)' <=> q \in Users(j))
      BY <1>2, <1>4, <1>5 DEF Users
    <3>2. p \in Users(j)' <=> j = i \/ lock[j] = p
      BY <1>4, <1>5 DEF Users
    <3>3. p \in Users(j) <=> lock[j] = p
      BY <1>2 DEF Users
    <3> QED
      BY <1>2, <3>1, <3>2, <3>3 DEF Users
  <2> QED
    BY <2>1
<1>7. Calls'
  <2>1. ASSUME NEW q \in Process, q # p
        PROVE  /\ pc'[q] \in {"run", "panic"} <=> cur'[q] = None
               /\ pc'[q] \in InIderw => lock'[cur'[q]] = q
               /\ pc'[q] \notin InIderw => \A j \in Bufs : cur'[q] = j => lock'[j] # q
    <3>1. pc[q] \in InIderw => cur[q] \in Bufs /\ cur[q] # i
      BY <1>3, CurType DEF Calls, Waits, InIderw
    <3>2. q # None
      OBVIOUS
    <3>3. /\ pc'[q] \in {"run", "panic"} <=> pc[q] \in {"run", "panic"}
          /\ pc'[q] \in InIderw <=> pc[q] \in InIderw
      BY <1>5, <2>1 DEF InIderw
    <3> QED
      BY <1>4, <1>5, <2>1, <3>1, <3>2, <3>3 DEF Calls
  <2> QED
    BY <1>4, <1>5, <2>1 DEF Calls, InIderw
<1>8. OneCopy' /\ Counted'
  BY <1>2, <1>6 DEF OneCopy, Counted
<1>9. Loaded'
  <2>1. \A j \in Bufs : lock[j] # None => lock[j] \in Process
    BY DEF TypeOK
  <2>2. \A j \in Bufs : lock'[j] # None => j # i /\ lock'[j] = lock[j]
    BY <1>4
  <2>3. \A j \in Bufs, q \in Process : Waits(q, j) => Waits(q, j)'
    BY <1>2, <1>5 DEF Waits, InIderw
  <2> QED
    BY <1>2, <2>1, <2>2, <2>3 DEF Loaded, Waits
<1>10. Requested' = Requested /\ Requested \subseteq Bufs
  BY <1>2 DEF Requested, TypeOK
<1>11. \A j \in Bufs : Done(j)' = Done(j)
  BY <1>2 DEF Done
<1>12. QueueOwned'
  <2>1. \A q \in Process : pc[q] \in {"iosleep", "iowoken"} =>
                             pc'[q] = pc[q] /\ cur'[q] = cur[q] /\ q # p
    BY <1>2, <1>5
  <2>2. \A j \in Requested : lock'[j] = lock[j]
    BY <1>3, <1>4, <1>10
  <2>3. \A q \in Process : pc'[q] = "iosleep" => pc[q] = "iosleep" /\ cur'[q] = cur[q]
    BY <1>5
  <2>4. \A q \in Process : pc'[q] = "locksleep" =>
          pc[q] = "locksleep" /\ cur'[q] = cur[q] /\ cur[q] \in Bufs \ {i}
    BY <1>5, CurType DEF Calls
  <2> QED
    BY <1>2, <1>4, <1>10, <2>1, <2>2, <2>3, <2>4 DEF QueueOwned
<1>13. Queue'
  <2>1. \A q \in Process : pc'[q] \in {"iderw", "iowoken"} =>
          pc'[q] = pc[q] /\ cur'[q] = cur[q] /\ cur[q] \in Bufs
    BY <1>5, CurType DEF Calls
  <2> QED
    BY <1>2, <1>10, <1>11, <2>1 DEF Queue
<1>14. Stored'
  BY <1>2, <1>11 DEF Stored
<1> QED
  BY <1>1, <1>7, <1>8, <1>9, <1>12, <1>13, <1>14

\* brelse gives the reference back.
LEMMA BrelseInv ==
  ASSUME IInv, NEW p \in Process, Brelse(p)
  PROVE  IInv'
<1> USE DEF IInv
<1>1. TypeOK'
  BY NextType DEF Next
<1>2. PICK i \in Bufs : i = cur[p]
  BY CurType DEF Brelse, Calls
<1>3. /\ pc[p] = "brelse" /\ pc' = [pc EXCEPT ![p] = "run"]
      /\ cur' = [cur EXCEPT ![p] = None]
      /\ refcnt' = [refcnt EXCEPT ![i] = @ - 1]
      /\ UNCHANGED <<blockno, valid, dirty, data, lock, disk, idequeue, irq>>
      /\ pc \in [Process -> Points] /\ cur \in [Process -> Bufs \cup {None}]
  BY <1>2, CurType DEF Brelse, Goto, ide
<1>4. /\ \A q \in Process : q # p => pc'[q] = pc[q] /\ cur'[q] = cur[q]
      /\ pc'[p] = "run" /\ cur'[p] = None /\ i # None
  BY <1>3, BufsType
<1>5. lock[i] # p
  BY <1>2, <1>3 DEF Calls, InIderw
<1>6. p \in Users(i)
  BY <1>2, <1>3 DEF Users
<1>7. \A j \in Bufs : Users(j)' = IF j = i THEN Users(j) \ {p} ELSE Users(j)
  <2>1. ASSUME NEW j \in Bufs
        PROVE  Users(j)' = IF j = i THEN Users(j) \ {p} ELSE Users(j)
    <3>1. \A q \in Process : q # p => (q \in Users(j)' <=> q \in Users(j))
      BY <1>3, <1>4 DEF Users
    <3>2. p \in Users(j)' <=> lock[j] = p
      BY <1>3, <1>4 DEF Users
    <3>3. p \in Users(j) <=> j = i \/ lock[j] = p
      BY <1>2, <1>3 DEF Users
    <3> QED
      BY <1>5, <3>1, <3>2, <3>3 DEF Users
  <2> QED
    BY <2>1
<1>8. Calls'
  <2>1. ASSUME NEW q \in Process, q # p
        PROVE  /\ pc'[q] \in {"run", "panic"} <=> cur'[q] = None
               /\ pc'[q] \in InIderw => lock'[cur'[q]] = q
               /\ pc'[q] \notin InIderw => \A j \in Bufs : cur'[q] = j => lock'[j] # q
    BY <1>3, <1>4, <2>1 DEF Calls
  <2> QED
    BY <1>4, <2>1, BufsType DEF Calls, InIderw
<1>9. OneCopy'
  BY <1>3 DEF OneCopy
<1>10. Counted'
  <2>1. \A j \in Bufs : refcnt'[j] = IF j = i THEN refcnt[i] - 1 ELSE refcnt[j]
    BY <1>3 DEF TypeOK
  <2>2. /\ IsFiniteSet(Users(i) \ {p})
        /\ Cardinality(Users(i) \ {p}) = Cardinality(Users(i)) - 1
    BY <1>6, FS_RemoveElement DEF Counted
  <2> QED
    BY <1>3, <1>7, <2>1, <2>2 DEF Counted
<1>11. Loaded'
  <2>1. \A j \in Bufs : lock[j] # None => lock[j] \in Process
    BY DEF TypeOK
  <2>2. \A j \in Bufs, q \in Process : Waits(q, j) => Waits(q, j)'
    BY <1>3, <1>4 DEF Waits, InIderw
  <2> QED
    BY <1>3, <2>1, <2>2 DEF Loaded, Waits
<1>12. Requested' = Requested /\ \A j \in Bufs : Done(j)' = Done(j)
  BY <1>3 DEF Requested, Done
<1>13. QueueOwned'
  <2>1. \A q \in Process : /\ pc[q] \in {"iosleep", "iowoken"} => pc'[q] = pc[q] /\ cur'[q] = cur[q]
                           /\ pc'[q] \in {"iosleep", "locksleep"} => pc'[q] = pc[q] /\ cur'[q] = cur[q]
    BY <1>3, <1>4
  <2> QED
    BY <1>3, <1>12, <2>1 DEF QueueOwned
<1>14. Queue'
  <2>1. \A q \in Process : pc'[q] \in {"iderw", "iowoken"} =>
          pc'[q] = pc[q] /\ cur'[q] = cur[q] /\ cur[q] \in Bufs
    BY <1>4, CurType DEF Calls
  <2>2. Requested \subseteq Bufs
    BY DEF Requested, TypeOK
  <2> QED
    BY <1>3, <1>12, <2>1, <2>2 DEF Queue
<1>15. Stored'
  BY <1>3, <1>12 DEF Stored
<1> QED
  BY <1>1, <1>8, <1>9, <1>10, <1>11, <1>13, <1>14, <1>15

\* A request is appended; the process sleeps until it is done.
LEMMA IderwInv ==
  ASSUME IInv, NEW p \in Process, Iderw(p)
  PROVE  IInv'
<1> USE DEF IInv
<1>1. TypeOK'
  BY NextType DEF Next
<1>2. PICK i \in Bufs : i = cur[p]
  BY CurType DEF Iderw, Calls
<1>3. pc[p] = "iderw" /\ lock[i] = p /\ ~Done(i) /\ i \notin Requested
  BY <1>2 DEF Iderw, Calls, Queue, InIderw
<1>4. /\ pc' = [pc EXCEPT ![p] = "iosleep"]
      /\ idequeue' = Append(idequeue, i)
      /\ UNCHANGED <<blockno, valid, dirty, refcnt, data, lock, lru, disk, irq, cur>>
      /\ pc \in [Process -> Points]
  BY <1>2, <1>3, CurType DEF Iderw, GoOn, Goto, bufs
<1>5. /\ \A q \in Process : q # p => pc'[q] = pc[q]
      /\ pc'[p] = "iosleep"
  BY <1>4
<1>6. /\ idequeue' # <<>>
      /\ Requested' = Requested \cup {i}
      /\ idequeue # <<>> => Head(idequeue') = Head(idequeue)
      /\ \A j, k \in DOMAIN idequeue' : idequeue'[j] = idequeue'[k] => j = k
  <2>1. idequeue \in Seq(Bufs)
        /\ \A j, k \in DOMAIN idequeue : idequeue[j] = idequeue[k] => j = k
    BY DEF TypeOK, QueueOwned
  <2> QED
    BY <1>3, <1>4, <2>1, Appended
<1>7. \A j \in Bufs : Users(j)' = Users(j)
  BY <1>3, <1>4, <1>5, SameUsers
<1>8. \A q \in Process : /\ pc'[q] \in InIderw <=> pc[q] \in InIderw
                         /\ pc'[q] \in {"run", "panic"} <=> pc[q] \in {"run", "panic"}
  BY <1>3, <1>5 DEF InIderw
<1>9. Calls'
  BY <1>4, <1>8 DEF Calls
<1>10. OneCopy' /\ Counted'
  BY <1>4, <1>7 DEF OneCopy, Counted
<1>11. Loaded'
  <2>1. \A j \in Bufs : lock[j] # None => lock[j] \in Process
    BY DEF TypeOK
  <2> QED
    BY <2>1, <1>4, <1>8 DEF Loaded, Waits
<1>12. \A j \in Bufs : Done(j)' = Done(j)
  BY <1>4 DEF Done
<1>13. Requested \subseteq Bufs
  BY DEF Requested, TypeOK
<1>14. QueueOwned'
  <2>1. \A j \in Requested : \E q \in Process :
          lock[j] = q /\ cur[q] = j /\ pc'[q] \in {"iosleep", "iowoken"}
    BY <1>5 DEF QueueOwned
  <2>2. lock[i] = p /\ cur[p] = i /\ pc'[p] \in {"iosleep", "iowoken"}
    BY <1>2, <1>3, <1>5
  <2>3. \A q \in Process : /\ pc'[q] = "iosleep" => cur[q] \in Requested'
                           /\ pc'[q] = "locksleep" => lock[cur[q]] # None
    BY <1>2, <1>5, <1>6 DEF QueueOwned
  <2> QED
    BY <1>4, <1>6, <2>1, <2>2, <2>3 DEF QueueOwned
<1>15. Queue'
  <2>1. \A j \in Requested' : ~Done(j)'
    BY <1>3, <1>6, <1>12, <1>13 DEF Queue
  <2>2. ASSUME NEW q \in Process
        PROVE  /\ pc'[q] = "iderw" => ~Done(cur[q])' /\ cur[q] \notin Requested'
               /\ pc'[q] = "iowoken" => cur[q] \in Requested' \/ Done(cur[q])'
    <3>1. pc'[q] \in {"iderw", "iowoken"} => pc'[q] = pc[q] /\ q # p /\ cur[q] \in Bufs
      BY <1>5, CurType DEF Calls
    <3>2. pc'[q] = "iderw" => cur[q] # i
      BY <1>3, <3>1 DEF Calls, InIderw
    <3> QED
      BY <1>4, <1>6, <1>12, <3>1, <3>2 DEF Queue
  <2> QED
    BY <1>4, <1>6, <2>1, <2>2 DEF Queue
<1>16. Stored'
  <2>1. irq => idequeue # <<>> /\ Head(idequeue) \in Bufs
    BY <1>13, Served DEF Queue, TypeOK
  <2> QED
    BY <1>4, <1>6, <1>12, <2>1 DEF Stored
<1> QED
  BY <1>1, <1>9, <1>10, <1>11, <1>14, <1>15, <1>16

\* A process that is woken goes on when its request is done.
LEMMA IderwWokenInv ==
  ASSUME IInv, NEW p \in Process, IderwWoken(p)
  PROVE  IInv'
<1> USE DEF IInv
<1>1. TypeOK'
  BY NextType DEF Next
<1>2. PICK i \in Bufs : i = cur[p]
  BY CurType DEF IderwWoken, Calls
<1>3. /\ pc[p] = "iowoken"
      /\ pc' = [pc EXCEPT ![p] = IF Done(i) THEN "run" ELSE "iosleep"]
      /\ cur' = IF Done(i) THEN [cur EXCEPT ![p] = None] ELSE cur
      /\ UNCHANGED <<blockno, valid, dirty, refcnt, data, lock, lru, disk, idequeue, irq>>
      /\ pc \in [Process -> Points] /\ cur \in [Process -> Bufs \cup {None}]
  BY <1>2, CurType DEF IderwWoken, GoOn, Goto, bufs, ide
<1>4. /\ \A q \in Process : q # p => pc'[q] = pc[q] /\ cur'[q] = cur[q]
      /\ pc'[p] = IF Done(i) THEN "run" ELSE "iosleep"
      /\ cur'[p] = IF Done(i) THEN None ELSE i
  BY <1>2, <1>3
<1>5. \A j \in Bufs : Users(j)' = Users(j)
  BY <1>3, <1>4, SameUsers
<1>6. Calls'
  <2>1. ASSUME NEW q \in Process, q # p
        PROVE  /\ pc'[q] \in {"run", "panic"} <=> cur'[q] = None
               /\ pc'[q] \in InIderw => lock'[cur'[q]] = q
               /\ pc'[q] \notin InIderw => \A j \in Bufs : cur'[q] = j => lock'[j] # q
    BY <1>3, <1>4, <2>1 DEF Calls
  <2> QED
    BY <1>2, <1>3, <1>4, <2>1, BufsType DEF Calls, InIderw
<1>7. OneCopy' /\ Counted'
  BY <1>3, <1>5 DEF OneCopy, Counted
<1>8. \A j \in Bufs : Done(j)' = Done(j)
  BY <1>3 DEF Done
<1>9. Loaded'
  <2>1. \A j \in Bufs : lock[j] # None => lock[j] \in Process
    BY DEF TypeOK
  <2>2. \A j \in Bufs, q \in Process : Waits(q, j) => Waits(q, j)' \/ valid[j]
    BY <1>2, <1>3, <1>4 DEF Waits, InIderw, Done
  <2> QED
    BY <1>3, <2>1, <2>2 DEF Loaded, Waits
<1>10. Requested' = Requested /\ Requested \subseteq Bufs
  BY <1>3 DEF Requested, TypeOK
<1>11. QueueOwned'
  <2>1. Done(i) \/ i \in Requested
    BY <1>2, <1>3 DEF Queue
  <2>2. \A q \in Process : pc[q] \in {"iosleep", "iowoken"} /\ cur[q] \in Requested =>
                             pc'[q] \in {"iosleep", "iowoken"} /\ cur'[q] = cur[q]
    BY <1>2, <1>4 DEF Queue
  <2>3. \A q \in Process : pc'[q] = "iosleep" => cur'[q] \in Requested
    BY <1>4, <2>1 DEF QueueOwned
  <2>4. \A q \in Process : pc'[q] = "locksleep" => pc[q] = "locksleep" /\ cur'[q] = cur[q]
    BY <1>4
  <2> QED
    BY <1>3, <1>10, <2>2, <2>3, <2>4 DEF QueueOwned
<1>12. Queue'
  <2>1. \A q \in Process : pc'[q] \in {"iderw", "iowoken"} =>
          pc'[q] = pc[q] /\ cur'[q] = cur[q] /\ cur[q] \in Bufs
    BY <1>4, CurType DEF Calls
  <2> QED
    BY <1>3, <1>8, <1>10, <2>1 DEF Queue
<1>13. Stored'
  BY <1>3, <1>8 DEF Stored
<1> QED
  BY <1>1, <1>6, <1>7, <1>9, <1>11, <1>12, <1>13

\* The disk writes the buffer at the head, if it is dirty.
LEMMA DiskDoneInv ==
  ASSUME IInv, DiskDone
  PROVE  IInv'
<1> USE DEF IInv
<1>1. TypeOK'
  BY NextType DEF Next
<1>2. PICK i \in Bufs : i = Head(idequeue) /\ i \in Requested /\ idequeue # <<>>
  BY Served DEF DiskDone, TypeOK
<1>3. /\ disk' = IF dirty[i] THEN [disk EXCEPT ![blockno[i]] = data[i]] ELSE disk
      /\ UNCHANGED <<blockno, valid, dirty, refcnt, data, lock, lru, idequeue, pc, cur>>
  BY <1>2 DEF DiskDone, bufs, procs
<1>4. \A j \in Bufs : Users(j)' = Users(j)
  BY <1>3, SameUsers
<1>5. Calls' /\ OneCopy' /\ Counted' /\ Loaded'
  BY <1>3, <1>4 DEF Calls, OneCopy, Counted, Loaded, Waits
<1>6. Requested' = Requested /\ Requested \subseteq Bufs
  BY <1>3 DEF Requested, TypeOK
<1>7. \A j \in Bufs : Done(j)' = Done(j)
  BY <1>3 DEF Done
<1>8. QueueOwned'
  BY <1>3, <1>6 DEF QueueOwned
<1>9. Queue'
  <2>1. \A q \in Process : pc[q] \in {"iderw", "iowoken"} => cur[q] \in Bufs
    BY CurType DEF Calls
  <2> QED
    BY <1>2, <1>3, <1>6, <1>7, <2>1 DEF Queue
<1>10. Stored'
  <2>1. blockno[i] \in Block
    <3>1. Users(i) # {}
      BY <1>2 DEF QueueOwned, Users
    <3> QED
      BY <3>1, InUse
  <2>2. \A j \in Bufs : Done(j) => j # i
    BY <1>2 DEF Queue
  <2>3. \A j \in Bufs : Done(j) => blockno[j] # blockno[i]
    BY <2>1, <2>2 DEF OneCopy
  <2>4. \A j \in Bufs : Done(j) => disk'[blockno[j]] = disk[blockno[j]]
    BY <1>3, <2>3 DEF TypeOK
  <2>5. dirty[i] => disk'[blockno[i]] = data[i]
    BY <1>3, <2>1 DEF TypeOK
  <2> QED
    BY <1>2, <1>3, <1>7, <2>4, <2>5 DEF Stored
<1> QED
  BY <1>1, <1>5, <1>8, <1>9, <1>10

\* The interrupt: the buffer is what the disk has, and its process is woken.
LEMMA IdeintrInv ==
  ASSUME IInv, Ideintr
  PROVE  IInv'
<1> USE DEF IInv
<1>1. TypeOK'
  BY NextType DEF Next
<1>2. PICK i \in Bufs : i = Head(idequeue) /\ i \in Requested /\ idequeue # <<>>
  BY Served DEF Ideintr, TypeOK, Queue
<1>3. /\ data' = IF dirty[i] THEN data ELSE [data EXCEPT ![i] = disk[blockno[i]]]
      /\ valid' = [valid EXCEPT ![i] = TRUE]
      /\ dirty' = [dirty EXCEPT ![i] = FALSE]
      /\ irq /\ irq' = FALSE
      /\ UNCHANGED <<blockno, refcnt, lock, lru, disk, cur>>
  BY <1>2 DEF Ideintr
<1>4. /\ Requested' = Requested \ {i} /\ Requested \subseteq Bufs
      /\ \A j, k \in DOMAIN idequeue' : idequeue'[j] = idequeue'[k] => j = k
  BY <1>2, Served DEF Ideintr, TypeOK, QueueOwned
<1>5. \A q \in Process :
        pc'[q] = IF pc[q] = "iosleep" /\ cur[q] = i THEN "iowoken" ELSE pc[q]
  <2>1. "iosleep" \in Points /\ "iowoken" \in Points /\ "run" \in Points
    BY DEF Points
  <2>2. WakeGoto(i, "iosleep", "iowoken", None, "run")
    BY <1>2 DEF Ideintr
  <2>3. \A q \in Process : q # None
    OBVIOUS
  <2> QED
    BY <2>1, <2>2, <2>3, Woken
<1>6. /\ \A j \in Bufs : valid'[j] = IF j = i THEN TRUE ELSE valid[j]
      /\ \A j \in Bufs : dirty'[j] = IF j = i THEN FALSE ELSE dirty[j]
      /\ \A j \in Bufs : j # i => data'[j] = data[j]
      /\ ~dirty[i] => data'[i] = disk[blockno[i]]
      /\ dirty[i] => data'[i] = data[i]
  BY <1>3 DEF TypeOK
<1>7. PICK h \in Process : lock[i] = h /\ cur[h] = i /\ pc[h] \in {"iosleep", "iowoken"}
  BY <1>2 DEF QueueOwned
<1>8. blockno[i] \in Block
  BY <1>7, InUse DEF Users
<1>9. \A q \in Process : /\ pc'[q] \in InIderw <=> pc[q] \in InIderw
                         /\ pc'[q] \in {"run", "panic"} <=> pc[q] \in {"run", "panic"}
  BY <1>5 DEF InIderw
<1>10. \A j \in Bufs : Users(j)' = Users(j)
  <2>1. \A q \in Process :
          \/ pc'[q] = pc[q] /\ cur'[q] = cur[q]
          \/ /\ pc[q] \notin {"acquiresleep", "locksleep", "brelse"}
             /\ pc'[q] \notin {"acquiresleep", "locksleep", "brelse"}
    BY <1>3, <1>5
  <2> QED
    BY <1>3, <2>1, SameUsers
<1>11. Calls'
  BY <1>3, <1>9 DEF Calls
<1>12. OneCopy' /\ Counted'
  BY <1>3, <1>6, <1>8, <1>10, BufsType DEF OneCopy, Counted
<1>13. Loaded'
  <2>1. \A j \in Bufs : lock[j] # None => lock[j] \in Process
    BY DEF TypeOK
  <2> QED
    BY <2>1, <1>3, <1>6, <1>9 DEF Loaded, Waits
<1>14. \A j \in Bufs : j # i => (Done(j)' <=> Done(j))
  BY <1>6 DEF Done
<1>15. Done(i)'
  BY <1>6 DEF Done
<1>16. QueueOwned'
  <2>1. \A j \in Requested' : \E q \in Process :
          lock[j] = q /\ cur[q] = j /\ pc'[q] \in {"iosleep", "iowoken"}
    BY <1>4, <1>5 DEF QueueOwned
  <2>2. \A q \in Process : pc'[q] = "iosleep" => cur[q] \in Requested'
    BY <1>4, <1>5 DEF QueueOwned
  <2>3. \A q \in Process : pc'[q] = "locksleep" => lock[cur[q]] # None
    BY <1>5 DEF QueueOwned
  <2> QED
    BY <1>3, <1>4, <2>1, <2>2, <2>3 DEF QueueOwned
<1>17. Queue'
  <2>1. \A j \in Requested' : ~Done(j)'
    BY <1>4, <1>14 DEF Queue
  <2>2. ASSUME NEW q \in Process
        PROVE  /\ pc'[q] = "iderw" => ~Done(cur[q])' /\ cur[q] \notin Requested'
               /\ pc'[q] = "iowoken" => cur[q] \in Requested' \/ Done(cur[q])'
    <3>1. pc'[q] \in {"iderw", "iowoken"} => cur[q] \in Bufs
      BY <1>5, CurType DEF Calls
    <3>2. CASE cur[q] = i
      <4>1. pc'[q] # "iderw"
        BY <1>2, <1>5, <3>2 DEF Queue
      <4>2. Done(cur[q])'
        BY <1>3, <1>15, <3>2
      <4> QED
        BY <4>1, <4>2
    <3>3. CASE cur[q] # i
      <4>1. pc'[q] \in {"iderw", "iowoken"} => (Done(cur[q])' <=> Done(cur[q]))
        BY <1>3, <1>14, <3>1, <3>3
      <4>2. pc'[q] = pc[q]
        BY <1>5, <3>3
      <4> QED
        BY <1>4, <3>3, <4>1, <4>2 DEF Queue
    <3> QED
      BY <3>2, <3>3
  <2> QED
    BY <1>3, <2>1, <2>2 DEF Queue
<1>18. Stored'
  <2>1. data'[i] = disk[blockno[i]]
    BY <1>2, <1>3, <1>6 DEF Stored
  <2>2. \A j \in Bufs : Done(j)' => data'[j] = disk[blockno[j]]
    BY <1>6, <1>14, <2>1 DEF Stored
  <2> QED
    BY <1>3, <2>2 DEF Stored
<1> QED
  BY <1>1, <1>11, <1>12, <1>13, <1>16, <1>17, <1>18

----------------------------------------------------------------------------
(* Safety. *)

LEMMA StepIInv == IInv /\ [Next]_vars => IInv'
<1> SUFFICES ASSUME IInv, [Next]_vars PROVE IInv'
  OBVIOUS
<1>1. ASSUME NEW p \in Process, NEW b \in Block,
             BgetHit(p, b) \/ BgetRecycle(p, b) \/ BgetPanic(p, b)
      PROVE  IInv'
  BY <1>1, BgetHitInv, BgetRecycleInv, BgetPanicInv
<1>2. ASSUME NEW p \in Process,
             \/ AcquireSleep(p) \/ LockSleep(p) \/ Killed(p)
             \/ Brelse(p) \/ Iderw(p) \/ IderwWoken(p)
      PROVE  IInv'
  BY <1>2, AcquireSleepInv, LockSleepInv, BrelseInv, IderwInv, IderwWokenInv
<1>3. ASSUME NEW p \in Process, NEW i \in Bufs,
             Bwrite(p, i) \/ LogWrite(p, i) \/ ReleaseSleep(p, i)
      PROVE  IInv'
  BY <1>3, BwriteInv, LogWriteInv, ReleaseSleepInv
<1>4. CASE DiskDone \/ Ideintr
  BY <1>4, DiskDoneInv, IdeintrInv
<1>5. CASE UNCHANGED vars
  <2>1. UNCHANGED <<blockno, valid, dirty, refcnt, data, lock, lru, disk, idequeue,
                    irq, pc, cur>>
    BY <1>5 DEF vars, bufs, ide, procs
  <2>2. TypeOK' /\ OneCopy' /\ Calls'
    BY <2>1 DEF IInv, TypeOK, OneCopy, Calls
  <2>3. Counted' /\ Loaded'
    BY <2>1 DEF IInv, Counted, Users, Loaded, Waits
  <2>4. Requested' = Requested
    BY <2>1 DEF Requested
  <2>5. QueueOwned'
    BY <2>1, <2>4 DEF IInv, QueueOwned
  <2>6. Queue' /\ Stored'
    BY <2>1, <2>4 DEF IInv, Queue, Done, Stored
  <2> QED
    BY <2>2, <2>3, <2>5, <2>6 DEF IInv
<1> QED
  BY <1>1, <1>2, <1>3, <1>4, <1>5 DEF Next, Panic

THEOREM Invariance == Spec => []IInv
<1> QED
  BY InitIInv, StepIInv, PTL DEF Spec

\* A block is in one buffer at most, although the processes that miss it at
\* the same time each look for a buffer to recycle.
THEOREM BlockHasOneCopy == Spec => []OneCopy
<1>1. IInv => OneCopy
  BY DEF IInv
<1> QED
  BY <1>1, Invariance, PTL

\* A request in the disk's queue has one waiting owner, and who sleeps in the
\* driver or for a buffer has something to be woken by.
THEOREM RequestsHaveOwners == Spec => []QueueOwned
<1>1. IInv => QueueOwned
  BY DEF IInv
<1> QED
  BY <1>1, Invariance, PTL

----------------------------------------------------------------------------
(* The list, and the buffers that the log leaves dirty. *)

LEMMA InitListed == Init => Listed
<1>1. \A k \in Bufs : NBUF + 1 - k \in Bufs /\ NBUF + 1 - (NBUF + 1 - k) = k
  BY DEF Bufs
<1> QED
  BY <1>1 DEF Init, Listed

LEMMA StepListed ==
  ASSUME IInv, Listed, [Next]_vars
  PROVE  Listed'
<1>1. CASE UNCHANGED lru
  BY <1>1 DEF Listed
<1>2. ASSUME NEW p \in Process, Brelse(p)
      PROVE  Listed'
  <2>1. lru \in [Bufs -> Bufs] /\ cur[p] \in Bufs
    <3>1. lru \in [Bufs -> Bufs]
      BY DEF IInv, TypeOK
    <3>2. cur[p] \in Bufs
      BY <1>2, CurType DEF IInv, Calls, Brelse
    <3> QED
      BY <3>1, <3>2
  <2>2. lru' = MovedToFront(cur[p]) \/ lru' = lru
    BY <1>2 DEF Brelse
  <2> QED
    BY <1>1, <2>1, <2>2, ListMoved
<1>3. CASE Next /\ ~\E p \in Process : Brelse(p)
  <2>1. UNCHANGED lru
    BY <1>3 DEF Next, DiskDone, Ideintr, BgetHit, BgetRecycle, BgetPanic, AcquireSleep,
       LockSleep, Killed, Bwrite, LogWrite, ReleaseSleep, Iderw, IderwWoken, Panic,
       vars, bufs
  <2> QED
    BY <1>1, <2>1
<1> QED
  BY <1>1, <1>2, <1>3 DEF vars, bufs

\* Only log_write leaves a buffer dirty.
LEMMA PinnedStep ==
  ASSUME IInv, [Next]_vars
  PROVE  \/ Pinned' \subseteq Pinned
         \/ /\ Cardinality(Pinned) < MaxPinned
            /\ \E i \in Bufs : Pinned' \subseteq Pinned \cup {i}
<1> USE DEF IInv
<1>1. ASSUME \A i \in Bufs : dirty'[i] => dirty[i],
             \A q \in Process :
               pc[q] \in InIderw => \/ pc'[q] \in InIderw /\ cur'[q] = cur[q]
                                    \/ ~dirty'[cur[q]]
      PROVE  Pinned' \subseteq Pinned
  BY <1>1 DEF Pinned
<1>2. ASSUME NEW p \in Process, NEW b \in Block,
             BgetHit(p, b) \/ BgetRecycle(p, b) \/ BgetPanic(p, b)
      PROVE  Pinned' \subseteq Pinned
  <2>1. \A i \in Bufs : dirty'[i] => dirty[i]
    BY <1>2 DEF BgetHit, BgetRecycle, BgetPanic, bufs, TypeOK
  <2>2. \A q \in Process : pc[q] \in InIderw => pc'[q] \in InIderw /\ cur'[q] = cur[q]
    BY <1>2, CurType
       DEF BgetHit, BgetRecycle, BgetPanic, MayBread, Goto, InIderw
  <2> QED
    BY <1>1, <2>1, <2>2
<1>3. ASSUME NEW p \in Process, AcquireSleep(p) \/ LockSleep(p) \/ Killed(p) \/ Brelse(p)
      PROVE  Pinned' \subseteq Pinned
  <2>1. UNCHANGED dirty
    BY <1>3 DEF AcquireSleep, LockSleep, Killed, Brelse, bufs
  <2>2. \A q \in Process : pc[q] \in InIderw => pc'[q] \in InIderw /\ cur'[q] = cur[q]
    BY <1>3, CurType DEF AcquireSleep, LockSleep, Killed, Brelse, GoOn, Goto, InIderw
  <2> QED
    BY <1>1, <2>1, <2>2
<1>4. ASSUME NEW p \in Process, Iderw(p) \/ IderwWoken(p)
      PROVE  Pinned' \subseteq Pinned
  <2>1. UNCHANGED dirty
    BY <1>4 DEF Iderw, IderwWoken, bufs
  <2>2. ASSUME NEW q \in Process, pc[q] \in InIderw
        PROVE  \/ pc'[q] \in InIderw /\ cur'[q] = cur[q]
               \/ ~dirty[cur[q]]
    BY <1>4, <2>2, CurType DEF Iderw, IderwWoken, GoOn, Goto, InIderw, Done
  <2> QED
    BY <1>1, <2>1, <2>2
<1>5. ASSUME NEW p \in Process, NEW i \in Bufs, Bwrite(p, i)
      PROVE  Pinned' \subseteq Pinned
  <2>1. /\ dirty' = [dirty EXCEPT ![i] = TRUE] /\ cur'[p] = i /\ pc'[p] = "iderw"
        /\ pc[p] = "run"
        /\ \A q \in Process : q # p => pc'[q] = pc[q] /\ cur'[q] = cur[q]
    BY <1>5, CurType DEF Bwrite, Goto
  <2>2. i \notin Pinned'
    BY <2>1 DEF Pinned, InIderw
  <2>3. \A j \in Bufs \ {i} : j \in Pinned' => j \in Pinned
    BY <2>1 DEF Pinned, InIderw, TypeOK
  <2> QED
    BY <2>2, <2>3 DEF Pinned
<1>6. ASSUME NEW p \in Process, NEW i \in Bufs, LogWrite(p, i)
      PROVE  /\ Pinned' \subseteq Pinned \cup {i}
             /\ i \in Pinned \/ Cardinality(Pinned) < MaxPinned
  BY <1>6 DEF LogWrite, Pinned, procs, TypeOK
<1>7. ASSUME NEW p \in Process, NEW i \in Bufs, ReleaseSleep(p, i)
      PROVE  Pinned' \subseteq Pinned
  <2>1. /\ pc[p] = "run" /\ UNCHANGED dirty
        /\ \A q \in Process : q # p => cur'[q] = cur[q]
    BY <1>7, CurType DEF ReleaseSleep
  <2>2. \A q \in Process : q # p =>
          pc'[q] = IF pc[q] = "locksleep" /\ cur[q] = i THEN "acquiresleep" ELSE pc[q]
    <3>1. "locksleep" \in Points /\ "acquiresleep" \in Points /\ "brelse" \in Points
      BY DEF Points
    <3> QED
      BY <1>7, <3>1, Woken DEF ReleaseSleep
  <2> QED
    BY <1>1, <2>1, <2>2 DEF InIderw
<1>8. CASE DiskDone
  BY <1>8 DEF DiskDone, bufs, procs, Pinned
<1>9. CASE Ideintr
  <2>1. Head(idequeue) \in Bufs /\ dirty' = [dirty EXCEPT ![Head(idequeue)] = FALSE]
        /\ UNCHANGED cur
    BY <1>9, Served DEF Ideintr, TypeOK, Queue
  <2>2. \A q \in Process : pc[q] \in InIderw => pc'[q] \in InIderw
    <3>1. "iosleep" \in Points /\ "iowoken" \in Points /\ "run" \in Points
      BY DEF Points
    <3>2. \A q \in Process : q # None
      OBVIOUS
    <3> QED
      BY <1>9, <2>1, <3>1, <3>2, Woken DEF Ideintr, InIderw
  <2> QED
    BY <1>1, <2>1, <2>2 DEF TypeOK
<1>10. CASE UNCHANGED vars
  BY <1>10 DEF vars, bufs, procs, Pinned
<1> QED
  BY <1>2, <1>3, <1>4, <1>5, <1>6, <1>7, <1>8, <1>9, <1>10 DEF Next, Panic

LEMMA StepPinned ==
  ASSUME IInv, Cardinality(Pinned) <= MaxPinned, [Next]_vars
  PROVE  Cardinality(Pinned)' <= MaxPinned
<1>1. IsFiniteSet(Pinned) /\ Cardinality(Pinned) \in Nat
      /\ IsFiniteSet(Pinned') /\ Cardinality(Pinned') \in Nat
  BY BufsType, FS_Subset, FS_CardinalityType DEF Pinned
<1>2. CASE Pinned' \subseteq Pinned
  <2>1. Cardinality(Pinned') <= Cardinality(Pinned)
    BY <1>1, <1>2, FS_Subset
  <2> QED
    BY <1>1, <2>1
<1>3. ASSUME Cardinality(Pinned) < MaxPinned,
             NEW i \in Bufs, Pinned' \subseteq Pinned \cup {i}
      PROVE  Cardinality(Pinned)' <= MaxPinned
  <2>1. IsFiniteSet(Pinned \cup {i})
        /\ Cardinality(Pinned \cup {i}) \in Nat
        /\ Cardinality(Pinned \cup {i}) <= Cardinality(Pinned) + 1
    <3>1. /\ IsFiniteSet(Pinned \cup {i})
          /\ Cardinality(Pinned \cup {i}) = IF i \in Pinned THEN Cardinality(Pinned)
                                                        ELSE Cardinality(Pinned) + 1
      BY <1>1, FS_AddElement
    <3> QED
      BY <1>1, <3>1
  <2>2. Cardinality(Pinned') <= Cardinality(Pinned \cup {i})
    BY <1>3, <2>1, FS_Subset
  <2> QED
    BY <1>1, <1>3, <2>1, <2>2
<1> QED
  BY <1>2, <1>3, PinnedStep

\* refcnt counts the processes that use a buffer or wait for it, the list is
\* complete, and only the log or a request in progress keeps a buffer dirty: the
\* three facts that bget's choice of a victim rests on.
THEOREM ReferencesAreCounted == Spec => []RefsAccounted
<1> DEFINE J == IInv /\ Listed /\ Cardinality(Pinned) <= MaxPinned
<1>1. Init => J
  <2>1. Init => Pinned = {}
    BY DEF Init, Pinned
  <2> QED
    BY <2>1, InitIInv, InitListed, FS_EmptySet
<1>2. J /\ [Next]_vars => J'
  BY StepIInv, StepListed, StepPinned
<1>3. J => RefsAccounted
  <2> SUFFICES ASSUME J PROVE RefsAccounted
    OBVIOUS
  <2>1. ASSUME NEW i \in Bufs, dirty[i], i \notin Pinned
        PROVE  refcnt[i] > 0
    <3>1. PICK p \in Process : cur[p] = i /\ pc[p] \in InIderw
      BY <2>1 DEF Pinned
    <3>2. p \in Users(i)
      BY <3>1 DEF IInv, Calls, Users
    <3> QED
      BY <3>2, InUse
  <2> QED
    BY <2>1 DEF RefsAccounted, IInv, Counted, Listed
<1> QED
  BY <1>1, <1>2, <1>3, PTL DEF Spec

----------------------------------------------------------------------------
(* The refinement. *)

\* Who uses b, and what it finds there.
User(b) == IF Using(b) = {} THEN None ELSE lock[CHOOSE i \in Using(b) : TRUE]
View(b) == IF Using(b) = {} THEN None ELSE data[CHOOSE i \in Using(b) : TRUE]

\* What a block's buffer, or its absence, means for the block.
Blocks ==
  OneCopy =>
    \A b \in Block :
      /\ \A i \in Bufs : blockno[i] = b /\ valid[i] =>
           /\ Content(b) = data[i]
           /\ User(b) = lock[i]
           /\ View(b) = IF lock[i] = None THEN None ELSE data[i]
      /\ (\A i \in Bufs : blockno[i] = b => ~valid[i]) =>
           Content(b) = disk[b] /\ User(b) = None /\ View(b) = None

LEMMA BlocksHolds == Blocks
<1> SUFFICES ASSUME OneCopy, NEW b \in Block
             PROVE  /\ \A i \in Bufs : blockno[i] = b /\ valid[i] =>
                         /\ Content(b) = data[i]
                         /\ User(b) = lock[i]
                         /\ View(b) = IF lock[i] = None THEN None ELSE data[i]
                    /\ (\A i \in Bufs : blockno[i] = b => ~valid[i]) =>
                         Content(b) = disk[b] /\ User(b) = None /\ View(b) = None
  BY DEF Blocks
<1>1. ASSUME NEW i \in Bufs, blockno[i] = b, valid[i]
      PROVE  /\ Content(b) = data[i]
             /\ User(b) = lock[i]
             /\ View(b) = IF lock[i] = None THEN None ELSE data[i]
  <2>1. \A j \in Bufs : blockno[j] = b => j = i
    BY <1>1 DEF OneCopy
  <2>2. (CHOOSE j \in Bufs : blockno[j] = b /\ valid[j]) = i
    BY <1>1, <2>1
  <2>3. CASE lock[i] = None
    <3>1. Using(b) = {}
      BY <2>1, <2>3 DEF Using
    <3> QED
      BY <1>1, <2>2, <2>3, <3>1 DEF Content, User, View
  <2>4. CASE lock[i] # None
    <3>1. Using(b) = {i}
      BY <1>1, <2>1, <2>4 DEF Using
    <3>2. (CHOOSE j \in Using(b) : TRUE) = i
      BY <3>1
    <3>3. User(b) = lock[i] /\ View(b) = data[i]
      BY <3>1, <3>2 DEF User, View
    <3> QED
      BY <1>1, <2>2, <2>4, <3>3 DEF Content
  <2> QED
    BY <2>3, <2>4
<1>2. ASSUME \A i \in Bufs : blockno[i] = b => ~valid[i]
      PROVE  Content(b) = disk[b] /\ User(b) = None /\ View(b) = None
  BY <1>2 DEF Content, Using, User, View
<1> QED
  BY <1>1, <1>2

LEMMA BlocksNext == Blocks'
  BY BlocksHolds, PTL

\* A block that a step does not touch.
LEMMA SameBlock ==
  ASSUME OneCopy, OneCopy', NEW b \in Block,
         \A i \in Bufs : (blockno'[i] = b /\ valid'[i]) <=> (blockno[i] = b /\ valid[i]),
         \A i \in Bufs : blockno[i] = b /\ valid[i] => data'[i] = data[i] /\ lock'[i] = lock[i],
         disk'[b] = disk[b]
  PROVE  Content(b)' = Content(b) /\ User(b)' = User(b) /\ View(b)' = View(b)
<1>1. CASE \E i \in Bufs : blockno[i] = b /\ valid[i]
  <2>1. PICK i \in Bufs : blockno[i] = b /\ valid[i]
    BY <1>1
  <2>2. /\ Content(b) = data[i]
        /\ User(b) = lock[i]
        /\ View(b) = IF lock[i] = None THEN None ELSE data[i]
    BY <2>1, BlocksHolds DEF Blocks
  <2>3. /\ Content(b)' = data'[i]
        /\ User(b)' = lock'[i]
        /\ View(b)' = IF lock'[i] = None THEN None ELSE data'[i]
    BY <2>1, BlocksNext DEF Blocks
  <2> QED
    BY <2>1, <2>2, <2>3
<1>2. CASE ~\E i \in Bufs : blockno[i] = b /\ valid[i]
  <2>1. Content(b) = disk[b] /\ User(b) = None /\ View(b) = None
    BY <1>2, BlocksHolds DEF Blocks
  <2>2. Content(b)' = disk'[b] /\ User(b)' = None /\ View(b)' = None
    BY <1>2, BlocksNext DEF Blocks
  <2> QED
    BY <2>1, <2>2
<1> QED
  BY <1>1, <1>2

\* A step that touches no block.
LEMMA Invisible ==
  ASSUME \A b \in Block : /\ Content(b)' = Content(b)
                          /\ User(b)' = User(b)
                          /\ View(b)' = View(b)
  PROVE  UNCHANGED Cache!vars
<1>1. /\ [b \in Block |-> Content(b)]' = [b \in Block |-> Content(b)]
      /\ [b \in Block |-> User(b)]' = [b \in Block |-> User(b)]
      /\ [b \in Block |-> View(b)]' = [b \in Block |-> View(b)]
  OBVIOUS
<1> QED
  BY <1>1 DEF Cache!vars, User, View

\* A step that touches one.
LEMMA Visible ==
  ASSUME NEW c \in Block,
         \A b \in Block \ {c} : /\ Content(b)' = Content(b)
                                /\ User(b)' = User(b)
                                /\ View(b)' = View(b)
  PROVE  /\ [b \in Block |-> Content(b)]' =
              [[b \in Block |-> Content(b)] EXCEPT ![c] = Content(c)']
         /\ [b \in Block |-> User(b)]' =
              [[b \in Block |-> User(b)] EXCEPT ![c] = User(c)']
         /\ [b \in Block |-> View(b)]' =
              [[b \in Block |-> View(b)] EXCEPT ![c] = View(c)']
  OBVIOUS

\* The three kinds of steps of the block cache.
LEMMA Gets ==
  ASSUME NEW p \in Process, NEW c \in Block,
         \A b \in Block \ {c} : /\ Content(b)' = Content(b)
                                /\ User(b)' = User(b)
                                /\ View(b)' = View(b),
         User(c) = None, User(c)' = p,
         Content(c)' = Content(c), View(c)' = Content(c)
  PROVE  Cache!Get(p, c)
<1>1. [b \in Block |-> Content(b)]' = [b \in Block |-> Content(b)]
  BY Visible
<1>2. [b \in Block |-> User(b)]' = [[b \in Block |-> User(b)] EXCEPT ![c] = p]
  BY Visible
<1>3. [b \in Block |-> View(b)]' =
        [[b \in Block |-> View(b)] EXCEPT ![c] = [b \in Block |-> Content(b)][c]]
  BY Visible
<1>4. [b \in Block |-> User(b)][c] = None
  OBVIOUS
<1> QED
  BY <1>1, <1>2, <1>3, <1>4 DEF Cache!Get, User, View

LEMMA Puts ==
  ASSUME NEW p \in Process, NEW c \in Block, NEW v \in Value,
         \A b \in Block \ {c} : /\ Content(b)' = Content(b)
                                /\ User(b)' = User(b)
                                /\ View(b)' = View(b),
         User(c) = p, User(c)' = p, Content(c)' = v, View(c)' = v
  PROVE  Cache!Put(p, c, v)
<1>1. [b \in Block |-> Content(b)]' = [[b \in Block |-> Content(b)] EXCEPT ![c] = v]
  BY Visible
<1>2. [b \in Block |-> User(b)]' = [b \in Block |-> User(b)]
  BY Visible
<1>3. [b \in Block |-> View(b)]' = [[b \in Block |-> View(b)] EXCEPT ![c] = v]
  BY Visible
<1>4. [b \in Block |-> User(b)][c] = p
  OBVIOUS
<1> QED
  BY <1>1, <1>2, <1>3, <1>4 DEF Cache!Put, User, View

LEMMA Releases ==
  ASSUME NEW p \in Process, NEW c \in Block,
         \A b \in Block \ {c} : /\ Content(b)' = Content(b)
                                /\ User(b)' = User(b)
                                /\ View(b)' = View(b),
         User(c) = p, User(c)' = None, Content(c)' = Content(c), View(c)' = None
  PROVE  Cache!Release(p, c)
<1>1. [b \in Block |-> Content(b)]' = [b \in Block |-> Content(b)]
  BY Visible
<1>2. [b \in Block |-> User(b)]' = [[b \in Block |-> User(b)] EXCEPT ![c] = None]
  BY Visible
<1>3. [b \in Block |-> View(b)]' = [[b \in Block |-> View(b)] EXCEPT ![c] = None]
  BY Visible
<1>4. [b \in Block |-> User(b)][c] = p
  OBVIOUS
<1> QED
  BY <1>1, <1>2, <1>3, <1>4 DEF Cache!Release, User, View

LEMMA GetStep ==
  ASSUME IInv, IInv', NEW p \in Process, NEW i \in Bufs, AcquireSleep(p), i = cur[p], valid[i]
  PROVE  Cache!Get(p, blockno[i])
<1> USE DEF IInv
<1>0. PICK c \in Block : c = blockno[i]
  BY DEF TypeOK, Counted
<1>1. /\ lock[i] = None /\ lock' = [lock EXCEPT ![i] = p]
      /\ UNCHANGED <<blockno, valid, data, disk>>
  BY DEF AcquireSleep, ide
<1>2. /\ lock'[i] = p /\ p # None /\ c \in Block
      /\ \A j \in Bufs : j # i => lock'[j] = lock[j]
  BY <1>0, <1>1 DEF TypeOK, Counted
<1>3. ASSUME NEW b \in Block \ {c}
      PROVE  Content(b)' = Content(b) /\ User(b)' = User(b) /\ View(b)' = View(b)
  <2>1. \A j \in Bufs : blockno[j] = b => lock'[j] = lock[j]
    BY <1>0, <1>2
  <2> QED
    BY <1>0, <1>1, <2>1, SameBlock
<1>4. Content(c) = data[i] /\ User(c) = None
  BY <1>0, <1>1, <1>2, BlocksHolds DEF Blocks
<1>5. Content(c)' = data[i] /\ User(c)' = p /\ View(c)' = data[i]
  <2>1. Content(c)' = data'[i] /\ User(c)' = lock'[i]
        /\ View(c)' = IF lock'[i] = None THEN None ELSE data'[i]
    BY <1>0, <1>1, <1>2, BlocksNext DEF Blocks
  <2> QED
    BY <1>0, <1>1, <1>2, <2>1
<1> QED
  BY <1>0, <1>3, <1>4, <1>5, Gets

LEMMA ReadStep ==
  ASSUME IInv, IInv', Ideintr, ~dirty[Head(idequeue)]
  PROVE  \E p \in Process, b \in Block : Cache!Get(p, b)
<1> USE DEF IInv
<1>1. PICK i \in Bufs : i = Head(idequeue) /\ i \in Requested
  BY Served DEF Ideintr, TypeOK, Queue
<1>2. PICK p \in Process : lock[i] = p
  BY <1>1 DEF QueueOwned
<1>3. p \in Users(i) /\ ~valid[i]
  BY <1>1, <1>2 DEF Users, Queue, Done
<1>4. PICK c \in Block : c = blockno[i] /\ p # None
  BY <1>3, InUse
<1>5. /\ data' = [data EXCEPT ![i] = disk[c]]
      /\ valid' = [valid EXCEPT ![i] = TRUE]
      /\ UNCHANGED <<blockno, lock, disk>>
  BY <1>4, <1>1 DEF Ideintr
<1>6. /\ data'[i] = disk[c] /\ valid'[i]
      /\ \A j \in Bufs : j # i => valid'[j] = valid[j] /\ data'[j] = data[j]
  BY <1>4, <1>5 DEF TypeOK
<1>7. ASSUME NEW b \in Block \ {c}
      PROVE  Content(b)' = Content(b) /\ User(b)' = User(b) /\ View(b)' = View(b)
  <2>1. \A j \in Bufs : blockno[j] = b => j # i
    BY <1>4
  <2> QED
    BY <1>4, <1>5, <1>6, <2>1, SameBlock
<1>8. Content(c) = disk[c] /\ User(c) = None
  <2>1. \A j \in Bufs : blockno[j] = c => ~valid[j]
    BY <1>3, <1>4 DEF OneCopy
  <2> QED
    BY <1>4, <2>1, BlocksHolds DEF Blocks
<1>9. Content(c)' = disk[c] /\ User(c)' = p /\ View(c)' = disk[c]
  <2>1. Content(c)' = data'[i] /\ User(c)' = lock'[i]
        /\ View(c)' = IF lock'[i] = None THEN None ELSE data'[i]
    BY <1>4, <1>5, <1>6, BlocksNext DEF Blocks
  <2> QED
    BY <1>2, <1>4, <1>5, <1>6, <2>1
<1>10. Cache!Get(p, c)
  BY <1>4, <1>7, <1>8, <1>9, Gets
<1> QED
  BY <1>4, <1>10

LEMMA PutStep ==
  ASSUME IInv, IInv', NEW p \in Process, NEW i \in Bufs, Bwrite(p, i) \/ LogWrite(p, i)
  PROVE  \E v \in Value : Cache!Put(p, blockno[i], v)
<1> USE DEF IInv
<1>0. PICK c \in Block : c = blockno[i]
  BY Holder DEF Bwrite, LogWrite
<1>1. PICK v \in Contents[c] : data' = [data EXCEPT ![i] = v]
  BY <1>0 DEF Bwrite, LogWrite
<1>2. lock[i] = p /\ pc[p] = "run" /\ UNCHANGED <<blockno, valid, lock, disk>>
  BY DEF Bwrite, LogWrite, ide
<1>3. valid[i] /\ c \in Block /\ p # None
  BY <1>0, <1>2, Holder
<1>4. /\ v \in Value /\ data'[i] = v
      /\ \A j \in Bufs : j # i => data'[j] = data[j]
  BY <1>0, <1>1, <1>3 DEF TypeOK
<1>5. ASSUME NEW b \in Block \ {c}
      PROVE  Content(b)' = Content(b) /\ User(b)' = User(b) /\ View(b)' = View(b)
  <2>1. \A j \in Bufs : blockno[j] = b => data'[j] = data[j]
    BY <1>0, <1>4
  <2> QED
    BY <1>0, <1>2, <2>1, SameBlock
<1>6. User(c) = p
  BY <1>0, <1>2, <1>3, BlocksHolds DEF Blocks
<1>7. Content(c)' = v /\ User(c)' = p /\ View(c)' = v
  <2>1. Content(c)' = data'[i] /\ User(c)' = lock'[i]
        /\ View(c)' = IF lock'[i] = None THEN None ELSE data'[i]
    BY <1>0, <1>2, <1>3, BlocksNext DEF Blocks
  <2> QED
    BY <1>0, <1>2, <1>3, <1>4, <2>1
<1>9. Cache!Put(p, c, v)
  BY <1>0, <1>4, <1>5, <1>6, <1>7, Puts
<1> QED
  BY <1>0, <1>4, <1>9

LEMMA ReleaseStep ==
  ASSUME IInv, IInv', NEW p \in Process, NEW i \in Bufs, ReleaseSleep(p, i)
  PROVE  Cache!Release(p, blockno[i])
<1> USE DEF IInv
<1>0. PICK c \in Block : c = blockno[i]
  BY Holder DEF ReleaseSleep
<1>1. /\ pc[p] = "run" /\ lock[i] = p /\ lock' = [lock EXCEPT ![i] = None]
      /\ UNCHANGED <<blockno, valid, data, disk>>
  BY DEF ReleaseSleep, ide
<1>2. /\ valid[i] /\ c \in Block /\ lock'[i] = None
      /\ \A j \in Bufs : j # i => lock'[j] = lock[j]
  BY <1>0, <1>1, Holder DEF TypeOK
<1>3. ASSUME NEW b \in Block \ {c}
      PROVE  Content(b)' = Content(b) /\ User(b)' = User(b) /\ View(b)' = View(b)
  <2>1. \A j \in Bufs : blockno[j] = b => lock'[j] = lock[j]
    BY <1>0, <1>2
  <2> QED
    BY <1>0, <1>1, <2>1, SameBlock
<1>4. Content(c) = data[i] /\ User(c) = p
  BY <1>0, <1>1, <1>2, BlocksHolds DEF Blocks
<1>5. Content(c)' = data[i] /\ User(c)' = None /\ View(c)' = None
  <2>1. Content(c)' = data'[i] /\ User(c)' = lock'[i]
        /\ View(c)' = IF lock'[i] = None THEN None ELSE data'[i]
    BY <1>0, <1>1, <1>2, BlocksNext DEF Blocks
  <2> QED
    BY <1>0, <1>1, <1>2, <2>1
<1> QED
  BY <1>0, <1>3, <1>4, <1>5, Releases

\* Steps that no user of a block sees: bget recycles clean buffers only, and
\* the disk writes what the buffer has.
LEMMA HiddenStep ==
  ASSUME IInv, IInv',
         \/ UNCHANGED <<blockno, valid, data, lock, disk>>
         \/ \E p \in Process, b \in Block : BgetRecycle(p, b)
         \/ DiskDone
         \/ Ideintr /\ dirty[Head(idequeue)]
         \/ \E p \in Process : AcquireSleep(p) /\ ~valid[cur[p]]
  PROVE  UNCHANGED Cache!vars
<1> USE DEF IInv
<1>1. CASE UNCHANGED <<blockno, valid, data, lock, disk>>
  BY <1>1, SameBlock, Invisible
<1>2. ASSUME NEW p \in Process, NEW n \in Block, BgetRecycle(p, n)
      PROVE  UNCHANGED Cache!vars
  <2>1. PICK i \in Bufs : /\ i \in Unused
                          /\ blockno' = [blockno EXCEPT ![i] = n]
                          /\ valid' = [valid EXCEPT ![i] = FALSE]
    BY <1>2 DEF BgetRecycle, LastBuf, Unused
  <2>2. UNCHANGED <<data, lock, disk>> /\ \A j \in Bufs : blockno[j] # n
    BY <1>2 DEF BgetRecycle, ide, Cached
  <2>3. /\ ~valid'[i] /\ blockno'[i] = n
        /\ \A j \in Bufs : j # i => valid'[j] = valid[j] /\ blockno'[j] = blockno[j]
    BY <2>1 DEF TypeOK
  <2>4. lock[i] = None /\ ~dirty[i]
    <3>1. Users(i) = {}
      BY <2>1, FS_EmptySet DEF Counted, Unused
    <3> QED
      BY <2>1, <3>1 DEF Unused, Users, TypeOK
  <2>5. ASSUME NEW b \in Block
        PROVE  Content(b)' = Content(b) /\ User(b)' = User(b) /\ View(b)' = View(b)
    <3>1. CASE blockno[i] = b /\ valid[i]
      <4>1. Content(b) = disk[b] /\ User(b) = None /\ View(b) = None
        BY <2>4, <3>1, BlocksHolds DEF Blocks, Stored, Done
      <4>2. \A j \in Bufs : blockno'[j] = b => ~valid'[j]
        BY <2>2, <2>3, <3>1 DEF OneCopy
      <4>3. Content(b)' = disk[b] /\ User(b)' = None /\ View(b)' = None
        BY <2>2, <4>2, BlocksNext DEF Blocks
      <4> QED
        BY <4>1, <4>3
    <3>2. CASE ~(blockno[i] = b /\ valid[i])
      <4>1. \A j \in Bufs : (blockno'[j] = b /\ valid'[j]) <=> (blockno[j] = b /\ valid[j])
        BY <2>3, <3>2
      <4> QED
        BY <2>2, <4>1, SameBlock
    <3> QED
      BY <3>1, <3>2
  <2> QED
    BY <2>5, Invisible
<1>3. CASE DiskDone
  <2>1. PICK i \in Bufs : i = Head(idequeue)
    BY <1>3, Served DEF DiskDone, TypeOK
  <2>2. /\ disk' = IF dirty[i] THEN [disk EXCEPT ![blockno[i]] = data[i]] ELSE disk
        /\ UNCHANGED <<blockno, valid, data, lock>>
    BY <1>3, <2>1 DEF DiskDone, bufs
  <2>3. ASSUME NEW b \in Block
        PROVE  Content(b)' = Content(b) /\ User(b)' = User(b) /\ View(b)' = View(b)
    <3>1. CASE blockno[i] = b /\ dirty[i]
      <4>1. valid[i]
        BY <3>1 DEF Loaded
      <4> QED
        BY <2>2, <3>1, <4>1, BlocksHolds, BlocksNext DEF Blocks
    <3>2. CASE ~(blockno[i] = b /\ dirty[i])
      <4>1. disk'[b] = disk[b]
        BY <2>2, <3>2 DEF TypeOK
      <4> QED
        BY <2>2, <4>1, SameBlock
    <3> QED
      BY <3>1, <3>2
  <2> QED
    BY <2>3, Invisible
<1>4. CASE Ideintr /\ dirty[Head(idequeue)]
  <2>1. PICK i \in Bufs : i = Head(idequeue)
    BY <1>4, Served DEF Ideintr, TypeOK, Queue
  <2>2. valid[i] /\ valid' = [valid EXCEPT ![i] = TRUE]
        /\ UNCHANGED <<blockno, data, lock, disk>>
    BY <1>4, <2>1 DEF Ideintr, Loaded
  <2>3. valid' = valid
    BY <2>2 DEF TypeOK
  <2> QED
    BY <1>1, <2>2, <2>3
<1>5. ASSUME NEW p \in Process, AcquireSleep(p), ~valid[cur[p]]
      PROVE  UNCHANGED Cache!vars
  <2>1. PICK i \in Bufs : i = cur[p]
    BY <1>5, CurType DEF AcquireSleep, Calls
  <2>2. lock' = [lock EXCEPT ![i] = p] /\ ~valid[i]
        /\ UNCHANGED <<blockno, valid, data, disk>>
    BY <1>5, <2>1 DEF AcquireSleep, ide
  <2>3. ASSUME NEW b \in Block
        PROVE  Content(b)' = Content(b) /\ User(b)' = User(b) /\ View(b)' = View(b)
    <3>1. \A j \in Bufs : valid[j] => lock'[j] = lock[j]
      BY <2>2 DEF TypeOK
    <3> QED
      BY <2>2, <3>1, SameBlock
  <2> QED
    BY <2>3, Invisible
<1> QED
  BY <1>1, <1>2, <1>3, <1>4, <1>5

LEMMA StepRefines == IInv /\ IInv' /\ [Next]_vars => [Cache!Next]_(Cache!vars)
<1> SUFFICES ASSUME IInv, IInv', [Next]_vars
             PROVE  Cache!Next \/ UNCHANGED Cache!vars
  OBVIOUS
<1>1. ASSUME NEW p \in Process, AcquireSleep(p)
      PROVE  Cache!Next \/ UNCHANGED Cache!vars
  <2>1. PICK i \in Bufs : i = cur[p]
    BY <1>1, CurType DEF IInv, AcquireSleep, Calls
  <2>2. CASE valid[i]
    <3>1. Cache!Get(p, blockno[i])
      BY <1>1, <2>1, <2>2, GetStep
    <3>2. blockno[i] \in Block
      BY <2>2 DEF IInv, TypeOK, Counted
    <3> QED
      BY <3>1, <3>2 DEF Cache!Next
  <2>3. CASE ~valid[i]
    BY <1>1, <2>1, <2>3, HiddenStep
  <2> QED
    BY <2>2, <2>3
<1>2. CASE Ideintr
  <2>1. CASE dirty[Head(idequeue)]
    BY <1>2, <2>1, HiddenStep
  <2>2. CASE ~dirty[Head(idequeue)]
    BY <1>2, <2>2, ReadStep DEF Cache!Next
  <2> QED
    BY <2>1, <2>2
<1>3. ASSUME NEW p \in Process, NEW i \in Bufs, Bwrite(p, i) \/ LogWrite(p, i)
      PROVE  Cache!Next
  <2>1. blockno[i] \in Block
    BY <1>3, Holder DEF Bwrite, LogWrite
  <2>2. \E v \in Value : Cache!Put(p, blockno[i], v)
    BY <1>3, PutStep
  <2> QED
    BY <2>1, <2>2 DEF Cache!Next
<1>4. ASSUME NEW p \in Process, NEW i \in Bufs, ReleaseSleep(p, i)
      PROVE  Cache!Next
  <2>1. blockno[i] \in Block
    BY <1>4, Holder DEF ReleaseSleep
  <2>2. Cache!Release(p, blockno[i])
    BY <1>4, ReleaseStep
  <2> QED
    BY <2>1, <2>2 DEF Cache!Next
<1>5. ASSUME NEW p \in Process,
             \/ \E b \in Block : BgetHit(p, b) \/ BgetPanic(p, b)
             \/ LockSleep(p) \/ Killed(p) \/ Brelse(p) \/ Iderw(p) \/ IderwWoken(p)
             \/ Panic(p)
      PROVE  UNCHANGED Cache!vars
  <2>1. UNCHANGED <<blockno, valid, data, lock, disk>>
    BY <1>5 DEF BgetHit, BgetPanic, LockSleep, Killed, Brelse, Iderw, IderwWoken,
       Panic, vars, bufs, ide
  <2> QED
    BY <2>1, HiddenStep
<1>6. CASE UNCHANGED vars
  BY <1>6, HiddenStep DEF vars, bufs, ide
<1>7. CASE DiskDone \/ \E p \in Process, b \in Block : BgetRecycle(p, b)
  BY <1>7, HiddenStep
<1> QED
  BY <1>1, <1>2, <1>3, <1>4, <1>5, <1>6, <1>7 DEF Next

LEMMA InitRefines == Init => Cache!Init
<1> SUFFICES ASSUME Init PROVE Cache!Init
  OBVIOUS
<1>1. \A b \in Block : Content(b) = disk[b] /\ Using(b) = {}
  BY DEF Init, Content, Using
<1>2. disk \in [Block -> Value]
  BY InitIInv DEF IInv, TypeOK
<1> QED
  BY <1>1, <1>2 DEF Cache!Init

\* The cache implements the block cache: whatever bget recycles, whenever the
\* disk answers and however the processes interleave, who gets a block finds
\* what its last user left, and has it alone.
THEOREM CacheIsCoherent == Spec => CacheSpec
<1>1. Init /\ [][Next]_vars /\ []IInv => Cache!Init /\ [][Cache!Next]_(Cache!vars)
  BY InitRefines, StepRefines, PTL
<1> QED
  BY <1>1, Invariance, PTL DEF Spec, CacheSpec, Cache!Spec

=============================================================================
