-------------------------------- MODULE Pipe --------------------------------
(***************************************************************************)
(* The pipe of kernel/pipe.c with the parts of file.c and proc.c it needs: *)
(* the reference counts of the two file structures, sleep, wakeup, kill.   *)
(*                                                                         *)
(* A section under p->lock is one step, except when it ends in sleep():    *)
(* the decision to sleep and the moment the process is on the channel are  *)
(* two steps, because kill() does not take p->lock.                        *)
(***************************************************************************)
EXTENDS Integers, Sequences, FiniteSets, SequencesExt, FiniteSetsExt

CONSTANTS
  Process,
  Byte,
  PIPESIZE,   \* bytes of p->data
  UintMod,    \* nread and nwrite wrap modulo UintMod (2^32)
  MaxN        \* longest read or write (bound)

ASSUME SizeAssumption ==
  /\ PIPESIZE \in Nat \ {0}
  /\ UintMod \in Nat /\ UintMod > PIPESIZE /\ UintMod % PIPESIZE = 0
  /\ MaxN \in Nat \ {0}

None == "none"
ASSUME NoneAssumption == None \notin Process

Ends == {"read", "write"}
Other(e) == IF e = "read" THEN "write" ELSE "read"

VARIABLES
  (* struct pipe *)
  exists,          \* the page is allocated
  data, nread, nwrite,
  isopen,          \* readopen, writeopen
  lock,            \* holder of p->lock between two steps
  (* struct file *)
  refs,            \* processes with a descriptor of each end
  (* processes *)
  pc,
  left,            \* bytes the call has still to transfer: n - i
  got,             \* piperead's addr[0..i-1], until the caller has it
  result,          \* of the last read or write, until the caller has it
  killed

pipe == <<exists, data, nread, nwrite, isopen>>
procs == <<pc, left, got, result>>
vars == <<pipe, lock, refs, procs, killed>>

Points == {"user", "write", "wsleep", "nwrite", "read", "rsleep", "nread",
           "close read", "close write", "free", "ret"}

----------------------------------------------------------------------------

Goto(p, l) == pc' = [pc EXCEPT ![p] = l]

\* wakeup(chan), by p which goes on at l: sleepers reacquire p->lock and test
\* their condition again.  The sleepers on &p->nread are at "nread".
WakeGoto(chan, p, l) ==
  pc' = [q \in Process |->
           IF q = p THEN l
           ELSE IF pc[q] # chan THEN pc[q]
           ELSE IF chan = "nread" THEN "read" ELSE "write"]

Count == (nwrite - nread) % UintMod
Full == nwrite = (nread + PIPESIZE) % UintMod
Empty == nread = nwrite

\* Mutant of Stored: nwrite is incremented before it is used.
StoredLate(s) ==
  [k \in 0..(PIPESIZE - 1) |->
     LET at == {i \in 1..Len(s) : ((nwrite + i) % UintMod) % PIPESIZE = k}
     IN  IF at = {} THEN data[k] ELSE s[Max(at)]]

\* p->data after s has been written at nwrite.
Stored(s) ==
  [k \in 0..(PIPESIZE - 1) |->
     LET at == {i \in 1..Len(s) : ((nwrite + i - 1) % UintMod) % PIPESIZE = k}
     IN  IF at = {} THEN data[k] ELSE s[Max(at)]]

\* The n bytes from nread on.
Bytes(n) == [i \in 1..n |-> data[((nread + i - 1) % UintMod) % PIPESIZE]]

Return(p, r) == result' = [result EXCEPT ![p] = r]

Init ==
  /\ exists = FALSE
  /\ data \in {[k \in 0..(PIPESIZE - 1) |-> b] : b \in Byte}
  /\ nread = 0 /\ nwrite = 0
  /\ isopen = [e \in Ends |-> FALSE]
  /\ lock = None
  /\ refs = [e \in Ends |-> {}]
  /\ pc = [p \in Process |-> "user"]
  /\ left = [p \in Process |-> 0]
  /\ got = [p \in Process |-> <<>>]
  /\ result = [p \in Process |-> None]
  /\ killed = {}

----------------------------------------------------------------------------
(* System calls. *)

User(p) == pc[p] = "user" /\ p \notin killed

\* sys_pipe: pipealloc gets both files and the page.
PipeAlloc(p) ==
  /\ User(p) /\ ~exists
  /\ exists' = TRUE
  /\ nread' = 0 /\ nwrite' = 0
  /\ isopen' = [e \in Ends |-> TRUE]
  /\ refs' = [e \in Ends |-> {p}]
  /\ UNCHANGED <<data, lock, procs, killed>>

\* fork: the new process q gets p's descriptors.
Fork(p, q) ==
  /\ User(p) /\ User(q)
  /\ \A e \in Ends : q \notin refs[e]
  /\ \E e \in Ends : p \in refs[e]
  /\ refs' = [e \in Ends |-> IF p \in refs[e] THEN refs[e] \cup {q} ELSE refs[e]]
  /\ UNCHANGED <<pipe, lock, procs, killed>>

Call(p, e) ==
  /\ User(p) /\ p \in refs[e]
  /\ \E n \in 1..MaxN : left' = [left EXCEPT ![p] = n]
  /\ Goto(p, e)
  /\ UNCHANGED <<pipe, lock, refs, got, result, killed>>

\* The result reaches the program.
SyscallReturn(p) ==
  /\ pc[p] = "ret"
  /\ Goto(p, "user")
  /\ got' = [got EXCEPT ![p] = <<>>]
  /\ Return(p, None)
  /\ UNCHANGED <<pipe, lock, refs, left, killed>>

\* kill() takes ptable.lock only, and wakes the process if it sleeps.
Kill(p, q) ==
  /\ User(p) /\ p # q /\ q \notin killed
  /\ \E e \in Ends : q \in refs[e]
  /\ killed' = killed \cup {q}
  /\ pc' = [pc EXCEPT ![q] = IF @ = "nread" THEN "read"
                             ELSE IF @ = "nwrite" THEN "write" ELSE @]
  /\ UNCHANGED <<pipe, lock, refs, left, got, result>>

----------------------------------------------------------------------------
(* pipewrite *)

\* Fill the pipe from addr[i] on, as far as it goes.
Fill(s) ==
  /\ data' = Stored(s)
  /\ nwrite' = (nwrite + Len(s)) % UintMod
  /\ UNCHANGED <<exists, nread, isopen, got>>

WriteAll(p) ==
  /\ pc[p] = "write" /\ lock = None
  /\ Count + left[p] <= PIPESIZE
  /\ \E s \in [1..left[p] -> Byte] : Fill(s)
  /\ left' = [left EXCEPT ![p] = 0]
  /\ Return(p, "done")
  /\ WakeGoto("nread", p, "ret")
  /\ UNCHANGED <<lock, refs, killed>>

\* Full before the end: the call fails, or decides to sleep.
WritePart(p) ==
  /\ pc[p] = "write" /\ lock = None
  /\ Count + left[p] > PIPESIZE
  /\ \E s \in [1..(PIPESIZE - Count) -> Byte] : Fill(s)

WriteFail(p) ==
  /\ WritePart(p)
  /\ ~isopen["read"] \/ p \in killed
  /\ left' = [left EXCEPT ![p] = 0]
  /\ Return(p, "failed")
  /\ Goto(p, "ret")
  /\ UNCHANGED <<lock, refs, killed>>

WriteWait(p) ==
  /\ WritePart(p)
  /\ isopen["read"] /\ p \notin killed
  /\ left' = [left EXCEPT ![p] = @ - (PIPESIZE - Count)]
  /\ WakeGoto("nread", p, "wsleep")
  /\ lock' = p
  /\ UNCHANGED <<refs, result, killed>>

----------------------------------------------------------------------------
(* piperead *)

ReadData(p) ==
  /\ pc[p] = "read" /\ lock = None
  /\ ~Empty \/ ~isopen["write"]
  /\ LET n == IF left[p] < Count THEN left[p] ELSE Count
     IN  /\ got' = [got EXCEPT ![p] = Bytes(n)]
         /\ nread' = (nread + n) % UintMod
         /\ Return(p, IF n = 0 THEN "eof" ELSE "done")
  /\ left' = [left EXCEPT ![p] = 0]
  /\ WakeGoto("nwrite", p, "ret")
  /\ UNCHANGED <<exists, data, nwrite, isopen, lock, refs, killed>>

ReadKilled(p) ==
  /\ pc[p] = "read" /\ lock = None
  /\ Empty /\ isopen["write"]
  /\ p \in killed
  /\ left' = [left EXCEPT ![p] = 0]
  /\ Return(p, "failed")
  /\ Goto(p, "ret")
  /\ UNCHANGED <<pipe, lock, refs, got, killed>>

ReadWait(p) ==
  /\ pc[p] = "read" /\ lock = None
  /\ Empty /\ isopen["write"]
  /\ p \notin killed
  /\ Goto(p, "rsleep")
  /\ lock' = p
  /\ UNCHANGED <<pipe, refs, left, got, result, killed>>

\* sleep(): on the channel and p->lock released, under ptable.lock.
Sleep(p) ==
  /\ lock = p
  /\ Goto(p, IF pc[p] = "rsleep" THEN "nread" ELSE "nwrite")
  /\ lock' = None
  /\ UNCHANGED <<pipe, refs, left, got, result, killed>>

----------------------------------------------------------------------------
(* fileclose and pipeclose.  close(2) and exit() come here. *)

\* fileclose under ftable.lock: the last reference goes on to pipeclose.
FileClose(p, e) ==
  /\ pc[p] = "user" /\ p \in refs[e]
  /\ refs' = [refs EXCEPT ![e] = @ \ {p}]
  /\ Goto(p, IF refs[e] # {p} THEN "user"
             ELSE IF e = "read" THEN "close read" ELSE "close write")
  /\ UNCHANGED <<pipe, lock, left, got, result, killed>>

\* Mutants of PipeClose: the first end that closes frees the page; the wrong
\* sleepers are woken.
PipeCloseFrees(p, e) ==
  /\ pc[p] = IF e = "read" THEN "close read" ELSE "close write"
  /\ lock = None
  /\ isopen' = [isopen EXCEPT ![e] = FALSE]
  /\ WakeGoto(IF e = "write" THEN "nread" ELSE "nwrite", p, "free")
  /\ UNCHANGED <<exists, data, nread, nwrite, lock, refs, left, got, result,
                 killed>>

PipeCloseWakes(p, e) ==
  /\ pc[p] = IF e = "read" THEN "close read" ELSE "close write"
  /\ lock = None
  /\ isopen' = [isopen EXCEPT ![e] = FALSE]
  /\ WakeGoto(IF e = "write" THEN "nwrite" ELSE "nread", p,
              IF isopen[Other(e)] THEN "user" ELSE "free")
  /\ UNCHANGED <<exists, data, nread, nwrite, lock, refs, left, got, result,
                 killed>>

PipeClose(p, e) ==
  /\ pc[p] = IF e = "read" THEN "close read" ELSE "close write"
  /\ lock = None
  /\ isopen' = [isopen EXCEPT ![e] = FALSE]
  /\ WakeGoto(IF e = "write" THEN "nread" ELSE "nwrite", p,
              IF isopen[Other(e)] THEN "user" ELSE "free")
  /\ UNCHANGED <<exists, data, nread, nwrite, lock, refs, left, got, result,
                 killed>>

\* kfree((char*)p), after the release.
Free(p) ==
  /\ pc[p] = "free"
  /\ exists' = FALSE
  /\ Goto(p, "user")
  /\ UNCHANGED <<data, nread, nwrite, isopen, lock, refs, left, got, result,
                 killed>>

----------------------------------------------------------------------------

Section(p) ==
  \/ WriteAll(p) \/ WriteFail(p) \/ WriteWait(p)
  \/ ReadData(p) \/ ReadKilled(p) \/ ReadWait(p)
  \/ \E e \in Ends : PipeClose(p, e)

Next ==
  \E p \in Process :
    \/ PipeAlloc(p) \/ SyscallReturn(p) \/ Sleep(p) \/ Free(p) \/ Section(p)
    \/ \E e \in Ends : Call(p, e) \/ FileClose(p, e)
    \/ \E q \in Process : Fork(p, q) \/ Kill(p, q)

Spec == Init /\ [][Next]_vars

----------------------------------------------------------------------------
(* Properties. *)

TypeOK ==
  /\ exists \in BOOLEAN
  /\ data \in [0..(PIPESIZE - 1) -> Byte]
  /\ nread \in 0..(UintMod - 1) /\ nwrite \in 0..(UintMod - 1)
  /\ Count <= PIPESIZE
  /\ isopen \in [Ends -> BOOLEAN]
  /\ lock \in Process \cup {None}
  /\ refs \in [Ends -> SUBSET Process]
  /\ pc \in [Process -> Points]
  /\ left \in [Process -> 0..MaxN]
  /\ got \in [Process -> Seq(Byte)] /\ \A p \in Process : Len(got[p]) <= MaxN
  /\ result \in [Process -> {None, "done", "eof", "failed"}]
  /\ killed \subseteq Process

\* The pipe implements the FIFO: no byte is lost, duplicated or reordered when
\* the counters wrap, and the end of file is never reported early.
Channel == INSTANCE Fifo WITH
  Capacity <- PIPESIZE,
  queue <- IF exists THEN Bytes(Count) ELSE <<>>,
  open <- {e \in Ends : isopen[e]},
  eof <- {p \in Process : result[p] = "eof"}
ChannelSpec == Channel!Spec

\* pipeclose frees the page once, when no process can still use it: nobody has
\* a descriptor or is inside an operation on the pipe, but the one that frees.
FreedUnused ==
  \A p \in Process :
    pc[p] = "free" \/ ~exists =>
      /\ \A e \in Ends : p \notin refs[e]
      /\ pc[p] \in {"user", "free", "ret"}
      /\ pc[p] = "free" => exists /\ \A q \in Process \ {p} : pc[q] # "free"

\* No lost wakeup: with p->lock free, a writer sleeps only on a full pipe that
\* has a read end, and a reader only on an empty one that has a write end,
\* unless a kill has made a writer leave early.
NoLostWakeup ==
  lock = None =>
    \A p \in Process :
      /\ pc[p] = "nwrite" => Full /\ isopen["read"]
      /\ pc[p] = "nread" => isopen["write"] /\ (Empty \/ killed # {})

----------------------------------------------------------------------------
(* Fairness: running processes go on, a lock that is free again and again  *)
(* is won, and a killed process closes its files in exit().                *)

Fairness ==
  \A p \in Process :
    /\ WF_vars(Sleep(p) \/ Free(p) \/ SyscallReturn(p))
    /\ SF_vars(Section(p))
    /\ WF_vars(p \in killed /\ \E e \in Ends : FileClose(p, e))

FairSpec == Spec /\ Fairness

\* A blocked operation ends when the other end of the pipe is closed: a write
\* fails, and a read gets what is left or sees the end of file.
Inside == [e \in Ends |-> IF e = "read" THEN {"read", "rsleep", "nread"}
                                       ELSE {"write", "wsleep", "nwrite"}]
ClosedEnds ==
  \A p \in Process :
    (\E e \in Ends : pc[p] \in Inside[e] /\ ~isopen[Other(e)])
      ~> pc[p] \notin Inside["read"] \cup Inside["write"]

=============================================================================
