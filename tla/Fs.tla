--------------------------------- MODULE Fs ---------------------------------
(***************************************************************************)
(* The inodes and directories of kernel/fs.c under the calls of            *)
(* kernel/sysfile.c: path lookup, open, create, mkdir, mknod, link,        *)
(* unlink, chdir and close; of exec on its program file; and of fork and   *)
(* exit on files and current directories (kernel/file.c, kernel/proc.c).   *)
(*                                                                         *)
(* A step is the section between two operations of a process on inode      *)
(* locks; a section that takes a lock and gives it back is one step that   *)
(* needs the lock free.  Each call is a transaction of the log: a crash    *)
(* loses the calls of the last group as a whole, so the disk is as it was  *)
(* when no call was open; Crash happens then.  The blocks of a file are    *)
(* the subject of module FileData.                                          *)
(***************************************************************************)
EXTENDS Integers, Sequences, FiniteSets

CONSTANTS
  Process,
  Inum,         \* 1..ninodes - 1
  Name,         \* the names of files; "." and ".." exist in every directory
  Paths,        \* what calls look up: sequences of names, "/" first for the root
  NewPaths,     \* the paths of link()'s second argument
  NFILE,
  MaxCalls,     \* bound: system calls with a path
  MayCrash      \* does the model crash?

ROOT == 1
Element == Name \cup {".", ".."}

ASSUME FsAssumption ==
  /\ ROOT \in Inum /\ 0 \notin Inum
  /\ Inum \subseteq Nat
  /\ Name \cap {".", "..", "/"} = {}
  /\ \A path \in Paths \cup NewPaths :
       /\ path \in Seq(Element \cup {"/"})
       /\ \A k \in DOMAIN path : path[k] = "/" => k = 1
  /\ IsFiniteSet(Process) /\ IsFiniteSet(Inum) /\ IsFiniteSet(Name)
  /\ 0 \notin Process
  /\ NFILE \in Nat /\ MaxCalls \in Nat
  /\ MayCrash \in BOOLEAN

Free == 0       \* dip->type of a free inode
FILE == 2
DIR == 1
DEV == 3
Invalid == [type |-> -1, nlink |-> 0]

VARIABLES
  (* the disk *)
  dinode,       \* struct dinode: type and nlink
  ents,         \* the entries of a directory: name -> inum or 0
  up,           \* its entry ".."
  (* icache: an entry exists while ref > 0 *)
  ref,
  copy,         \* the cached type and nlink, or Invalid (ip->valid = 0)
  lock,         \* ip->lock: its holder or 0
  (* processes *)
  th,           \* program counter and local variables
  cwd,          \* 0 if there is no such process
  file,         \* its open file (an index of ftable), or 0
  ftable,       \* struct file: how many processes have it open, its inode
  calls,        \* counted for the bound
  (* history *)
  lost,         \* inodes that were in a directory when it was freed
  stale,        \* directories whose ".." names an inode that iput has freed
  strayed,      \* has a lookup followed one of these?
  missed        \* inodes that were freed behind the scan of a process in ialloc

disk == <<dinode, ents, up>>
icache == <<ref, copy, lock>>
files == <<file, ftable>>
history == <<stale, strayed, missed>>
vars == <<disk, icache, th, cwd, files, calls, lost, history>>

Calls == {"open", "creat", "mkdir", "mknod", "link", "unlink", "chdir", "exec"}
Files == 1..NFILE
NoFile == [ref |-> 0, ip |-> 0]

Idle == [pc |-> "user", call |-> "none", at |-> 0, rest |-> <<>>, new |-> <<>>,
         dp |-> 0, ip |-> 0, put |-> 0, ret |-> "user", inum |-> 0]

----------------------------------------------------------------------------

Init ==
  /\ dinode = [i \in Inum |-> IF i = ROOT THEN [type |-> DIR, nlink |-> 1]
                                          ELSE [type |-> Free, nlink |-> 0]]
  /\ ents = [i \in Inum |-> [n \in Name |-> 0]]
  /\ up = [i \in Inum |-> IF i = ROOT THEN ROOT ELSE 0]
  /\ ref = [i \in Inum |-> IF i = ROOT THEN Cardinality(Process) ELSE 0]
  /\ copy = [i \in Inum |-> Invalid]
  /\ lock = [i \in Inum |-> 0]
  /\ th = [p \in Process |-> Idle]
  /\ cwd = [p \in Process |-> ROOT]
  /\ file = [p \in Process |-> 0]
  /\ ftable = [f \in Files |-> NoFile]
  /\ calls = 0
  /\ lost = {} /\ stale = {} /\ strayed = FALSE
  /\ missed = [p \in Process |-> {}]

\* p is at one of the points of L; nobody goes on after a panic.
In(p, L) == th[p].pc \in L /\ \A q \in Process : th[q].pc # "panic"
At(p, l) == In(p, {l})
Set(p, t) == th' = [th EXCEPT ![p] = t]
Goto(p, l) == Set(p, [th[p] EXCEPT !.pc = l])
Unlocked(i) == lock[i] = 0

\* ilock() reads the inode if it is not valid.  A free inode is a panic.
Meta(i) == IF copy[i] = Invalid THEN dinode[i] ELSE copy[i]
Typed(i) == Meta(i).type # Free
Loaded(i) == copy' = [copy EXCEPT ![i] = Meta(i)]
NoType(p, i) == ~Typed(i) /\ Loaded(i) /\ Goto(p, "panic")

\* iget(), idup(): one more reference.  An entry with ref 0 is no entry: iget
\* marks it invalid when it takes it, and the model when its last reference goes.
Got(i) == ref' = [ref EXCEPT ![i] = @ + 1]

\* iupdate() of an inode that is locked: the cache is written through.
Updated(i, m) ==
  /\ dinode' = [dinode EXCEPT ![i] = m]
  /\ copy' = [copy EXCEPT ![i] = m]

Lookup(d, n) ==
  CASE n = "." -> d
    [] n = ".." -> up[d]
    [] OTHER -> ents[d][n]

\* n is looked up in d, and what it names is taken.
Follows(d, n) ==
  /\ strayed' = (strayed \/ (n = ".." /\ d \in stale))
  /\ UNCHANGED <<stale, missed>>

IsEmpty(d) == \A n \in Name : ents[d][n] = 0

\* Continue with iput(i), then at l, or end the call with it.
Put(t, i, l) == [t EXCEPT !.pc = "iput", !.put = i, !.ret = l]
EndPut(p, i) == Set(p, Put(Idle, i, "user"))

----------------------------------------------------------------------------
(* namei and nameiparent.                                                  *)

WalkFrom(p, path, t) ==
  LET rooted == path # <<>> /\ Head(path) = "/"
      start == IF rooted THEN ROOT ELSE cwd[p]
  IN  /\ Got(start)
      /\ Set(p, [t EXCEPT !.pc = "namex", !.at = start,
                          !.rest = IF rooted THEN Tail(path) ELSE path])

Start(p) ==
  /\ At(p, "user") /\ cwd[p] # 0 /\ calls < MaxCalls
  /\ calls' = calls + 1
  /\ \E c \in Calls, path \in Paths :
       \E new \in IF c = "link" THEN NewPaths ELSE {<<>>} :
         WalkFrom(p, path, [th[p] EXCEPT !.call = c, !.new = new])
  /\ UNCHANGED <<disk, copy, lock, cwd, files, lost, history>>

\* Does the call look up the parent of the path now?
Parent(p) == th[p].call \in {"creat", "mkdir", "mknod", "unlink"} \/ th[p].ip # 0

\* Where a lookup returns, with an inode and without.
Found(p) == IF th[p].call = "link" /\ th[p].ip # 0 THEN "linknew" ELSE th[p].call
LostPut(p, i) ==
  IF th[p].ip # 0
    THEN Set(p, Put([th[p] EXCEPT !.at = 0, !.rest = <<>>], i, "linkbad"))
    ELSE EndPut(p, i)

NamexElem(p) ==
  /\ At(p, "namex") /\ th[p].rest # <<>> /\ Unlocked(th[p].at)
  /\ LET i == th[p].at
         n == Head(th[p].rest)
         next == Lookup(i, n)
     IN  \/ /\ NoType(p, i)
            /\ UNCHANGED <<ref, history>>
         \/ /\ Meta(i).type = DIR
            /\ Parent(p) /\ Len(th[p].rest) = 1
            /\ Loaded(i)
            /\ Set(p, [th[p] EXCEPT !.pc = Found(p), !.dp = i, !.at = 0])
            /\ UNCHANGED <<ref, history>>
         \/ /\ Meta(i).type = DIR
            /\ ~(Parent(p) /\ Len(th[p].rest) = 1)
            /\ next # 0
            /\ Loaded(i) /\ Got(next) /\ Follows(i, n)
            /\ Set(p, Put([th[p] EXCEPT !.at = next, !.rest = Tail(@)], i, "namex"))
         \/ /\ Typed(i)
            /\ \/ Meta(i).type # DIR
               \/ next = 0 /\ ~(Parent(p) /\ Len(th[p].rest) = 1)
            /\ Loaded(i)
            /\ LostPut(p, i)
            /\ UNCHANGED <<ref, history>>
  /\ UNCHANGED <<disk, lock, cwd, files, calls, lost>>

NamexEnd(p) ==
  /\ At(p, "namex") /\ th[p].rest = <<>>
  /\ IF Parent(p)
       THEN LostPut(p, th[p].at)
       ELSE Set(p, [th[p] EXCEPT !.pc = Found(p), !.at = 0, !.ip = th[p].at])
  /\ UNCHANGED <<disk, icache, cwd, files, calls, lost, history>>

----------------------------------------------------------------------------
(* iput                                                                    *)

\* Mutant of IputCheck: other references do not matter.
IputCheckAnyRef(p) ==
  /\ At(p, "iput") /\ Unlocked(th[p].put)
  /\ LET i == th[p].put
     IN  IF copy[i] # Invalid /\ copy[i].nlink = 0
           THEN /\ Goto(p, "itrunc")
                /\ lock' = [lock EXCEPT ![i] = p]
                /\ stale' = stale \cup {d \in Inum : up[d] = i}
           ELSE Goto(p, "iputref") /\ UNCHANGED <<lock, stale>>
  /\ UNCHANGED <<disk, ref, copy, cwd, files, calls, lost, strayed, missed>>

IputCheck(p) ==
  /\ At(p, "iput") /\ Unlocked(th[p].put)
  /\ LET i == th[p].put
     IN  IF copy[i] # Invalid /\ copy[i].nlink = 0 /\ ref[i] = 1
           THEN /\ Goto(p, "itrunc")
                /\ lock' = [lock EXCEPT ![i] = p]
                /\ stale' = stale \cup {d \in Inum : up[d] = i}
           ELSE Goto(p, "iputref") /\ UNCHANGED <<lock, stale>>
  /\ UNCHANGED <<disk, ref, copy, cwd, files, calls, lost, strayed, missed>>

\* Is q in ialloc, and has its scan passed i?
Passed(q, i) == th[q].pc = "ialloc" /\ i <= th[q].inum

\* Mutant of IputFree: the cache entry stays valid.
IputFreeValid(p) ==
  /\ At(p, "itrunc")
  /\ LET i == th[p].put
     IN  /\ Updated(i, [type |-> Free, nlink |-> 0])
         /\ ents' = [ents EXCEPT ![i] = [n \in Name |-> 0]]
         /\ up' = [up EXCEPT ![i] = 0]
         /\ lock' = [lock EXCEPT ![i] = 0]
         /\ lost' = (lost \cup {ents[i][n] : n \in Name}) \ {0, i}
         /\ stale' = stale \ {i}
         /\ missed' = [q \in Process |-> IF Passed(q, i) THEN missed[q] \cup {i} ELSE missed[q]]
  /\ Goto(p, "iputref")
  /\ UNCHANGED <<ref, cwd, files, calls, strayed>>

\* No links and no other references: truncate and free.
IputFree(p) ==
  /\ At(p, "itrunc")
  /\ LET i == th[p].put
     IN  /\ dinode' = [dinode EXCEPT ![i] = [type |-> Free, nlink |-> 0]]
         /\ copy' = [copy EXCEPT ![i] = Invalid]
         /\ ents' = [ents EXCEPT ![i] = [n \in Name |-> 0]]
         /\ up' = [up EXCEPT ![i] = 0]
         /\ lock' = [lock EXCEPT ![i] = 0]
         /\ lost' = (lost \cup {ents[i][n] : n \in Name}) \ {0, i}
         /\ stale' = stale \ {i}
         /\ missed' = [q \in Process |-> IF Passed(q, i) THEN missed[q] \cup {i} ELSE missed[q]]
  /\ Goto(p, "iputref")
  /\ UNCHANGED <<ref, cwd, files, calls, strayed>>

IputRef(p) ==
  /\ At(p, "iputref")
  /\ LET i == th[p].put
     IN  /\ ref' = [ref EXCEPT ![i] = @ - 1]
         /\ copy' = IF ref[i] = 1 THEN [copy EXCEPT ![i] = Invalid] ELSE copy
  /\ Set(p, [th[p] EXCEPT !.pc = th[p].ret, !.put = 0, !.ret = "user"])
  /\ UNCHANGED <<disk, lock, cwd, files, calls, lost, history>>

----------------------------------------------------------------------------
(* sys_open, sys_mkdir, sys_mknod and create                               *)

\* filealloc and fdalloc, with ip locked or lockable.  Either may fail: there is
\* no free entry, or open() runs with others that take entries for a moment.
Opens(p, i) ==
  \/ \E f \in Files :
       /\ file[p] = 0 /\ ftable[f].ref = 0 /\ \A g \in 1..(f - 1) : ftable[g].ref # 0
       /\ ftable' = [ftable EXCEPT ![f] = [ref |-> 1, ip |-> i]]
       /\ file' = [file EXCEPT ![p] = f]
       /\ Set(p, Idle)
  \/ /\ EndPut(p, i)
     /\ UNCHANGED files

Open(p) ==
  /\ At(p, "open") /\ Unlocked(th[p].ip)
  /\ Loaded(th[p].ip)
  /\ \/ Typed(th[p].ip) /\ Opens(p, th[p].ip)
     \/ NoType(p, th[p].ip) /\ UNCHANGED files
  /\ UNCHANGED <<disk, ref, lock, cwd, calls, lost, history>>

\* exec: the program file is read with its lock held, and put, whether it is a
\* program or not.
Exec(p) ==
  /\ At(p, "exec") /\ Unlocked(th[p].ip)
  /\ Loaded(th[p].ip)
  /\ \/ Typed(th[p].ip) /\ EndPut(p, th[p].ip)
     \/ NoType(p, th[p].ip)
  /\ UNCHANGED <<disk, ref, lock, cwd, files, calls, lost, history>>

\* The parent is locked again, and the name looked up.
CreateLookup(p) ==
  /\ In(p, {"creat", "mkdir", "mknod"}) /\ Unlocked(th[p].dp)
  /\ LET d == th[p].dp
         n == Head(th[p].rest)
         i == Lookup(d, n)
     IN  \/ /\ NoType(p, d)
            /\ UNCHANGED <<ref, lock, history>>
         \/ /\ Typed(d) /\ i # 0
            /\ Loaded(d) /\ Got(i) /\ Follows(d, n)
            /\ Set(p, Put([th[p] EXCEPT !.dp = 0, !.ip = i], d, "exists"))
            /\ UNCHANGED lock
         \/ /\ Typed(d) /\ i = 0
            /\ Loaded(d)
            /\ lock' = [lock EXCEPT ![d] = p]
            /\ Set(p, [th[p] EXCEPT !.pc = "ialloc", !.inum = 0])
            /\ UNCHANGED <<ref, history>>
  /\ UNCHANGED <<disk, cwd, files, calls, lost>>

CreateExists(p) ==
  /\ At(p, "exists") /\ Unlocked(th[p].ip)
  /\ LET i == th[p].ip
     IN  /\ Loaded(i)
         /\ \/ NoType(p, i) /\ UNCHANGED files
            \/ th[p].call = "creat" /\ Meta(i).type = FILE /\ Opens(p, i)
            \/ /\ Typed(i) /\ ~(th[p].call = "creat" /\ Meta(i).type = FILE)
               /\ EndPut(p, i)
               /\ UNCHANGED files
  /\ UNCHANGED <<disk, ref, lock, cwd, calls, lost, history>>

NewType(p) == CASE th[p].call = "creat" -> FILE
                [] th[p].call = "mkdir" -> DIR
                [] th[p].call = "mknod" -> DEV

\* One iteration of ialloc: the next inode on the disk is taken if it is free;
\* panic behind the last one.  inum is the last inode that was seen in use.
Ialloc(p) ==
  /\ At(p, "ialloc")
  /\ LET left == {i \in Inum : i > th[p].inum}
     IN  \/ /\ left = {}
            /\ Goto(p, "panic")
            /\ UNCHANGED <<dinode, missed>>
         \/ \E i \in left :
              /\ \A j \in left : i <= j
              /\ \/ /\ dinode[i].type # Free
                    /\ Set(p, [th[p] EXCEPT !.inum = i])
                    /\ UNCHANGED <<dinode, missed>>
                 \/ /\ dinode[i].type = Free
                    /\ dinode' = [dinode EXCEPT ![i] = [type |-> NewType(p), nlink |-> 0]]
                    /\ Set(p, [th[p] EXCEPT !.pc = "iget", !.ip = i, !.inum = 0])
                    /\ missed' = [missed EXCEPT ![p] = {}]
  /\ UNCHANGED <<ents, up, icache, cwd, files, calls, lost, stale, strayed>>

IallocGet(p) ==
  /\ At(p, "iget")
  /\ Got(th[p].ip)
  /\ Goto(p, "create")
  /\ UNCHANGED <<disk, copy, lock, cwd, files, calls, lost, history>>

\* With both locks: the link count, the entries, and the parent is unlocked.
Create(p) ==
  /\ At(p, "create") /\ Unlocked(th[p].ip)
  /\ LET i == th[p].ip
         d == th[p].dp
         n == Head(th[p].rest)
         dir == th[p].call = "mkdir"
         mine == [Meta(i) EXCEPT !.nlink = 1]
         more == [copy[d] EXCEPT !.nlink = @ + 1]
     IN  \/ /\ NoType(p, i)
            /\ UNCHANGED <<disk, lock>>
         \/ /\ Typed(i)
            /\ dinode' = [dinode EXCEPT ![i] = mine, ![d] = IF dir THEN more ELSE @]
            /\ copy' = [copy EXCEPT ![i] = mine, ![d] = IF dir THEN more ELSE @]
            /\ ents' = [ents EXCEPT ![d][n] = i]
            /\ up' = IF dir THEN [up EXCEPT ![i] = d] ELSE up
            /\ lock' = [lock EXCEPT ![d] = 0, ![i] = p]
            /\ Set(p, Put([th[p] EXCEPT !.dp = 0], d, "created"))
  /\ UNCHANGED <<ref, cwd, files, calls, lost, history>>

Created(p) ==
  /\ At(p, "created")
  /\ lock' = [lock EXCEPT ![th[p].ip] = 0]
  /\ IF th[p].call = "creat"
       THEN Opens(p, th[p].ip)
       ELSE EndPut(p, th[p].ip) /\ UNCHANGED files
  /\ UNCHANGED <<disk, ref, copy, cwd, calls, lost, history>>

----------------------------------------------------------------------------
(* sys_link                                                                *)

\* Mutant of LinkOld: the link is not counted before the entry is written.
LinkOldLate(p) ==
  /\ At(p, "link") /\ Unlocked(th[p].ip)
  /\ Typed(th[p].ip) /\ Meta(th[p].ip).type # DIR
  /\ Loaded(th[p].ip)
  /\ Goto(p, "linkwalk")
  /\ UNCHANGED <<disk, ref, lock, cwd, files, calls, lost, history>>

LinkOld(p) ==
  /\ At(p, "link") /\ Unlocked(th[p].ip)
  /\ LET i == th[p].ip
     IN  \/ /\ NoType(p, i)
            /\ UNCHANGED <<disk, ref>>
         \/ /\ Meta(i).type = DIR
            /\ Loaded(i)
            /\ EndPut(p, i)
            /\ UNCHANGED <<disk, ref>>
         \/ /\ Typed(i) /\ Meta(i).type # DIR
            /\ Updated(i, [Meta(i) EXCEPT !.nlink = @ + 1])
            /\ Goto(p, "linkwalk")
            /\ UNCHANGED <<ents, up, ref>>
  /\ UNCHANGED <<lock, cwd, files, calls, lost, history>>

LinkWalk(p) ==
  /\ At(p, "linkwalk")
  /\ WalkFrom(p, th[p].new, [th[p] EXCEPT !.new = <<>>])
  /\ UNCHANGED <<disk, copy, lock, cwd, files, calls, lost, history>>

\* dirlink: a name that exists is looked up, and put with the directory locked.
LinkNew(p) ==
  /\ At(p, "linknew") /\ Unlocked(th[p].dp)
  /\ LET d == th[p].dp
         n == Head(th[p].rest)
         i == Lookup(d, n)
     IN  \/ /\ NoType(p, d)
            /\ UNCHANGED <<ents, ref, lock, history>>
         \/ /\ Typed(d) /\ i # 0
            /\ Loaded(d) /\ Got(i) /\ Follows(d, n)
            /\ lock' = [lock EXCEPT ![d] = p]
            /\ Set(p, Put(th[p], i, "linkhas"))
            /\ UNCHANGED ents
         \/ /\ Typed(d) /\ i = 0
            /\ Loaded(d)
            /\ ents' = [ents EXCEPT ![d][n] = th[p].ip]
            /\ Set(p, Put([th[p] EXCEPT !.dp = 0], d, "linked"))
            /\ UNCHANGED <<ref, lock, history>>
  /\ UNCHANGED <<dinode, up, cwd, files, calls, lost>>

\* Mutant of LinkHas: the directory is unlocked, but not put.
LinkHasLeak(p) ==
  /\ At(p, "linkhas")
  /\ lock' = [lock EXCEPT ![th[p].dp] = 0]
  /\ Set(p, [th[p] EXCEPT !.dp = 0, !.pc = "linkbad"])
  /\ UNCHANGED <<disk, ref, copy, cwd, files, calls, lost, history>>

LinkHas(p) ==
  /\ At(p, "linkhas")
  /\ lock' = [lock EXCEPT ![th[p].dp] = 0]
  /\ Set(p, Put([th[p] EXCEPT !.dp = 0], th[p].dp, "linkbad"))
  /\ UNCHANGED <<disk, ref, copy, cwd, files, calls, lost, history>>

Linked(p) ==
  /\ At(p, "linked")
  /\ EndPut(p, th[p].ip)
  /\ UNCHANGED <<disk, icache, cwd, files, calls, lost, history>>

\* Mutant of LinkBad: the link count is not undone.
LinkBadKeeps(p) ==
  /\ At(p, "linkbad") /\ Unlocked(th[p].ip)
  /\ EndPut(p, th[p].ip)
  /\ UNCHANGED <<disk, ref, copy, lock, cwd, files, calls, lost, history>>

LinkBad(p) ==
  /\ At(p, "linkbad") /\ Unlocked(th[p].ip)
  /\ LET i == th[p].ip
     IN  /\ Updated(i, [copy[i] EXCEPT !.nlink = @ - 1])
         /\ EndPut(p, i)
  /\ UNCHANGED <<ents, up, ref, lock, cwd, files, calls, lost, history>>

----------------------------------------------------------------------------
(* sys_unlink                                                              *)

UnlinkLookup(p) ==
  /\ At(p, "unlink") /\ Unlocked(th[p].dp)
  /\ LET d == th[p].dp
         n == Head(th[p].rest)
     IN  \/ /\ NoType(p, d)
            /\ UNCHANGED <<ref, lock>>
         \/ /\ Typed(d) /\ (n \in {".", ".."} \/ Lookup(d, n) = 0)
            /\ Loaded(d)
            /\ EndPut(p, d)
            /\ UNCHANGED <<ref, lock>>
         \/ /\ Typed(d) /\ n \notin {".", ".."} /\ Lookup(d, n) # 0
            /\ Loaded(d) /\ Got(Lookup(d, n))
            /\ lock' = [lock EXCEPT ![d] = p]
            /\ Set(p, [th[p] EXCEPT !.pc = "unlinkip", !.ip = Lookup(d, n)])
  /\ UNCHANGED <<disk, cwd, files, calls, lost, history>>

\* The entry is erased with both locks, the parent unlocked and put.
UnlinkEntry(p) ==
  /\ At(p, "unlinkip") /\ Unlocked(th[p].ip)
  /\ LET i == th[p].ip
         d == th[p].dp
         n == Head(th[p].rest)
         dir == Meta(i).type = DIR
     IN  \/ /\ ~Typed(i) \/ Meta(i).nlink < 1
            /\ Loaded(i)
            /\ Goto(p, "panic")
            /\ UNCHANGED <<dinode, ents, lock>>
         \/ /\ Typed(i) /\ Meta(i).nlink >= 1 /\ dir /\ ~IsEmpty(i)
            /\ Loaded(i)
            /\ Set(p, Put([th[p] EXCEPT !.ip = 0], i, "unlinkbad"))
            /\ UNCHANGED <<dinode, ents, lock>>
         \/ /\ Typed(i) /\ Meta(i).nlink >= 1 /\ ~(dir /\ ~IsEmpty(i))
            /\ ents' = [ents EXCEPT ![d][n] = 0]
            /\ LET less == [copy[d] EXCEPT !.nlink = @ - 1]
               IN  /\ dinode' = IF dir THEN [dinode EXCEPT ![d] = less] ELSE dinode
                   /\ copy' = [copy EXCEPT ![i] = Meta(i), ![d] = IF dir THEN less ELSE @]
            /\ lock' = [lock EXCEPT ![d] = 0, ![i] = p]
            /\ Set(p, Put([th[p] EXCEPT !.dp = 0], d, "unlinked"))
  /\ UNCHANGED <<up, ref, cwd, files, calls, lost, history>>

UnlinkBad(p) ==
  /\ At(p, "unlinkbad")
  /\ lock' = [lock EXCEPT ![th[p].dp] = 0]
  /\ EndPut(p, th[p].dp)
  /\ UNCHANGED <<disk, ref, copy, cwd, files, calls, lost, history>>

Unlinked(p) ==
  /\ At(p, "unlinked")
  /\ LET i == th[p].ip
     IN  /\ Updated(i, [copy[i] EXCEPT !.nlink = @ - 1])
         /\ lock' = [lock EXCEPT ![i] = 0]
         /\ EndPut(p, i)
  /\ UNCHANGED <<ents, up, ref, cwd, files, calls, lost, history>>

----------------------------------------------------------------------------
(* sys_chdir                                                               *)

Chdir(p) ==
  /\ At(p, "chdir") /\ Unlocked(th[p].ip)
  /\ LET i == th[p].ip
     IN  /\ Loaded(i)
         /\ \/ NoType(p, i) /\ UNCHANGED cwd
            \/ /\ Typed(i) /\ Meta(i).type # DIR
               /\ EndPut(p, i)
               /\ UNCHANGED cwd
            \/ /\ Meta(i).type = DIR
               /\ cwd' = [cwd EXCEPT ![p] = i]
               /\ EndPut(p, cwd[p])
  /\ UNCHANGED <<disk, ref, lock, files, calls, lost, history>>

----------------------------------------------------------------------------
(* Files and directories of processes: close, fork and exit.               *)

\* fileclose of p's file; the last one to close it goes on with iput.
FileClose(p, l) ==
  LET f == file[p]
  IN  /\ file' = [file EXCEPT ![p] = 0]
      /\ \/ /\ ftable[f].ref > 1
            /\ ftable' = [ftable EXCEPT ![f].ref = @ - 1]
            /\ Goto(p, l)
         \/ /\ ftable[f].ref = 1
            /\ ftable' = [ftable EXCEPT ![f] = NoFile]
            /\ Set(p, Put(th[p], ftable[f].ip, l))

Close(p) ==
  /\ At(p, "user") /\ file[p] # 0
  /\ FileClose(p, "user")
  /\ UNCHANGED <<disk, icache, cwd, calls, lost, history>>

\* fork: filedup of the open file, idup of the current directory.
Fork(p) ==
  /\ At(p, "user") /\ cwd[p] # 0
  /\ \E q \in Process :
       /\ At(q, "user") /\ cwd[q] = 0
       /\ file' = [file EXCEPT ![q] = file[p]]
       /\ ftable' = [f \in Files |-> IF f = file[p] THEN [ftable[f] EXCEPT !.ref = @ + 1]
                                                  ELSE ftable[f]]
       /\ cwd' = [cwd EXCEPT ![q] = cwd[p]]
  /\ Got(cwd[p])
  /\ UNCHANGED <<disk, copy, lock, th, calls, lost, history>>

\* exit: the files are closed, then the current directory is put.
Exit(p) ==
  /\ In(p, {"user", "exit"}) /\ cwd[p] # 0
  /\ \/ /\ file[p] # 0
        /\ FileClose(p, "exit")
        /\ UNCHANGED cwd
     \/ /\ file[p] = 0
        /\ cwd' = [cwd EXCEPT ![p] = 0]
        /\ EndPut(p, cwd[p])
        /\ UNCHANGED files
  /\ UNCHANGED <<disk, icache, calls, lost, history>>

----------------------------------------------------------------------------

\* A panic stops the system; a crash or a reboot loses the memory.
Panic(p) == th[p].pc = "panic" /\ UNCHANGED vars

Crash ==
  /\ MayCrash
  /\ \A p \in Process : At(p, "user")
  /\ ref' = [i \in Inum |-> IF i = ROOT THEN Cardinality(Process) ELSE 0]
  /\ copy' = [i \in Inum |-> Invalid]
  /\ cwd' = [p \in Process |-> ROOT]
  /\ file' = [p \in Process |-> 0]
  /\ ftable' = [f \in Files |-> NoFile]
  /\ UNCHANGED <<disk, lock, th, calls, lost, history>>

Work(p) ==
  \/ NamexElem(p) \/ NamexEnd(p)
  \/ IputCheck(p) \/ IputFree(p) \/ IputRef(p)
  \/ Open(p) \/ Exec(p) \/ CreateLookup(p) \/ CreateExists(p)
  \/ Ialloc(p) \/ IallocGet(p) \/ Create(p) \/ Created(p)
  \/ LinkOld(p) \/ LinkWalk(p) \/ LinkNew(p) \/ LinkHas(p) \/ Linked(p) \/ LinkBad(p)
  \/ UnlinkLookup(p) \/ UnlinkEntry(p) \/ UnlinkBad(p) \/ Unlinked(p)
  \/ Chdir(p)

Next == Crash \/ \E p \in Process : 
          \/ Start(p) \/ Work(p) \/ Panic(p)
          \/ Close(p) \/ Fork(p) \/ Exit(p)

Spec == Init /\ [][Next]_vars

----------------------------------------------------------------------------
(* Properties. *)

Points == {"user", "namex", "iput", "itrunc", "iputref", "open", "creat", "mkdir",
           "link", "unlink", "chdir", "exists", "ialloc", "iget", "create",
           "created", "linkwalk", "linknew", "linkhas", "linked", "linkbad",
           "unlinkip", "unlinkbad", "unlinked", "mknod", "exec", "exit", "panic"}
Metas == [type : {Free, FILE, DIR, DEV}, nlink : Int]
Maybe == Inum \cup {0}
Threads == [pc : Points, call : Calls \cup {"none"}, at : Maybe,
            rest : Seq(Element), new : NewPaths \cup {<<>>},
            dp : Maybe, ip : Maybe, put : Maybe, ret : Points, inum : Maybe]

StateOK ==
  /\ dinode \in [Inum -> Metas] /\ copy \in [Inum -> Metas \cup {Invalid}]
  /\ ents \in [Inum -> [Name -> Maybe]] /\ up \in [Inum -> Maybe]
  /\ ref \in [Inum -> Nat]
  /\ lock \in [Inum -> Process \cup {0}]
  /\ th \in [Process -> Threads]
  /\ cwd \in [Process -> Maybe] /\ file \in [Process -> Files \cup {0}]
  /\ ftable \in [Files -> [ref : Nat, ip : Maybe]]
  /\ lost \subseteq Inum /\ calls \in 0..MaxCalls
TypeOK ==
  /\ StateOK
  /\ stale \subseteq Inum /\ strayed \in BOOLEAN
  /\ missed \in [Process -> SUBSET Inum]

Quiescent == \A p \in Process : th[p].pc = "user"

\* "ip->ref tracks the number of in-memory pointers to the entry": every path
\* through a call, the failing ones included, gives back what it took, and so do
\* processes that share a file.
Pointers(i) ==
  {s \in Process \X {"cwd", "at", "dp", "ip", "put"} :
     i = CASE s[2] = "cwd" -> cwd[s[1]]
           [] s[2] = "ip" -> IF th[s[1]].pc = "iget" THEN 0 ELSE th[s[1]].ip
           [] OTHER -> th[s[1]][s[2]]}
  \cup {<<f, "ftable">> : f \in {g \in Files : ftable[g].ip = i}}

RefsCounted ==
  /\ \A i \in Inum : ref[i] = Cardinality(Pointers(i))
  /\ \A f \in Files : ftable[f].ref = Cardinality({p \in Process : file[p] = f})

\* The inode cache is write-through: what a valid entry says is on the disk.
Coherent == \A i \in Inum : copy[i] # Invalid => copy[i] = dinode[i]

\* nlink counts the entries that name the inode, and the ".." of the directories
\* that it contains.
Entries(i) ==
  {e \in Inum \X Name : dinode[e[1]].type = DIR /\ ents[e[1]][e[2]] = i}
Subdirs(i) == {n \in Name : ents[i][n] # 0 /\ dinode[ents[i][n]].type = DIR}
Links(i) ==
  Cardinality(Entries(i)) + Cardinality(Subdirs(i)) + (IF i = ROOT THEN 1 ELSE 0)

\* At no moment, in the middle of a call either, is nlink below the
\* number of links: iput frees no inode that an entry still names, and none that
\* is open or the current directory of a process.  This and the next two hold
\* until a lookup follows the ".." of a removed directory to a number that iput
\* has freed, and that ialloc may have given to another inode.
LinksCover ==
  ~strayed =>
    /\ \A i \in Inum : dinode[i].nlink >= Links(i)
    /\ \A i \in Inum : dinode[i].type = Free =>
         /\ \A p \in Process : cwd[p] # i
         /\ \A f \in Files : ftable[f].ip # i

\* Between calls nlink is exact, the failed ones and their undoing included; all
\* but what was left in a directory that unlink had removed meanwhile.
LinksExact ==
  ~strayed /\ Quiescent =>
    \A i \in Inum \ lost : dinode[i].type # Free => dinode[i].nlink = Links(i)

\* The panics "ilock: no type" and "unlink: nlink < 1" are never reached.  The
\* kernel stops only where a scan of ialloc has passed every inode, and an inode
\* that is free then was freed by an iput behind the scan, which looks at one
\* block at a time.  (The icache is as large as it has to be: "iget: no inodes"
\* is not among these panics.)
PanicsAfterScan ==
  ~strayed =>
    \A p \in Process, i \in Inum : th[p].pc = "panic" =>
      i <= th[p].inum /\ (dinode[i].type = Free => i \in missed[p])

\* An inode without links stays on the disk after its last close only if a crash
\* came in between.
NoOrphan ==
  Quiescent =>
    \A i \in Inum : dinode[i].type # Free /\ dinode[i].nlink = 0 => ref[i] > 0

\* "The separation also helps avoid deadlock": no processes wait for the inode
\* locks of each other, or a process for a lock it holds.
Wants(p) ==
  CASE th[p].pc = "iput" -> th[p].put
    [] th[p].pc \in {"exists", "create", "unlinkip", "link", "linkbad", "open", "chdir", "exec"} -> th[p].ip
    [] th[p].pc \in {"creat", "mkdir", "mknod", "linknew", "unlink"} -> th[p].dp
    [] th[p].pc = "namex" /\ th[p].rest # <<>> -> th[p].at
    [] OTHER -> 0
WaitsFor(p, q) == Wants(p) # 0 /\ lock[Wants(p)] = q

NoDeadlock ==
  \A S \in SUBSET Process : S # {} => \E p \in S : \A q \in S : ~WaitsFor(p, q)

=============================================================================
