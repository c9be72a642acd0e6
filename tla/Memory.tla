------------------------------- MODULE Memory -------------------------------
(***************************************************************************)
(* Physical pages and address spaces: kernel/kalloc.c, kernel/vm.c and the *)
(* calls that build, grow and free an address space: fork and sbrk (proc.c *)
(* and sysproc.c), exec (exec.c), exit and wait.                           *)
(*                                                                         *)
(* A kalloc() is a step, because another process can take the last page    *)
(* before it; the kfree() calls of one function are one step together.     *)
(* Sizes and addresses are counted in pages.                               *)
(***************************************************************************)
EXTENDS Integers

CONSTANTS
  Page,         \* the physical pages between end and PHYSTOP
  NPROC,
  MaxVa,        \* bound: pages of a user address space
  PTX,          \* user pages that one page table page maps
  NKVM          \* page table pages of the kernel part

Procs == 1..NPROC
Vas == 0..(MaxVa - 1)
KvmTables == {<<"kernel", n>> : n \in 1..NKVM}
UserTables == {<<"user", n>> : n \in 0..((MaxVa - 1) \div PTX)}
Tables == KvmTables \cup UserTables
None == 0

ASSUME MemoryAssumption ==
  /\ NPROC \in Nat \ {0} /\ MaxVa \in Nat \ {0}
  /\ PTX \in Nat \ {0} /\ NKVM \in Nat \ {0}
  /\ Page \subseteq Nat \ {None}

VARIABLES
  free,         \* kmem.freelist
  tables,       \* tables[d][t]: the page directory d's entry for table t
  ptes,         \* ptes[d][a]: the user page a of the directory d
  (* struct proc *)
  state, kstack, pgdir, sz,
  cr3,          \* the directory in the CPU that runs the process, None if none does
  (* the call in progress *)
  pc, op,
  np,           \* fork: the child
  newdir,       \* fork, exec: the directory in construction
  next, limit,  \* the user pages next..limit-1 are still to be mapped
  mem           \* the page to be mapped

dirs == <<tables, ptes>>
procs == <<state, kstack, pgdir, sz>>
locals == <<op, np, newdir, next, limit>>
vars == <<free, dirs, procs, cr3, pc, locals, mem>>

NoTables == [t \in Tables |-> None]
NoPages == [a \in Vas |-> None]

\* userinit: one process with a page of memory, the first pages in use.
Init ==
  /\ \E d, k, u, m \in Page, kt \in [KvmTables -> Page] :
    LET used == {d, k, u, m} \cup {kt[t] : t \in KvmTables}
    IN  /\ d < k /\ k < u /\ u < m /\ \A t \in KvmTables : m < kt[t]
        /\ \A s, t \in KvmTables : kt[s] = kt[t] => s = t
        /\ free = Page \ used
        /\ \A x \in used, y \in free : x < y
        /\ tables = [x \in Page |-> [t \in Tables |->
                       CASE x = d /\ t \in KvmTables -> kt[t]
                         [] x = d /\ t = <<"user", 0>> -> u
                         [] OTHER -> None]]
        /\ ptes = [x \in Page |-> [a \in Vas |-> IF x = d /\ a = 0 THEN m ELSE None]]
        /\ kstack = [p \in Procs |-> IF p = 1 THEN k ELSE None]
        /\ pgdir = [p \in Procs |-> IF p = 1 THEN d ELSE None]
  /\ state = [p \in Procs |-> IF p = 1 THEN "ALIVE" ELSE "UNUSED"]
  /\ sz = [p \in Procs |-> IF p = 1 THEN 1 ELSE 0]
  /\ cr3 = [p \in Procs |-> None]
  /\ pc = [p \in Procs |-> "user"]
  /\ op = [p \in Procs |-> "none"]
  /\ np = [p \in Procs |-> None]
  /\ newdir = [p \in Procs |-> None]
  /\ next = [p \in Procs |-> 0]
  /\ limit = [p \in Procs |-> 0]
  /\ mem = [p \in Procs |-> None]

----------------------------------------------------------------------------
(* Page directories. *)

\* The pages of a directory: itself, its tables and what they map.
Mapped(d) == {ptes[d][a] : a \in Vas} \ {None}
TablePages(d) == {tables[d][t] : t \in Tables} \ {None}
Space(d) == {d} \cup TablePages(d) \cup Mapped(d)

\* freevm(d)
Freevm(d) ==
  /\ tables' = [tables EXCEPT ![d] = NoTables]
  /\ ptes' = [ptes EXCEPT ![d] = NoPages]

\* deallocuvm(d, ..., new): the table pages stay.
Kept(d, new) == [a \in Vas |-> IF a < new THEN ptes[d][a] ELSE None]
Dropped(d, new) == {ptes[d][a] : a \in {b \in Vas : b >= new}} \ {None}

\* The page of memory that p has taken and not mapped.
InHand(p) == {mem[p]} \ {None}

Goto(p, l) == pc' = [pc EXCEPT ![p] = l]

\* p runs on a CPU and is at l.
At(p, l) == cr3[p] # None /\ pc[p] = l

\* The order of the free list is left out: kalloc takes the lowest free page.
Kalloc(pg) ==
  /\ pg \in free /\ \A x \in free : pg <= x
  /\ free' = free \ {pg}

----------------------------------------------------------------------------
(* The scheduler. *)

\* switchuvm(p) and swtch
Run(p) ==
  /\ state[p] = "ALIVE" /\ cr3[p] = None
  /\ cr3' = [cr3 EXCEPT ![p] = pgdir[p]]
  /\ UNCHANGED <<free, dirs, procs, pc, locals, mem>>

\* sched() and switchkvm(), before ptable.lock is released
Yield(p) ==
  /\ cr3[p] # None
  /\ cr3' = [cr3 EXCEPT ![p] = None]
  /\ UNCHANGED <<free, dirs, procs, pc, locals, mem>>

----------------------------------------------------------------------------
(* fork, exec and growproc begin. *)

Start(p, o, from, to, l) ==
  /\ op' = [op EXCEPT ![p] = o]
  /\ next' = [next EXCEPT ![p] = from]
  /\ limit' = [limit EXCEPT ![p] = to]
  /\ Goto(p, l)

\* allocproc takes a slot, then a page for its stack.
Fork(p) ==
  /\ At(p, "user")
  /\ \E q \in Procs :
       /\ state[q] = "UNUSED" /\ \A r \in 1..(q - 1) : state[r] # "UNUSED"
       /\ state' = [state EXCEPT ![q] = "EMBRYO"]
       /\ np' = [np EXCEPT ![p] = q]
  /\ Start(p, "fork", 0, sz[p], "kstack")
  /\ UNCHANGED <<free, dirs, kstack, pgdir, sz, cr3, newdir, mem>>

ForkStack(p) ==
  /\ At(p, "kstack")
  /\ \/ /\ free = {}
        /\ state' = [state EXCEPT ![np[p]] = "UNUSED"]
        /\ np' = [np EXCEPT ![p] = None]
        /\ Goto(p, "user")
        /\ UNCHANGED <<free, kstack>>
     \/ \E pg \in Page :
          /\ Kalloc(pg)
          /\ kstack' = [kstack EXCEPT ![np[p]] = pg]
          /\ Goto(p, "setupkvm")
          /\ UNCHANGED <<state, np>>
  /\ UNCHANGED <<dirs, pgdir, sz, cr3, op, newdir, next, limit, mem>>

\* exec: the segments of the program, a guard page and a page for the stack.
Exec(p) ==
  /\ At(p, "user")
  /\ \E n \in 1..(MaxVa - 2) : Start(p, "exec", 0, n + 2, "setupkvm")
  /\ UNCHANGED <<free, dirs, procs, cr3, np, newdir, mem>>

\* growproc with n > 0
Grow(p) ==
  /\ At(p, "user")
  /\ \E new \in (sz[p] + 1)..MaxVa : Start(p, "sbrk", sz[p], new, "kalloc")
  /\ UNCHANGED <<free, dirs, procs, cr3, np, newdir, mem>>

\* growproc with n < 0.  deallocuvm returns 0 when nothing is left, which
\* growproc takes for a failure: sz keeps its value, and the process that lost
\* its code can only fault.
Shrink(p) ==
  /\ At(p, "user")
  /\ \E new \in 0..(sz[p] - 1) :
       /\ free' = free \cup Dropped(pgdir[p], new)
       /\ ptes' = [ptes EXCEPT ![pgdir[p]] = Kept(pgdir[p], new)]
       /\ sz' = IF new = 0 THEN sz ELSE [sz EXCEPT ![p] = new]
       /\ cr3' = [cr3 EXCEPT ![p] = pgdir[p]]
       /\ Goto(p, IF new = 0 THEN "fault" ELSE "user")
  /\ UNCHANGED <<tables, state, kstack, pgdir, locals, mem>>

----------------------------------------------------------------------------
(* setupkvm *)

Setupkvm(p) ==
  /\ At(p, "setupkvm")
  /\ \/ free = {} /\ Goto(p, "bad") /\ UNCHANGED <<free, newdir>>
     \/ \E pg \in Page :
          /\ Kalloc(pg)
          /\ newdir' = [newdir EXCEPT ![p] = pg]
          /\ Goto(p, "kvmtables")
  /\ UNCHANGED <<dirs, procs, cr3, op, np, next, limit, mem>>

\* mappages() of one kernel table; a failure frees the new directory.
KvmTable(p) ==
  /\ At(p, "kvmtables")
  /\ LET d == newdir[p]
         left == {t \in KvmTables : tables[d][t] = None}
     IN  \/ /\ left = {}
            /\ Goto(p, "kalloc")
            /\ UNCHANGED <<free, tables>>
         \/ /\ left # {} /\ free = {}
            /\ Goto(p, "bad")
            /\ UNCHANGED <<free, tables>>
         \/ \E pg \in Page :
              /\ left # {} /\ Kalloc(pg)
              /\ tables' = [tables EXCEPT ![d][CHOOSE t \in left : TRUE] = pg]
              /\ UNCHANGED pc
  /\ UNCHANGED <<ptes, procs, cr3, locals, mem>>

----------------------------------------------------------------------------
(* The loops of allocuvm and copyuvm. *)

\* The directory that is filled.
Target(p) == IF op[p] = "sbrk" THEN pgdir[p] ELSE newdir[p]

Table(a) == <<"user", a \div PTX>>

AllocPage(p) ==
  /\ At(p, "kalloc") /\ next[p] < limit[p]
  /\ \/ free = {} /\ Goto(p, "bad") /\ UNCHANGED <<free, mem>>
     \/ \E pg \in Page :
          /\ Kalloc(pg)
          /\ mem' = [mem EXCEPT ![p] = pg]
          /\ Goto(p, "mappages")
  /\ UNCHANGED <<dirs, procs, cr3, locals>>

\* walkpgdir allocates a page table page if there is none.
MapTable(p) ==
  /\ At(p, "mappages") /\ tables[Target(p)][Table(next[p])] = None
  /\ \/ free = {} /\ Goto(p, "bad") /\ UNCHANGED <<free, tables>>
     \/ \E pg \in Page :
          /\ Kalloc(pg)
          /\ tables' = [tables EXCEPT ![Target(p)][Table(next[p])] = pg]
          /\ UNCHANGED pc
  /\ UNCHANGED <<ptes, procs, cr3, locals, mem>>

MapPage(p) ==
  /\ At(p, "mappages") /\ tables[Target(p)][Table(next[p])] # None
  /\ ptes' = [ptes EXCEPT ![Target(p)][next[p]] = mem[p]]
  /\ mem' = [mem EXCEPT ![p] = None]
  /\ next' = [next EXCEPT ![p] = @ + 1]
  /\ Goto(p, "kalloc")
  /\ UNCHANGED <<free, tables, procs, cr3, op, np, newdir, limit>>

\* exec gives up: not a program, or the arguments do not fit.
ExecBad(p) ==
  /\ At(p, "kalloc") /\ op[p] = "exec"
  /\ Goto(p, "bad")
  /\ UNCHANGED <<free, dirs, procs, cr3, locals, mem>>

----------------------------------------------------------------------------
(* The failures: everything the call has allocated is freed. *)

\* Mutants of GrowBad: the page that could not be mapped is not freed; the pages
\* that were mapped are not.
GrowBadLeak(p) ==
  /\ At(p, "bad") /\ op[p] = "sbrk"
  /\ free' = free \cup Dropped(pgdir[p], sz[p])
  /\ ptes' = [ptes EXCEPT ![pgdir[p]] = Kept(pgdir[p], sz[p])]
  /\ mem' = [mem EXCEPT ![p] = None]
  /\ Goto(p, "user")
  /\ UNCHANGED <<tables, procs, cr3, locals>>

GrowBadKeeps(p) ==
  /\ At(p, "bad") /\ op[p] = "sbrk"
  /\ free' = free \cup InHand(p)
  /\ mem' = [mem EXCEPT ![p] = None]
  /\ Goto(p, "user")
  /\ UNCHANGED <<dirs, procs, cr3, locals>>

\* bad: of allocuvm
GrowBad(p) ==
  /\ At(p, "bad") /\ op[p] = "sbrk"
  /\ free' = free \cup Dropped(pgdir[p], sz[p]) \cup InHand(p)
  /\ ptes' = [ptes EXCEPT ![pgdir[p]] = Kept(pgdir[p], sz[p])]
  /\ mem' = [mem EXCEPT ![p] = None]
  /\ Goto(p, "user")
  /\ UNCHANGED <<tables, procs, cr3, locals>>

\* bad: of copyuvm and exec; fork also frees the stack and the slot.
BuildBad(p) ==
  /\ At(p, "bad") /\ op[p] # "sbrk"
  /\ LET d == newdir[p]
         built == IF d = None THEN {} ELSE Space(d)
         child == op[p] = "fork"
     IN  /\ free' = free \cup built \cup InHand(p)
                    \cup (IF child THEN {kstack[np[p]]} ELSE {})
         /\ IF d = None THEN UNCHANGED dirs ELSE Freevm(d)
         /\ kstack' = IF child THEN [kstack EXCEPT ![np[p]] = None] ELSE kstack
         /\ state' = IF child THEN [state EXCEPT ![np[p]] = "UNUSED"] ELSE state
  /\ newdir' = [newdir EXCEPT ![p] = None]
  /\ np' = [np EXCEPT ![p] = None]
  /\ mem' = [mem EXCEPT ![p] = None]
  /\ Goto(p, "user")
  /\ UNCHANGED <<pgdir, sz, cr3, op, next, limit>>

----------------------------------------------------------------------------
(* The successes. *)

Complete(p, o) == At(p, "kalloc") /\ next[p] = limit[p] /\ op[p] = o

GrowDone(p) ==
  /\ Complete(p, "sbrk")
  /\ sz' = [sz EXCEPT ![p] = limit[p]]
  /\ cr3' = [cr3 EXCEPT ![p] = pgdir[p]]
  /\ Goto(p, "user")
  /\ UNCHANGED <<free, dirs, state, kstack, pgdir, locals, mem>>

ForkDone(p) ==
  /\ Complete(p, "fork")
  /\ pgdir' = [pgdir EXCEPT ![np[p]] = newdir[p]]
  /\ sz' = [sz EXCEPT ![np[p]] = sz[p]]
  /\ state' = [state EXCEPT ![np[p]] = "ALIVE"]
  /\ newdir' = [newdir EXCEPT ![p] = None]
  /\ np' = [np EXCEPT ![p] = None]
  /\ pc' = [pc EXCEPT ![p] = "user", ![np[p]] = "user"]
  /\ UNCHANGED <<free, dirs, kstack, cr3, op, next, limit, mem>>

\* exec commits: the new directory is in cr3 before the old one is freed.
\* newdir keeps the old one until then.
ExecCommit(p) ==
  /\ Complete(p, "exec")
  /\ pgdir' = [pgdir EXCEPT ![p] = newdir[p]]
  /\ newdir' = [newdir EXCEPT ![p] = pgdir[p]]
  /\ sz' = [sz EXCEPT ![p] = limit[p]]
  /\ Goto(p, "switchuvm")
  /\ UNCHANGED <<free, dirs, state, kstack, cr3, op, np, next, limit, mem>>

\* Mutant of ExecSwitch: cr3 is not loaded.
ExecNoSwitch(p) ==
  /\ At(p, "switchuvm")
  /\ Goto(p, "freevm")
  /\ UNCHANGED <<free, dirs, procs, cr3, locals, mem>>

ExecSwitch(p) ==
  /\ At(p, "switchuvm")
  /\ cr3' = [cr3 EXCEPT ![p] = pgdir[p]]
  /\ Goto(p, "freevm")
  /\ UNCHANGED <<free, dirs, procs, locals, mem>>

ExecFree(p) ==
  /\ At(p, "freevm")
  /\ free' = free \cup Space(newdir[p])
  /\ Freevm(newdir[p])
  /\ newdir' = [newdir EXCEPT ![p] = None]
  /\ Goto(p, "user")
  /\ UNCHANGED <<procs, cr3, op, np, next, limit, mem>>

----------------------------------------------------------------------------
(* exit and wait.  Module Proc says who waits for whom. *)

\* The state and the switch to kpgdir, before ptable.lock is released.
Exit(p) ==
  /\ cr3[p] # None /\ pc[p] \in {"user", "fault"}
  /\ p # 1
  /\ state' = [state EXCEPT ![p] = "ZOMBIE"]
  /\ cr3' = [cr3 EXCEPT ![p] = None]
  /\ UNCHANGED <<free, dirs, kstack, pgdir, sz, pc, locals, mem>>

Wait(p) ==
  /\ At(p, "user")
  /\ \E q \in Procs \ {p} :
       /\ state[q] = "ZOMBIE"
       /\ free' = free \cup {kstack[q]} \cup Space(pgdir[q])
       /\ Freevm(pgdir[q])
       /\ state' = [state EXCEPT ![q] = "UNUSED"]
       /\ kstack' = [kstack EXCEPT ![q] = None]
       /\ pgdir' = [pgdir EXCEPT ![q] = None]
  /\ UNCHANGED <<sz, cr3, pc, locals, mem>>

----------------------------------------------------------------------------

Next ==
  \E p \in Procs :
    \/ Run(p) \/ Yield(p)
    \/ Fork(p) \/ ForkStack(p) \/ ForkDone(p)
    \/ Exec(p) \/ ExecBad(p) \/ ExecCommit(p) \/ ExecSwitch(p) \/ ExecFree(p)
    \/ Grow(p) \/ GrowBad(p) \/ GrowDone(p) \/ Shrink(p)
    \/ Setupkvm(p) \/ KvmTable(p) \/ AllocPage(p) \/ MapTable(p) \/ MapPage(p)
    \/ BuildBad(p) \/ Exit(p) \/ Wait(p)

Spec == Init /\ [][Next]_vars

----------------------------------------------------------------------------
(* Properties. *)

Points == {"user", "fault", "kstack", "setupkvm", "kvmtables", "kalloc", "mappages",
           "bad", "switchuvm", "freevm"}
Maybe == Page \cup {None}

TypeOK ==
  /\ free \subseteq Page
  /\ tables \in [Page -> [Tables -> Maybe]]
  /\ ptes \in [Page -> [Vas -> Maybe]]
  /\ state \in [Procs -> {"UNUSED", "EMBRYO", "ALIVE", "ZOMBIE"}]
  /\ kstack \in [Procs -> Maybe] /\ pgdir \in [Procs -> Maybe]
  /\ sz \in [Procs -> 0..MaxVa]
  /\ cr3 \in [Procs -> Maybe]
  /\ pc \in [Procs -> Points]
  /\ op \in [Procs -> {"none", "fork", "exec", "sbrk"}]
  /\ np \in [Procs -> Procs \cup {None}]
  /\ newdir \in [Procs -> Maybe] /\ mem \in [Procs -> Maybe]
  /\ next \in [Procs -> 0..MaxVa] /\ limit \in [Procs -> 0..MaxVa]

\* The places that hold a page: a process's stack or directory, a call that has
\* not finished, an entry of a directory.
Slots ==
  {<<k, p>> : k \in {"kstack", "pgdir", "newdir", "mem"}, p \in Procs}
  \cup {<<"table", d, t>> : d \in Page, t \in Tables}
  \cup {<<"user", d, a>> : d \in Page, a \in Vas}

Holds(s) ==
  CASE s[1] = "kstack" -> kstack[s[2]]
    [] s[1] = "pgdir"  -> pgdir[s[2]]
    [] s[1] = "newdir" -> newdir[s[2]]
    [] s[1] = "mem"    -> mem[s[2]]
    [] s[1] = "table"  -> tables[s[2]][s[3]]
    [] s[1] = "user"   -> ptes[s[2]][s[3]]

\* Every page has one owner, whatever fails half-way: none is lost, none is
\* freed twice, none is shared by two address spaces.
OneOwner ==
  LET held == {s \in Slots : Holds(s) # None}
  IN  \A pg \in Page :
        LET owners == {s \in held : Holds(s) = pg}
        IN  /\ pg \in free <=> owners = {}
            /\ \A s, t \in owners : s = t

\* No CPU runs on a page directory that is free or given to somebody else.
Cr3Owned ==
  \A p \in Procs : cr3[p] # None => cr3[p] = pgdir[p] \/ (pc[p] = "switchuvm" /\ cr3[p] = newdir[p])

\* In user space a process has the pages below sz and no others: growproc,
\* exec and fork that fail leave the address space as it was.  copyuvm relies
\* on it ("page not present"), and so does mappages ("remap").
SizeMapped ==
  /\ TypeOK
  /\ \A p \in Procs : state[p] = "ALIVE" /\ pc[p] \notin {"fault"} =>
       \A a \in Vas : a < sz[p] => ptes[pgdir[p]][a] # None
  /\ \A p \in Procs : state[p] = "ALIVE" /\ pc[p] = "user" =>
       \A a \in Vas : a >= sz[p] => ptes[pgdir[p]][a] = None
  /\ \A p \in Procs : pc[p] = "mappages" => ptes[Target(p)][next[p]] = None

=============================================================================
