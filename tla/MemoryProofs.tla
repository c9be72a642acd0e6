---------------------------- MODULE MemoryProofs ----------------------------
(***************************************************************************)
(* Proofs about Memory for every number of processes, pages and page       *)
(* tables.                                                                 *)
(***************************************************************************)
EXTENDS Memory, TLAPS

USE MemoryAssumption

(* The inductive invariant, in parts.  Each part is a fact of one process. *)

\* What a slot of the process table owns in each state.  Only a process that is
\* ALIVE runs, or is inside a call.
LifeOf(p) ==
  /\ state[p] = "UNUSED" => kstack[p] = None
  /\ state[p] \in {"ALIVE", "ZOMBIE"} <=> pgdir[p] # None
  /\ pgdir[p] # None => kstack[p] # None
  /\ state[p] # "ALIVE" => cr3[p] = None /\ pc[p] \in {"user", "fault"}

\* p is in fork; its child has a stack from allocproc on.
InFork(p) == op[p] = "fork" /\ pc[p] \notin {"user", "fault"}

ChildOf(p) ==
  /\ np[p] # None <=> InFork(p)
  /\ np[p] # None =>
       state[np[p]] = "EMBRYO" /\ (kstack[np[p]] = None <=> pc[p] = "kstack")
  /\ \A q \in Procs : np[p] = np[q] /\ np[p] # None => p = q

\* What a call has in its hands at each point.
CallOf(p) ==
  /\ mem[p] # None => pc[p] \in {"mappages", "bad"}
  /\ newdir[p] # None =>
       pc[p] \in {"kvmtables", "kalloc", "mappages", "bad", "switchuvm", "freevm"}
  /\ pc[p] = "kstack" => op[p] = "fork"
  /\ pc[p] \in {"setupkvm", "kvmtables"} => op[p] \in {"fork", "exec"}
  /\ pc[p] \in {"kalloc", "mappages", "bad"} => op[p] # "none"
  /\ pc[p] \in {"switchuvm", "freevm"} => op[p] = "exec"
  /\ op[p] = "sbrk" => newdir[p] = None
  /\ pc[p] \in {"kvmtables", "switchuvm", "freevm"} => newdir[p] # None
  /\ pc[p] \in {"kalloc", "mappages"} /\ op[p] # "sbrk" => newdir[p] # None

\* The pages below n are mapped in d, and no others.
Filled(d, n) == \A a \in Vas : ptes[d][a] # None <=> a < n

Growing(p) == op[p] = "sbrk" /\ pc[p] \in {"kalloc", "mappages", "bad"}

\* The address space of a process, and the one under construction.
SizeOf(p) ==
  /\ state[p] = "ALIVE" /\ pc[p] # "fault" /\ ~Growing(p) => Filled(pgdir[p], sz[p])
  /\ Growing(p) => /\ \A a \in Vas : a < sz[p] => ptes[pgdir[p]][a] # None
                   /\ next[p] >= sz[p] /\ limit[p] > sz[p]
  /\ InFork(p) => limit[p] = sz[p]
  /\ pc[p] \in {"kstack", "setupkvm", "kvmtables"} => next[p] = 0
  /\ pc[p] = "kvmtables" => Filled(newdir[p], 0)
  /\ pc[p] \in {"kalloc", "mappages"} => Filled(Target(p), next[p]) /\ next[p] <= limit[p]
  /\ pc[p] = "mappages" => next[p] < limit[p] /\ mem[p] # None

\* A page that is no directory maps nothing.
IsDir(d) == \E p \in Procs : pgdir[p] = d \/ newdir[p] = d
Emptied == \A d \in Page : ~IsDir(d) => tables[d] = NoTables /\ ptes[d] = NoPages

Processes == \A p \in Procs : LifeOf(p) /\ ChildOf(p) /\ CallOf(p) /\ SizeOf(p)

IInv == TypeOK /\ OneOwner /\ Emptied /\ Processes /\ Cr3Owned

----------------------------------------------------------------------------
(* Slots, and the three ways in which a step changes what they hold.       *)

LEMMA SlotKinds ==
  /\ \A x \in Procs : /\ <<"kstack", x>> \in Slots /\ Holds(<<"kstack", x>>) = kstack[x]
                      /\ <<"pgdir", x>> \in Slots /\ Holds(<<"pgdir", x>>) = pgdir[x]
                      /\ <<"newdir", x>> \in Slots /\ Holds(<<"newdir", x>>) = newdir[x]
                      /\ <<"mem", x>> \in Slots /\ Holds(<<"mem", x>>) = mem[x]
  /\ \A d \in Page, t \in Tables :
       <<"table", d, t>> \in Slots /\ Holds(<<"table", d, t>>) = tables[d][t]
  /\ \A d \in Page, a \in Vas :
       <<"user", d, a>> \in Slots /\ Holds(<<"user", d, a>>) = ptes[d][a]
BY DEF Slots, Holds

LEMMA SlotCases ==
  \A s \in Slots :
    \/ \E x \in Procs : \/ s = <<"kstack", x>> \/ s = <<"pgdir", x>>
                       \/ s = <<"newdir", x>> \/ s = <<"mem", x>>
    \/ \E d \in Page, t \in Tables : s = <<"table", d, t>>
    \/ \E d \in Page, a \in Vas : s = <<"user", d, a>>
BY DEF Slots

LEMMA SlotsNext ==
  /\ \A x \in Procs : /\ Holds(<<"kstack", x>>)' = kstack'[x]
                      /\ Holds(<<"pgdir", x>>)' = pgdir'[x]
                      /\ Holds(<<"newdir", x>>)' = newdir'[x]
                      /\ Holds(<<"mem", x>>)' = mem'[x]
  /\ \A d \in Page, t \in Tables : Holds(<<"table", d, t>>)' = tables'[d][t]
  /\ \A d \in Page, a \in Vas : Holds(<<"user", d, a>>)' = ptes'[d][a]
BY DEF Holds

\* A step leaves all slots but those of T alone.
LEMMA OtherSlots ==
  ASSUME NEW T,
         \A x \in Procs :
           /\ <<"kstack", x>> \notin T => kstack'[x] = kstack[x]
           /\ <<"pgdir", x>> \notin T => pgdir'[x] = pgdir[x]
           /\ <<"newdir", x>> \notin T => newdir'[x] = newdir[x]
           /\ <<"mem", x>> \notin T => mem'[x] = mem[x],
         \A d \in Page, t \in Tables :
           <<"table", d, t>> \notin T => tables'[d][t] = tables[d][t],
         \A d \in Page, a \in Vas :
           <<"user", d, a>> \notin T => ptes'[d][a] = ptes[d][a]
  PROVE  \A s \in Slots \ T : Holds(s)' = Holds(s)
<1>1. ASSUME NEW x \in Procs
      PROVE  /\ <<"kstack", x>> \notin T => Holds(<<"kstack", x>>)' = Holds(<<"kstack", x>>)
             /\ <<"pgdir", x>> \notin T => Holds(<<"pgdir", x>>)' = Holds(<<"pgdir", x>>)
             /\ <<"newdir", x>> \notin T => Holds(<<"newdir", x>>)' = Holds(<<"newdir", x>>)
             /\ <<"mem", x>> \notin T => Holds(<<"mem", x>>)' = Holds(<<"mem", x>>)
  <2>1. /\ Holds(<<"kstack", x>>) = kstack[x] /\ Holds(<<"kstack", x>>)' = kstack'[x]
        /\ Holds(<<"pgdir", x>>) = pgdir[x] /\ Holds(<<"pgdir", x>>)' = pgdir'[x]
        /\ Holds(<<"newdir", x>>) = newdir[x] /\ Holds(<<"newdir", x>>)' = newdir'[x]
        /\ Holds(<<"mem", x>>) = mem[x] /\ Holds(<<"mem", x>>)' = mem'[x]
    BY SlotKinds, SlotsNext
  <2> QED
    BY <2>1
<1>2. \A d \in Page, t \in Tables :
        <<"table", d, t>> \notin T =>
          Holds(<<"table", d, t>>)' = Holds(<<"table", d, t>>)
  BY SlotKinds, SlotsNext
<1>3. \A d \in Page, a \in Vas :
        <<"user", d, a>> \notin T =>
          Holds(<<"user", d, a>>)' = Holds(<<"user", d, a>>)
  BY SlotKinds, SlotsNext
<1> QED
  BY <1>1, <1>2, <1>3, SlotCases, Zenon

LEMMA HoldsPages ==
  TypeOK => free \subseteq Page /\ None \notin Page /\ \A s \in Slots : Holds(s) \in Page \cup {None}
<1> SUFFICES ASSUME TypeOK PROVE \A s \in Slots : Holds(s) \in Page \cup {None}
  BY DEF TypeOK
<1>1. \A x \in Procs : {kstack[x], pgdir[x], newdir[x], mem[x]} \subseteq Page \cup {None}
  BY DEF TypeOK, Maybe
<1>2. \A d \in Page, t \in Tables : tables[d][t] \in Page \cup {None}
  BY DEF TypeOK, Maybe
<1>3. \A d \in Page, a \in Vas : ptes[d][a] \in Page \cup {None}
  BY DEF TypeOK, Maybe
<1>4. \A x \in Procs : /\ Holds(<<"kstack", x>>) \in Page \cup {None}
                      /\ Holds(<<"pgdir", x>>) \in Page \cup {None}
                      /\ Holds(<<"newdir", x>>) \in Page \cup {None}
                      /\ Holds(<<"mem", x>>) \in Page \cup {None}
  BY <1>1, SlotKinds
<1>5. \A d \in Page, t \in Tables : Holds(<<"table", d, t>>) \in Page \cup {None}
  BY <1>2, SlotKinds
<1>6. \A d \in Page, a \in Vas : Holds(<<"user", d, a>>) \in Page \cup {None}
  BY <1>3, SlotKinds
<1> QED
  BY <1>4, <1>5, <1>6, SlotCases, Zenon

LEMMA HoldsPagesNext ==
  TypeOK' => /\ free' \subseteq Page
             /\ \A s \in Slots : Holds(s)' \in Page \cup {None}
<1>1. (TypeOK => free \subseteq Page /\ \A s \in Slots : Holds(s) \in Page \cup {None})'
  BY HoldsPages, PTL
<1> QED
  BY <1>1

\* OneOwner in terms of slots.
Unfree == \A s \in Slots : Holds(s) \notin free
Unshared == \A s, t \in Slots : Holds(s) = Holds(t) /\ Holds(s) # None => s = t
Unlost == \A pg \in Page \ free : \E s \in Slots : Holds(s) = pg

Owners(pg) == {s \in Slots : Holds(s) = pg}

LEMMA Owned ==
  TypeOK => (OneOwner <=> Unfree /\ Unshared /\ Unlost)
<1> SUFFICES ASSUME TypeOK PROVE OneOwner <=> Unfree /\ Unshared /\ Unlost
  OBVIOUS
<1>1. OneOwner <=> /\ \A pg \in Page : pg \in free <=> Owners(pg) = {}
                   /\ \A pg \in Page : \A s, t \in Owners(pg) : s = t
  <2>1. ASSUME NEW pg \in Page
        PROVE  {s \in {r \in Slots : Holds(r) # None} : Holds(s) = pg} = Owners(pg)
    BY HoldsPages DEF Owners
  <2> QED
    BY <2>1 DEF OneOwner
<1>2. \A pg \in Page : Owners(pg) = {} <=> \A s \in Slots : Holds(s) # pg
  BY DEF Owners
<1>3. (\A pg \in Page : pg \in free <=> Owners(pg) = {}) <=> Unfree /\ Unlost
  <2>1. (\A pg \in Page : pg \in free => Owners(pg) = {}) <=> Unfree
    <3>1. (\A pg \in free : \A s \in Slots : Holds(s) # pg) <=> Unfree
      BY DEF Unfree
    <3> QED
      BY <1>2, <3>1, HoldsPages
  <2>2. (\A pg \in Page : Owners(pg) = {} => pg \in free) <=> Unlost
    BY <1>2 DEF Unlost
  <2> QED
    BY <2>1, <2>2
<1>4. (\A pg \in Page : \A s, t \in Owners(pg) : s = t) <=> Unshared
  BY HoldsPages DEF Owners, Unshared
<1> QED
  BY <1>1, <1>3, <1>4

LEMMA OwnedNext ==
  TypeOK' => (OneOwner' <=> Unfree' /\ Unshared' /\ Unlost')
<1>1. (TypeOK => (OneOwner <=> Unfree /\ Unshared /\ Unlost))'
  BY Owned, PTL
<1> QED
  BY <1>1

\* A free page is taken into the slot x.
LEMMA TakePage ==
  ASSUME TypeOK, TypeOK', OneOwner,
         NEW x \in Slots, NEW pg \in free,
         Holds(x) = None, Holds(x)' = pg, free' = free \ {pg},
         \A s \in Slots \ {x} : Holds(s)' = Holds(s)
  PROVE  OneOwner'
<1>1. Unfree /\ Unshared /\ Unlost
  BY Owned
<1>2. Unfree'
  BY <1>1 DEF Unfree
<1>3. Unshared'
  BY <1>1 DEF Unfree, Unshared
<1>4. Unlost'
  BY <1>1, HoldsPages DEF Unlost
<1> QED
  BY <1>2, <1>3, <1>4, OwnedNext

\* The pages of the slots S are freed.
LEMMA GivePages ==
  ASSUME TypeOK, TypeOK', OneOwner,
         NEW S \in SUBSET Slots,
         free' = free \cup ({Holds(s) : s \in S} \ {None}),
         \A s \in S : Holds(s)' = None,
         \A s \in Slots \ S : Holds(s)' = Holds(s)
  PROVE  OneOwner'
<1>1. Unfree /\ Unshared /\ Unlost
  BY Owned
<1>2. Unfree'
  BY <1>1, HoldsPages, HoldsPagesNext DEF Unfree, Unshared
<1>3. Unshared'
  BY <1>1 DEF Unfree, Unshared
<1>4. Unlost'
  BY <1>1, HoldsPages DEF Unlost
<1> QED
  BY <1>2, <1>3, <1>4, OwnedNext

\* Two slots exchange what they hold.
LEMMA MovePage ==
  ASSUME TypeOK, TypeOK', OneOwner,
         NEW x \in Slots, NEW y \in Slots,
         free' = free, Holds(x)' = Holds(y), Holds(y)' = Holds(x),
         \A s \in Slots \ {x, y} : Holds(s)' = Holds(s)
  PROVE  OneOwner'
<1>1. Unfree /\ Unshared /\ Unlost
  BY Owned
<1>2. Unfree'
  BY <1>1 DEF Unfree
<1>3. Unshared'
  BY <1>1 DEF Unshared
<1>4. Unlost'
  BY <1>1 DEF Unlost
<1> QED
  BY <1>2, <1>3, <1>4, OwnedNext

\* A step that neither takes, moves nor frees a page.
LEMMA SameSlots ==
  ASSUME TypeOK, TypeOK', OneOwner, Emptied,
         UNCHANGED <<free, dirs, kstack, pgdir, newdir, mem>>
  PROVE  OneOwner' /\ Emptied'
<1>1. Unfree /\ Unshared /\ Unlost
  BY Owned
<1>2. \A s \in Slots \ {} : Holds(s)' = Holds(s)
  BY OtherSlots, Zenon DEF dirs
<1>3. Unfree' /\ Unshared' /\ Unlost'
  BY <1>1, <1>2 DEF Unfree, Unshared, Unlost
<1> QED
  BY <1>3, OwnedNext DEF Emptied, IsDir, dirs

----------------------------------------------------------------------------
(* Types. *)

LEMMA Constants ==
  /\ None \notin Page /\ None \notin Procs /\ NoTables \in [Tables -> Maybe]
  /\ NoPages \in [Vas -> Maybe] /\ Page \subseteq Maybe
BY DEF Procs, NoTables, NoPages, Maybe, None

LEMMA KalledPage ==
  ASSUME TypeOK, NEW pg, Kalloc(pg)
  PROVE  pg \in free /\ pg \in Page /\ free' = free \ {pg} /\ free' \subseteq Page
BY DEF TypeOK, Kalloc

LEMMA NextType == IInv /\ [Next]_vars => TypeOK'
<1> SUFFICES ASSUME IInv, [Next]_vars PROVE TypeOK'
  OBVIOUS
<1>0. TypeOK
  BY DEF IInv
<1> USE Constants
<1>1. CASE UNCHANGED vars
  BY <1>0, <1>1 DEF TypeOK, vars, dirs, procs, locals
<1>2. ASSUME NEW p \in Procs, Run(p) \/ Yield(p) \/ ExecSwitch(p) \/ ExecBad(p)
      PROVE  TypeOK'
  <2>1. pgdir[p] \in Maybe /\ None \in Maybe
    BY <1>0 DEF TypeOK, Maybe
  <2>2. cr3' \in [Procs -> Maybe]
    BY <1>0, <1>2, <2>1 DEF TypeOK, Run, Yield, ExecSwitch, ExecBad
  <2>3. pc' \in [Procs -> Points]
    BY <1>0, <1>2 DEF TypeOK, Run, Yield, ExecSwitch, ExecBad, Goto, procs, Points
  <2> QED
    BY <1>0, <1>2, <2>2, <2>3 DEF TypeOK, Run, Yield, ExecSwitch, ExecBad, dirs, procs, locals
<1>3. ASSUME NEW p \in Procs, Fork(p) \/ Exec(p) \/ Grow(p)
      PROVE  TypeOK'
  <2>1. state' \in [Procs -> {"UNUSED", "EMBRYO", "ALIVE", "ZOMBIE"}]
        /\ np' \in [Procs -> Procs \cup {None}]
    BY <1>0, <1>3 DEF TypeOK, Fork, Exec, Grow, procs
  <2>2. sz[p] \in 0..MaxVa
    BY <1>0 DEF TypeOK
  <2>3. next' \in [Procs -> 0..MaxVa] /\ limit' \in [Procs -> 0..MaxVa]
    BY <1>0, <1>3, <2>2 DEF TypeOK, Fork, Exec, Grow, Start
  <2>4. pc' \in [Procs -> Points] /\ op' \in [Procs -> {"none", "fork", "exec", "sbrk"}]
    BY <1>0, <1>3 DEF TypeOK, Fork, Exec, Grow, Start, Goto, Points
  <2> QED
    BY <1>0, <1>3, <2>1, <2>3, <2>4 DEF TypeOK, Fork, Exec, Grow, dirs, procs
<1>4. ASSUME NEW p \in Procs, ForkStack(p)
      PROVE  TypeOK'
  <2>1. /\ state' \in [Procs -> {"UNUSED", "EMBRYO", "ALIVE", "ZOMBIE"}]
        /\ np' \in [Procs -> Procs \cup {None}] /\ pc' \in [Procs -> Points]
    BY <1>0, <1>4 DEF TypeOK, ForkStack, Goto, Points
  <2>2. free' \subseteq Page /\ kstack' \in [Procs -> Maybe]
    BY <1>0, <1>4, KalledPage DEF TypeOK, ForkStack
  <2> QED
    BY <1>0, <1>4, <2>1, <2>2 DEF TypeOK, ForkStack, dirs
<1>5. ASSUME NEW p \in Procs, Setupkvm(p) \/ AllocPage(p)
      PROVE  TypeOK'
  <2>1. free' \subseteq Page /\ newdir' \in [Procs -> Maybe] /\ mem' \in [Procs -> Maybe]
    BY <1>0, <1>5, KalledPage DEF TypeOK, Setupkvm, AllocPage, locals
  <2>2. pc' \in [Procs -> Points]
    BY <1>0, <1>5 DEF TypeOK, Setupkvm, AllocPage, Goto, Points
  <2> QED
    BY <1>0, <1>5, <2>1, <2>2 DEF TypeOK, Setupkvm, AllocPage, dirs, procs, locals
<1>6. ASSUME NEW p \in Procs, KvmTable(p) \/ MapTable(p)
      PROVE  TypeOK'
  <2>1. free' \subseteq Page
    BY <1>0, <1>6, KalledPage DEF TypeOK, KvmTable, MapTable
  <2>2. tables' \in [Page -> [Tables -> Maybe]]
    <3>1. ASSUME NEW d, NEW t, NEW pg \in Page, tables' = [tables EXCEPT ![d][t] = pg]
          PROVE  tables' \in [Page -> [Tables -> Maybe]]
      BY <1>0, <3>1 DEF TypeOK
    <3>2. \/ UNCHANGED tables
          \/ \E d, t : \E pg \in Page : tables' = [tables EXCEPT ![d][t] = pg]
      BY <1>0, <1>6, KalledPage DEF KvmTable, MapTable
    <3> QED
      BY <1>0, <3>1, <3>2 DEF TypeOK
  <2>3. pc' \in [Procs -> Points]
    BY <1>0, <1>6 DEF TypeOK, KvmTable, MapTable, Goto, Points
  <2> QED
    BY <1>0, <1>6, <2>1, <2>2, <2>3 DEF TypeOK, KvmTable, MapTable, procs, locals
<1>7. ASSUME NEW p \in Procs, MapPage(p)
      PROVE  TypeOK'
  <2>1. pc[p] = "mappages" /\ next[p] < limit[p] /\ next[p] \in 0..MaxVa /\ limit[p] \in 0..MaxVa
    BY <1>0, <1>7 DEF IInv, Processes, SizeOf, MapPage, At, TypeOK
  <2>2. next' \in [Procs -> 0..MaxVa] /\ mem' \in [Procs -> Maybe] /\ pc' \in [Procs -> Points]
    BY <1>0, <1>7, <2>1 DEF TypeOK, MapPage, Goto, Points, Maybe
  <2>3. ptes' \in [Page -> [Vas -> Maybe]]
    BY <1>0, <1>7 DEF TypeOK, MapPage
  <2> QED
    BY <1>0, <1>7, <2>2, <2>3 DEF TypeOK, MapPage, procs
<1>8. ASSUME NEW p \in Procs, Shrink(p) \/ GrowBad(p) \/ GrowDone(p)
      PROVE  TypeOK'
  <2>1. \A d \in Page, n \in 0..MaxVa :
          Kept(d, n) \in [Vas -> Maybe] /\ Dropped(d, n) \subseteq Page
    BY <1>0 DEF TypeOK, Kept, Dropped, Maybe
  <2>2. pgdir[p] \in Maybe /\ sz[p] \in 0..MaxVa /\ limit[p] \in 0..MaxVa
    BY <1>0 DEF TypeOK
  <2>3. pgdir[p] # None
    BY <1>0, <1>8 DEF IInv, Processes, LifeOf, Shrink, GrowBad, GrowDone, Complete, At, TypeOK
  <2>4. pgdir[p] \in Page
    BY <2>2, <2>3 DEF Maybe
  <2>5. InHand(p) \subseteq Page
    BY <1>0 DEF TypeOK, InHand, Maybe
  <2>6. free' \subseteq Page
    <3>1. free \subseteq Page /\ \A n \in 0..MaxVa : Dropped(pgdir[p], n) \subseteq Page
      BY <1>0, <2>1, <2>4 DEF TypeOK
    <3>2. CASE Shrink(p)
      <4>1. PICK new \in 0..(sz[p] - 1) : free' = free \cup Dropped(pgdir[p], new)
        BY <3>2 DEF Shrink
      <4>2. new \in 0..MaxVa
        BY <2>2, <4>1
      <4> QED
        BY <3>1, <4>1, <4>2
    <3>3. CASE GrowBad(p)
      BY <2>2, <2>5, <3>1, <3>3 DEF GrowBad
    <3>4. CASE GrowDone(p)
      BY <3>1, <3>4 DEF GrowDone
    <3> QED
      BY <1>8, <3>2, <3>3, <3>4
  <2>7. ptes' \in [Page -> [Vas -> Maybe]]
    BY <1>0, <1>8, <2>1, <2>2, <2>4 DEF TypeOK, Shrink, GrowBad, GrowDone, dirs
  <2>8. sz' \in [Procs -> 0..MaxVa]
    BY <1>0, <1>8, <2>2 DEF TypeOK, Shrink, GrowBad, GrowDone, procs
  <2>9. cr3' \in [Procs -> Maybe] /\ mem' \in [Procs -> Maybe] /\ pc' \in [Procs -> Points]
    BY <1>0, <1>8, <2>2 DEF TypeOK, Shrink, GrowBad, GrowDone, Goto, Points, Maybe
  <2> QED
    BY <1>0, <1>8, <2>6, <2>7, <2>8, <2>9
    DEF TypeOK, Shrink, GrowBad, GrowDone, dirs, procs, locals
<1>9. ASSUME NEW d \in Page PROVE Space(d) \subseteq Page
  BY <1>0 DEF TypeOK, Space, TablePages, Mapped, Maybe
<1>10. ASSUME NEW p \in Procs, BuildBad(p) \/ ExecFree(p)
       PROVE  TypeOK'
  <2>1. newdir[p] \in Maybe /\ InHand(p) \subseteq Page
    BY <1>0 DEF TypeOK, InHand, Maybe
  <2>2. op[p] = "fork" /\ BuildBad(p) => kstack[np[p]] \in Page
    BY <1>0, Constants DEF IInv, Processes, ChildOf, InFork, TypeOK, BuildBad, At, Maybe
  <2>3. ExecFree(p) => newdir[p] \in Page
    BY <1>0, <2>1 DEF IInv, Processes, CallOf, ExecFree, At, Maybe
  <2>4. free' \subseteq Page
    <3>1. free \subseteq Page
      BY <1>0 DEF TypeOK
    <3>2. CASE ExecFree(p)
      BY <1>9, <2>3, <3>1, <3>2 DEF ExecFree
    <3>3. CASE BuildBad(p)
      <4>1. (IF newdir[p] = None THEN {} ELSE Space(newdir[p])) \subseteq Page
        BY <1>9, <2>1 DEF Maybe
      <4> QED
        BY <2>1, <2>2, <3>1, <3>3, <4>1 DEF BuildBad
    <3> QED
      BY <1>10, <3>2, <3>3
  <2>5. tables' \in [Page -> [Tables -> Maybe]] /\ ptes' \in [Page -> [Vas -> Maybe]]
    <3>1. UNCHANGED dirs \/ Freevm(newdir[p])
      BY <1>10 DEF BuildBad, ExecFree
    <3> QED
      BY <1>0, <3>1 DEF TypeOK, Freevm, dirs
  <2>6. state' \in [Procs -> {"UNUSED", "EMBRYO", "ALIVE", "ZOMBIE"}]
    BY <1>0, <1>10 DEF TypeOK, BuildBad, ExecFree, procs
  <2>7. kstack' \in [Procs -> Maybe] /\ newdir' \in [Procs -> Maybe]
        /\ mem' \in [Procs -> Maybe] /\ np' \in [Procs -> Procs \cup {None}]
    BY <1>0, <1>10 DEF TypeOK, BuildBad, ExecFree, procs, Maybe
  <2>8. pc' \in [Procs -> Points]
    BY <1>0, <1>10 DEF TypeOK, BuildBad, ExecFree, Goto, Points
  <2> QED
    BY <1>0, <1>10, <2>4, <2>5, <2>6, <2>7, <2>8 DEF TypeOK, BuildBad, ExecFree, procs
<1>11. ASSUME NEW p \in Procs, ForkDone(p) \/ ExecCommit(p)
       PROVE  TypeOK'
  <2>1. state' \in [Procs -> {"UNUSED", "EMBRYO", "ALIVE", "ZOMBIE"}]
        /\ np' \in [Procs -> Procs \cup {None}] /\ pc' \in [Procs -> Points]
    BY <1>0, <1>11 DEF TypeOK, ForkDone, ExecCommit, Goto, Points
  <2>2. pgdir' \in [Procs -> Maybe] /\ newdir' \in [Procs -> Maybe]
    <3>1. pgdir[p] \in Maybe /\ newdir[p] \in Maybe /\ None \in Maybe
      BY <1>0 DEF TypeOK, Maybe
    <3>2. CASE ForkDone(p)
      BY <1>0, <3>1, <3>2 DEF TypeOK, ForkDone
    <3>3. CASE ExecCommit(p)
      BY <1>0, <3>1, <3>3 DEF TypeOK, ExecCommit
    <3> QED
      BY <1>11, <3>2, <3>3
  <2>3. sz' \in [Procs -> 0..MaxVa]
    BY <1>0, <1>11 DEF TypeOK, ForkDone, ExecCommit
  <2> QED
    BY <1>0, <1>11, <2>1, <2>2, <2>3 DEF TypeOK, ForkDone, ExecCommit, dirs
<1>12. ASSUME NEW p \in Procs, Exit(p)
       PROVE  TypeOK'
  <2>1. state' \in [Procs -> {"UNUSED", "EMBRYO", "ALIVE", "ZOMBIE"}] /\ cr3' \in [Procs -> Maybe]
    BY <1>0, <1>12 DEF TypeOK, Exit, Maybe
  <2> QED
    BY <1>0, <1>12, <2>1 DEF TypeOK, Exit, dirs, locals
<1>13. ASSUME NEW p \in Procs, Wait(p)
       PROVE  TypeOK'
  <2>1. PICK q \in Procs :
          /\ state[q] = "ZOMBIE"
          /\ free' = free \cup {kstack[q]} \cup Space(pgdir[q])
          /\ Freevm(pgdir[q])
          /\ state' = [state EXCEPT ![q] = "UNUSED"]
          /\ kstack' = [kstack EXCEPT ![q] = None]
          /\ pgdir' = [pgdir EXCEPT ![q] = None]
    BY <1>13 DEF Wait
  <2>2. kstack[q] \in Page /\ pgdir[q] \in Page
    BY <1>0, <2>1 DEF IInv, Processes, LifeOf, TypeOK, Maybe
  <2>3. free' \subseteq Page
    BY <1>0, <1>9, <2>1, <2>2 DEF TypeOK
  <2>4. tables' \in [Page -> [Tables -> Maybe]] /\ ptes' \in [Page -> [Vas -> Maybe]]
    BY <1>0, <2>1 DEF TypeOK, Freevm
  <2>5. state' \in [Procs -> {"UNUSED", "EMBRYO", "ALIVE", "ZOMBIE"}]
        /\ kstack' \in [Procs -> Maybe] /\ pgdir' \in [Procs -> Maybe]
    BY <1>0, <2>1 DEF TypeOK, Maybe
  <2> QED
    BY <1>0, <1>13, <2>3, <2>4, <2>5 DEF TypeOK, Wait, locals
<1> QED
  BY <1>1, <1>2, <1>3, <1>4, <1>5, <1>6, <1>7, <1>8, <1>10, <1>11, <1>12, <1>13 DEF Next

----------------------------------------------------------------------------
(* Processes that a step leaves alone. *)

\* Directories and what is free, from OneOwner.
LEMMA Apart ==
  ASSUME TypeOK, OneOwner
  PROVE  /\ \A p \in Procs : {kstack[p], pgdir[p], newdir[p], mem[p]} \cap free = {}
         /\ \A p, q \in Procs :
              /\ pgdir[p] = pgdir[q] /\ pgdir[p] # None => p = q
              /\ newdir[p] = newdir[q] /\ newdir[p] # None => p = q
              /\ pgdir[p] = newdir[q] => pgdir[p] = None
<1>1. Unfree /\ Unshared
  BY Owned
<1>2. ASSUME NEW p \in Procs
      PROVE  kstack[p] \notin free /\ pgdir[p] \notin free /\ newdir[p] \notin free /\ mem[p] \notin free
  BY <1>1, SlotKinds DEF Unfree
<1>3. ASSUME NEW p \in Procs, NEW q \in Procs
      PROVE  /\ pgdir[p] = pgdir[q] /\ pgdir[p] # None => p = q
             /\ newdir[p] = newdir[q] /\ newdir[p] # None => p = q
             /\ pgdir[p] = newdir[q] => pgdir[p] = None
  <2>1. /\ <<"pgdir", p>> \in Slots /\ Holds(<<"pgdir", p>>) = pgdir[p]
        /\ <<"pgdir", q>> \in Slots /\ Holds(<<"pgdir", q>>) = pgdir[q]
        /\ <<"newdir", p>> \in Slots /\ Holds(<<"newdir", p>>) = newdir[p]
        /\ <<"newdir", q>> \in Slots /\ Holds(<<"newdir", q>>) = newdir[q]
    BY SlotKinds
  <2> QED
    BY <1>1, <2>1 DEF Unshared
<1> QED
  BY <1>2, <1>3

\* Nothing of q changes, nor the pages of its directories.
Still(q) ==
  /\ state'[q] = state[q] /\ kstack'[q] = kstack[q] /\ pgdir'[q] = pgdir[q]
  /\ sz'[q] = sz[q] /\ cr3'[q] = cr3[q] /\ pc'[q] = pc[q]
  /\ op'[q] = op[q] /\ np'[q] = np[q] /\ newdir'[q] = newdir[q]
  /\ next'[q] = next[q] /\ limit'[q] = limit[q] /\ mem'[q] = mem[q]
  /\ pgdir[q] # None => ptes'[pgdir[q]] = ptes[pgdir[q]]
  /\ newdir[q] # None => ptes'[newdir[q]] = ptes[newdir[q]]

Cr3Of(p) ==
  cr3[p] # None => cr3[p] = pgdir[p] \/ (pc[p] = "switchuvm" /\ cr3[p] = newdir[p])

LEMMA StillInv ==
  ASSUME IInv, NEW q \in Procs, Still(q)
  PROVE  LifeOf(q)' /\ CallOf(q)' /\ SizeOf(q)' /\ Cr3Of(q)'
<1>1. LifeOf(q) /\ CallOf(q) /\ SizeOf(q) /\ Cr3Of(q)
  BY DEF IInv, Processes, Cr3Owned, Cr3Of
<1>2. LifeOf(q)' /\ CallOf(q)' /\ Cr3Of(q)'
  BY <1>1 DEF Still, LifeOf, CallOf, Cr3Of
<1>3. /\ state[q] = "ALIVE" => ptes'[pgdir[q]] = ptes[pgdir[q]]
      /\ pc[q] = "kvmtables" => ptes'[newdir[q]] = ptes[newdir[q]]
      /\ pc[q] \in {"kalloc", "mappages", "bad"} => state[q] = "ALIVE"
      /\ pc[q] \in {"kalloc", "mappages"} =>
           Target(q)' = Target(q) /\ ptes'[Target(q)] = ptes[Target(q)]
  BY <1>1 DEF Still, LifeOf, CallOf, Target
<1>4. Growing(q)' = Growing(q) /\ InFork(q)' = InFork(q)
  BY DEF Still, Growing, InFork
<1>5. SizeOf(q)'
  BY <1>1, <1>3, <1>4 DEF Still, SizeOf, Filled, Growing
<1> QED
  BY <1>2, <1>5

\* A step moves the processes p and q (which may be the same).
LEMMA StepInv ==
  ASSUME IInv, NEW p \in Procs, NEW q \in Procs,
         \A r \in Procs : r # p /\ r # q => Still(r),
         LifeOf(p)', CallOf(p)', SizeOf(p)', Cr3Of(p)',
         LifeOf(q)', CallOf(q)', SizeOf(q)', Cr3Of(q)',
         \A r \in Procs : ChildOf(r)'
  PROVE  Processes' /\ Cr3Owned'
<1>1. ASSUME NEW r \in Procs
      PROVE  LifeOf(r)' /\ CallOf(r)' /\ SizeOf(r)' /\ Cr3Of(r)'
  <2>1. CASE r = p
    BY <2>1, Zenon
  <2>2. CASE r = q
    BY <2>2, Zenon
  <2>3. CASE r # p /\ r # q
    BY <2>3, StillInv
  <2> QED
    BY <2>1, <2>2, <2>3
<1> QED
  BY <1>1 DEF Processes, Cr3Owned, Cr3Of

\* A step that does not begin, end or undo a fork.
LEMMA SameChildren ==
  ASSUME IInv, UNCHANGED np,
         \A q \in Procs : /\ InFork(q)' = InFork(q)
                          /\ np[q] # None => (pc'[q] = "kstack" <=> pc[q] = "kstack")
                          /\ state[q] = "EMBRYO" =>
                               state'[q] = "EMBRYO" /\ kstack'[q] = kstack[q]
  PROVE  \A q \in Procs : ChildOf(q)'
<1>1. \A q \in Procs : ChildOf(q) /\ np[q] \in Procs \cup {None}
  BY DEF IInv, Processes, TypeOK
<1>2. ASSUME NEW q \in Procs PROVE ChildOf(q)'
  <2>1. (np'[q] # None <=> InFork(q)') /\ \A r \in Procs : np'[q] = np'[r] /\ np'[q] # None => q = r
    BY <1>1 DEF ChildOf
  <2>2. ASSUME np[q] # None
        PROVE  state'[np'[q]] = "EMBRYO" /\ (kstack'[np'[q]] = None <=> pc'[q] = "kstack")
    BY <1>1, <2>2 DEF ChildOf
  <2> QED
    BY <2>1, <2>2 DEF ChildOf
<1> QED
  BY <1>2

\* The fields of a process before a step.
LEMMA Fields ==
  ASSUME IInv, NEW p \in Procs
  PROVE  /\ LifeOf(p) /\ ChildOf(p) /\ CallOf(p) /\ SizeOf(p) /\ Cr3Of(p)
         /\ state[p] \in {"UNUSED", "EMBRYO", "ALIVE", "ZOMBIE"}
         /\ kstack[p] \in Page \cup {None} /\ pgdir[p] \in Page \cup {None}
         /\ newdir[p] \in Page \cup {None} /\ mem[p] \in Page \cup {None}
         /\ cr3[p] \in Page \cup {None} /\ np[p] \in Procs \cup {None}
         /\ sz[p] \in 0..MaxVa /\ next[p] \in 0..MaxVa /\ limit[p] \in 0..MaxVa
         /\ pc[p] \in Points /\ op[p] \in {"none", "fork", "exec", "sbrk"}
BY DEF IInv, Processes, Cr3Owned, Cr3Of, TypeOK, Maybe

LEMMA Domains ==
  IInv =>
    /\ \A f \in {state, kstack, pgdir, sz, cr3, pc, op, np, newdir, mem, next, limit} :
         DOMAIN f = Procs
    /\ DOMAIN tables = Page /\ DOMAIN ptes = Page
BY DEF IInv, TypeOK

----------------------------------------------------------------------------
(* Steps that move no page. *)

LEMMA RunInv ==
  ASSUME IInv, NEW p \in Procs, Run(p) \/ Yield(p) \/ ExecSwitch(p)
  PROVE  Processes' /\ Cr3Owned'
<1>1. /\ UNCHANGED <<free, dirs, procs, locals, mem>>
      /\ cr3' = [cr3 EXCEPT ![p] = cr3'[p]]
      /\ cr3'[p] \in {None, pgdir[p]} /\ (cr3'[p] # None => state[p] = "ALIVE")
  BY Fields DEF Run, Yield, ExecSwitch, procs, dirs, locals, IInv, TypeOK, At, LifeOf
<1>2. /\ pc' = [pc EXCEPT ![p] = pc'[p]]
      /\ pc'[p] = pc[p] \/ (pc[p] = "switchuvm" /\ pc'[p] = "freevm" /\ cr3[p] # None)
  BY DEF Run, Yield, ExecSwitch, Goto, At, IInv, TypeOK
<1>3. \A q \in Procs : q # p => Still(q)
  BY <1>1, <1>2, Domains DEF Still, procs, dirs, locals
<1>4. LifeOf(p)' /\ CallOf(p)' /\ Cr3Of(p)'
  BY <1>1, <1>2, Fields DEF LifeOf, CallOf, Cr3Of, procs, dirs, locals
<1>5. SizeOf(p)'
  BY <1>1, <1>2, Fields DEF SizeOf, procs, dirs, locals, Growing, InFork, Filled, Target
<1>6. \A q \in Procs : ChildOf(q)'
  BY <1>1, <1>2, SameChildren, Domains DEF InFork, procs, locals
<1> QED
  BY <1>3, <1>4, <1>5, <1>6, StepInv

LEMMA ExecBadInv ==
  ASSUME IInv, NEW p \in Procs, ExecBad(p)
  PROVE  Processes' /\ Cr3Owned'
<1>1. /\ pc[p] = "kalloc" /\ op[p] = "exec" /\ pc' = [pc EXCEPT ![p] = "bad"]
      /\ UNCHANGED <<free, dirs, procs, cr3, locals, mem>>
  BY DEF ExecBad, At, Goto
<1>2. \A q \in Procs : q # p => Still(q)
  BY <1>1, Domains DEF Still, procs, dirs, locals
<1>3. pc'[p] = "bad"
  BY <1>1, Domains
<1>4. LifeOf(p)' /\ CallOf(p)' /\ Cr3Of(p)'
  BY <1>1, <1>3, Fields DEF LifeOf, CallOf, Cr3Of, procs, dirs, locals
<1>5. SizeOf(p)'
  BY <1>1, <1>3, Fields DEF SizeOf, procs, dirs, locals, Growing, InFork, Filled
<1>6. \A q \in Procs : ChildOf(q)'
  BY <1>1, SameChildren, Domains DEF InFork, procs, locals
<1> QED
  BY <1>2, <1>4, <1>5, <1>6, StepInv

\* exec and sbrk begin.
LEMMA BeginInv ==
  ASSUME IInv, NEW p \in Procs, Exec(p) \/ Grow(p)
  PROVE  Processes' /\ Cr3Owned'
<1>1. PICK o \in {"exec", "sbrk"}, from \in 0..MaxVa, to \in 0..MaxVa, l \in {"setupkvm", "kalloc"} :
        /\ o = "exec" => from = 0 /\ l = "setupkvm"
        /\ o = "sbrk" => from = sz[p] /\ to > sz[p] /\ l = "kalloc"
        /\ Start(p, o, from, to, l)
  <2>1. CASE Exec(p)
    <3>1. PICK n \in 1..(MaxVa - 2) : Start(p, "exec", 0, n + 2, "setupkvm")
      BY <2>1 DEF Exec
    <3>2. n + 2 \in 0..MaxVa /\ 0 \in 0..MaxVa
      BY <3>1
    <3> QED
      BY <3>1, <3>2
  <2>2. CASE Grow(p)
    <3>1. PICK new \in (sz[p] + 1)..MaxVa : Start(p, "sbrk", sz[p], new, "kalloc")
      BY <2>2 DEF Grow
    <3>2. new \in 0..MaxVa /\ sz[p] \in 0..MaxVa /\ new > sz[p]
      BY <3>1, Fields
    <3> QED
      BY <3>1, <3>2
  <2> QED
    BY <2>1, <2>2
<1>2. /\ pc[p] = "user" /\ cr3[p] # None
      /\ UNCHANGED <<free, dirs, procs, cr3, np, newdir, mem>>
      /\ op' = [op EXCEPT ![p] = o] /\ next' = [next EXCEPT ![p] = from]
      /\ limit' = [limit EXCEPT ![p] = to] /\ pc' = [pc EXCEPT ![p] = l]
  BY <1>1 DEF Exec, Grow, Start, Goto, At
<1>3. op'[p] = o /\ next'[p] = from /\ limit'[p] = to /\ pc'[p] = l
  BY <1>2, Domains
<1>4. \A q \in Procs : q # p => Still(q)
  BY <1>2, Domains DEF Still, procs, dirs
<1>5. LifeOf(p)' /\ CallOf(p)' /\ Cr3Of(p)'
  BY <1>1, <1>2, <1>3, Fields DEF LifeOf, CallOf, Cr3Of, ChildOf, procs, dirs
<1>6. SizeOf(p)'
  BY <1>1, <1>2, <1>3, Fields
  DEF SizeOf, LifeOf, procs, dirs, Growing, InFork, Filled, Target
<1>7. \A q \in Procs : InFork(q)' = InFork(q)
  BY <1>2, <1>3, Domains DEF InFork
<1>8. \A q \in Procs : ChildOf(q)'
  <2>1. np[p] = None
    BY <1>2, Fields DEF ChildOf, InFork
  <2> QED
    BY <1>2, <1>7, <2>1, SameChildren, Domains DEF procs
<1> QED
  BY <1>4, <1>5, <1>6, <1>8, StepInv

LEMMA GrowDoneInv ==
  ASSUME IInv, NEW p \in Procs, GrowDone(p)
  PROVE  Processes' /\ Cr3Owned'
<1>1. /\ pc[p] = "kalloc" /\ op[p] = "sbrk" /\ next[p] = limit[p]
      /\ sz' = [sz EXCEPT ![p] = limit[p]] /\ cr3' = [cr3 EXCEPT ![p] = pgdir[p]]
      /\ pc' = [pc EXCEPT ![p] = "user"]
      /\ UNCHANGED <<free, dirs, state, kstack, pgdir, locals, mem>>
  BY DEF GrowDone, Complete, At, Goto
<1>2. \A q \in Procs : q # p => Still(q)
  BY <1>1, Domains DEF Still, dirs, locals
<1>3. pc'[p] = "user" /\ sz'[p] = limit[p] /\ cr3'[p] = pgdir[p]
  BY <1>1, Domains
<1>4. LifeOf(p)' /\ CallOf(p)' /\ Cr3Of(p)'
  BY <1>1, <1>3, Fields DEF LifeOf, CallOf, Cr3Of, dirs, locals
<1>5. SizeOf(p)'
  BY <1>1, <1>3, Fields DEF SizeOf, dirs, locals, Growing, InFork, Filled, Target
<1>6. \A q \in Procs : ChildOf(q)'
  BY <1>1, SameChildren, Domains DEF InFork, locals
<1> QED
  BY <1>2, <1>4, <1>5, <1>6, StepInv

LEMMA ExitInv ==
  ASSUME IInv, NEW p \in Procs, Exit(p)
  PROVE  Processes' /\ Cr3Owned'
<1>1. /\ pc[p] \in {"user", "fault"} /\ cr3[p] # None
      /\ state' = [state EXCEPT ![p] = "ZOMBIE"] /\ cr3' = [cr3 EXCEPT ![p] = None]
      /\ UNCHANGED <<free, dirs, kstack, pgdir, sz, pc, locals, mem>>
  BY DEF Exit
<1>2. \A q \in Procs : q # p => Still(q)
  BY <1>1, Domains DEF Still, dirs, locals
<1>3. state'[p] = "ZOMBIE" /\ cr3'[p] = None /\ state[p] = "ALIVE"
  BY <1>1, Domains, Fields DEF LifeOf
<1>4. LifeOf(p)' /\ CallOf(p)' /\ Cr3Of(p)'
  BY <1>1, <1>3, Fields DEF LifeOf, CallOf, Cr3Of, dirs, locals
<1>5. SizeOf(p)'
  BY <1>1, <1>3, Fields DEF SizeOf, dirs, locals, Growing, InFork, Filled
<1>6. \A q \in Procs : ChildOf(q)'
  BY <1>1, <1>3, SameChildren, Domains DEF InFork, locals
<1> QED
  BY <1>2, <1>4, <1>5, <1>6, StepInv

LEMMA ForkInv ==
  ASSUME IInv, NEW p \in Procs, Fork(p)
  PROVE  Processes' /\ Cr3Owned'
<1>1. PICK q \in Procs :
        state[q] = "UNUSED" /\ state' = [state EXCEPT ![q] = "EMBRYO"]
        /\ np' = [np EXCEPT ![p] = q]
  BY DEF Fork
<1>2. /\ pc[p] = "user" /\ cr3[p] # None /\ op' = [op EXCEPT ![p] = "fork"]
      /\ next' = [next EXCEPT ![p] = 0] /\ limit' = [limit EXCEPT ![p] = sz[p]]
      /\ pc' = [pc EXCEPT ![p] = "kstack"]
      /\ UNCHANGED <<free, dirs, kstack, pgdir, sz, cr3, newdir, mem>>
  BY DEF Fork, Start, Goto, At
<1>3. p # q /\ state[p] = "ALIVE" /\ np[p] = None /\ np[q] = None
      /\ pgdir[q] = None /\ kstack[q] = None
  BY <1>1, <1>2, Fields DEF LifeOf, ChildOf, InFork
<1>4. /\ state'[q] = "EMBRYO" /\ state'[p] = state[p] /\ np'[p] = q /\ op'[p] = "fork"
      /\ next'[p] = 0 /\ limit'[p] = sz[p] /\ pc'[p] = "kstack"
  BY <1>1, <1>2, <1>3, Domains
<1>5. \A r \in Procs : r # p /\ r # q => Still(r)
  BY <1>1, <1>2, Domains DEF Still, dirs
<1>6. LifeOf(p)' /\ CallOf(p)' /\ Cr3Of(p)'
  BY <1>2, <1>3, <1>4, Fields DEF LifeOf, CallOf, Cr3Of
<1>7. SizeOf(p)'
  BY <1>2, <1>3, <1>4, Fields DEF SizeOf, dirs, Growing, InFork, Filled
<1>8. /\ pc'[q] = pc[q] /\ op'[q] = op[q] /\ next'[q] = next[q]
      /\ limit'[q] = limit[q] /\ np'[q] = np[q]
  BY <1>1, <1>2, <1>3, Domains
<1>9. LifeOf(q)' /\ CallOf(q)' /\ Cr3Of(q)'
  BY <1>1, <1>2, <1>3, <1>4, <1>8, Fields DEF LifeOf, CallOf, Cr3Of
<1>10. SizeOf(q)'
  <2>1. pc[q] \in {"user", "fault"} /\ state[q] # "ALIVE"
    BY <1>1, Fields DEF LifeOf
  <2> QED
    BY <1>2, <1>4, <1>8, <2>1, Fields DEF SizeOf, dirs, Growing, InFork, Filled
<1>11. ASSUME NEW r \in Procs PROVE ChildOf(r)'
  <2>1. /\ \A s \in Procs : np[s] # None => np[s] \in Procs /\ np[s] # q
        /\ \A s \in Procs : np[s] # None => state[np[s]] = "EMBRYO"
    BY <1>1, Fields DEF ChildOf
  <2>2. \A s \in Procs : s # p => np'[s] = np[s] /\ pc'[s] = pc[s] /\ op'[s] = op[s]
    BY <1>1, <1>2, Domains
  <2>3. \A s \in Procs : state[s] = "EMBRYO" => state'[s] = "EMBRYO"
    BY <1>1, Domains
  <2>4. CASE r = p
    <3>1. \A s \in Procs : np'[r] = np'[s] /\ np'[r] # None => r = s
      BY <1>4, <2>1, <2>2, <2>4
    <3>2. np'[r] # None /\ InFork(r)' /\ state'[np'[r]] = "EMBRYO"
      BY <1>4, <2>4, Constants DEF InFork
    <3>3. kstack'[np'[r]] = None /\ pc'[r] = "kstack"
      BY <1>2, <1>3, <1>4, <2>4
    <3> QED
      BY <3>1, <3>2, <3>3 DEF ChildOf
  <2>5. CASE r # p
    <3>1. ChildOf(r) /\ np[r] \in Procs \cup {None}
      BY Fields
    <3>2. np'[r] # None <=> InFork(r)'
      BY <2>2, <2>5, <3>1 DEF ChildOf, InFork
    <3>3. np'[r] # None =>
            state'[np'[r]] = "EMBRYO" /\ (kstack'[np'[r]] = None <=> pc'[r] = "kstack")
      BY <1>2, <2>2, <2>3, <2>5, <3>1 DEF ChildOf
    <3>4. \A s \in Procs : np'[r] = np'[s] /\ np'[r] # None => r = s
      BY <1>4, <2>1, <2>2, <2>5, <3>1 DEF ChildOf
    <3> QED
      BY <3>2, <3>3, <3>4 DEF ChildOf
  <2> QED
    BY <2>4, <2>5
<1> QED
  BY <1>5, <1>6, <1>7, <1>9, <1>10, <1>11, StepInv

----------------------------------------------------------------------------
(* Steps that hand a page on. *)

LEMMA ExecCommitInv ==
  ASSUME IInv, TypeOK', NEW p \in Procs, ExecCommit(p)
  PROVE  OneOwner' /\ Emptied' /\ Processes' /\ Cr3Owned'
<1>1. /\ pc[p] = "kalloc" /\ op[p] = "exec" /\ next[p] = limit[p] /\ cr3[p] # None
      /\ pgdir' = [pgdir EXCEPT ![p] = newdir[p]]
      /\ newdir' = [newdir EXCEPT ![p] = pgdir[p]]
      /\ sz' = [sz EXCEPT ![p] = limit[p]] /\ pc' = [pc EXCEPT ![p] = "switchuvm"]
      /\ UNCHANGED <<free, dirs, state, kstack, cr3, op, np, next, limit, mem>>
  BY DEF ExecCommit, Complete, At, Goto
<1>2. pgdir'[p] = newdir[p] /\ newdir'[p] = pgdir[p] /\ sz'[p] = limit[p] /\ pc'[p] = "switchuvm"
  BY <1>1, Domains
<1>3. \A q \in Procs : q # p => pgdir'[q] = pgdir[q] /\ newdir'[q] = newdir[q]
  BY <1>1, Domains
<1>4. OneOwner'
  <2>1. /\ <<"pgdir", p>> \in Slots /\ Holds(<<"pgdir", p>>) = pgdir[p]
        /\ <<"newdir", p>> \in Slots /\ Holds(<<"newdir", p>>) = newdir[p]
        /\ Holds(<<"pgdir", p>>)' = pgdir'[p] /\ Holds(<<"newdir", p>>)' = newdir'[p]
    BY SlotKinds, SlotsNext
  <2>2. \A q \in Procs : /\ <<"pgdir", q>> \notin {<<"pgdir", p>>, <<"newdir", p>>} => q # p
                         /\ <<"newdir", q>> \notin {<<"pgdir", p>>, <<"newdir", p>>} => q # p
    OBVIOUS
  <2>3. \A s \in Slots \ {<<"pgdir", p>>, <<"newdir", p>>} : Holds(s)' = Holds(s)
    BY <1>1, <1>3, <2>2, OtherSlots DEF dirs
  <2> QED
    BY <1>1, <1>2, <2>1, <2>3, MovePage DEF IInv
<1>5. Emptied'
  <2>1. \A d \in Page : IsDir(d)' <=> IsDir(d)
    BY <1>2, <1>3 DEF IsDir
  <2> QED
    BY <1>1, <2>1 DEF IInv, Emptied, dirs
<1>6. \A q \in Procs : q # p => Still(q)
  BY <1>1, <1>3, Domains DEF Still, dirs
<1>7. newdir[p] # None /\ pgdir[p] # None /\ state[p] = "ALIVE"
  BY <1>1, Fields DEF LifeOf, CallOf
<1>8. LifeOf(p)' /\ CallOf(p)' /\ Cr3Of(p)'
  BY <1>1, <1>2, <1>7, Fields DEF LifeOf, CallOf, Cr3Of
<1>9. SizeOf(p)'
  BY <1>1, <1>2, <1>7, Fields DEF SizeOf, dirs, Growing, InFork, Filled, Target
<1>10. \A q \in Procs : ChildOf(q)'
  BY <1>1, SameChildren, Domains DEF InFork
<1> QED
  BY <1>4, <1>5, <1>6, <1>8, <1>9, <1>10, StepInv

LEMMA ForkDoneInv ==
  ASSUME IInv, TypeOK', NEW p \in Procs, ForkDone(p)
  PROVE  OneOwner' /\ Emptied' /\ Processes' /\ Cr3Owned'
<1>1. PICK c \in Procs : c = np[p]
  BY Fields DEF ForkDone, Complete, At, ChildOf, InFork
<1>2. /\ pc[p] = "kalloc" /\ op[p] = "fork" /\ next[p] = limit[p] /\ cr3[p] # None
      /\ pgdir' = [pgdir EXCEPT ![c] = newdir[p]] /\ sz' = [sz EXCEPT ![c] = sz[p]]
      /\ state' = [state EXCEPT ![c] = "ALIVE"]
      /\ newdir' = [newdir EXCEPT ![p] = None] /\ np' = [np EXCEPT ![p] = None]
      /\ pc' = [pc EXCEPT ![p] = "user", ![c] = "user"]
      /\ UNCHANGED <<free, dirs, kstack, cr3, op, next, limit, mem>>
  BY <1>1 DEF ForkDone, Complete, At
<1>3. /\ state[c] = "EMBRYO" /\ kstack[c] # None /\ pgdir[c] = None /\ np[c] = None
      /\ state[p] = "ALIVE" /\ p # c /\ newdir[p] # None /\ limit[p] = sz[p]
      /\ newdir[c] = None /\ mem[c] = None
  BY <1>1, <1>2, Fields DEF ChildOf, LifeOf, CallOf, SizeOf, InFork
<1>4. /\ pgdir'[c] = newdir[p] /\ sz'[c] = sz[p] /\ state'[c] = "ALIVE" /\ newdir'[p] = None
      /\ np'[p] = None /\ pc'[p] = "user" /\ pc'[c] = "user"
      /\ pgdir'[p] = pgdir[p] /\ sz'[p] = sz[p] /\ state'[p] = state[p]
      /\ newdir'[c] = None /\ np'[c] = None
  BY <1>2, <1>3, Domains
<1>5. \A q \in Procs : /\ q # c => pgdir'[q] = pgdir[q]
                       /\ q # p => newdir'[q] = newdir[q]
  BY <1>2, Domains
<1>6. OneOwner'
  <2>1. /\ <<"pgdir", c>> \in Slots /\ Holds(<<"pgdir", c>>) = pgdir[c]
        /\ <<"newdir", p>> \in Slots /\ Holds(<<"newdir", p>>) = newdir[p]
        /\ Holds(<<"pgdir", c>>)' = pgdir'[c] /\ Holds(<<"newdir", p>>)' = newdir'[p]
    BY SlotKinds, SlotsNext
  <2>2. \A q \in Procs : /\ <<"pgdir", q>> \notin {<<"pgdir", c>>, <<"newdir", p>>} => q # c
                         /\ <<"newdir", q>> \notin {<<"pgdir", c>>, <<"newdir", p>>} => q # p
    OBVIOUS
  <2>3. \A s \in Slots \ {<<"pgdir", c>>, <<"newdir", p>>} : Holds(s)' = Holds(s)
    BY <1>2, <1>5, <2>2, OtherSlots DEF dirs
  <2> QED
    BY <1>2, <1>3, <1>4, <2>1, <2>3, MovePage DEF IInv
<1>7. Emptied'
  <2>1. \A d \in Page : IsDir(d) => IsDir(d)'
    BY <1>3, <1>4, <1>5, Constants DEF IsDir
  <2> QED
    BY <1>2, <2>1 DEF IInv, Emptied, dirs
<1>8. \A q \in Procs : q # p /\ q # c => Still(q)
  BY <1>2, <1>5, Domains DEF Still, dirs
<1>9. LifeOf(p)' /\ CallOf(p)' /\ Cr3Of(p)'
  BY <1>2, <1>3, <1>4, Fields DEF LifeOf, CallOf, Cr3Of
<1>10. SizeOf(p)'
  BY <1>2, <1>3, <1>4, Fields DEF SizeOf, dirs, Growing, InFork, Filled
<1>11. LifeOf(c)' /\ CallOf(c)' /\ Cr3Of(c)'
  BY <1>2, <1>3, <1>4, Fields DEF LifeOf, CallOf, Cr3Of
<1>12. SizeOf(c)'
  <2>1. Filled(newdir[p], sz[p])
    BY <1>2, <1>3, Fields DEF SizeOf, Target
  <2> QED
    BY <1>2, <1>3, <1>4, <2>1 DEF SizeOf, dirs, Growing, InFork, Filled
<1>13. ASSUME NEW r \in Procs PROVE ChildOf(r)'
  <2>1. CASE r = p \/ r = c
    BY <1>2, <1>4, <2>1 DEF ChildOf, InFork
  <2>2. CASE r # p /\ r # c
    <3>1. ChildOf(r) /\ np[r] \in Procs \cup {None} /\ np'[r] = np[r] /\ pc'[r] = pc[r]
      BY <1>2, <2>2, Fields, Domains
    <3>2. np[r] # None => np[r] # c
      BY <1>1, <2>2, <3>1 DEF ChildOf
    <3>3. np'[r] # None <=> InFork(r)'
      BY <1>2, <3>1 DEF ChildOf, InFork
    <3>4. np'[r] # None =>
            state'[np'[r]] = "EMBRYO" /\ (kstack'[np'[r]] = None <=> pc'[r] = "kstack")
      BY <1>2, <3>1, <3>2, Domains DEF ChildOf
    <3>5. \A s \in Procs : np'[r] = np'[s] /\ np'[r] # None => r = s
      BY <1>2, <1>4, <3>1, Domains DEF ChildOf
    <3> QED
      BY <3>3, <3>4, <3>5 DEF ChildOf
  <2> QED
    BY <2>1, <2>2
<1> QED
  BY <1>6, <1>7, <1>8, <1>9, <1>10, <1>11, <1>12, <1>13, StepInv

\* The directory that a call fills.
LEMMA TargetDir ==
  ASSUME IInv, NEW p \in Procs, pc[p] \in {"kalloc", "mappages"}
  PROVE  /\ state[p] = "ALIVE" /\ pgdir[p] \in Page /\ Target(p) \in Page
         /\ op[p] = "sbrk" => Target(p) = pgdir[p] /\ newdir[p] = None
         /\ op[p] # "sbrk" => Target(p) = newdir[p] /\ Target(p) # pgdir[p]
         /\ Target(p) = pgdir[p] \/ Target(p) = newdir[p]
         /\ \A q \in Procs : q # p => pgdir[q] # Target(p) /\ newdir[q] # Target(p)
<1>1. state[p] = "ALIVE" /\ pgdir[p] \in Page /\ (op[p] # "sbrk" => newdir[p] \in Page)
  BY Fields DEF LifeOf, CallOf
<1>2. op[p] = "sbrk" => newdir[p] = None
  BY Fields DEF CallOf
<1> QED
  BY <1>1, <1>2, Apart, Constants DEF IInv, Target

LEMMA MapPageInv ==
  ASSUME IInv, TypeOK', NEW p \in Procs, MapPage(p)
  PROVE  OneOwner' /\ Emptied' /\ Processes' /\ Cr3Owned'
<1>1. PICK d \in Page, a \in Vas : d = Target(p) /\ a = next[p]
  <2>1. pc[p] = "mappages"
    BY DEF MapPage, At
  <2>2. next[p] \in Vas
    BY <2>1, Fields DEF SizeOf, Vas
  <2> QED
    BY <2>1, <2>2, TargetDir
<1>2. /\ pc[p] = "mappages" /\ cr3[p] # None
      /\ ptes' = [ptes EXCEPT ![d][a] = mem[p]] /\ mem' = [mem EXCEPT ![p] = None]
      /\ next' = [next EXCEPT ![p] = a + 1] /\ pc' = [pc EXCEPT ![p] = "kalloc"]
      /\ UNCHANGED <<free, tables, procs, cr3, op, np, newdir, limit>>
  BY <1>1 DEF MapPage, At, Goto
<1>3. mem'[p] = None /\ next'[p] = a + 1 /\ pc'[p] = "kalloc"
  BY <1>2, Domains
<1>4. /\ ptes[d][a] = None /\ mem[p] # None
      /\ \A b \in Vas : ptes[d][b] # None <=> b < a
      /\ a < limit[p]
  BY <1>1, <1>2, Fields, Constants DEF SizeOf, Filled, Vas
<1>5. /\ \A e \in Page : e # d => ptes'[e] = ptes[e]
      /\ ptes'[d][a] = mem[p] /\ \A b \in Vas : b # a => ptes'[d][b] = ptes[d][b]
  BY <1>2 DEF IInv, TypeOK
<1>6. OneOwner'
  <2>1. /\ <<"user", d, a>> \in Slots /\ Holds(<<"user", d, a>>) = ptes[d][a]
        /\ <<"mem", p>> \in Slots /\ Holds(<<"mem", p>>) = mem[p]
        /\ Holds(<<"user", d, a>>)' = ptes'[d][a] /\ Holds(<<"mem", p>>)' = mem'[p]
    BY SlotKinds, SlotsNext
  <2>2. \A q \in Procs : <<"mem", q>> \notin {<<"user", d, a>>, <<"mem", p>>} => mem'[q] = mem[q]
    BY <1>2, Domains
  <2>3. \A e \in Page, b \in Vas :
          <<"user", e, b>> \notin {<<"user", d, a>>, <<"mem", p>>} => ptes'[e][b] = ptes[e][b]
    BY <1>5
  <2>4. \A s \in Slots \ {<<"user", d, a>>, <<"mem", p>>} : Holds(s)' = Holds(s)
    BY <1>2, <2>2, <2>3, OtherSlots DEF procs
  <2> QED
    BY <1>2, <1>3, <1>4, <1>5, <2>1, <2>4, MovePage DEF IInv
<1>7. Emptied'
  <2>1. IsDir(d) /\ \A e \in Page : IsDir(e)' <=> IsDir(e)
    BY <1>1, <1>2, TargetDir DEF IsDir, procs
  <2> QED
    BY <1>2, <1>5, <2>1 DEF IInv, Emptied
<1>8. \A q \in Procs : q # p => Still(q)
  BY <1>1, <1>2, <1>5, TargetDir, Domains, Fields DEF Still, procs
<1>9. LifeOf(p)' /\ CallOf(p)' /\ Cr3Of(p)'
  BY <1>2, <1>3, Fields DEF LifeOf, CallOf, Cr3Of, procs
<1>10. SizeOf(p)'
  <2>1. Target(p)' = d
    BY <1>1, <1>2 DEF Target, procs
  <2>2. Filled(d, a + 1)'
    BY <1>4, <1>5, Constants DEF Filled, Vas
  <2>3. op[p] # "sbrk" => ptes'[pgdir[p]] = ptes[pgdir[p]]
    BY <1>1, <1>2, <1>5, TargetDir
  <2>4. ASSUME op[p] = "sbrk" PROVE \A b \in Vas : b < sz[p] => ptes'[pgdir[p]][b] # None
    BY <1>1, <1>2, <1>4, <1>5, <2>4, TargetDir, Fields DEF SizeOf, Growing, Vas
  <2>5. op[p] = "sbrk" => a >= sz[p] /\ limit[p] > sz[p]
    BY <1>1, <1>2, Fields DEF SizeOf, Growing
  <2> QED
    BY <1>2, <1>3, <1>4, <2>1, <2>2, <2>3, <2>4, <2>5, Fields
    DEF SizeOf, procs, Growing, InFork, Filled, Vas
<1>11. \A q \in Procs : ChildOf(q)'
  BY <1>2, SameChildren, Domains DEF InFork, procs
<1> QED
  BY <1>6, <1>7, <1>8, <1>9, <1>10, <1>11, StepInv

----------------------------------------------------------------------------
(* Steps that allocate a page, or find that there is none. *)

LEMMA AllocPageInv ==
  ASSUME IInv, TypeOK', NEW p \in Procs, AllocPage(p)
  PROVE  OneOwner' /\ Emptied' /\ Processes' /\ Cr3Owned'
<1>1. /\ pc[p] = "kalloc" /\ next[p] < limit[p] /\ cr3[p] # None
      /\ UNCHANGED <<dirs, procs, cr3, locals>>
      /\ \/ UNCHANGED <<free, mem>> /\ pc' = [pc EXCEPT ![p] = "bad"]
         \/ \E pg \in Page : /\ Kalloc(pg) /\ mem' = [mem EXCEPT ![p] = pg]
                             /\ pc' = [pc EXCEPT ![p] = "mappages"]
  BY DEF AllocPage, At, Goto
<1>2. mem[p] = None /\ state[p] = "ALIVE"
  BY <1>1, Fields DEF CallOf, LifeOf
<1>3. pc'[p] = "bad" \/ (pc'[p] = "mappages" /\ mem'[p] # None)
  BY <1>1, Domains, Constants
<1>4. OneOwner' /\ Emptied'
  <2>1. CASE UNCHANGED <<free, mem>>
    BY <1>1, <2>1, SameSlots DEF IInv, procs, locals
  <2>2. CASE \E pg \in Page : Kalloc(pg) /\ mem' = [mem EXCEPT ![p] = pg]
    <3>1. PICK pg \in Page : Kalloc(pg) /\ mem' = [mem EXCEPT ![p] = pg]
      BY <2>2
    <3>2. <<"mem", p>> \in Slots /\ Holds(<<"mem", p>>) = mem[p] /\ Holds(<<"mem", p>>)' = mem'[p]
      BY SlotKinds, SlotsNext
    <3>3. mem'[p] = pg /\ \A q \in Procs : <<"mem", q>> \notin {<<"mem", p>>} => mem'[q] = mem[q]
      BY <3>1, Domains
    <3>4. \A s \in Slots \ {<<"mem", p>>} : Holds(s)' = Holds(s)
      BY <1>1, <3>3, OtherSlots DEF dirs, procs, locals
    <3>5. OneOwner'
      BY <1>2, <3>1, <3>2, <3>3, <3>4, KalledPage, TakePage DEF IInv
    <3> QED
      BY <1>1, <3>5 DEF IInv, Emptied, IsDir, dirs, procs, locals
  <2> QED
    BY <1>1, <2>1, <2>2
<1>5. \A q \in Procs : q # p => Still(q)
  BY <1>1, Domains DEF Still, procs, dirs, locals
<1>6. LifeOf(p)' /\ CallOf(p)' /\ Cr3Of(p)'
  BY <1>1, <1>2, <1>3, Fields DEF LifeOf, CallOf, Cr3Of, procs, locals
<1>7. SizeOf(p)'
  BY <1>1, <1>2, <1>3, Fields DEF SizeOf, procs, dirs, locals, Growing, InFork, Filled, Target
<1>8. \A q \in Procs : ChildOf(q)'
  BY <1>1, <1>3, SameChildren, Domains DEF InFork, procs, locals
<1> QED
  BY <1>4, <1>5, <1>6, <1>7, <1>8, StepInv

LEMMA SetupkvmInv ==
  ASSUME IInv, TypeOK', NEW p \in Procs, Setupkvm(p)
  PROVE  OneOwner' /\ Emptied' /\ Processes' /\ Cr3Owned'
<1>1. /\ pc[p] = "setupkvm" /\ cr3[p] # None
      /\ UNCHANGED <<dirs, procs, cr3, op, np, next, limit, mem>>
      /\ \/ UNCHANGED <<free, newdir>> /\ pc' = [pc EXCEPT ![p] = "bad"]
         \/ \E pg \in Page : /\ Kalloc(pg) /\ newdir' = [newdir EXCEPT ![p] = pg]
                             /\ pc' = [pc EXCEPT ![p] = "kvmtables"]
  BY DEF Setupkvm, At, Goto
<1>2. newdir[p] = None /\ mem[p] = None /\ state[p] = "ALIVE"
  BY <1>1, Fields DEF CallOf, LifeOf
<1>3. CASE UNCHANGED <<free, newdir>> /\ pc' = [pc EXCEPT ![p] = "bad"]
  <2>1. OneOwner' /\ Emptied'
    BY <1>1, <1>3, SameSlots DEF IInv, procs
  <2>2. \A q \in Procs : q # p => Still(q)
    BY <1>1, <1>3, Domains DEF Still, procs, dirs
  <2>3. pc'[p] = "bad"
    BY <1>3, Domains
  <2>4. LifeOf(p)' /\ CallOf(p)' /\ Cr3Of(p)'
    BY <1>1, <1>2, <1>3, <2>3, Fields DEF LifeOf, CallOf, Cr3Of, procs
  <2>5. SizeOf(p)'
    BY <1>1, <1>2, <1>3, <2>3, Fields DEF SizeOf, CallOf, procs, dirs, Growing, InFork, Filled
  <2>6. \A q \in Procs : ChildOf(q)'
    BY <1>1, <1>3, SameChildren, Domains DEF InFork, procs
  <2> QED
    BY <2>1, <2>2, <2>4, <2>5, <2>6, StepInv
<1>4. ASSUME NEW pg \in Page, Kalloc(pg), newdir' = [newdir EXCEPT ![p] = pg],
             pc' = [pc EXCEPT ![p] = "kvmtables"]
      PROVE  OneOwner' /\ Emptied' /\ Processes' /\ Cr3Owned'
  <2>1. /\ newdir'[p] = pg /\ pc'[p] = "kvmtables" /\ pg # None
        /\ \A q \in Procs : q # p => newdir'[q] = newdir[q]
    BY <1>4, Domains, Constants
  <2>2. pg \in free /\ free' = free \ {pg} /\ \A q \in Procs : pgdir[q] # pg /\ newdir[q] # pg
    BY <1>4, KalledPage, Apart DEF IInv
  <2>3. OneOwner'
    <3>1. /\ <<"newdir", p>> \in Slots /\ Holds(<<"newdir", p>>) = newdir[p]
          /\ Holds(<<"newdir", p>>)' = newdir'[p]
      BY SlotKinds, SlotsNext
    <3>2. \A q \in Procs : <<"newdir", q>> \notin {<<"newdir", p>>} => newdir'[q] = newdir[q]
      BY <2>1
    <3>3. \A s \in Slots \ {<<"newdir", p>>} : Holds(s)' = Holds(s)
      BY <1>1, <3>2, OtherSlots DEF dirs, procs
    <3> QED
      BY <1>2, <2>1, <2>2, <3>1, <3>3, TakePage DEF IInv
  <2>4. Emptied'
    <3>1. \A d \in Page : IsDir(d) => IsDir(d)'
      BY <1>1, <1>2, <2>1, Constants DEF IsDir, procs
    <3> QED
      BY <1>1, <3>1 DEF IInv, Emptied, dirs
  <2>5. ptes[pg] = NoPages
    BY <2>2 DEF IInv, Emptied, IsDir
  <2>6. \A q \in Procs : q # p => Still(q)
    BY <1>1, <1>4, Domains DEF Still, procs, dirs
  <2>7. LifeOf(p)' /\ CallOf(p)' /\ Cr3Of(p)'
    BY <1>1, <1>2, <2>1, Fields DEF LifeOf, CallOf, Cr3Of, procs
  <2>8. SizeOf(p)'
    <3>1. Filled(pg, 0)'
      BY <1>1, <2>5 DEF Filled, NoPages, Vas, dirs
    <3> QED
      BY <1>1, <1>2, <2>1, <3>1, Fields DEF SizeOf, CallOf, procs, dirs, Growing, InFork, Filled
  <2>9. \A q \in Procs : ChildOf(q)'
    BY <1>1, <1>4, SameChildren, Domains DEF InFork, procs
  <2> QED
    BY <2>3, <2>4, <2>6, <2>7, <2>8, <2>9, StepInv
<1> QED
  BY <1>1, <1>3, <1>4

\* A page table page: of the kernel part, or for the page next[p].
LEMMA TableInv ==
  ASSUME IInv, TypeOK', NEW p \in Procs, KvmTable(p) \/ MapTable(p)
  PROVE  OneOwner' /\ Emptied' /\ Processes' /\ Cr3Owned'
<1>1. /\ UNCHANGED <<ptes, procs, cr3, locals, mem>> /\ cr3[p] # None
      /\ pc[p] \in {"kvmtables", "mappages"} /\ pc' = [pc EXCEPT ![p] = pc'[p]]
      /\ \/ pc'[p] = "bad"
         \/ pc[p] = "kvmtables" /\ pc'[p] = "kalloc"
         \/ pc'[p] = pc[p]
  BY Domains DEF KvmTable, MapTable, At, Goto, IInv, TypeOK
<1>2. \/ UNCHANGED <<free, tables>>
      \/ \E d \in Page, t \in Tables, pg \in Page :
           /\ IsDir(d) /\ tables[d][t] = None /\ Kalloc(pg)
           /\ tables' = [tables EXCEPT ![d][t] = pg]
  <2>1. CASE KvmTable(p)
    <3>1. PICK d \in Page : d = newdir[p] /\ IsDir(d)
      BY <2>1, Fields DEF KvmTable, At, CallOf, IsDir
    <3>2. PICK left \in SUBSET KvmTables : left = {t \in KvmTables : tables[d][t] = None}
      OBVIOUS
    <3>3. left # {} => (CHOOSE t \in left : TRUE) \in left
      OBVIOUS
    <3>4. \/ UNCHANGED <<free, tables>>
          \/ \E pg \in Page : /\ left # {} /\ Kalloc(pg)
                              /\ tables' = [tables EXCEPT ![d][CHOOSE t \in left : TRUE] = pg]
      BY <2>1, <3>1, <3>2 DEF KvmTable
    <3>5. ASSUME NEW pg \in Page, left # {}, Kalloc(pg),
                 tables' = [tables EXCEPT ![d][CHOOSE t \in left : TRUE] = pg]
          PROVE  \E t \in Tables :
                   tables[d][t] = None /\ tables' = [tables EXCEPT ![d][t] = pg]
      <4>1. PICK t \in Tables : t = (CHOOSE x \in left : TRUE) /\ t \in left
        BY <3>3, <3>5 DEF Tables
      <4> QED
        BY <3>2, <3>5, <4>1
    <3>6. CASE \E pg \in Page : /\ left # {} /\ Kalloc(pg)
                               /\ tables' = [tables EXCEPT ![d][CHOOSE t \in left : TRUE] = pg]
      <4>1. PICK pg \in Page : /\ left # {} /\ Kalloc(pg)
                               /\ tables' = [tables EXCEPT ![d][CHOOSE t \in left : TRUE] = pg]
        BY <3>6
      <4>2. PICK t \in Tables : tables[d][t] = None /\ tables' = [tables EXCEPT ![d][t] = pg]
        BY <3>5, <4>1
      <4>3. IsDir(d) /\ tables[d][t] = None /\ Kalloc(pg) /\ tables' = [tables EXCEPT ![d][t] = pg]
        BY <3>1, <4>1, <4>2, Zenon
      <4>4. \E e \in Page, u \in Tables, x \in Page :
              /\ IsDir(e) /\ tables[e][u] = None /\ Kalloc(x)
              /\ tables' = [tables EXCEPT ![e][u] = x]
        <5> WITNESS d \in Page, t \in Tables, pg \in Page
        <5> QED
          BY <4>3, Zenon
      <4> QED
        BY <4>4, Zenon
    <3> QED
      BY <3>4, <3>6, Zenon
  <2>2. CASE MapTable(p)
    <3>1. pc[p] = "mappages"
      BY <2>2 DEF MapTable, At
    <3>2. next[p] \in Vas
      BY <3>1, Fields DEF SizeOf, Vas
    <3>3. Table(next[p]) \in Tables
      <4>1. \A a \in Vas : a \div PTX \in 0..((MaxVa - 1) \div PTX)
        BY DEF Vas
      <4> QED
        BY <3>2, <4>1 DEF Table, Tables, UserTables
    <3>4. Target(p) \in Page /\ IsDir(Target(p))
      BY <3>1, TargetDir DEF IsDir
    <3> QED
      BY <2>2, <3>3, <3>4 DEF MapTable
  <2> QED
    BY <2>1, <2>2
<1>3. OneOwner' /\ Emptied'
  <2>1. CASE UNCHANGED <<free, tables>>
    BY <1>1, <2>1, SameSlots DEF IInv, procs, locals, dirs
  <2>2. ASSUME NEW d \in Page, NEW t \in Tables, NEW pg \in Page,
               IsDir(d), tables[d][t] = None, Kalloc(pg), tables' = [tables EXCEPT ![d][t] = pg]
        PROVE  OneOwner' /\ Emptied'
    <3>1. /\ <<"table", d, t>> \in Slots /\ Holds(<<"table", d, t>>) = tables[d][t]
          /\ Holds(<<"table", d, t>>)' = tables'[d][t]
      BY SlotKinds, SlotsNext
    <3>2. /\ tables'[d][t] = pg /\ \A e \in Page : e # d => tables'[e] = tables[e]
          /\ \A u \in Tables : u # t => tables'[d][u] = tables[d][u]
      BY <2>2 DEF IInv, TypeOK
    <3>3. \A e \in Page, u \in Tables :
            <<"table", e, u>> \notin {<<"table", d, t>>} => tables'[e][u] = tables[e][u]
      BY <3>2
    <3>4. \A s \in Slots \ {<<"table", d, t>>} : Holds(s)' = Holds(s)
      BY <1>1, <3>3, OtherSlots DEF procs, locals
    <3>5. OneOwner'
      BY <2>2, <3>1, <3>2, <3>4, KalledPage, TakePage DEF IInv
    <3>6. \A e \in Page : IsDir(e)' <=> IsDir(e)
      BY <1>1 DEF IsDir, procs, locals
    <3> QED
      BY <1>1, <2>2, <3>2, <3>5, <3>6 DEF IInv, Emptied
  <2> QED
    BY <1>2, <2>1, <2>2
<1>4. \A q \in Procs : q # p => Still(q)
  BY <1>1, Domains DEF Still, procs, locals
<1>5. LifeOf(p)' /\ CallOf(p)' /\ Cr3Of(p)'
  BY <1>1, Fields DEF LifeOf, CallOf, Cr3Of, procs, locals
<1>6. SizeOf(p)'
  BY <1>1, Fields DEF SizeOf, LifeOf, CallOf, procs, locals, Growing, InFork, Filled, Target
<1>7. \A q \in Procs : ChildOf(q)'
  BY <1>1, SameChildren, Domains DEF InFork, procs, locals
<1> QED
  BY <1>3, <1>4, <1>5, <1>6, <1>7, StepInv

LEMMA ForkStackInv ==
  ASSUME IInv, TypeOK', NEW p \in Procs, ForkStack(p)
  PROVE  OneOwner' /\ Emptied' /\ Processes' /\ Cr3Owned'
<1>1. PICK c \in Procs : c = np[p]
  BY Fields DEF ForkStack, At, CallOf, ChildOf, InFork
<1>2. /\ pc[p] = "kstack" /\ cr3[p] # None
      /\ UNCHANGED <<dirs, pgdir, sz, cr3, op, newdir, next, limit, mem>>
      /\ \/ /\ state' = [state EXCEPT ![c] = "UNUSED"] /\ np' = [np EXCEPT ![p] = None]
            /\ pc' = [pc EXCEPT ![p] = "user"] /\ UNCHANGED <<free, kstack>>
         \/ /\ \E pg \in Page : Kalloc(pg) /\ kstack' = [kstack EXCEPT ![c] = pg]
            /\ pc' = [pc EXCEPT ![p] = "setupkvm"] /\ UNCHANGED <<state, np>>
  BY <1>1 DEF ForkStack, At, Goto
<1>3. /\ op[p] = "fork" /\ state[c] = "EMBRYO" /\ kstack[c] = None /\ pgdir[c] = None
      /\ state[p] = "ALIVE" /\ p # c /\ np[c] = None /\ mem[p] = None /\ newdir[p] = None
      /\ next[p] = 0 /\ limit[p] = sz[p] /\ cr3[c] = None /\ pc[c] \in {"user", "fault"}
  BY <1>1, <1>2, Fields DEF ChildOf, LifeOf, CallOf, SizeOf, InFork
<1>4. CASE /\ state' = [state EXCEPT ![c] = "UNUSED"] /\ np' = [np EXCEPT ![p] = None]
           /\ pc' = [pc EXCEPT ![p] = "user"] /\ UNCHANGED <<free, kstack>>
  <2>1. OneOwner' /\ Emptied'
    BY <1>2, <1>4, SameSlots DEF IInv
  <2>2. /\ state'[c] = "UNUSED" /\ state'[p] = state[p] /\ np'[p] = None /\ np'[c] = None
        /\ pc'[p] = "user" /\ pc'[c] = pc[c]
    BY <1>3, <1>4, Domains
  <2>3. \A q \in Procs : q # p /\ q # c => Still(q)
    BY <1>2, <1>4, Domains DEF Still, dirs
  <2>4. LifeOf(p)' /\ CallOf(p)' /\ Cr3Of(p)'
    BY <1>2, <1>3, <1>4, <2>2, Fields DEF LifeOf, CallOf, Cr3Of
  <2>5. SizeOf(p)'
    BY <1>2, <1>3, <1>4, <2>2, Fields DEF SizeOf, dirs, Growing, InFork, Filled
  <2>6. LifeOf(c)' /\ CallOf(c)' /\ Cr3Of(c)'
    BY <1>2, <1>3, <1>4, <2>2, Fields DEF LifeOf, CallOf, Cr3Of
  <2>7. SizeOf(c)'
    BY <1>2, <1>3, <1>4, <2>2, Fields DEF SizeOf, dirs, Growing, InFork, Filled
  <2>8. ASSUME NEW r \in Procs PROVE ChildOf(r)'
    <3>1. CASE r = p \/ r = c
      BY <1>2, <1>3, <2>2, <3>1 DEF ChildOf, InFork
    <3>2. CASE r # p /\ r # c
      <4>1. ChildOf(r) /\ np[r] \in Procs \cup {None} /\ np'[r] = np[r] /\ pc'[r] = pc[r]
        BY <1>4, <3>2, Fields, Domains
      <4>2. np[r] # None => np[r] # c
        BY <1>1, <3>2, <4>1 DEF ChildOf
      <4>3. np'[r] # None <=> InFork(r)'
        BY <1>2, <4>1 DEF ChildOf, InFork
      <4>4. np'[r] # None =>
              state'[np'[r]] = "EMBRYO" /\ (kstack'[np'[r]] = None <=> pc'[r] = "kstack")
        BY <1>4, <4>1, <4>2, Domains DEF ChildOf
      <4>5. \A s \in Procs : np'[r] = np'[s] /\ np'[r] # None => r = s
        BY <1>4, <2>2, <4>1, Domains DEF ChildOf
      <4> QED
        BY <4>3, <4>4, <4>5 DEF ChildOf
    <3> QED
      BY <3>1, <3>2
  <2> QED
    BY <2>1, <2>3, <2>4, <2>5, <2>6, <2>7, <2>8, StepInv
<1>5. ASSUME NEW pg \in Page, Kalloc(pg), kstack' = [kstack EXCEPT ![c] = pg],
             pc' = [pc EXCEPT ![p] = "setupkvm"], UNCHANGED <<state, np>>
      PROVE  OneOwner' /\ Emptied' /\ Processes' /\ Cr3Owned'
  <2>1. /\ kstack'[c] = pg /\ pg # None /\ kstack'[p] = kstack[p]
        /\ pc'[p] = "setupkvm" /\ pc'[c] = pc[c]
        /\ \A q \in Procs : q # c => kstack'[q] = kstack[q]
    BY <1>3, <1>5, Domains, Constants
  <2>2. OneOwner'
    <3>1. /\ <<"kstack", c>> \in Slots /\ Holds(<<"kstack", c>>) = kstack[c]
          /\ Holds(<<"kstack", c>>)' = kstack'[c]
      BY SlotKinds, SlotsNext
    <3>2. \A q \in Procs : <<"kstack", q>> \notin {<<"kstack", c>>} => kstack'[q] = kstack[q]
      BY <2>1
    <3>3. \A s \in Slots \ {<<"kstack", c>>} : Holds(s)' = Holds(s)
      BY <1>2, <3>2, OtherSlots DEF dirs
    <3> QED
      BY <1>3, <1>5, <2>1, <3>1, <3>3, KalledPage, TakePage DEF IInv
  <2>3. Emptied'
    BY <1>2 DEF IInv, Emptied, IsDir, dirs
  <2>4. \A q \in Procs : q # p /\ q # c => Still(q)
    BY <1>2, <1>5, Domains DEF Still, dirs
  <2>5. LifeOf(p)' /\ CallOf(p)' /\ Cr3Of(p)'
    BY <1>2, <1>3, <1>5, <2>1, Fields DEF LifeOf, CallOf, Cr3Of
  <2>6. SizeOf(p)'
    BY <1>2, <1>3, <1>5, <2>1, Fields DEF SizeOf, dirs, Growing, InFork, Filled
  <2>7. LifeOf(c)' /\ CallOf(c)' /\ Cr3Of(c)'
    BY <1>2, <1>3, <1>5, <2>1, Fields DEF LifeOf, CallOf, Cr3Of
  <2>8. SizeOf(c)'
    BY <1>2, <1>3, <1>5, <2>1, Fields DEF SizeOf, dirs, Growing, InFork, Filled
  <2>9. ASSUME NEW r \in Procs PROVE ChildOf(r)'
    <3>1. /\ ChildOf(r) /\ np[r] \in Procs \cup {None} /\ np'[r] = np[r]
          /\ r # p => pc'[r] = pc[r]
      BY <1>5, Fields, Domains
    <3>2. r # p /\ np[r] # None => np[r] # c
      BY <1>1, <3>1 DEF ChildOf
    <3>3. InFork(r)' <=> InFork(r)
      BY <1>2, <1>3, <2>1, <3>1 DEF InFork
    <3>4. np'[r] # None =>
            state'[np'[r]] = "EMBRYO" /\ (kstack'[np'[r]] = None <=> pc'[r] = "kstack")
      BY <1>1, <1>3, <1>5, <2>1, <3>1, <3>2 DEF ChildOf
    <3> QED
      BY <1>5, <3>1, <3>3, <3>4 DEF ChildOf
  <2> QED
    BY <2>2, <2>3, <2>4, <2>5, <2>6, <2>7, <2>8, <2>9, StepInv
<1> QED
  BY <1>2, <1>4, <1>5

----------------------------------------------------------------------------
(* Steps that free pages. *)

\* The entries of a directory, and those of the pages from n on.
Pages(d, n) == {<<"user", d, a>> : a \in {b \in Vas : b >= n}}
Entries(d) == {<<"table", d, t>> : t \in Tables} \cup {<<"user", d, a>> : a \in Vas}

LEMMA PagesHold ==
  ASSUME NEW d \in Page, NEW n \in 0..MaxVa
  PROVE  /\ Pages(d, n) \subseteq Slots
         /\ {Holds(s) : s \in Pages(d, n)} \ {None} = Dropped(d, n)
<1>1. /\ Pages(d, n) \subseteq Slots
      /\ \A a \in Vas : a >= n => <<"user", d, a>> \in Pages(d, n)
      /\ \A s \in Pages(d, n) : \E a \in Vas : a >= n /\ s = <<"user", d, a>>
  BY SlotKinds DEF Pages
<1>2. ASSUME NEW pg, \E s \in Pages(d, n) : Holds(s) = pg
      PROVE  \E a \in {b \in Vas : b >= n} : ptes[d][a] = pg
  <2>1. PICK s \in Pages(d, n) : Holds(s) = pg
    BY <1>2
  <2>2. PICK a \in Vas : a >= n /\ s = <<"user", d, a>>
    BY <1>1
  <2> QED
    BY <2>1, <2>2, SlotKinds
<1>3. ASSUME NEW a \in Vas, a >= n
      PROVE  \E s \in Pages(d, n) : Holds(s) = ptes[d][a]
  BY <1>1, <1>3, SlotKinds
<1> QED
  BY <1>1, <1>2, <1>3 DEF Dropped

LEMMA EntriesHold ==
  ASSUME NEW d \in Page
  PROVE  /\ Entries(d) \subseteq Slots
         /\ {Holds(s) : s \in Entries(d)} \ {None} = TablePages(d) \cup Mapped(d)
<1>1. Entries(d) \subseteq Slots
  BY SlotKinds DEF Entries
<1>2. ASSUME NEW s \in Entries(d)
      PROVE  \/ \E t \in Tables : Holds(s) = tables[d][t]
             \/ \E a \in Vas : Holds(s) = ptes[d][a]
  <2>1. CASE \E t \in Tables : s = <<"table", d, t>>
    BY <2>1, SlotKinds
  <2>2. CASE \E a \in Vas : s = <<"user", d, a>>
    BY <2>2, SlotKinds
  <2> QED
    BY <2>1, <2>2 DEF Entries
<1>3. ASSUME NEW t \in Tables PROVE \E s \in Entries(d) : Holds(s) = tables[d][t]
  BY SlotKinds DEF Entries
<1>4. ASSUME NEW a \in Vas PROVE \E s \in Entries(d) : Holds(s) = ptes[d][a]
  BY SlotKinds DEF Entries
<1> QED
  BY <1>1, <1>2, <1>3, <1>4 DEF TablePages, Mapped

LEMMA Freed ==
  ASSUME TypeOK, NEW d \in Page, Freevm(d)
  PROVE  /\ tables'[d] = NoTables /\ ptes'[d] = NoPages
         /\ \A e \in Page : e # d => tables'[e] = tables[e] /\ ptes'[e] = ptes[e]
         /\ \A s \in Entries(d) : Holds(s)' = None
<1>1. /\ tables'[d] = NoTables /\ ptes'[d] = NoPages
      /\ \A e \in Page : e # d => tables'[e] = tables[e] /\ ptes'[e] = ptes[e]
  BY DEF TypeOK, Freevm
<1>2. \A t \in Tables : Holds(<<"table", d, t>>)' = None
  BY <1>1, SlotsNext DEF NoTables
<1>3. \A a \in Vas : Holds(<<"user", d, a>>)' = None
  BY <1>1, SlotsNext DEF NoPages
<1> QED
  BY <1>1, <1>2, <1>3 DEF Entries

\* deallocuvm of the pages of p from n on, and kfree of the page in hand.
Cut(p, d, n) ==
  /\ d = pgdir[p]
  /\ free' = free \cup Dropped(d, n) \cup InHand(p)
  /\ ptes' = [ptes EXCEPT ![d] = Kept(d, n)]
  /\ mem'[p] = None /\ \A q \in Procs : q # p => mem'[q] = mem[q]
  /\ UNCHANGED <<tables, kstack, pgdir, newdir>>

CutAt(d, n) ==
  /\ \A e \in Page : e # d => ptes'[e] = ptes[e]
  /\ \A a \in Vas : ptes'[d][a] = IF a < n THEN ptes[d][a] ELSE None

LEMMA CutPages ==
  ASSUME IInv, TypeOK', NEW p \in Procs, NEW d \in Page, NEW n \in 0..MaxVa, Cut(p, d, n)
  PROVE  OneOwner' /\ Emptied' /\ CutAt(d, n)
<1> USE DEF Cut, CutAt
<1>1. /\ \A e \in Page : e # d => ptes'[e] = ptes[e]
      /\ \A a \in Vas : ptes'[d][a] = IF a < n THEN ptes[d][a] ELSE None
  BY DEF IInv, TypeOK, Kept
<1>2. PICK S \in SUBSET Slots : S = Pages(d, n) \cup {<<"mem", p>>}
  BY PagesHold, SlotKinds
<1>3. {Holds(s) : s \in S} \ {None} = Dropped(d, n) \cup InHand(p)
  <2>1. {Holds(s) : s \in S} = {Holds(s) : s \in Pages(d, n)} \cup {Holds(<<"mem", p>>)}
    BY <1>2
  <2>2. Holds(<<"mem", p>>) = mem[p]
    BY SlotKinds
  <2> QED
    BY <2>1, <2>2, PagesHold DEF InHand
<1>4. \A s \in S : Holds(s)' = None
  <2>1. \A a \in Vas : a >= n => Holds(<<"user", d, a>>)' = None
    BY <1>1, SlotsNext DEF Vas
  <2>2. Holds(<<"mem", p>>)' = None
    BY SlotsNext
  <2> QED
    BY <1>2, <2>1, <2>2 DEF Pages
<1>5. \A s \in Slots \ S : Holds(s)' = Holds(s)
  <2>1. \A q \in Procs : <<"mem", q>> \notin S => mem'[q] = mem[q]
    BY <1>2
  <2>2. \A e \in Page, a \in Vas : <<"user", e, a>> \notin S => ptes'[e][a] = ptes[e][a]
    BY <1>1, <1>2 DEF Pages, Vas
  <2> QED
    BY <2>1, <2>2, OtherSlots
<1>6. free' = free \cup ({Holds(s) : s \in S} \ {None})
  BY <1>3
<1>7. OneOwner'
  BY <1>4, <1>5, <1>6, GivePages DEF IInv
<1>8. Emptied'
  <2>1. \A e \in Page : IsDir(e)' <=> IsDir(e)
    BY DEF IsDir
  <2>2. IsDir(d)
    BY DEF IsDir
  <2> QED
    BY <1>1, <2>1, <2>2 DEF IInv, Emptied
<1> QED
  BY <1>1, <1>7, <1>8

LEMMA GrowBadInv ==
  ASSUME IInv, TypeOK', NEW p \in Procs, GrowBad(p)
  PROVE  OneOwner' /\ Emptied' /\ Processes' /\ Cr3Owned'
<1>1. /\ pc[p] = "bad" /\ op[p] = "sbrk" /\ cr3[p] # None
      /\ free' = free \cup Dropped(pgdir[p], sz[p]) \cup InHand(p)
      /\ ptes' = [ptes EXCEPT ![pgdir[p]] = Kept(pgdir[p], sz[p])]
      /\ mem' = [mem EXCEPT ![p] = None] /\ pc' = [pc EXCEPT ![p] = "user"]
      /\ UNCHANGED <<tables, procs, cr3, locals>>
  BY DEF GrowBad, At, Goto
<1>2. state[p] = "ALIVE" /\ pgdir[p] \in Page /\ newdir[p] = None /\ np[p] = None
  BY <1>1, Fields DEF LifeOf, CallOf, ChildOf, InFork
<1>3. mem'[p] = None /\ pc'[p] = "user" /\ \A q \in Procs : q # p => mem'[q] = mem[q]
  BY <1>1, Domains
<1>4. /\ OneOwner' /\ Emptied'
      /\ \A e \in Page : e # pgdir[p] => ptes'[e] = ptes[e]
      /\ \A a \in Vas : ptes'[pgdir[p]][a] = IF a < sz[p] THEN ptes[pgdir[p]][a] ELSE None
  <2>1. PICK d \in Page, n \in 0..MaxVa : d = pgdir[p] /\ n = sz[p]
    BY <1>2, Fields
  <2>2. /\ free' = free \cup Dropped(d, n) \cup InHand(p)
        /\ ptes' = [ptes EXCEPT ![d] = Kept(d, n)]
        /\ UNCHANGED <<tables, kstack, pgdir, newdir>>
    BY <1>1, <2>1 DEF procs, locals
  <2>3. Cut(p, d, n)
    BY <1>3, <2>1, <2>2 DEF Cut
  <2>4. OneOwner' /\ Emptied' /\ CutAt(d, n)
    BY <2>3, CutPages
  <2> QED
    BY <2>1, <2>4 DEF CutAt
<1>5. \A q \in Procs : q # p => Still(q)
  BY <1>1, <1>2, <1>4, Apart, Domains, Fields, Constants DEF Still, procs, locals, IInv
<1>6. LifeOf(p)' /\ CallOf(p)' /\ Cr3Of(p)'
  BY <1>1, <1>2, <1>3, Fields DEF LifeOf, CallOf, Cr3Of, procs, locals
<1>7. SizeOf(p)'
  <2>1. \A a \in Vas : a < sz[p] => ptes[pgdir[p]][a] # None
    BY <1>1, Fields DEF SizeOf, Growing
  <2>2. Filled(pgdir[p], sz[p])'
    BY <1>1, <1>4, <2>1 DEF Filled, procs
  <2> QED
    BY <1>1, <1>2, <1>3, <2>2 DEF SizeOf, Growing, InFork, Filled, procs, locals
<1>8. \A q \in Procs : ChildOf(q)'
  BY <1>1, SameChildren, Domains DEF InFork, procs, locals
<1> QED
  BY <1>4, <1>5, <1>6, <1>7, <1>8, StepInv

LEMMA ShrinkInv ==
  ASSUME IInv, TypeOK', NEW p \in Procs, Shrink(p)
  PROVE  OneOwner' /\ Emptied' /\ Processes' /\ Cr3Owned'
<1>1. PICK new \in 0..(sz[p] - 1) :
        /\ free' = free \cup Dropped(pgdir[p], new)
        /\ ptes' = [ptes EXCEPT ![pgdir[p]] = Kept(pgdir[p], new)]
        /\ sz' = IF new = 0 THEN sz ELSE [sz EXCEPT ![p] = new]
        /\ cr3' = [cr3 EXCEPT ![p] = pgdir[p]]
        /\ pc' = [pc EXCEPT ![p] = IF new = 0 THEN "fault" ELSE "user"]
  BY DEF Shrink, Goto
<1>2. /\ pc[p] = "user" /\ cr3[p] # None
      /\ UNCHANGED <<tables, state, kstack, pgdir, locals, mem>>
  BY DEF Shrink, At
<1>3. /\ state[p] = "ALIVE" /\ pgdir[p] \in Page /\ newdir[p] = None /\ np[p] = None
      /\ mem[p] = None /\ new \in 0..MaxVa /\ new < sz[p]
  BY <1>1, <1>2, Fields DEF LifeOf, CallOf, ChildOf, InFork
<1>4. /\ pc'[p] = IF new = 0 THEN "fault" ELSE "user"
      /\ sz'[p] = IF new = 0 THEN sz[p] ELSE new
      /\ cr3'[p] = pgdir[p]
  BY <1>1, Domains
<1>5. /\ OneOwner' /\ Emptied'
      /\ \A e \in Page : e # pgdir[p] => ptes'[e] = ptes[e]
      /\ \A a \in Vas : ptes'[pgdir[p]][a] = IF a < new THEN ptes[pgdir[p]][a] ELSE None
  <2>1. InHand(p) = {}
    BY <1>3 DEF InHand
  <2>2. mem'[p] = None /\ \A q \in Procs : q # p => mem'[q] = mem[q]
    BY <1>2, <1>3
  <2> QED
    <3>1. PICK d \in Page, n \in 0..MaxVa : d = pgdir[p] /\ n = new
      BY <1>3
    <3>2. /\ free' = free \cup Dropped(d, n) \cup InHand(p)
          /\ ptes' = [ptes EXCEPT ![d] = Kept(d, n)]
          /\ UNCHANGED <<tables, kstack, pgdir, newdir>>
      BY <1>1, <1>2, <2>1, <3>1 DEF locals
    <3>3. Cut(p, d, n)
      BY <2>2, <3>1, <3>2 DEF Cut
    <3>4. OneOwner' /\ Emptied' /\ CutAt(d, n)
      BY <3>3, CutPages
    <3> QED
      BY <3>1, <3>4 DEF CutAt
<1>6. \A q \in Procs : q # p => Still(q)
  <2>1. ASSUME NEW q \in Procs, q # p
        PROVE  /\ pgdir[q] # None => ptes'[pgdir[q]] = ptes[pgdir[q]]
               /\ newdir[q] # None => ptes'[newdir[q]] = ptes[newdir[q]]
    BY <1>3, <1>5, <2>1, Apart, Fields, Constants DEF IInv
  <2>2. \A q \in Procs : q # p => pc'[q] = pc[q] /\ sz'[q] = sz[q] /\ cr3'[q] = cr3[q]
    BY <1>1, Domains
  <2> QED
    BY <1>2, <2>1, <2>2 DEF Still, locals
<1>7. LifeOf(p)' /\ CallOf(p)' /\ Cr3Of(p)'
  BY <1>2, <1>3, <1>4, Fields DEF LifeOf, CallOf, Cr3Of, locals
<1>8. SizeOf(p)'
  <2>1. Filled(pgdir[p], sz[p])
    BY <1>2, <1>3, Fields DEF SizeOf, Growing
  <2>2. Filled(pgdir[p], new)'
    BY <1>2, <1>3, <1>5, <2>1, Fields DEF Filled, Vas
  <2> QED
    BY <1>2, <1>3, <1>4, <2>2 DEF SizeOf, Growing, InFork, Filled, locals
<1>9. \A q \in Procs : ChildOf(q)'
  BY <1>1, <1>2, SameChildren, Domains DEF InFork, locals
<1> QED
  BY <1>5, <1>6, <1>7, <1>8, <1>9, StepInv

\* freevm(d), and kfree of what the slots R hold.
Release(R, d) ==
  /\ Freevm(d)
  /\ free' = free \cup ({Holds(s) : s \in R} \ {None}) \cup TablePages(d) \cup Mapped(d)
  /\ \A s \in R : Holds(s)' = None
  /\ \A x \in Procs : /\ <<"kstack", x>> \notin R => kstack'[x] = kstack[x]
                      /\ <<"pgdir", x>> \notin R => pgdir'[x] = pgdir[x]
                      /\ <<"newdir", x>> \notin R => newdir'[x] = newdir[x]
                      /\ <<"mem", x>> \notin R => mem'[x] = mem[x]
  /\ \A e \in Page : e # d /\ IsDir(e) => IsDir(e)'

FreedAt(d) == \A e \in Page : e # d => tables'[e] = tables[e] /\ ptes'[e] = ptes[e]

LEMMA FreeDirectory ==
  ASSUME IInv, TypeOK', NEW d \in Page, NEW R \in SUBSET Slots, Release(R, d)
  PROVE  OneOwner' /\ Emptied' /\ FreedAt(d)
<1>1. /\ tables'[d] = NoTables /\ ptes'[d] = NoPages
      /\ \A e \in Page : e # d => tables'[e] = tables[e] /\ ptes'[e] = ptes[e]
      /\ \A s \in Entries(d) : Holds(s)' = None
  BY Freed DEF Release, IInv
<1>2. PICK S \in SUBSET Slots : S = R \cup Entries(d)
  BY EntriesHold
<1>3. free' = free \cup ({Holds(s) : s \in S} \ {None})
  <2>1. {Holds(s) : s \in S} = {Holds(s) : s \in R} \cup {Holds(s) : s \in Entries(d)}
    BY <1>2
  <2> QED
    BY <2>1, EntriesHold DEF Release
<1>4. \A s \in S : Holds(s)' = None
  BY <1>1, <1>2 DEF Release
<1>5. \A s \in Slots \ S : Holds(s)' = Holds(s)
  <2>1. ASSUME NEW x \in Procs
        PROVE  /\ <<"kstack", x>> \notin S => kstack'[x] = kstack[x]
               /\ <<"pgdir", x>> \notin S => pgdir'[x] = pgdir[x]
               /\ <<"newdir", x>> \notin S => newdir'[x] = newdir[x]
               /\ <<"mem", x>> \notin S => mem'[x] = mem[x]
    BY <1>2 DEF Release
  <2>2. \A e \in Page, t \in Tables : <<"table", e, t>> \notin S => tables'[e][t] = tables[e][t]
    BY <1>1, <1>2 DEF Entries
  <2>3. \A e \in Page, a \in Vas : <<"user", e, a>> \notin S => ptes'[e][a] = ptes[e][a]
    BY <1>1, <1>2 DEF Entries
  <2> QED
    BY <2>1, <2>2, <2>3, OtherSlots
<1>6. OneOwner'
  BY <1>3, <1>4, <1>5, GivePages DEF IInv
<1>7. Emptied'
  BY <1>1 DEF Release, IInv, Emptied
<1> QED
  BY <1>1, <1>6, <1>7 DEF FreedAt

LEMMA ExecFreeInv ==
  ASSUME IInv, TypeOK', NEW p \in Procs, ExecFree(p)
  PROVE  OneOwner' /\ Emptied' /\ Processes' /\ Cr3Owned'
<1>1. /\ pc[p] = "freevm" /\ cr3[p] # None
      /\ free' = free \cup Space(newdir[p]) /\ Freevm(newdir[p])
      /\ newdir' = [newdir EXCEPT ![p] = None] /\ pc' = [pc EXCEPT ![p] = "user"]
      /\ UNCHANGED <<procs, cr3, op, np, next, limit, mem>>
  BY DEF ExecFree, At, Goto
<1>2. PICK d \in Page : d = newdir[p]
  BY <1>1, Fields DEF CallOf
<1>3. /\ newdir'[p] = None /\ pc'[p] = "user"
      /\ \A q \in Procs : q # p => newdir'[q] = newdir[q]
  BY <1>1, Domains
<1>4. /\ op[p] = "exec" /\ state[p] = "ALIVE" /\ pgdir[p] # None /\ pgdir[p] # d
      /\ mem[p] = None /\ np[p] = None
  BY <1>1, <1>2, Fields, Apart DEF IInv, CallOf, LifeOf, ChildOf, InFork
<1>5. OneOwner' /\ Emptied' /\ FreedAt(d)
  <2>1. PICK R \in SUBSET Slots : R = {<<"newdir", p>>}
    BY SlotKinds
  <2>2. {Holds(s) : s \in R} \ {None} = {d} /\ \A s \in R : Holds(s)' = None
    <3>1. Holds(<<"newdir", p>>) = d /\ Holds(<<"newdir", p>>)' = None
      BY <1>2, <1>3, SlotKinds, SlotsNext
    <3> QED
      BY <2>1, <3>1, Constants
  <2>3. free' = free \cup ({Holds(s) : s \in R} \ {None}) \cup TablePages(d) \cup Mapped(d)
    BY <1>1, <1>2, <2>2 DEF Space
  <2>4. \A x \in Procs : /\ <<"kstack", x>> \notin R => kstack'[x] = kstack[x]
                         /\ <<"pgdir", x>> \notin R => pgdir'[x] = pgdir[x]
                         /\ <<"newdir", x>> \notin R => newdir'[x] = newdir[x]
                         /\ <<"mem", x>> \notin R => mem'[x] = mem[x]
    BY <1>1, <1>3, <2>1 DEF procs
  <2>5. \A e \in Page : e # d /\ IsDir(e) => IsDir(e)'
    BY <1>1, <1>2, <1>3 DEF IsDir, procs
  <2>6. Release(R, d)
    BY <1>1, <1>2, <2>2, <2>3, <2>4, <2>5 DEF Release
  <2> QED
    BY <2>6, FreeDirectory
<1>6. \A q \in Procs : q # p => Still(q)
  <2>1. ASSUME NEW q \in Procs, q # p
        PROVE  /\ pgdir[q] # None => ptes'[pgdir[q]] = ptes[pgdir[q]]
               /\ newdir[q] # None => ptes'[newdir[q]] = ptes[newdir[q]]
    BY <1>2, <1>5, <2>1, Apart, Fields DEF IInv, FreedAt
  <2> QED
    BY <1>1, <1>3, <2>1, Domains DEF Still, procs
<1>7. LifeOf(p)' /\ CallOf(p)' /\ Cr3Of(p)'
  BY <1>1, <1>3, <1>4, Fields DEF LifeOf, CallOf, Cr3Of, procs
<1>8. SizeOf(p)'
  <2>1. Filled(pgdir[p], sz[p])
    BY <1>1, <1>4, Fields DEF SizeOf, Growing
  <2>2. ptes'[pgdir[p]] = ptes[pgdir[p]]
    BY <1>4, <1>5, Fields DEF FreedAt
  <2> QED
    BY <1>1, <1>3, <1>4, <2>1, <2>2 DEF SizeOf, Growing, InFork, Filled, procs
<1>9. \A q \in Procs : ChildOf(q)'
  BY <1>1, <1>4, SameChildren, Domains DEF InFork, procs
<1> QED
  BY <1>5, <1>6, <1>7, <1>8, <1>9, StepInv

LEMMA WaitInv ==
  ASSUME IInv, TypeOK', NEW p \in Procs, Wait(p)
  PROVE  OneOwner' /\ Emptied' /\ Processes' /\ Cr3Owned'
<1>1. PICK q \in Procs :
        /\ state[q] = "ZOMBIE"
        /\ free' = free \cup {kstack[q]} \cup Space(pgdir[q]) /\ Freevm(pgdir[q])
        /\ state' = [state EXCEPT ![q] = "UNUSED"]
        /\ kstack' = [kstack EXCEPT ![q] = None] /\ pgdir' = [pgdir EXCEPT ![q] = None]
  BY DEF Wait
<1>2. UNCHANGED <<sz, cr3, pc, locals, mem>>
  BY DEF Wait
<1>3. PICK d \in Page : d = pgdir[q]
  BY <1>1, Fields DEF LifeOf
<1>4. /\ kstack[q] # None /\ cr3[q] = None /\ pc[q] \in {"user", "fault"}
      /\ newdir[q] = None /\ mem[q] = None /\ np[q] = None
  BY <1>1, <1>3, Constants, Fields DEF LifeOf, CallOf, ChildOf, InFork
<1>5. /\ state'[q] = "UNUSED" /\ kstack'[q] = None /\ pgdir'[q] = None
      /\ \A r \in Procs : r # q => /\ state'[r] = state[r] /\ kstack'[r] = kstack[r]
                                   /\ pgdir'[r] = pgdir[r]
  BY <1>1, Domains
<1>6. OneOwner' /\ Emptied' /\ FreedAt(d)
  <2>1. PICK R \in SUBSET Slots : R = {<<"kstack", q>>, <<"pgdir", q>>}
    BY SlotKinds
  <2>2. {Holds(s) : s \in R} = {kstack[q], d} /\ \A s \in R : Holds(s)' = None
    <3>1. /\ Holds(<<"kstack", q>>) = kstack[q] /\ Holds(<<"kstack", q>>)' = None
          /\ Holds(<<"pgdir", q>>) = d /\ Holds(<<"pgdir", q>>)' = None
      BY <1>3, <1>5, SlotKinds, SlotsNext
    <3> QED
      BY <2>1, <3>1
  <2>3. free' = free \cup ({Holds(s) : s \in R} \ {None}) \cup TablePages(d) \cup Mapped(d)
    BY <1>1, <1>3, <1>4, <2>2, Constants DEF Space
  <2>4. \A x \in Procs : /\ <<"kstack", x>> \notin R => kstack'[x] = kstack[x]
                         /\ <<"pgdir", x>> \notin R => pgdir'[x] = pgdir[x]
                         /\ <<"newdir", x>> \notin R => newdir'[x] = newdir[x]
                         /\ <<"mem", x>> \notin R => mem'[x] = mem[x]
    BY <1>2, <1>5, <2>1 DEF locals
  <2>5. \A e \in Page : e # d /\ IsDir(e) => IsDir(e)'
    BY <1>2, <1>3, <1>5 DEF IsDir, locals
  <2>6. Release(R, d)
    BY <1>1, <1>3, <2>2, <2>3, <2>4, <2>5 DEF Release
  <2> QED
    BY <2>6, FreeDirectory
<1>7. \A r \in Procs : r # q => Still(r)
  <2>1. ASSUME NEW r \in Procs, r # q
        PROVE  /\ pgdir[r] # None => ptes'[pgdir[r]] = ptes[pgdir[r]]
               /\ newdir[r] # None => ptes'[newdir[r]] = ptes[newdir[r]]
    BY <1>3, <1>6, <2>1, Apart, Fields DEF IInv, FreedAt
  <2> QED
    BY <1>2, <1>5, <2>1 DEF Still, locals
<1>8. LifeOf(q)' /\ CallOf(q)' /\ Cr3Of(q)'
  BY <1>2, <1>4, <1>5, Fields DEF LifeOf, CallOf, Cr3Of, locals
<1>9. SizeOf(q)'
  BY <1>2, <1>4, <1>5 DEF SizeOf, Growing, InFork, Filled, locals
<1>10. \A r \in Procs : ChildOf(r)'
  BY <1>1, <1>2, <1>5, SameChildren DEF InFork, locals
<1> QED
  BY <1>6, <1>7, <1>8, <1>9, <1>10, StepInv

\* The slots of a call that a failure empties: c is the child of a fork.
InCall(p, c) ==
  {<<"newdir", p>>, <<"mem", p>>} \cup (IF op[p] = "fork" THEN {<<"kstack", c>>} ELSE {})

\* BuildBad, for the child c and the directory d.
Undo(p, c) ==
  /\ mem'[p] = None /\ newdir'[p] = None
  /\ \A q \in Procs : q # p => mem'[q] = mem[q] /\ newdir'[q] = newdir[q]
  /\ op[p] = "fork" => kstack'[c] = None
  /\ \A q \in Procs : ~(op[p] = "fork" /\ q = c) => kstack'[q] = kstack[q]
  /\ UNCHANGED pgdir

LEMMA UndoneSlots ==
  ASSUME IInv, TypeOK', NEW p \in Procs, NEW c \in Procs, Undo(p, c),
         op[p] = "fork" => kstack[c] # None
  PROVE  /\ InCall(p, c) \subseteq Slots
         /\ {Holds(s) : s \in InCall(p, c)} \ {None}
              = ({newdir[p]} \ {None}) \cup InHand(p)
                  \cup (IF op[p] = "fork" THEN {kstack[c]} ELSE {})
         /\ \A s \in InCall(p, c) : Holds(s)' = None
         /\ \A x \in Procs :
              /\ <<"kstack", x>> \notin InCall(p, c) => kstack'[x] = kstack[x]
              /\ <<"pgdir", x>> \notin InCall(p, c) => pgdir'[x] = pgdir[x]
              /\ <<"newdir", x>> \notin InCall(p, c) => newdir'[x] = newdir[x]
              /\ <<"mem", x>> \notin InCall(p, c) => mem'[x] = mem[x]
<1>1. /\ Holds(<<"newdir", p>>) = newdir[p] /\ Holds(<<"newdir", p>>)' = newdir'[p]
      /\ Holds(<<"mem", p>>) = mem[p] /\ Holds(<<"mem", p>>)' = mem'[p]
      /\ Holds(<<"kstack", c>>) = kstack[c] /\ Holds(<<"kstack", c>>)' = kstack'[c]
  BY SlotKinds, SlotsNext
<1>2. InCall(p, c) \subseteq Slots
  BY SlotKinds DEF InCall
<1>3. /\ {Holds(s) : s \in InCall(p, c)} \ {None}
           = ({newdir[p]} \ {None}) \cup InHand(p)
               \cup (IF op[p] = "fork" THEN {kstack[c]} ELSE {})
      /\ \A s \in InCall(p, c) : Holds(s)' = None
  <2>1. CASE op[p] = "fork"
    <3>1. InCall(p, c) = {<<"newdir", p>>, <<"mem", p>>, <<"kstack", c>>}
      BY <2>1 DEF InCall
    <3> QED
      BY <1>1, <2>1, <3>1 DEF Undo, InHand
  <2>2. CASE op[p] # "fork"
    <3>1. InCall(p, c) = {<<"newdir", p>>, <<"mem", p>>}
      BY <2>2 DEF InCall
    <3> QED
      BY <1>1, <2>2, <3>1 DEF Undo, InHand
  <2> QED
    BY <2>1, <2>2
<1>4. \A x \in Procs :
        /\ <<"kstack", x>> \notin InCall(p, c) => kstack'[x] = kstack[x]
        /\ <<"pgdir", x>> \notin InCall(p, c) => pgdir'[x] = pgdir[x]
        /\ <<"newdir", x>> \notin InCall(p, c) => newdir'[x] = newdir[x]
        /\ <<"mem", x>> \notin InCall(p, c) => mem'[x] = mem[x]
  BY DEF Undo, InCall
<1> QED
  BY <1>2, <1>3, <1>4

LEMMA BuildBadInv ==
  ASSUME IInv, TypeOK', NEW p \in Procs, BuildBad(p)
  PROVE  OneOwner' /\ Emptied' /\ Processes' /\ Cr3Owned'
<1>1. /\ pc[p] = "bad" /\ op[p] # "sbrk" /\ cr3[p] # None
      /\ newdir' = [newdir EXCEPT ![p] = None] /\ np' = [np EXCEPT ![p] = None]
      /\ mem' = [mem EXCEPT ![p] = None] /\ pc' = [pc EXCEPT ![p] = "user"]
      /\ UNCHANGED <<pgdir, sz, cr3, op, next, limit>>
  BY DEF BuildBad, At, Goto
<1>2. PICK c \in Procs : op[p] = "fork" => c = np[p]
  BY <1>1, Fields DEF ChildOf, InFork
<1>3. /\ op[p] = "fork" => state[c] = "EMBRYO" /\ kstack[c] # None /\ pgdir[c] = None
      /\ op[p] = "fork" => p # c /\ np[c] = None /\ newdir[c] = None /\ mem[c] = None
      /\ op[p] = "fork" => cr3[c] = None /\ pc[c] \in {"user", "fault"}
      /\ op[p] # "fork" => np[p] = None
      /\ state[p] = "ALIVE"
  BY <1>1, <1>2, Fields DEF ChildOf, LifeOf, CallOf, InFork
<1>4. /\ newdir'[p] = None /\ np'[p] = None /\ mem'[p] = None /\ pc'[p] = "user"
      /\ \A q \in Procs : q # p => /\ newdir'[q] = newdir[q] /\ np'[q] = np[q]
                                   /\ mem'[q] = mem[q] /\ pc'[q] = pc[q]
  BY <1>1, Domains
<1>5. /\ op[p] = "fork" => state'[c] = "UNUSED" /\ kstack'[c] = None
      /\ \A q \in Procs : ~(op[p] = "fork" /\ q = c) => state'[q] = state[q] /\ kstack'[q] = kstack[q]
  <2>1. CASE op[p] = "fork"
    <3>1. kstack' = [kstack EXCEPT ![c] = None] /\ state' = [state EXCEPT ![c] = "UNUSED"]
      BY <1>2, <2>1 DEF BuildBad
    <3> QED
      BY <2>1, <3>1, Domains
  <2>2. CASE op[p] # "fork"
    BY <2>2 DEF BuildBad
  <2> QED
    BY <2>1, <2>2
<1>6. Undo(p, c)
  BY <1>1, <1>4, <1>5 DEF Undo
<1>7. PICK R \in SUBSET Slots : R = InCall(p, c)
  BY <1>3, <1>6, UndoneSlots
<1>8. /\ {Holds(s) : s \in R} \ {None} = ({newdir[p]} \ {None}) \cup InHand(p)
                                           \cup (IF op[p] = "fork" THEN {kstack[c]} ELSE {})
      /\ \A s \in R : Holds(s)' = None
      /\ \A x \in Procs : /\ <<"kstack", x>> \notin R => kstack'[x] = kstack[x]
                          /\ <<"pgdir", x>> \notin R => pgdir'[x] = pgdir[x]
                          /\ <<"newdir", x>> \notin R => newdir'[x] = newdir[x]
                          /\ <<"mem", x>> \notin R => mem'[x] = mem[x]
  BY <1>3, <1>6, <1>7, UndoneSlots
<1>9. free' = free \cup (IF newdir[p] = None THEN {} ELSE Space(newdir[p])) \cup InHand(p)
                \cup (IF op[p] = "fork" THEN {kstack[c]} ELSE {})
  BY <1>2 DEF BuildBad
<1>10. /\ OneOwner' /\ Emptied'
       /\ \A e \in Page : e # newdir[p] => ptes'[e] = ptes[e]
  <2>1. CASE newdir[p] = None
    <3>1. UNCHANGED dirs /\ free' = free \cup ({Holds(s) : s \in R} \ {None})
      BY <1>8, <1>9, <2>1 DEF BuildBad
    <3>2. \A s \in Slots \ R : Holds(s)' = Holds(s)
      BY <1>8, <3>1, OtherSlots DEF dirs
    <3>3. OneOwner'
      BY <1>8, <3>1, <3>2, GivePages DEF IInv
    <3>4. \A e \in Page : IsDir(e)' <=> IsDir(e)
      BY <1>1, <1>4, <2>1, Constants DEF IsDir
    <3> QED
      BY <3>1, <3>3, <3>4 DEF IInv, Emptied, dirs
  <2>2. CASE newdir[p] # None
    <3>1. PICK d \in Page : d = newdir[p]
      BY <2>2, Fields
    <3>2. Freevm(d)
      BY <2>2, <3>1 DEF BuildBad
    <3>3. free' = free \cup ({Holds(s) : s \in R} \ {None}) \cup TablePages(d) \cup Mapped(d)
      BY <1>8, <1>9, <2>2, <3>1, Constants DEF Space
    <3>4. \A e \in Page : e # d /\ IsDir(e) => IsDir(e)'
      BY <1>1, <1>4, <3>1 DEF IsDir
    <3>5. Release(R, d)
      BY <1>8, <3>2, <3>3, <3>4 DEF Release
    <3> QED
      BY <3>1, <3>5, FreeDirectory DEF FreedAt
  <2> QED
    BY <2>1, <2>2
<1>11. \A q \in Procs : q # p /\ ~(op[p] = "fork" /\ q = c) => Still(q)
  <2>1. ASSUME NEW q \in Procs, q # p
        PROVE  /\ pgdir[q] # None => ptes'[pgdir[q]] = ptes[pgdir[q]]
               /\ newdir[q] # None => ptes'[newdir[q]] = ptes[newdir[q]]
    BY <1>10, <2>1, Apart, Fields DEF IInv
  <2> QED
    BY <1>1, <1>4, <1>5, <2>1 DEF Still
<1>12. LifeOf(p)' /\ CallOf(p)' /\ Cr3Of(p)'
  BY <1>1, <1>3, <1>4, <1>5, Fields DEF LifeOf, CallOf, Cr3Of
<1>13. SizeOf(p)'
  <2>1. Filled(pgdir[p], sz[p])
    BY <1>1, <1>3, Fields DEF SizeOf, Growing
  <2>2. pgdir[p] \in Page /\ pgdir[p] # newdir[p]
    BY <1>1, <1>3, Fields, Apart DEF IInv, LifeOf
  <2>3. Filled(pgdir[p], sz[p])'
    BY <1>1, <1>10, <2>1, <2>2 DEF Filled
  <2> QED
    BY <1>1, <1>4, <2>3 DEF SizeOf, Growing, InFork
<1>14. op[p] = "fork" => LifeOf(c)' /\ CallOf(c)' /\ SizeOf(c)' /\ Cr3Of(c)'
  <2> SUFFICES ASSUME op[p] = "fork" PROVE LifeOf(c)' /\ CallOf(c)' /\ SizeOf(c)' /\ Cr3Of(c)'
    OBVIOUS
  <2>1. LifeOf(c)' /\ CallOf(c)' /\ Cr3Of(c)'
    BY <1>1, <1>3, <1>4, <1>5, Fields DEF LifeOf, CallOf, Cr3Of
  <2>2. SizeOf(c)'
    BY <1>1, <1>3, <1>4, <1>5 DEF SizeOf, Growing, InFork
  <2> QED
    BY <2>1, <2>2
<1>15. ASSUME NEW r \in Procs PROVE ChildOf(r)'
  <2>1. CASE r = p
    BY <1>4, <2>1 DEF ChildOf, InFork
  <2>2. CASE r # p
    <3>1. ChildOf(r) /\ np[r] \in Procs \cup {None} /\ np'[r] = np[r] /\ pc'[r] = pc[r]
      BY <1>4, <2>2, Fields
    <3>2. np[r] # None => ~(op[p] = "fork" /\ np[r] = c)
      BY <1>2, <2>2, <3>1 DEF ChildOf
    <3>3. np'[r] # None <=> InFork(r)'
      BY <1>1, <3>1 DEF ChildOf, InFork
    <3>4. np'[r] # None =>
            state'[np'[r]] = "EMBRYO" /\ (kstack'[np'[r]] = None <=> pc'[r] = "kstack")
      BY <1>5, <3>1, <3>2 DEF ChildOf
    <3>5. \A s \in Procs : np'[r] = np'[s] /\ np'[r] # None => r = s
      BY <1>4, <3>1 DEF ChildOf
    <3> QED
      BY <3>3, <3>4, <3>5 DEF ChildOf
  <2> QED
    BY <2>1, <2>2
<1>16. CASE op[p] = "fork"
  BY <1>10, <1>11, <1>12, <1>13, <1>14, <1>15, <1>16, StepInv
<1>17. CASE op[p] # "fork"
  BY <1>10, <1>11, <1>12, <1>13, <1>15, <1>17, StepInv
<1> QED
  BY <1>16, <1>17

----------------------------------------------------------------------------
(* The invariant. *)

\* userinit gives out the pages d, k, u, m and those of kt, all different.
FirstSlots(d, k, u, m, kt) ==
  /\ kstack = [p \in Procs |-> IF p = 1 THEN k ELSE None]
  /\ pgdir = [p \in Procs |-> IF p = 1 THEN d ELSE None]
  /\ newdir = [p \in Procs |-> None] /\ mem = [p \in Procs |-> None]
  /\ ptes = [x \in Page |-> [a \in Vas |-> IF x = d /\ a = 0 THEN m ELSE None]]
  /\ tables = [x \in Page |-> [t \in Tables |->
                 CASE x = d /\ t \in KvmTables -> kt[t]
                   [] x = d /\ t = <<"user", 0>> -> u
                   [] OTHER -> None]]
  /\ free = Page \ ({d, k, u, m} \cup {kt[t] : t \in KvmTables})

Distinct(d, k, u, m, kt) ==
  /\ d # k /\ d # u /\ d # m /\ k # u /\ k # m /\ u # m
  /\ \A t \in KvmTables : kt[t] \notin {d, k, u, m}
  /\ \A s, t \in KvmTables : kt[s] = kt[t] => s = t

LEMMA FirstOwners ==
  ASSUME TypeOK, NEW d \in Page, NEW k \in Page, NEW u \in Page, NEW m \in Page,
         NEW kt \in [KvmTables -> Page], FirstSlots(d, k, u, m, kt), Distinct(d, k, u, m, kt)
  PROVE  OneOwner
<1> DEFINE used == {d, k, u, m} \cup {kt[t] : t \in KvmTables}
<1>1. /\ 1 \in Procs /\ 0 \in Vas /\ <<"user", 0>> \in Tables
      /\ <<"user", 0>> \notin KvmTables /\ KvmTables \subseteq Tables
  BY DEF Procs, Vas, Tables, KvmTables, UserTables
<1>2. /\ Holds(<<"kstack", 1>>) = k /\ Holds(<<"pgdir", 1>>) = d
      /\ Holds(<<"table", d, <<"user", 0>>>>) = u /\ Holds(<<"user", d, 0>>) = m
      /\ \A t \in KvmTables : Holds(<<"table", d, t>>) = kt[t]
  BY <1>1, SlotKinds DEF FirstSlots
<1>3. ASSUME NEW s \in Slots, Holds(s) # None
      PROVE  \/ s = <<"kstack", 1>> \/ s = <<"pgdir", 1>>
             \/ s = <<"table", d, <<"user", 0>>>> \/ s = <<"user", d, 0>>
             \/ \E t \in KvmTables : s = <<"table", d, t>>
  <2>1. ASSUME NEW x \in Procs, s \in {<<"kstack", x>>, <<"pgdir", x>>, <<"newdir", x>>, <<"mem", x>>}
        PROVE  x = 1 /\ s \in {<<"kstack", x>>, <<"pgdir", x>>}
    <3>1. /\ Holds(<<"newdir", x>>) = None /\ Holds(<<"mem", x>>) = None
          /\ x # 1 => Holds(<<"kstack", x>>) = None /\ Holds(<<"pgdir", x>>) = None
      BY SlotKinds DEF FirstSlots
    <3> QED
      BY <1>3, <2>1, <3>1
  <2>2. ASSUME NEW x \in Page, NEW t \in Tables, s = <<"table", x, t>>
        PROVE  x = d /\ (t \in KvmTables \/ t = <<"user", 0>>)
    <3>1. tables[x][t] # None
      BY <1>3, <2>2, SlotKinds
    <3> QED
      BY <3>1 DEF FirstSlots
  <2>3. ASSUME NEW x \in Page, NEW a \in Vas, s = <<"user", x, a>>
        PROVE  x = d /\ a = 0
    <3>1. ptes[x][a] # None
      BY <1>3, <2>3, SlotKinds
    <3> QED
      BY <3>1 DEF FirstSlots
  <2> QED
    BY <2>1, <2>2, <2>3, SlotCases
<1>4. \A s \in Slots : Holds(s) # None => Holds(s) \in used
  BY <1>2, <1>3
<1>5. Unfree
  BY <1>4, HoldsPages DEF Unfree, FirstSlots
<1>6. Unshared
  BY <1>2, <1>3 DEF Unshared, Distinct
<1>7. Unlost
  <2>1. \A pg \in used : \E s \in Slots : Holds(s) = pg
    <3>1. /\ <<"kstack", 1>> \in Slots /\ <<"pgdir", 1>> \in Slots
          /\ <<"table", d, <<"user", 0>>>> \in Slots /\ <<"user", d, 0>> \in Slots
          /\ \A t \in KvmTables : <<"table", d, t>> \in Slots
      BY <1>1, SlotKinds
    <3> QED
      BY <1>2, <3>1
  <2> QED
    BY <2>1 DEF Unlost, FirstSlots
<1> QED
  BY <1>5, <1>6, <1>7, Owned

LEMMA InitIInv == Init => IInv
<1> SUFFICES ASSUME Init PROVE IInv
  OBVIOUS
<1>1. PICK d \in Page, k \in Page, u \in Page, m \in Page, kt \in [KvmTables -> Page] :
        LET used == {d, k, u, m} \cup {kt[t] : t \in KvmTables}
        IN  /\ d < k /\ k < u /\ u < m /\ \A t \in KvmTables : m < kt[t]
            /\ \A s, t \in KvmTables : kt[s] = kt[t] => s = t
            /\ free = Page \ used
            /\ \A x \in used, y \in free : x < y
            /\ tables = [x \in Page |-> [t \in Tables |->
                           CASE x = d /\ t \in KvmTables -> kt[t]
                             [] x = d /\ t = <<"user", 0>> -> u
                             [] OTHER -> None]]
            /\ ptes = [x \in Page |-> [a \in Vas |-> IF x = d /\ a = 0 THEN m ELSE None]]
            /\ kstack = [p \in Procs |-> IF p = 1 THEN k ELSE None]
            /\ pgdir = [p \in Procs |-> IF p = 1 THEN d ELSE None]
  BY Zenon DEF Init
<1>2. /\ state = [p \in Procs |-> IF p = 1 THEN "ALIVE" ELSE "UNUSED"]
      /\ sz = [p \in Procs |-> IF p = 1 THEN 1 ELSE 0] /\ cr3 = [p \in Procs |-> None]
      /\ pc = [p \in Procs |-> "user"] /\ op = [p \in Procs |-> "none"]
      /\ np = [p \in Procs |-> None] /\ newdir = [p \in Procs |-> None]
      /\ next = [p \in Procs |-> 0] /\ limit = [p \in Procs |-> 0]
      /\ mem = [p \in Procs |-> None]
  BY DEF Init
<1>3. FirstSlots(d, k, u, m, kt)
  BY <1>1, <1>2 DEF FirstSlots
<1>4. Distinct(d, k, u, m, kt)
  <2>1. Page \subseteq Nat /\ \A t \in KvmTables : kt[t] \in Nat
    OBVIOUS
  <2> QED
    BY <1>1, <2>1 DEF Distinct
<1>5. TypeOK
  <2>1. tables \in [Page -> [Tables -> Maybe]]
    BY <1>1 DEF Maybe
  <2>2. ptes \in [Page -> [Vas -> Maybe]]
    BY <1>1 DEF Maybe
  <2> QED
    BY <1>1, <1>2, <2>1, <2>2 DEF TypeOK, Maybe, Points
<1>6. OneOwner
  BY <1>3, <1>4, <1>5, FirstOwners
<1>7. Emptied
  <2>1. IsDir(d)
    <3>1. 1 \in Procs
      BY DEF Procs
    <3> QED
      BY <1>1, <3>1 DEF IsDir
  <2>2. \A x \in Page : x # d => tables[x] = NoTables /\ ptes[x] = NoPages
    BY <1>1 DEF NoTables, NoPages
  <2> QED
    BY <2>1, <2>2 DEF Emptied
<1>8. ASSUME NEW p \in Procs
      PROVE  LifeOf(p) /\ ChildOf(p) /\ CallOf(p) /\ SizeOf(p) /\ Cr3Of(p)
  <2>1. LifeOf(p) /\ ChildOf(p) /\ CallOf(p) /\ Cr3Of(p)
    BY <1>1, <1>2, Constants DEF LifeOf, ChildOf, CallOf, Cr3Of, InFork
  <2>2. p = 1 => Filled(pgdir[p], 1)
    BY <1>1, Constants DEF Filled, Vas
  <2>3. SizeOf(p)
    BY <1>2, <2>2 DEF SizeOf, Growing, InFork
  <2> QED
    BY <2>1, <2>3
<1> QED
  BY <1>5, <1>6, <1>7, <1>8 DEF IInv, Processes, Cr3Owned, Cr3Of

LEMMA StutterInv ==
  IInv /\ UNCHANGED vars => IInv'
<1> SUFFICES ASSUME IInv, UNCHANGED vars PROVE IInv'
  OBVIOUS
<1>1. TypeOK'
  BY NextType
<1>2. OneOwner' /\ Emptied'
  BY <1>1, SameSlots DEF IInv, vars, procs, locals
<1>3. \A q \in Procs : Still(q)
  BY DEF Still, vars, dirs, procs, locals
<1>4. \A q \in Procs : ChildOf(q)'
  BY SameChildren DEF InFork, vars, procs, locals
<1>5. 1 \in Procs
  BY DEF Procs
<1>6. Processes' /\ Cr3Owned'
  BY <1>3, <1>4, <1>5, StillInv, StepInv
<1> QED
  BY <1>1, <1>2, <1>6 DEF IInv

\* The steps that change no slot.
LEMMA QuietInv ==
  ASSUME IInv, TypeOK', NEW p \in Procs,
         \/ Run(p) \/ Yield(p) \/ ExecSwitch(p) \/ ExecBad(p) \/ Exec(p) \/ Grow(p)
         \/ GrowDone(p) \/ Exit(p) \/ Fork(p)
  PROVE  OneOwner' /\ Emptied' /\ Processes' /\ Cr3Owned'
<1>1. UNCHANGED <<free, dirs, kstack, pgdir, newdir, mem>>
  BY DEF Run, Yield, ExecSwitch, ExecBad, Exec, Grow, GrowDone, Exit, Fork, procs, locals
<1>2. Processes' /\ Cr3Owned'
  BY RunInv, ExecBadInv, BeginInv, GrowDoneInv, ExitInv, ForkInv
<1> QED
  BY <1>1, <1>2, SameSlots DEF IInv

LEMMA StepIInv == IInv /\ [Next]_vars => IInv'
<1> SUFFICES ASSUME IInv, [Next]_vars PROVE IInv'
  OBVIOUS
<1>1. TypeOK'
  BY NextType
<1>2. CASE UNCHANGED vars
  BY <1>2, StutterInv
<1>3. ASSUME NEW p \in Procs,
             \/ Run(p) \/ Yield(p) \/ ExecSwitch(p) \/ ExecBad(p) \/ Exec(p) \/ Grow(p)
             \/ GrowDone(p) \/ Exit(p) \/ Fork(p)
      PROVE  IInv'
  BY <1>1, <1>3, QuietInv DEF IInv
<1>4. ASSUME NEW p \in Procs, ExecCommit(p) \/ ForkDone(p) \/ MapPage(p)
      PROVE  IInv'
  BY <1>1, <1>4, ExecCommitInv, ForkDoneInv, MapPageInv DEF IInv
<1>5. ASSUME NEW p \in Procs,
             ForkStack(p) \/ Setupkvm(p) \/ KvmTable(p) \/ AllocPage(p) \/ MapTable(p)
      PROVE  IInv'
  BY <1>1, <1>5, ForkStackInv, SetupkvmInv, TableInv, AllocPageInv DEF IInv
<1>6. ASSUME NEW p \in Procs,
             Shrink(p) \/ GrowBad(p) \/ ExecFree(p) \/ BuildBad(p) \/ Wait(p)
      PROVE  IInv'
  BY <1>1, <1>6, ShrinkInv, GrowBadInv, ExecFreeInv, BuildBadInv, WaitInv DEF IInv
<1> QED
  BY <1>2, <1>3, <1>4, <1>5, <1>6 DEF Next

LEMMA Invariance == Spec => []IInv
BY InitIInv, StepIInv, PTL DEF Spec

\* Every page between end and PHYSTOP is on the free list or has one owner,
\* however kalloc's failures cut fork, exec and sbrk short.
THEOREM PagesHaveOneOwner == Spec => []OneOwner
<1>1. IInv => OneOwner
  BY DEF IInv
<1> QED
  BY <1>1, Invariance, PTL

\* switchuvm loads a directory that its process owns, and no freevm takes it away.
THEOREM CpusRunOnOwnedDirectories == Spec => []Cr3Owned
<1>1. IInv => Cr3Owned
  BY DEF IInv
<1> QED
  BY <1>1, Invariance, PTL

\* A process in user space has the pages below sz and no others, and mappages
\* never finds the page that it is to map present.
THEOREM AddressSpacesAreMapped == Spec => []SizeMapped
<1>1. ASSUME IInv PROVE SizeMapped
  <2>1. TypeOK
    BY <1>1 DEF IInv
  <2>2. ASSUME NEW p \in Procs, state[p] = "ALIVE", pc[p] # "fault"
        PROVE  \A a \in Vas : a < sz[p] => ptes[pgdir[p]][a] # None
    BY <1>1, <2>2, Fields DEF SizeOf, Filled
  <2>3. ASSUME NEW p \in Procs, state[p] = "ALIVE", pc[p] = "user"
        PROVE  \A a \in Vas : a >= sz[p] => ptes[pgdir[p]][a] = None
    <3>1. Filled(pgdir[p], sz[p]) /\ sz[p] \in Int /\ Vas \subseteq Int
      BY <1>1, <2>3, Fields DEF SizeOf, Growing, Vas
    <3> QED
      BY <3>1 DEF Filled
  <2>4. ASSUME NEW p \in Procs, pc[p] = "mappages"
        PROVE  ptes[Target(p)][next[p]] = None
    <3>1. Filled(Target(p), next[p]) /\ next[p] \in Vas
      BY <1>1, <2>4, Fields DEF SizeOf, Vas
    <3> QED
      BY <3>1 DEF Filled, Vas
  <2> QED
    BY <2>1, <2>2, <2>3, <2>4 DEF SizeMapped
<1> QED
  BY <1>1, Invariance, PTL

=============================================================================
