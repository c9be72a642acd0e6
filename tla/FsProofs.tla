------------------------------- MODULE FsProofs -------------------------------
(***************************************************************************)
(* Theorems about module Fs for every number of processes, inodes, names,  *)
(* paths and open files: references and links are counted on every path    *)
(* through a call, and the inode cache says what the disk says.            *)
(***************************************************************************)
EXTENDS Fs, FiniteSetTheorems, SequenceTheorems, TLAPS

(***************************************************************************)
(* The inductive invariant.                                                *)
(***************************************************************************)

\* Where a call is, the iput that it makes on its way left aside.
Putting == {"iput", "itrunc", "iputref"}
Place(t) == IF t.pc \in Putting THEN t.ret ELSE t.pc

HasDp == {"creat", "mkdir", "mknod", "unlink", "ialloc", "iget", "create",
          "linknew", "linkhas", "unlinkip", "unlinkbad"}
HasIp == {"open", "chdir", "link", "exec", "exists", "iget", "create", "created",
          "linkwalk", "linknew", "linkhas", "linked", "linkbad", "unlinkip",
          "unlinked"}
LocksDp == {"ialloc", "iget", "create", "linkhas", "unlinkip", "unlinkbad"}
LocksIp == {"created", "unlinked"}

\* link() has counted its new link, and holds the inode without its lock.
Linking(t) ==
  \/ Place(t) \in {"linkwalk", "linknew", "linkhas", "linked", "linkbad"}
  \/ Place(t) = "namex" /\ t.ip # 0

\* Which local variables of a thread t are references, and what they are good
\* for; c is the current directory.
Local(t, c) ==
  /\ t.put # 0 <=> t.pc \in Putting
  /\ t.ret \notin Putting \cup {"panic", "iget", "ialloc"}
  /\ t.at # 0 <=> Place(t) = "namex"
  /\ t.dp # 0 <=> Place(t) \in HasDp
  /\ Place(t) \in HasIp => t.ip # 0
  /\ t.ip # 0 => Place(t) \in HasIp \cup {"namex"}
  /\ Linking(t) \/ Place(t) = "link" => t.call = "link"
  /\ Place(t) = "namex" => t.call \in Calls
  /\ Place(t) \in {"creat", "mkdir", "mknod", "ialloc", "iget", "create"} =>
       t.call \in {"creat", "mkdir", "mknod"}
  /\ Place(t) \in HasDp \ {"linkhas", "unlinkbad"} => t.rest # <<>>
  /\ Place(t) # "user" => c # 0

\* The locks that p has while it goes on.
Locked(p, t, locks) ==
  /\ Place(t) \in LocksDp => locks[t.dp] = p
  /\ Place(t) \in LocksIp => locks[t.ip] = p
  /\ t.pc = "itrunc" =>
       /\ locks[t.put] = p
       /\ Place(t) \in LocksDp => t.put # t.dp
       /\ Place(t) \in LocksIp => t.put # t.ip

\* The inodes that it uses without reading them again.
Used(t, cache) ==
  /\ Place(t) \in LocksDp => cache[t.dp] # Invalid
  /\ Place(t) \in LocksIp => cache[t.ip] # Invalid
  /\ Linking(t) => cache[t.ip] # Invalid

Uses(t, i) ==
  \/ Place(t) \in LocksDp /\ t.dp = i
  \/ (Place(t) \in LocksIp \/ Linking(t)) /\ t.ip = i

Live(p) ==
  th[p].pc # "panic" =>
    Local(th[p], cwd[p]) /\ Locked(p, th[p], lock) /\ Used(th[p], copy)

\* iput frees an inode under its lock, which nobody has counted a link of.
Truncating ==
  \A p, q \in Process :
    th[p].pc = "itrunc" /\ th[q].pc # "panic" /\ Linking(th[q]) => th[q].ip # th[p].put

FilesOpen ==
  /\ \A f \in Files : ftable[f].ref = 0 <=> ftable[f].ip = 0
  /\ \A p \in Process : cwd[p] = 0 => file[p] = 0

\* The cache is coherent, and has no free inode: it would be stale when ialloc
\* takes that one.
Cached ==
  /\ Coherent
  /\ (\A p \in Process : th[p].pc # "panic") =>
       \A i \in Inum : copy[i] # Invalid => copy[i].type # Free

IInv ==
  /\ StateOK
  /\ \A p \in Process : Live(p)
  /\ Truncating
  /\ FilesOpen
  /\ Cached
  /\ RefsCounted

(***************************************************************************)
(* Counting references.                                                    *)
(***************************************************************************)

Vars == {"cwd", "at", "dp", "ip", "put"}
One(b) == IF b THEN 1 ELSE 0

\* How many variables of a process point to i.
Held(t, c, i) ==
  One(c = i) + One(t.at = i) + One(t.dp = i)
    + One(t.pc # "iget" /\ t.ip = i) + One(t.put = i)
Mine(p, i) == Held(th[p], cwd[p], i)

ByProcesses(i) == {s \in Pointers(i) : s[2] # "ftable"}
ByFiles(i) == {s \in Pointers(i) : s[2] = "ftable"}

LEMMA Constants ==
  /\ IsFiniteSet(Process) /\ IsFiniteSet(Files) /\ IsFiniteSet(Process \X Vars)
  /\ Inum \subseteq Nat /\ 0 \notin Inum /\ ROOT \in Inum /\ 0 \notin Process
<1>1. IsFiniteSet(Process) /\ IsFiniteSet(Files)
  BY FsAssumption, FS_Interval DEF Files
<1>2. IsFiniteSet(Vars)
  <2>1. Vars = (((({} \cup {"cwd"}) \cup {"at"}) \cup {"dp"}) \cup {"ip"}) \cup {"put"}
    BY DEF Vars
  <2> QED
    BY <2>1, FS_EmptySet, FS_AddElement
<1>3. IsFiniteSet(Process \X Vars)
  BY <1>1, <1>2, FS_Product
<1> QED
  BY <1>1, <1>3, FsAssumption

LEMMA PointerKinds ==
  \A i \in Inum :
    /\ ByProcesses(i) \subseteq Process \X Vars
    /\ \A p \in Process :
         /\ <<p, "cwd">> \in ByProcesses(i) <=> cwd[p] = i
         /\ <<p, "at">> \in ByProcesses(i) <=> th[p].at = i
         /\ <<p, "dp">> \in ByProcesses(i) <=> th[p].dp = i
         /\ <<p, "ip">> \in ByProcesses(i) <=> th[p].pc # "iget" /\ th[p].ip = i
         /\ <<p, "put">> \in ByProcesses(i) <=> th[p].put = i
<1> SUFFICES ASSUME NEW i \in Inum
             PROVE  /\ ByProcesses(i) \subseteq Process \X Vars
                    /\ \A p \in Process :
                         /\ <<p, "cwd">> \in ByProcesses(i) <=> cwd[p] = i
                         /\ <<p, "at">> \in ByProcesses(i) <=> th[p].at = i
                         /\ <<p, "dp">> \in ByProcesses(i) <=> th[p].dp = i
                         /\ <<p, "ip">> \in ByProcesses(i) <=> th[p].pc # "iget" /\ th[p].ip = i
                         /\ <<p, "put">> \in ByProcesses(i) <=> th[p].put = i
  OBVIOUS
<1>1. i # 0
  BY Constants
<1> QED
  BY <1>1 DEF ByProcesses, Pointers, Vars

LEMMA FileKinds ==
  \A i : ByFiles(i) = {<<f, "ftable">> : f \in {g \in Files : ftable[g].ip = i}}
BY DEF ByFiles, Pointers

LEMMA PointersSum ==
  \A i \in Inum :
    /\ IsFiniteSet(ByProcesses(i)) /\ IsFiniteSet(ByFiles(i))
    /\ Cardinality(ByProcesses(i)) \in Nat /\ Cardinality(ByFiles(i)) \in Nat
    /\ Cardinality(Pointers(i)) = Cardinality(ByProcesses(i)) + Cardinality(ByFiles(i))
<1> SUFFICES ASSUME NEW i \in Inum
             PROVE  /\ IsFiniteSet(ByProcesses(i)) /\ IsFiniteSet(ByFiles(i))
                    /\ Cardinality(ByProcesses(i)) \in Nat /\ Cardinality(ByFiles(i)) \in Nat
                    /\ Cardinality(Pointers(i)) =
                         Cardinality(ByProcesses(i)) + Cardinality(ByFiles(i))
  OBVIOUS
<1>1. IsFiniteSet(ByProcesses(i))
  BY PointerKinds, Constants, FS_Subset
<1>2. IsFiniteSet(ByFiles(i))
  <2>1. IsFiniteSet({"ftable"})
    BY FS_Singleton
  <2>2. IsFiniteSet(Files \X {"ftable"})
    BY <2>1, Constants, FS_Product
  <2>3. ByFiles(i) \subseteq Files \X {"ftable"}
    BY FileKinds
  <2> QED
    BY <2>2, <2>3, FS_Subset
<1>3. Cardinality(ByProcesses(i)) \in Nat /\ Cardinality(ByFiles(i)) \in Nat
  BY <1>1, <1>2, FS_CardinalityType
<1>4. Pointers(i) = ByProcesses(i) \cup ByFiles(i) /\ ByProcesses(i) \cap ByFiles(i) = {}
  BY DEF ByProcesses, ByFiles
<1>5. Cardinality(ByProcesses(i) \cap ByFiles(i)) = 0
  BY <1>4, FS_EmptySet
<1>6. Cardinality(ByProcesses(i) \cup ByFiles(i)) =
        Cardinality(ByProcesses(i)) + Cardinality(ByFiles(i))
          - Cardinality(ByProcesses(i) \cap ByFiles(i))
  BY <1>1, <1>2, FS_Union
<1> QED
  BY <1>1, <1>2, <1>3, <1>4, <1>5, <1>6

LEMMA PointersSumNext ==
  \A i \in Inum :
    (Cardinality(Pointers(i)) = Cardinality(ByProcesses(i)) + Cardinality(ByFiles(i)))'
<1>1. (\A i \in Inum :
         /\ IsFiniteSet(ByProcesses(i)) /\ IsFiniteSet(ByFiles(i))
         /\ Cardinality(ByProcesses(i)) \in Nat /\ Cardinality(ByFiles(i)) \in Nat
         /\ Cardinality(Pointers(i)) = Cardinality(ByProcesses(i)) + Cardinality(ByFiles(i)))'
  BY PointersSum, PTL
<1> QED
  BY <1>1

\* The pointers of one process, and those of the others.
Five(p, i) == {s \in ByProcesses(i) : s[1] = p}
Rest(p, i) == {s \in ByProcesses(i) : s[1] # p}

LEMMA AddOne ==
  ASSUME NEW S, IsFiniteSet(S), Cardinality(S) \in Nat, NEW x, x \notin S, NEW b \in BOOLEAN
  PROVE  LET T == S \cup (IF b THEN {x} ELSE {})
         IN  IsFiniteSet(T) /\ Cardinality(T) = Cardinality(S) + One(b)
<1>1. CASE b
  BY <1>1, FS_AddElement DEF One
<1>2. CASE ~b
  <2>1. S \cup {} = S
    OBVIOUS
  <2> QED
    BY <1>2, <2>1 DEF One
<1> QED
  BY <1>1, <1>2

Parted(p, i) ==
  /\ IsFiniteSet(Five(p, i)) /\ Cardinality(Five(p, i)) = Mine(p, i)
  /\ IsFiniteSet(Rest(p, i)) /\ Cardinality(Rest(p, i)) \in Nat
  /\ Cardinality(ByProcesses(i)) = Cardinality(Rest(p, i)) + Mine(p, i)

LEMMA FiveCounted == \A i \in Inum, p \in Process : Parted(p, i)
<1> SUFFICES ASSUME NEW i \in Inum, NEW p \in Process
             PROVE  Parted(p, i)
  OBVIOUS
<1> DEFINE S1 == {} \cup (IF cwd[p] = i THEN {<<p, "cwd">>} ELSE {})
           S2 == S1 \cup (IF th[p].at = i THEN {<<p, "at">>} ELSE {})
           S3 == S2 \cup (IF th[p].dp = i THEN {<<p, "dp">>} ELSE {})
           S4 == S3 \cup (IF th[p].pc # "iget" /\ th[p].ip = i THEN {<<p, "ip">>} ELSE {})
           S5 == S4 \cup (IF th[p].put = i THEN {<<p, "put">>} ELSE {})
<1>1. Five(p, i) = S5
  <2>1. \A s \in Five(p, i) : s \in ByProcesses(i) /\ \E v \in Vars : s = <<p, v>>
    BY PointerKinds DEF Five
  <2>2. \A s \in S5 :
          \/ s = <<p, "cwd">> /\ cwd[p] = i
          \/ s = <<p, "at">> /\ th[p].at = i
          \/ s = <<p, "dp">> /\ th[p].dp = i
          \/ s = <<p, "ip">> /\ th[p].pc # "iget" /\ th[p].ip = i
          \/ s = <<p, "put">> /\ th[p].put = i
    OBVIOUS
  <2>4. /\ cwd[p] = i => <<p, "cwd">> \in S5
        /\ th[p].at = i => <<p, "at">> \in S5
        /\ th[p].dp = i => <<p, "dp">> \in S5
        /\ th[p].pc # "iget" /\ th[p].ip = i => <<p, "ip">> \in S5
        /\ th[p].put = i => <<p, "put">> \in S5
    OBVIOUS
  <2> HIDE DEF S5
  <2>3. ASSUME NEW s \in S5
        PROVE  s \in ByProcesses(i) /\ s[1] = p
    <3>1. s[1] = p
      BY <2>2
    <3>2. /\ cwd[p] = i => <<p, "cwd">> \in ByProcesses(i)
          /\ th[p].at = i => <<p, "at">> \in ByProcesses(i)
          /\ th[p].dp = i => <<p, "dp">> \in ByProcesses(i)
          /\ th[p].pc # "iget" /\ th[p].ip = i => <<p, "ip">> \in ByProcesses(i)
          /\ th[p].put = i => <<p, "put">> \in ByProcesses(i)
      BY PointerKinds
    <3> QED
      BY <2>2, <3>1, <3>2
  <2>5. ASSUME NEW s \in Five(p, i)
        PROVE  s \in S5
    <3>1. PICK v \in Vars : s = <<p, v>>
      BY <2>1
    <3>2. <<p, v>> \in ByProcesses(i)
      BY <2>1, <3>1
    <3>3. v = "cwd" \/ v = "at" \/ v = "dp" \/ v = "ip" \/ v = "put"
      BY DEF Vars
    <3> QED
      BY <2>4, <3>1, <3>2, <3>3, PointerKinds
  <2> QED
    BY <2>3, <2>5 DEF Five
<1>2. IsFiniteSet({}) /\ Cardinality({}) = 0
  BY FS_EmptySet
<1>3. IsFiniteSet(S1) /\ Cardinality(S1) = One(cwd[p] = i)
  <2>1. <<p, "cwd">> \notin {}
    OBVIOUS
  <2>2. Cardinality({}) \in Nat
    BY <1>2
  <2>3. IsFiniteSet(S1) /\ Cardinality(S1) = Cardinality({}) + One(cwd[p] = i)
    BY <1>2, <2>1, <2>2, AddOne
  <2> QED
    BY <1>2, <2>3 DEF One
<1>4. IsFiniteSet(S2) /\ Cardinality(S2) = One(cwd[p] = i) + One(th[p].at = i)
  <2>1. <<p, "at">> \notin S1 /\ Cardinality(S1) \in Nat
    BY <1>3 DEF One
  <2> QED
    BY <1>3, <2>1, AddOne
<1>5. IsFiniteSet(S3)
      /\ Cardinality(S3) = One(cwd[p] = i) + One(th[p].at = i) + One(th[p].dp = i)
  <2>1. <<p, "dp">> \notin S2 /\ Cardinality(S2) \in Nat
    BY <1>4 DEF One
  <2> QED
    BY <1>4, <2>1, AddOne, ZenonT(60)
<1>6. IsFiniteSet(S4)
      /\ Cardinality(S4) = One(cwd[p] = i) + One(th[p].at = i) + One(th[p].dp = i)
                             + One(th[p].pc # "iget" /\ th[p].ip = i)
  <2>1. <<p, "ip">> \notin S3 /\ Cardinality(S3) \in Nat
    BY <1>5 DEF One
  <2> DEFINE b == th[p].pc # "iget" /\ th[p].ip = i
  <2>2. b \in BOOLEAN
    OBVIOUS
  <2>3. S4 = S3 \cup (IF b THEN {<<p, "ip">>} ELSE {})
    OBVIOUS
  <2> HIDE DEF S3, S4, b
  <2>4. IsFiniteSet(S4) /\ Cardinality(S4) = Cardinality(S3) + One(b)
    BY <1>5, <2>1, <2>2, <2>3, AddOne
  <2> QED
    BY <1>5, <2>4 DEF b
<1>7. IsFiniteSet(S5) /\ Cardinality(S5) = Mine(p, i)
  <2>1. <<p, "put">> \notin S4 /\ Cardinality(S4) \in Nat
    BY <1>6 DEF One
  <2> HIDE DEF S4
  <2>2. IsFiniteSet(S5) /\ Cardinality(S5) = Cardinality(S4) + One(th[p].put = i)
    BY <1>6, <2>1, AddOne
  <2> HIDE DEF S5
  <2> QED
    BY <1>6, <2>2 DEF Mine, Held
<1>8. IsFiniteSet(Rest(p, i)) /\ Cardinality(Rest(p, i)) \in Nat
  BY PointersSum, FS_Subset, FS_CardinalityType DEF Rest
<1>9. Rest(p, i) \cup Five(p, i) = ByProcesses(i) /\ Rest(p, i) \cap Five(p, i) = {}
  BY DEF Rest, Five
<1>10. Mine(p, i) \in Nat
  BY DEF Mine, Held, One
<1>11. Cardinality(Rest(p, i) \cup Five(p, i)) =
         Cardinality(Rest(p, i)) + Cardinality(Five(p, i))
           - Cardinality(Rest(p, i) \cap Five(p, i))
  BY <1>1, <1>7, <1>8, FS_Union
<1> HIDE DEF S1, S2, S3, S4, S5
<1>12. Cardinality(Rest(p, i) \cap Five(p, i)) = 0
  BY <1>2, <1>9
<1>13. IsFiniteSet(Five(p, i)) /\ Cardinality(Five(p, i)) = Mine(p, i)
  BY <1>1, <1>7
<1>14. Cardinality(Rest(p, i) \cup Five(p, i)) = Cardinality(ByProcesses(i))
  BY <1>9
<1>15. Cardinality(ByProcesses(i)) = Cardinality(Rest(p, i)) + Mine(p, i)
  BY <1>8, <1>10, <1>11, <1>12, <1>13, <1>14
<1> QED
  BY <1>8, <1>13, <1>15 DEF Parted

LEMMA FiveCountedNext == \A i \in Inum, p \in Process : Parted(p, i)'
<1>1. (\A i \in Inum, p \in Process : Parted(p, i))'
  BY FiveCounted, PTL
<1> QED
  BY <1>1

\* A step of p that leaves the variables of others alone.
LEMMA ProcessStep ==
  ASSUME NEW p \in Process, \A q \in Process \ {p} : cwd'[q] = cwd[q] /\ th'[q] = th[q],
         NEW i \in Inum
  PROVE  Cardinality(ByProcesses(i))' = Cardinality(ByProcesses(i)) - Mine(p, i) + Mine(p, i)'
<1>1. (Cardinality(ByProcesses(i)) = Cardinality(Rest(p, i)) + Mine(p, i))'
  BY FiveCountedNext DEF Parted
<1>2. Rest(p, i)' = Rest(p, i)
  <2>1. ByProcesses(i)' \subseteq Process \X Vars
    BY DEF ByProcesses, Pointers, Vars
  <2>2. ASSUME NEW q \in Process \ {p}
        PROVE
          /\ <<q, "cwd">> \in ByProcesses(i) <=> <<q, "cwd">> \in ByProcesses(i)'
          /\ <<q, "at">> \in ByProcesses(i) <=> <<q, "at">> \in ByProcesses(i)'
          /\ <<q, "dp">> \in ByProcesses(i) <=> <<q, "dp">> \in ByProcesses(i)'
          /\ <<q, "ip">> \in ByProcesses(i) <=> <<q, "ip">> \in ByProcesses(i)'
          /\ <<q, "put">> \in ByProcesses(i) <=> <<q, "put">> \in ByProcesses(i)'
    <3>1. i # 0 /\ cwd'[q] = cwd[q] /\ th'[q] = th[q]
      BY Constants
    <3> QED
      BY <3>1 DEF ByProcesses, Pointers
  <2>3. \A q \in Process \ {p}, v \in Vars :
          <<q, v>> \in ByProcesses(i) <=> <<q, v>> \in ByProcesses(i)'
    BY <2>2 DEF Vars
  <2>4. ByProcesses(i) \subseteq Process \X Vars /\ ByProcesses(i)' \subseteq Process \X Vars
    BY <2>1, PointerKinds
  <2> QED
    BY <2>3, <2>4 DEF Rest
<1>3. Cardinality(ByProcesses(i)) = Cardinality(Rest(p, i)) + Mine(p, i)
      /\ Cardinality(Rest(p, i)) \in Nat
  BY FiveCounted DEF Parted
<1>4. Mine(p, i) \in Nat /\ Mine(p, i)' \in Nat
  BY DEF Mine, Held, One
<1> QED
  BY <1>1, <1>2, <1>3, <1>4

\* A step that leaves the inodes of all files but f alone.
LEMMA FileStep ==
  ASSUME NEW f \in Files, \A g \in Files \ {f} : ftable'[g].ip = ftable[g].ip,
         NEW i \in Inum
  PROVE  Cardinality(ByFiles(i))' =
           Cardinality(ByFiles(i)) - One(ftable[f].ip = i) + One(ftable'[f].ip = i)
<1> DEFINE B == ByFiles(i) \ {<<f, "ftable">>}
<1>1. ByFiles(i) = {<<g, "ftable">> : g \in {h \in Files : ftable[h].ip = i}}
  BY FileKinds
<1>2. ByFiles(i)' = {<<g, "ftable">> : g \in {h \in Files : ftable'[h].ip = i}}
  BY DEF ByFiles, Pointers
<1>3. IsFiniteSet(ByFiles(i)) /\ IsFiniteSet(B) /\ Cardinality(B) \in Nat
  BY PointersSum, FS_RemoveElement, FS_CardinalityType
<1>4. <<f, "ftable">> \notin B
  OBVIOUS
<1>5. ByFiles(i) = B \cup (IF ftable[f].ip = i THEN {<<f, "ftable">>} ELSE {})
  BY <1>1
<1>6. ByFiles(i)' = B \cup (IF ftable'[f].ip = i THEN {<<f, "ftable">>} ELSE {})
  BY <1>1, <1>2
<1> HIDE DEF B
<1>7. Cardinality(ByFiles(i)) = Cardinality(B) + One(ftable[f].ip = i)
  BY <1>3, <1>4, <1>5, AddOne
<1>8. Cardinality(ByFiles(i)') = Cardinality(B) + One(ftable'[f].ip = i)
  BY <1>3, <1>4, <1>6, AddOne, ZenonT(60)
<1> QED
  BY <1>3, <1>7, <1>8 DEF One

(***************************************************************************)
(* A step of one process that changes its own variables.                   *)
(***************************************************************************)

NoPanic == \A p \in Process : th[p].pc # "panic"

LEMMA CountsAreNat ==
  \A i \in Inum :
    /\ \A p \in Process : Mine(p, i) \in Nat
    /\ Cardinality(Pointers(i)) \in Nat
BY PointersSum DEF Mine, Held, One

\* The counts follow when ref and the variables of p change by the same amount.
LEMMA StepRefs ==
  ASSUME RefsCounted, ref \in [Inum -> Nat], NEW p \in Process,
         \A q \in Process \ {p} : th'[q] = th[q] /\ cwd'[q] = cwd[q],
         UNCHANGED files,
         \A i \in Inum : ref'[i] = ref[i] - Mine(p, i) + Mine(p, i)'
  PROVE  RefsCounted'
<1>1. ASSUME NEW i \in Inum
      PROVE  ref'[i] = Cardinality(Pointers(i))'
  <2>1. Cardinality(ByProcesses(i))' = Cardinality(ByProcesses(i)) - Mine(p, i) + Mine(p, i)'
    BY ProcessStep
  <2>2. ByFiles(i)' = ByFiles(i)
    BY FileKinds DEF ByFiles, Pointers, files
  <2>3. Cardinality(Pointers(i)) = Cardinality(ByProcesses(i)) + Cardinality(ByFiles(i))
    BY PointersSum
  <2>4. (Cardinality(Pointers(i)) = Cardinality(ByProcesses(i)) + Cardinality(ByFiles(i)))'
    BY PointersSumNext
  <2>5. Cardinality(ByProcesses(i)) \in Nat /\ Cardinality(ByFiles(i)) \in Nat
        /\ Mine(p, i) \in Nat /\ Mine(p, i)' \in Nat
    BY PointersSum DEF Mine, Held, One
  <2>6. ref[i] = Cardinality(Pointers(i))
    BY DEF RefsCounted
  <2> QED
    BY <2>1, <2>2, <2>3, <2>4, <2>5, <2>6
<1>2. \A f \in Files : ftable'[f].ref = Cardinality({q \in Process : file'[q] = f})
  BY DEF RefsCounted, files
<1> QED
  BY <1>1, <1>2 DEF RefsCounted

\* Others keep what they have.
LEMMA OthersLive ==
  ASSUME NEW p \in Process,
         \A q \in Process : Live(q),
         StateOK,
         \A q \in Process \ {p} : th'[q] = th[q] /\ cwd'[q] = cwd[q],
         \A i \in Inum : lock[i] \in Process \ {p} => lock'[i] = lock[i],
         \A i \in Inum : copy[i] # Invalid /\ copy'[i] = Invalid =>
           \A q \in Process \ {p} : th[q].pc # "panic" => ~Uses(th[q], i)
  PROVE  \A q \in Process \ {p} : Live(q)'
<1> SUFFICES ASSUME NEW q \in Process \ {p}, th[q].pc # "panic"
             PROVE  Locked(q, th[q], lock') /\ Used(th[q], copy')
  BY DEF Live
<1>1. Local(th[q], cwd[q]) /\ Locked(q, th[q], lock) /\ Used(th[q], copy)
  BY DEF Live
<1>2. th[q] \in Threads
  BY DEF StateOK
<1>3. /\ Place(th[q]) \in LocksDp => th[q].dp \in Inum
      /\ Place(th[q]) \in LocksIp => th[q].ip \in Inum
      /\ Linking(th[q]) => th[q].ip \in Inum
      /\ th[q].pc = "itrunc" => th[q].put \in Inum
  BY <1>1, <1>2 DEF Local, Threads, Maybe, LocksDp, LocksIp, HasDp, HasIp, Linking, Putting
<1>4. Locked(q, th[q], lock')
  BY <1>1, <1>3 DEF Locked
<1>5. Used(th[q], copy')
  BY <1>1, <1>3 DEF Used, Uses
<1> QED
  BY <1>4, <1>5

LEMMA StepTruncating ==
  ASSUME Truncating, NEW p \in Process,
         \A q \in Process \ {p} : th'[q] = th[q],
         th'[p].pc # "itrunc",
         th'[p].pc # "panic" /\ Linking(th'[p]) =>
           th[p].pc # "panic" /\ Linking(th[p]) /\ th'[p].ip = th[p].ip
  PROVE  Truncating'
BY DEF Truncating

\* The invariant after a step of p that moves its references about.
LEMMA StepInv ==
  ASSUME IInv, NEW p \in Process, NEW t, th' = [th EXCEPT ![p] = t],
         UNCHANGED <<cwd, files>>,
         StateOK', Cached',
         t.pc # "panic" => Local(t, cwd[p]) /\ Locked(p, t, lock') /\ Used(t, copy'),
         \A i \in Inum : lock[i] \in Process \ {p} => lock'[i] = lock[i],
         \A i \in Inum : copy[i] # Invalid /\ copy'[i] = Invalid =>
           \A q \in Process \ {p} : th[q].pc # "panic" => ~Uses(th[q], i),
         t.pc # "itrunc",
         t.pc # "panic" /\ Linking(t) =>
           th[p].pc # "panic" /\ Linking(th[p]) /\ t.ip = th[p].ip,
         \A i \in Inum : ref'[i] = ref[i] - Held(th[p], cwd[p], i) + Held(t, cwd[p], i)
  PROVE  IInv'
<1>1. th'[p] = t /\ \A q \in Process \ {p} : th'[q] = th[q]
  BY DEF IInv, StateOK
<1>2. \A q \in Process \ {p} : Live(q)'
  BY <1>1, OthersLive DEF IInv
<1>3. Live(p)'
  BY <1>1 DEF Live
<1>4. Truncating'
  BY <1>1, StepTruncating DEF IInv
<1>5. FilesOpen'
  BY DEF IInv, FilesOpen, files
<1>6. RefsCounted'
  <2>1. \A i \in Inum : ref'[i] = ref[i] - Mine(p, i) + Mine(p, i)'
    BY <1>1 DEF Mine
  <2> QED
    BY <1>1, <2>1, StepRefs DEF IInv, StateOK
<1> QED
  BY <1>2, <1>3, <1>4, <1>5, <1>6 DEF IInv

(***************************************************************************)
(* The steps of a process.                                                 *)
(***************************************************************************)

\* What the invariant says of a process that is at one of the points of L.
LEMMA Here ==
  ASSUME IInv, NEW p \in Process, NEW L, In(p, L)
  PROVE  /\ NoPanic /\ th[p].pc \in L /\ th[p] \in Threads /\ th \in [Process -> Threads]
         /\ Local(th[p], cwd[p]) /\ Locked(p, th[p], lock) /\ Used(th[p], copy)
<1>1. NoPanic /\ th[p].pc \in L
  BY DEF In, NoPanic
<1>2. Live(p) /\ th[p] \in Threads /\ th \in [Process -> Threads]
  BY DEF IInv, StateOK
<1> QED
  BY <1>1, <1>2 DEF Live, NoPanic

LEMMA MetaType ==
  ASSUME StateOK, NEW i \in Inum
  PROVE  /\ Meta(i) \in Metas /\ Invalid \notin Metas
         /\ Meta(i).type = DIR => Typed(i)
BY DEF StateOK, Meta, Metas, Invalid, Typed, Free, FILE, DIR, DEV

LEMMA LoadedCached ==
  ASSUME StateOK, Cached, NEW i \in Inum, Loaded(i), UNCHANGED dinode,
         NoPanic => Typed(i) \/ ~NoPanic'
  PROVE  /\ copy' \in [Inum -> Metas \cup {Invalid}]
         /\ copy'[i] # Invalid
         /\ \A j \in Inum : copy[j] # Invalid => copy'[j] # Invalid
         /\ NoPanic \/ ~NoPanic' => Cached'
<1>1. Meta(i) \in Metas /\ Invalid \notin Metas
  BY MetaType
<1>2. copy' = [copy EXCEPT ![i] = Meta(i)] /\ copy \in [Inum -> Metas \cup {Invalid}]
  BY DEF Loaded, StateOK
<1>3. Coherent'
  BY <1>2 DEF Cached, Coherent, Meta
<1>4. ASSUME NoPanic, NoPanic', NEW j \in Inum, copy'[j] # Invalid
      PROVE  copy'[j].type # Free
  <2>1. CASE j = i
    BY <1>2, <1>4, <2>1 DEF Typed
  <2>2. CASE j # i
    BY <1>2, <1>4, <2>2 DEF Cached, NoPanic
  <2> QED
    BY <2>1, <2>2
<1>5. NoPanic \/ ~NoPanic' => Cached'
  BY <1>3, <1>4 DEF Cached, NoPanic
<1> QED
  BY <1>1, <1>2, <1>5

\* A step that changes a thread, and not the disk or the files, keeps the types.
LEMMA ThreadType ==
  ASSUME StateOK, NEW p \in Process, NEW t \in Threads, th' = [th EXCEPT ![p] = t],
         UNCHANGED <<disk, cwd, files, calls, lost>>,
         copy' \in [Inum -> Metas \cup {Invalid}],
         ref' \in [Inum -> Nat], lock' \in [Inum -> Process \cup {0}]
  PROVE  StateOK'
BY DEF StateOK, disk, files

\* A panic leaves everything where it is.
LEMMA PanicInv ==
  ASSUME IInv, NEW p \in Process, th[p].pc # "iget", NEW i \in Inum, Loaded(i),
         Goto(p, "panic"), UNCHANGED <<disk, ref, lock, cwd, files, calls, lost>>
  PROVE  IInv'
<1> DEFINE t == [th[p] EXCEPT !.pc = "panic"]
<1>1. th[p] \in Threads /\ th \in [Process -> Threads] /\ ref \in [Inum -> Nat]
  BY DEF IInv, StateOK
<1>2. t \in Threads /\ t.pc = "panic" /\ t.at = th[p].at /\ t.dp = th[p].dp
      /\ t.ip = th[p].ip /\ t.put = th[p].put
  BY <1>1 DEF Threads, Points
<1>3. th' = [th EXCEPT ![p] = t]
  BY DEF Goto, Set
<1> HIDE DEF t
<1>4. ~NoPanic'
  BY <1>1, <1>2, <1>3 DEF NoPanic
<1>5. /\ copy' \in [Inum -> Metas \cup {Invalid}] /\ Cached'
      /\ \A j \in Inum : copy[j] # Invalid => copy'[j] # Invalid
  BY <1>4, LoadedCached DEF IInv, disk
<1>6. StateOK'
  BY <1>2, <1>3, <1>5, ThreadType DEF IInv, StateOK
<1>7. \A j \in Inum : ref'[j] = ref[j] - Held(th[p], cwd[p], j) + Held(t, cwd[p], j)
  BY <1>1, <1>2 DEF Held, One
<1> QED
  BY <1>2, <1>3, <1>5, <1>6, <1>7, StepInv

LEMMA NoTypeInv ==
  ASSUME IInv, NEW p \in Process, th[p].pc # "iget", NEW i \in Inum, NoType(p, i),
         UNCHANGED <<disk, ref, lock, cwd, files, calls, lost>>
  PROVE  IInv'
BY PanicInv DEF NoType

\* A step of p that leaves the disk alone, and may read an inode into the cache.
Reads == UNCHANGED copy \/ \E i \in Inum : Typed(i) /\ Loaded(i)

LEMMA ReadsCached ==
  ASSUME IInv, NoPanic, Reads, UNCHANGED disk
  PROVE  /\ copy' \in [Inum -> Metas \cup {Invalid}] /\ Cached'
         /\ \A i \in Inum : copy[i] # Invalid => copy'[i] # Invalid
<1>1. CASE UNCHANGED copy
  <2>1. copy' = copy /\ dinode' = dinode /\ StateOK /\ Cached
    BY <1>1 DEF disk, IInv
  <2>2. Coherent'
    BY <2>1 DEF Cached, Coherent
  <2>3. \A i \in Inum : copy'[i] # Invalid => copy'[i].type # Free
    BY <2>1 DEF Cached, NoPanic
  <2> QED
    BY <2>1, <2>2, <2>3 DEF Cached, StateOK
<1>2. CASE \E i \in Inum : Typed(i) /\ Loaded(i)
  <2>1. PICK i \in Inum : Typed(i) /\ Loaded(i)
    BY <1>2
  <2> QED
    BY <2>1, LoadedCached DEF IInv, disk
<1> QED
  BY <1>1, <1>2 DEF Reads

LEMMA ReadInv ==
  ASSUME IInv, NoPanic, NEW p \in Process, NEW t \in Threads, Set(p, t),
         UNCHANGED <<disk, cwd, files, lost>>, calls' \in 0..MaxCalls, Reads,
         ref' \in [Inum -> Nat], lock' \in [Inum -> Process \cup {0}],
         t.pc # "itrunc",
         Local(t, cwd[p]), Locked(p, t, lock'), Used(t, copy'),
         \A i \in Inum : lock[i] \in Process \ {p} => lock'[i] = lock[i],
         Linking(t) => Linking(th[p]) /\ t.ip = th[p].ip,
         \A i \in Inum : ref'[i] = ref[i] - Held(th[p], cwd[p], i) + Held(t, cwd[p], i)
  PROVE  IInv'
<1>1. /\ copy' \in [Inum -> Metas \cup {Invalid}] /\ Cached'
      /\ \A i \in Inum : copy[i] # Invalid => copy'[i] # Invalid
  BY ReadsCached
<1>2. StateOK'
  BY <1>1 DEF IInv, StateOK, disk, files, Set
<1>3. th' = [th EXCEPT ![p] = t] /\ th[p].pc # "panic"
  BY DEF Set, NoPanic
<1> QED
  BY <1>1, <1>2, <1>3, StepInv

\* One reference more, or as many as before.
LEMMA GotOne ==
  ASSUME StateOK, NEW k \in Inum, Got(k)
  PROVE  /\ ref' \in [Inum -> Nat]
         /\ \A i \in Inum : ref'[i] = ref[i] + One(i = k)
BY DEF StateOK, Got, One

LEMMA IdleType == Idle \in Threads
<1>1. <<>> \in Seq(Element)
  OBVIOUS
<1> QED
  BY <1>1 DEF Idle, Threads, Points, Maybe

\* The end of a call: its last reference is put.
LEMMA EndPutInv ==
  ASSUME IInv, NoPanic, NEW p \in Process, NEW k \in Inum, EndPut(p, k), cwd[p] # 0,
         UNCHANGED <<disk, ref, cwd, files, calls, lost>>, Reads,
         lock' \in [Inum -> Process \cup {0}],
         \A i \in Inum : lock[i] \in Process \ {p} => lock'[i] = lock[i],
         \A i \in Inum : Held(th[p], cwd[p], i) = One(cwd[p] = i) + One(k = i)
  PROVE  IInv'
<1> DEFINE t == Put(Idle, k, "user")
<1>1. /\ t.pc = "iput" /\ t.put = k /\ t.at = 0 /\ t.dp = 0 /\ t.ip = 0 /\ t.ret = "user"
      /\ t.call = "none"
  BY DEF Put, Idle
<1>2. t \in Threads
  BY IdleType, ZenonT(60) DEF Put, Threads, Points, Maybe
<1>3. Set(p, t)
  BY DEF EndPut
<1> HIDE DEF t
<1>4. k # 0
  BY Constants
<1>5. Place(t) = "user" /\ ~Linking(t)
  BY <1>1 DEF Place, Putting, Linking
<1>6. Local(t, cwd[p]) /\ Locked(p, t, lock') /\ Used(t, copy')
  BY <1>1, <1>4, <1>5 DEF Local, Locked, Used, Putting, HasDp, HasIp, LocksDp, LocksIp
<1>7. \A i \in Inum : Held(t, cwd[p], i) = One(cwd[p] = i) + One(k = i)
  BY <1>1, Constants DEF Held, One
<1>8. ref' \in [Inum -> Nat] /\ \A i \in Inum : ref'[i] = ref[i] - Held(th[p], cwd[p], i) + Held(t, cwd[p], i)
  BY <1>7 DEF IInv, StateOK, One
<1>9. calls' \in 0..MaxCalls
  BY DEF IInv, StateOK
<1> QED
  BY <1>1, <1>2, <1>3, <1>5, <1>6, <1>8, <1>9, ReadInv

LEMMA PutFields ==
  ASSUME NEW t \in Threads, NEW k \in Inum, NEW l \in Points \ Putting
  PROVE  LET u == Put(t, k, l)
         IN  /\ u \in Threads /\ Place(u) = l /\ u.pc = "iput" /\ u.put = k /\ u.ret = l
             /\ u.at = t.at /\ u.dp = t.dp /\ u.ip = t.ip /\ u.rest = t.rest
             /\ u.call = t.call /\ u.new = t.new
<1> DEFINE u == Put(t, k, l)
<1>0. "iput" \in Points /\ l \in Points /\ k \in Maybe
  BY DEF Points, Maybe
<1>1. /\ u \in Threads /\ u.pc = "iput" /\ u.put = k /\ u.ret = l
      /\ u.at = t.at /\ u.dp = t.dp /\ u.ip = t.ip /\ u.rest = t.rest
      /\ u.call = t.call /\ u.new = t.new
  BY <1>0 DEF Put, Threads
<1> HIDE DEF u
<1>2. Place(u) = l
  BY <1>1 DEF Place, Putting
<1> QED
  BY <1>1, <1>2 DEF u

\* The variables of p in the middle of namex.
LEMMA HereNamex ==
  ASSUME IInv, NEW p \in Process, At(p, "namex")
  PROVE  /\ NoPanic /\ th[p].pc = "namex" /\ th[p] \in Threads
         /\ Place(th[p]) = "namex" /\ th[p].at \in Inum /\ th[p].dp = 0 /\ th[p].put = 0
         /\ th[p].call \in Calls /\ th[p].ip \in Maybe /\ cwd[p] # 0
         /\ th[p].ret \notin Putting \cup {"panic", "iget", "ialloc"}
         /\ th[p].ip # 0 => /\ th[p].call = "link" /\ copy[th[p].ip] # Invalid
                            /\ Linking(th[p])
<1>1. /\ NoPanic /\ th[p].pc = "namex" /\ th[p] \in Threads /\ th \in [Process -> Threads]
      /\ Local(th[p], cwd[p]) /\ Locked(p, th[p], lock) /\ Used(th[p], copy)
  BY Here DEF At
<1>2. Place(th[p]) = "namex"
  BY <1>1 DEF Place, Putting
<1> QED
  BY <1>1, <1>2 DEF Local, Used, Linking, Putting, HasDp, Threads, Maybe

LEMMA LookupType ==
  ASSUME StateOK, NEW d \in Inum, NEW n \in Element
  PROVE  Lookup(d, n) \in Maybe
<1>1. CASE n = "." \/ n = ".."
  BY <1>1 DEF Lookup, StateOK, Maybe
<1>2. CASE n \in Name /\ n # "." /\ n # ".."
  BY <1>2 DEF Lookup, StateOK
<1> QED
  BY <1>1, <1>2 DEF Element

\* A lookup that fails puts the last inode, and link() goes on to undo its count.
LEMMA LostPutInv ==
  ASSUME IInv, NEW p \in Process, At(p, "namex"), LostPut(p, th[p].at), Reads,
         UNCHANGED <<disk, ref, lock, cwd, files, calls, lost>>
  PROVE  IInv'
<1> DEFINE k == th[p].at
<1>1. /\ NoPanic /\ th[p].pc = "namex" /\ th[p] \in Threads
      /\ Place(th[p]) = "namex" /\ k \in Inum /\ th[p].dp = 0 /\ th[p].put = 0
      /\ th[p].call \in Calls /\ th[p].ip \in Maybe /\ cwd[p] # 0
      /\ th[p].ip # 0 => /\ th[p].call = "link" /\ copy[th[p].ip] # Invalid
                         /\ Linking(th[p])
  BY HereNamex
<1>2. /\ copy' \in [Inum -> Metas \cup {Invalid}] /\ Cached'
      /\ \A i \in Inum : copy[i] # Invalid => copy'[i] # Invalid
  BY <1>1, ReadsCached
<1>3. ref \in [Inum -> Nat] /\ lock \in [Inum -> Process \cup {0}] /\ calls \in 0..MaxCalls
  BY DEF IInv, StateOK
<1>4. CASE th[p].ip # 0
  <2> DEFINE s == [th[p] EXCEPT !.at = 0, !.rest = <<>>]
             t == Put(s, k, "linkbad")
  <2>1. /\ s \in Threads /\ s.at = 0 /\ s.dp = 0 /\ s.ip = th[p].ip /\ s.call = "link"
    <3>1. <<>> \in Seq(Element)
      OBVIOUS
    <3> QED
      BY <1>1, <1>4, <3>1 DEF Threads, Maybe
  <2>2. Set(p, t)
    BY <1>4 DEF LostPut
  <2> HIDE DEF s
  <2>3. "linkbad" \in Points \ Putting
    BY DEF Points, Putting
  <2>4. /\ t \in Threads /\ Place(t) = "linkbad" /\ t.pc = "iput" /\ t.put = k
        /\ t.ret = "linkbad" /\ t.at = 0 /\ t.dp = 0 /\ t.ip = th[p].ip /\ t.call = "link"
    BY <1>1, <2>1, <2>3, PutFields
  <2> HIDE DEF t
  <2>5. Linking(t)
    BY <2>4 DEF Linking
  <2>6. Local(t, cwd[p]) /\ Locked(p, t, lock') /\ Used(t, copy')
    BY <1>1, <1>2, <1>4, <2>4, Constants
       DEF Local, Locked, Used, Putting, HasDp, HasIp, LocksDp, LocksIp, Maybe
  <2>7. \A i \in Inum : ref'[i] = ref[i] - Held(th[p], cwd[p], i) + Held(t, cwd[p], i)
    BY <1>1, <1>3, <2>4, Constants DEF Held, One
  <2> QED
    BY <1>1, <1>3, <1>4, <2>2, <2>4, <2>5, <2>6, <2>7, ReadInv
<1>5. CASE th[p].ip = 0
  <2>1. EndPut(p, k)
    BY <1>5 DEF LostPut
  <2>2. \A i \in Inum : Held(th[p], cwd[p], i) = One(cwd[p] = i) + One(k = i)
    BY <1>1, <1>5, Constants DEF Held, One
  <2> QED
    BY <1>1, <1>3, <2>1, <2>2, EndPutInv
<1> QED
  BY <1>4, <1>5

LEMMA NamexElemInv ==
  ASSUME IInv, NEW p \in Process, NamexElem(p)
  PROVE  IInv'
<1> DEFINE k == th[p].at
           next == Lookup(k, Head(th[p].rest))
<1>1. /\ NoPanic /\ th[p].pc = "namex" /\ th[p] \in Threads
      /\ Place(th[p]) = "namex" /\ k \in Inum /\ th[p].dp = 0 /\ th[p].put = 0
      /\ th[p].call \in Calls /\ th[p].ip \in Maybe /\ cwd[p] # 0
      /\ th[p].ret \notin Putting \cup {"panic", "iget", "ialloc"}
      /\ th[p].ip # 0 => /\ th[p].call = "link" /\ copy[th[p].ip] # Invalid
                         /\ Linking(th[p])
      /\ At(p, "namex") /\ th[p].rest # <<>>
  BY HereNamex DEF NamexElem
<1>2. /\ Head(th[p].rest) \in Element /\ Tail(th[p].rest) \in Seq(Element)
      /\ th[p].rest \in Seq(Element)
  BY <1>1, HeadTailProperties DEF Threads
<1>3. next \in Maybe
  BY <1>1, <1>2, LookupType DEF IInv
<1>4. UNCHANGED <<disk, cwd, files, calls, lost, lock>> /\ dinode' = dinode
  BY DEF NamexElem, disk
<1>5. ref \in [Inum -> Nat] /\ lock \in [Inum -> Process \cup {0}] /\ calls \in 0..MaxCalls
  BY DEF IInv, StateOK
<1>6. CASE NoType(p, k) /\ UNCHANGED ref
  BY <1>1, <1>4, <1>6, NoTypeInv
<1>7. ASSUME Loaded(k), Typed(k)
      PROVE  /\ Reads
             /\ copy' \in [Inum -> Metas \cup {Invalid}] /\ Cached'
             /\ \A j \in Inum : copy[j] # Invalid => copy'[j] # Invalid
  BY <1>1, <1>4, <1>7, ReadsCached DEF Reads
<1>8. CASE /\ Meta(k).type = DIR
           /\ Parent(p) /\ Len(th[p].rest) = 1
           /\ Loaded(k)
           /\ Set(p, [th[p] EXCEPT !.pc = Found(p), !.dp = k, !.at = 0])
           /\ UNCHANGED ref
  <2> DEFINE t == [th[p] EXCEPT !.pc = Found(p), !.dp = k, !.at = 0]
  <2>1. Found(p) = IF th[p].ip # 0 THEN "linknew" ELSE th[p].call
    BY <1>1 DEF Found
  <2>2. th[p].ip = 0 => Found(p) \in {"creat", "mkdir", "mknod", "unlink"}
    BY <1>8, <2>1 DEF Parent
  <2>3. /\ t \in Threads /\ t.pc = Found(p) /\ t.dp = k /\ t.at = 0 /\ t.ip = th[p].ip
        /\ t.put = 0 /\ t.ret = th[p].ret /\ t.call = th[p].call /\ t.rest = th[p].rest
    BY <1>1, <2>1, ZenonT(60) DEF Threads, Points, Calls, Maybe
  <2>4. Set(p, t)
    BY <1>8
  <2> HIDE DEF t
  <2>5. Typed(k)
    BY <1>1, <1>8, MetaType DEF IInv
  <2>6. Place(t) = t.pc
    BY <2>1, <2>2, <2>3 DEF Place, Putting
  <2>7. Linking(t) <=> th[p].ip # 0
    BY <2>1, <2>2, <2>3, <2>6 DEF Linking
  <2>8. Local(t, cwd[p]) /\ Locked(p, t, lock') /\ Used(t, copy')
    BY <1>1, <1>7, <1>8, <2>1, <2>2, <2>3, <2>5, <2>6, <2>7, Constants
       DEF Local, Locked, Used, Putting, HasDp, HasIp, LocksDp, LocksIp, Maybe
  <2>9. \A j \in Inum : ref'[j] = ref[j] - Held(th[p], cwd[p], j) + Held(t, cwd[p], j)
    BY <1>1, <1>5, <1>8, <2>1, <2>2, <2>3, Constants DEF Held, One
  <2>10. t.pc # "itrunc"
    BY <2>1, <2>2, <2>3
  <2> QED
    BY <1>1, <1>4, <1>5, <1>7, <1>8, <2>3, <2>4, <2>5, <2>7, <2>8, <2>9, <2>10, ReadInv
<1>9. CASE /\ Meta(k).type = DIR
           /\ next # 0
           /\ Loaded(k) /\ Got(next)
           /\ Set(p, Put([th[p] EXCEPT !.at = next, !.rest = Tail(@)], k, "namex"))
  <2> DEFINE s == [th[p] EXCEPT !.at = next, !.rest = Tail(@)]
             t == Put(s, k, "namex")
  <2>1. next \in Inum
    BY <1>3, <1>9 DEF Maybe
  <2>2. s \in Threads /\ s.at = next /\ s.dp = 0 /\ s.ip = th[p].ip /\ s.call = th[p].call
    BY <1>1, <1>2, <1>3 DEF Threads
  <2>3. Set(p, t)
    BY <1>9
  <2> HIDE DEF s
  <2>4. "namex" \in Points \ Putting
    BY DEF Points, Putting
  <2>5. /\ t \in Threads /\ Place(t) = "namex" /\ t.pc = "iput" /\ t.put = k
        /\ t.ret = "namex" /\ t.at = next /\ t.dp = 0 /\ t.ip = th[p].ip
        /\ t.call = th[p].call
    BY <1>1, <2>2, <2>4, PutFields
  <2> HIDE DEF t
  <2>6. Linking(t) <=> th[p].ip # 0
    BY <2>5 DEF Linking
  <2>7. Typed(k)
    BY <1>1, <1>9, MetaType DEF IInv
  <2>8. Local(t, cwd[p]) /\ Locked(p, t, lock') /\ Used(t, copy')
    BY <1>1, <1>7, <1>9, <2>1, <2>5, <2>6, <2>7, Constants
       DEF Local, Locked, Used, Putting, HasDp, HasIp, LocksDp, LocksIp, Maybe
  <2>9. ref' \in [Inum -> Nat] /\ \A j \in Inum : ref'[j] = ref[j] + One(j = next)
    BY <1>9, <2>1, GotOne DEF IInv
  <2>10. \A j \in Inum : ref'[j] = ref[j] - Held(th[p], cwd[p], j) + Held(t, cwd[p], j)
    BY <1>1, <1>5, <2>5, <2>9, Constants, SMTT(30) DEF Held, One
  <2> QED
    BY <1>1, <1>4, <1>5, <1>7, <1>9, <2>3, <2>5, <2>6, <2>7, <2>8, <2>9, <2>10, ReadInv
<1>10. CASE Typed(k) /\ Loaded(k) /\ LostPut(p, k) /\ UNCHANGED ref
  BY <1>1, <1>4, <1>7, <1>10, LostPutInv
<1> QED
  BY <1>6, <1>8, <1>9, <1>10 DEF NamexElem

LEMMA NamexEndInv ==
  ASSUME IInv, NEW p \in Process, NamexEnd(p)
  PROVE  IInv'
<1>1. /\ NoPanic /\ th[p].pc = "namex" /\ th[p] \in Threads
      /\ Place(th[p]) = "namex" /\ th[p].at \in Inum /\ th[p].dp = 0 /\ th[p].put = 0
      /\ th[p].call \in Calls /\ th[p].ip \in Maybe /\ cwd[p] # 0
      /\ th[p].ret \notin Putting \cup {"panic", "iget", "ialloc"}
      /\ At(p, "namex")
  BY HereNamex DEF NamexEnd
<1>2. UNCHANGED <<disk, ref, copy, lock, cwd, files, calls, lost>> /\ Reads
  BY DEF NamexEnd, Reads, icache
<1>3. ref \in [Inum -> Nat] /\ lock \in [Inum -> Process \cup {0}] /\ calls \in 0..MaxCalls
  BY DEF IInv, StateOK
<1>4. CASE Parent(p)
  BY <1>1, <1>2, <1>4, LostPutInv DEF NamexEnd
<1>5. CASE ~Parent(p)
  <2> DEFINE t == [th[p] EXCEPT !.pc = Found(p), !.at = 0, !.ip = th[p].at]
  <2>1. Found(p) = th[p].call /\ th[p].call \in {"open", "link", "chdir", "exec"}
        /\ th[p].ip = 0
    BY <1>1, <1>5 DEF Found, Parent, Calls
  <2>2. /\ t \in Threads /\ t.pc = th[p].call /\ t.at = 0 /\ t.ip = th[p].at /\ t.dp = 0
        /\ t.put = 0 /\ t.ret = th[p].ret /\ t.call = th[p].call
    BY <1>1, <2>1, ZenonT(60) DEF Threads, Points, Maybe
  <2>3. Set(p, t)
    BY <1>5 DEF NamexEnd
  <2> HIDE DEF t
  <2>4. Place(t) = th[p].call /\ ~Linking(t)
    BY <2>1, <2>2 DEF Place, Putting, Linking
  <2>5. Local(t, cwd[p]) /\ Locked(p, t, lock') /\ Used(t, copy')
    BY <1>1, <2>1, <2>2, <2>4, Constants
       DEF Local, Locked, Used, Putting, HasDp, HasIp, LocksDp, LocksIp
  <2>6. \A j \in Inum : ref'[j] = ref[j] - Held(th[p], cwd[p], j) + Held(t, cwd[p], j)
    BY <1>1, <1>2, <1>3, <2>1, <2>2, Constants DEF Held, One
  <2> QED
    BY <1>1, <1>2, <1>3, <2>1, <2>2, <2>3, <2>4, <2>5, <2>6, ReadInv
<1> QED
  BY <1>4, <1>5

LEMMA ElementsType ==
  ASSUME NEW S, NEW T, NEW s \in Seq(S), \A k \in 1..Len(s) : s[k] \in T
  PROVE  s \in Seq(T)
<1>1. Len(s) \in Nat /\ s \in [1..Len(s) -> S]
  BY LenProperties
<1>2. s \in [1..Len(s) -> T]
  BY <1>1
<1> QED
  BY <1>1, <1>2, SeqDef

\* "/" is the first element of a path only.
LEMMA PathType ==
  ASSUME NEW path \in Paths \cup NewPaths \cup {<<>>}
  PROVE  /\ path # <<>> /\ Head(path) = "/" => Tail(path) \in Seq(Element)
         /\ ~(path # <<>> /\ Head(path) = "/") => path \in Seq(Element)
<1>1. CASE path = <<>>
  BY <1>1
<1>2. CASE path # <<>>
  <2>1. /\ path \in Seq(Element \cup {"/"})
        /\ \A k \in DOMAIN path : path[k] = "/" => k = 1
    BY <1>2, FsAssumption
  <2>2. /\ Len(path) \in Nat /\ Len(path) >= 1 /\ Head(path) = path[1]
        /\ DOMAIN path = 1..Len(path)
        /\ \A k \in 1..Len(path) : path[k] \in Element \cup {"/"}
    BY <1>2, <2>1
  <2>3. \A k \in 2..Len(path) : path[k] \in Element
    BY <2>1, <2>2
  <2>4. Tail(path) \in Seq(Element)
    <3>1. /\ Tail(path) \in Seq(Element \cup {"/"}) /\ Len(Tail(path)) = Len(path) - 1
          /\ \A k \in 1..Len(Tail(path)) : Tail(path)[k] = path[k + 1]
      BY <1>2, <2>1, HeadTailProperties
    <3>2. \A k \in 1..Len(Tail(path)) : Tail(path)[k] \in Element
      BY <2>2, <2>3, <3>1
    <3> QED
      BY <3>1, <3>2, ElementsType
  <2>5. ASSUME Head(path) # "/"
        PROVE  path \in Seq(Element)
    <3>1. \A k \in 1..Len(path) : path[k] \in Element
      BY <2>2, <2>3, <2>5
    <3> QED
      BY <2>1, <3>1, ElementsType
  <2> QED
    BY <2>4, <2>5
<1> QED
  BY <1>1, <1>2

\* A lookup begins.
LEMMA WalkInv ==
  ASSUME IInv, NoPanic, NEW p \in Process, NEW s \in Threads,
         NEW path \in Paths \cup NewPaths \cup {<<>>}, WalkFrom(p, path, s),
         UNCHANGED <<disk, copy, lock, cwd, files, lost>>, calls' \in 0..MaxCalls,
         cwd[p] # 0, th[p].pc # "iget", th[p].at = 0, th[p].dp = 0, th[p].put = 0,
         s.dp = 0, s.put = 0, s.ip = th[p].ip, s.ret = th[p].ret, s.call \in Calls,
         s.ret \notin Putting \cup {"panic", "iget", "ialloc"},
         s.ip # 0 => s.call = "link" /\ Linking(th[p]) /\ copy[s.ip] # Invalid
  PROVE  IInv'
<1> DEFINE rooted == path # <<>> /\ Head(path) = "/"
           start == IF rooted THEN ROOT ELSE cwd[p]
           rest == IF rooted THEN Tail(path) ELSE path
           t == [s EXCEPT !.pc = "namex", !.at = start, !.rest = rest]
<1>1. start \in Inum
  BY Constants DEF IInv, StateOK, Maybe
<1>2. Got(start) /\ Set(p, t)
  BY DEF WalkFrom
<1>3. rest \in Seq(Element)
  BY PathType
<1> HIDE DEF rest, start
<1>4. /\ t \in Threads /\ t.pc = "namex" /\ t.at = start /\ t.dp = 0 /\ t.put = 0
      /\ t.ip = s.ip /\ t.ret = s.ret /\ t.call = s.call
  BY <1>1, <1>3 DEF Threads, Points, Maybe
<1> HIDE DEF t
<1>5. Place(t) = "namex" /\ (Linking(t) <=> s.ip # 0)
  BY <1>4 DEF Place, Putting, Linking
<1>6. Local(t, cwd[p]) /\ Locked(p, t, lock') /\ Used(t, copy')
  BY <1>1, <1>4, <1>5, Constants
     DEF Local, Locked, Used, Putting, HasDp, HasIp, LocksDp, LocksIp
<1>7. ref' \in [Inum -> Nat] /\ \A i \in Inum : ref'[i] = ref[i] + One(i = start)
  BY <1>1, <1>2, GotOne DEF IInv
<1>8. \A i \in Inum : ref'[i] = ref[i] - Held(th[p], cwd[p], i) + Held(t, cwd[p], i)
  <2> SUFFICES ASSUME NEW i \in Inum
               PROVE  ref'[i] = ref[i] - Held(th[p], cwd[p], i) + Held(t, cwd[p], i)
    OBVIOUS
  <2>1. ref'[i] = ref[i] + One(i = start) /\ ref[i] \in Int /\ i # 0
    BY <1>7, Constants DEF IInv, StateOK
  <2>2. Held(th[p], cwd[p], i) = One(cwd[p] = i) + One(s.ip = i)
    BY <2>1 DEF Held, One
  <2>3. Held(t, cwd[p], i) = One(cwd[p] = i) + One(start = i) + One(s.ip = i)
    BY <1>4, <2>1 DEF Held, One
  <2> QED
    BY <2>1, <2>2, <2>3 DEF One
<1>9. Reads /\ lock' \in [Inum -> Process \cup {0}]
  BY DEF Reads, IInv, StateOK
<1> QED
  BY <1>2, <1>4, <1>5, <1>6, <1>7, <1>8, <1>9, ReadInv

LEMMA StartInv ==
  ASSUME IInv, NEW p \in Process, Start(p)
  PROVE  IInv'
<1>1. /\ NoPanic /\ th[p].pc = "user" /\ th[p] \in Threads /\ Local(th[p], cwd[p])
  BY Here DEF Start, At
<1>2. /\ th[p].at = 0 /\ th[p].dp = 0 /\ th[p].put = 0 /\ th[p].ip = 0 /\ cwd[p] # 0
      /\ th[p].ret \notin Putting \cup {"panic", "iget", "ialloc"}
  BY <1>1 DEF Local, Place, Putting, HasDp, HasIp, Start
<1>3. PICK c \in Calls, path \in Paths :
        \E new \in IF c = "link" THEN NewPaths ELSE {<<>>} :
          WalkFrom(p, path, [th[p] EXCEPT !.call = c, !.new = new])
  BY DEF Start
<1>4. PICK new \in NewPaths \cup {<<>>} :
        WalkFrom(p, path, [th[p] EXCEPT !.call = c, !.new = new])
  BY <1>3
<1> DEFINE s == [th[p] EXCEPT !.call = c, !.new = new]
<1>5. /\ s \in Threads /\ s.dp = 0 /\ s.put = 0 /\ s.ip = 0 /\ s.ret = th[p].ret /\ s.call = c
  BY <1>1, <1>2 DEF Threads
<1>6. WalkFrom(p, path, s)
  BY <1>4
<1> HIDE DEF s
<1>7. UNCHANGED <<disk, copy, lock, cwd, files, lost>> /\ calls' \in 0..MaxCalls
  BY FsAssumption DEF Start, IInv, StateOK
<1> QED
  BY <1>1, <1>2, <1>5, <1>6, <1>7, WalkInv

LEMMA LinkWalkInv ==
  ASSUME IInv, NEW p \in Process, LinkWalk(p)
  PROVE  IInv'
<1>1. /\ NoPanic /\ th[p].pc = "linkwalk" /\ th[p] \in Threads /\ Local(th[p], cwd[p])
      /\ Used(th[p], copy)
  BY Here DEF LinkWalk, At
<1>2. Place(th[p]) = "linkwalk" /\ Linking(th[p])
  BY <1>1 DEF Place, Putting, Linking
<1>3. /\ th[p].at = 0 /\ th[p].dp = 0 /\ th[p].put = 0 /\ th[p].ip # 0 /\ cwd[p] # 0
      /\ th[p].ret \notin Putting \cup {"panic", "iget", "ialloc"} /\ th[p].call = "link"
      /\ copy[th[p].ip] # Invalid
  BY <1>1, <1>2 DEF Local, Used, Putting, HasDp, HasIp
<1> DEFINE s == [th[p] EXCEPT !.new = <<>>]
<1>4. /\ s \in Threads /\ s.dp = 0 /\ s.put = 0 /\ s.ip = th[p].ip /\ s.ret = th[p].ret
      /\ s.call = "link"
  BY <1>1, <1>3 DEF Threads
<1>5. WalkFrom(p, th[p].new, s) /\ th[p].new \in NewPaths \cup {<<>>}
  BY <1>1 DEF LinkWalk, Threads
<1> HIDE DEF s
<1>6. UNCHANGED <<disk, copy, lock, cwd, files, lost>> /\ calls' \in 0..MaxCalls
  BY DEF LinkWalk, IInv, StateOK
<1>7. "link" \in Calls
  BY DEF Calls
<1> QED
  BY <1>1, <1>2, <1>3, <1>4, <1>5, <1>6, <1>7, WalkInv

\* A process counts in ref what it has.
LEMMA RefsMine ==
  ASSUME RefsCounted, NEW p \in Process, NEW i \in Inum
  PROVE  ref[i] >= Mine(p, i) /\ ref[i] \in Nat /\ Mine(p, i) \in Nat
<1>1. /\ Cardinality(ByProcesses(i)) = Cardinality(Rest(p, i)) + Mine(p, i)
      /\ Cardinality(Rest(p, i)) \in Nat
  BY FiveCounted DEF Parted
<1>2. /\ Cardinality(Pointers(i)) = Cardinality(ByProcesses(i)) + Cardinality(ByFiles(i))
      /\ Cardinality(ByFiles(i)) \in Nat
  BY PointersSum
<1> QED
  BY <1>1, <1>2, CountsAreNat DEF RefsCounted

\* The only reference to i is a variable of p.
LEMMA Alone ==
  ASSUME RefsCounted, NEW p \in Process, NEW i \in Inum, ref[i] = 1, Mine(p, i) >= 1
  PROVE  /\ Mine(p, i) = 1
         /\ \A q \in Process \ {p} : th[q].dp # i /\ (th[q].pc # "iget" => th[q].ip # i)
<1>1. /\ Cardinality(ByProcesses(i)) = Cardinality(Rest(p, i)) + Mine(p, i)
      /\ IsFiniteSet(Rest(p, i)) /\ Cardinality(Rest(p, i)) \in Nat
  BY FiveCounted DEF Parted
<1>2. /\ Cardinality(Pointers(i)) = Cardinality(ByProcesses(i)) + Cardinality(ByFiles(i))
      /\ Cardinality(ByFiles(i)) \in Nat
  BY PointersSum
<1>3. Mine(p, i) \in Nat /\ Cardinality(Pointers(i)) = 1
  BY CountsAreNat DEF RefsCounted
<1>4. Mine(p, i) = 1 /\ Cardinality(Rest(p, i)) = 0
  BY <1>1, <1>2, <1>3
<1>5. Rest(p, i) = {}
  BY <1>1, <1>4, FS_EmptySet
<1>6. ASSUME NEW q \in Process \ {p}
      PROVE  th[q].dp # i /\ (th[q].pc # "iget" => th[q].ip # i)
  <2>1. <<q, "dp">> \notin ByProcesses(i) /\ <<q, "ip">> \notin ByProcesses(i)
    BY <1>5 DEF Rest
  <2> QED
    BY <2>1, PointerKinds
<1> QED
  BY <1>4, <1>6

LEMMA IputCheckInv ==
  ASSUME IInv, NEW p \in Process, IputCheck(p)
  PROVE  IInv'
<1> DEFINE i == th[p].put
<1>1. /\ NoPanic /\ th[p].pc = "iput" /\ th[p] \in Threads /\ th \in [Process -> Threads]
      /\ Local(th[p], cwd[p]) /\ Locked(p, th[p], lock) /\ Used(th[p], copy)
      /\ lock[i] = 0
  BY Here DEF IputCheck, At, Unlocked
<1>2. i \in Inum /\ Place(th[p]) = th[p].ret
  BY <1>1 DEF Local, Putting, Threads, Maybe, Place
<1>3. UNCHANGED <<disk, ref, copy, cwd, files, calls, lost>> /\ Reads
  BY DEF IputCheck, Reads
<1>4. ref \in [Inum -> Nat] /\ lock \in [Inum -> Process \cup {0}] /\ calls \in 0..MaxCalls
  BY DEF IInv, StateOK
<1>5. copy' \in [Inum -> Metas \cup {Invalid}] /\ Cached'
  BY <1>1, <1>3, ReadsCached
<1>6. CASE Goto(p, "iputref") /\ UNCHANGED lock
  <2> DEFINE t == [th[p] EXCEPT !.pc = "iputref"]
  <2>1. /\ t \in Threads /\ t.pc = "iputref" /\ t.at = th[p].at /\ t.dp = th[p].dp
        /\ t.ip = th[p].ip /\ t.put = i /\ t.ret = th[p].ret /\ t.call = th[p].call
        /\ t.rest = th[p].rest
    BY <1>1 DEF Threads, Points
  <2>2. Set(p, t)
    BY <1>6 DEF Goto
  <2> HIDE DEF t
  <2>3. Place(t) = Place(th[p]) /\ (Linking(t) <=> Linking(th[p]))
    BY <1>2, <2>1 DEF Place, Putting, Linking
  <2>4. Local(t, cwd[p]) /\ Locked(p, t, lock') /\ Used(t, copy')
    BY <1>1, <1>3, <1>6, <2>1, <2>3 DEF Local, Locked, Used, Putting
  <2>5. \A j \in Inum : ref'[j] = ref[j] - Held(th[p], cwd[p], j) + Held(t, cwd[p], j)
    BY <1>1, <1>3, <1>4, <2>1 DEF Held, One
  <2> QED
    BY <1>1, <1>3, <1>4, <1>6, <2>1, <2>2, <2>3, <2>4, <2>5, ReadInv
<1>7. CASE /\ copy[i] # Invalid /\ copy[i].nlink = 0 /\ ref[i] = 1
           /\ Goto(p, "itrunc") /\ lock' = [lock EXCEPT ![i] = p]
  <2> DEFINE t == [th[p] EXCEPT !.pc = "itrunc"]
  <2>1. /\ t \in Threads /\ t.pc = "itrunc" /\ t.at = th[p].at /\ t.dp = th[p].dp
        /\ t.ip = th[p].ip /\ t.put = i /\ t.ret = th[p].ret /\ t.call = th[p].call
        /\ t.rest = th[p].rest
    BY <1>1 DEF Threads, Points
  <2>2. th' = [th EXCEPT ![p] = t]
    BY <1>7 DEF Goto, Set
  <2> HIDE DEF t
  <2>3. Place(t) = Place(th[p]) /\ (Linking(t) <=> Linking(th[p]))
    BY <1>2, <2>1 DEF Place, Putting, Linking
  <2>4. th'[p] = t /\ \A q \in Process \ {p} : th'[q] = th[q]
    BY <1>1, <2>2
  <2>5. StateOK'
    BY <1>2, <1>3, <1>4, <1>5, <1>7, <2>1, <2>2, ThreadType DEF IInv, StateOK
  <2>6. Mine(p, i) >= 1
    BY <1>2 DEF Mine, Held, One
  <2>7. /\ Mine(p, i) = 1
        /\ \A q \in Process \ {p} : th[q].dp # i /\ (th[q].pc # "iget" => th[q].ip # i)
    BY <1>2, <1>7, <2>6, Alone DEF IInv
  <2>8. \A q \in Process : th[q].pc # "panic" /\ Linking(th[q]) => th[q].pc # "iget"
    BY DEF Linking, Place, Putting
  <2>9. th[p].ip # i
    BY <1>1, <2>7 DEF Mine, Held, One
  <2>10. Truncating'
    BY <1>2, <1>7, <2>1, <2>3, <2>4, <2>7, <2>8, <2>9, <1>1 DEF IInv, Truncating, NoPanic
  <2>11. \A q \in Process \ {p} : Live(q)'
    BY <1>2, <1>3, <1>1, <1>4, <1>7, <2>4, Constants, OthersLive DEF IInv
  <2>12. Local(t, cwd[p]) /\ Used(t, copy')
    BY <1>1, <1>3, <2>1, <2>3 DEF Local, Used, Putting
  <2>13. Locked(p, t, lock')
    <3>1. Place(t) \in LocksDp => t.dp \in Inum /\ lock[t.dp] = p
      BY <1>1, <2>1, <2>3 DEF Locked, Local, HasDp, LocksDp, Threads, Maybe
    <3>2. Place(t) \in LocksIp => t.ip \in Inum /\ lock[t.ip] = p
      BY <1>1, <2>1, <2>3 DEF Locked, Local, HasIp, LocksIp, Threads, Maybe
    <3> QED
      BY <1>1, <1>2, <1>4, <1>7, <2>1, <3>1, <3>2, Constants DEF Locked
  <2>14. Live(p)'
    BY <1>3, <2>4, <2>12, <2>13 DEF Live
  <2>15. FilesOpen'
    BY <1>3 DEF IInv, FilesOpen, files
  <2>16. RefsCounted'
    <3>1. \A j \in Inum : ref'[j] = ref[j] - Mine(p, j) + Mine(p, j)'
      BY <1>1, <1>3, <1>4, <2>1, <2>4 DEF Mine, Held, One
    <3> QED
      BY <1>3, <1>4, <2>4, <3>1, StepRefs DEF IInv
  <2> QED
    BY <1>5, <2>5, <2>10, <2>11, <2>14, <2>15, <2>16 DEF IInv
<1> QED
  BY <1>6, <1>7 DEF IputCheck

LEMMA IputFreeInv ==
  ASSUME IInv, NEW p \in Process, IputFree(p)
  PROVE  IInv'
<1> DEFINE i == th[p].put
           t == [th[p] EXCEPT !.pc = "iputref"]
<1>1. /\ NoPanic /\ th[p].pc = "itrunc" /\ th[p] \in Threads /\ th \in [Process -> Threads]
      /\ Local(th[p], cwd[p]) /\ Locked(p, th[p], lock) /\ Used(th[p], copy)
  BY Here DEF IputFree, At
<1>2. /\ i \in Inum /\ Place(th[p]) = th[p].ret /\ lock[i] = p
      /\ Place(th[p]) \in LocksDp => i # th[p].dp
      /\ Place(th[p]) \in LocksIp => i # th[p].ip
      /\ Linking(th[p]) => i # th[p].ip
  BY <1>1 DEF Local, Locked, Putting, Threads, Maybe, Place, IInv, Truncating
<1>3. UNCHANGED <<ref, cwd, files, calls>>
  BY DEF IputFree
<1>4. /\ t \in Threads /\ t.pc = "iputref" /\ t.at = th[p].at /\ t.dp = th[p].dp
      /\ t.ip = th[p].ip /\ t.put = i /\ t.ret = th[p].ret /\ t.call = th[p].call
      /\ t.rest = th[p].rest
  BY <1>1 DEF Threads, Points
<1>5. th' = [th EXCEPT ![p] = t]
  BY DEF IputFree, Goto, Set
<1> HIDE DEF t
<1>6. /\ ref \in [Inum -> Nat] /\ lock \in [Inum -> Process \cup {0}]
      /\ copy \in [Inum -> Metas \cup {Invalid}] /\ dinode \in [Inum -> Metas]
  BY DEF IInv, StateOK
<1>7. /\ copy' = [copy EXCEPT ![i] = Invalid] /\ lock' = [lock EXCEPT ![i] = 0]
      /\ dinode' = [dinode EXCEPT ![i] = [type |-> Free, nlink |-> 0]]
  BY DEF IputFree
<1>8. StateOK'
  <2>1. dinode' \in [Inum -> Metas]
    <3>1. [type |-> Free, nlink |-> 0] \in Metas
      BY DEF Metas
    <3> QED
      BY <1>6, <1>7, <3>1
  <2>2. copy' \in [Inum -> Metas \cup {Invalid}] /\ lock' \in [Inum -> Process \cup {0}]
    BY <1>6, <1>7
  <2>3. ents' \in [Inum -> [Name -> Maybe]] /\ up' \in [Inum -> Maybe]
    BY DEF IputFree, IInv, StateOK, Maybe
  <2>4. lost' \subseteq Inum
    <3>1. \A n \in Name : ents[i][n] \in Maybe
      BY <1>2 DEF IInv, StateOK
    <3> QED
      BY <3>1 DEF IputFree, IInv, StateOK, Maybe
  <2>5. th' \in [Process -> Threads]
    BY <1>1, <1>4, <1>5
  <2> QED
    BY <1>3, <2>1, <2>2, <2>3, <2>4, <2>5 DEF IInv, StateOK, files
<1>9. Cached'
  <2>1. Coherent'
    BY <1>6, <1>7 DEF IInv, Cached, Coherent
  <2>2. \A j \in Inum : copy'[j] # Invalid => copy'[j].type # Free
    BY <1>1, <1>6, <1>7 DEF IInv, Cached, NoPanic
  <2> QED
    BY <2>1, <2>2 DEF Cached
<1>10. Place(t) = Place(th[p]) /\ (Linking(t) <=> Linking(th[p]))
  BY <1>2, <1>4 DEF Place, Putting, Linking
<1>11. Local(t, cwd[p]) /\ Locked(p, t, lock') /\ Used(t, copy')
  <2>1. Local(t, cwd[p])
    BY <1>1, <1>4, <1>10 DEF Local, Putting
  <2>2. /\ Place(t) \in LocksDp => t.dp \in Inum
        /\ Place(t) \in LocksIp => t.ip \in Inum
        /\ Linking(t) => t.ip \in Inum
    BY <1>4, <2>1 DEF Local, HasDp, HasIp, LocksDp, LocksIp, Linking, Threads, Maybe
  <2> QED
    BY <1>1, <1>2, <1>4, <1>6, <1>7, <1>10, <2>1, <2>2 DEF Locked, Used
<1>12. \A j \in Inum : lock[j] \in Process \ {p} => lock'[j] = lock[j]
  BY <1>2, <1>6, <1>7
<1>13. \A j \in Inum : copy[j] # Invalid /\ copy'[j] = Invalid =>
         \A q \in Process \ {p} : th[q].pc # "panic" => ~Uses(th[q], j)
  <2> SUFFICES ASSUME NEW q \in Process \ {p}, th[q].pc # "panic"
               PROVE  ~Uses(th[q], i)
    BY <1>6, <1>7
  <2>1. Locked(q, th[q], lock)
    BY DEF IInv, Live
  <2>2. Linking(th[q]) => th[q].ip # i
    BY <1>1 DEF IInv, Truncating
  <2> QED
    BY <1>2, <2>1, <2>2 DEF Uses, Locked
<1>14. \A j \in Inum : ref'[j] = ref[j] - Held(th[p], cwd[p], j) + Held(t, cwd[p], j)
  BY <1>1, <1>3, <1>4, <1>6 DEF Held, One
<1> QED
  BY <1>1, <1>3, <1>4, <1>5, <1>8, <1>9, <1>10, <1>11, <1>12, <1>13, <1>14, StepInv

LEMMA IputRefInv ==
  ASSUME IInv, NEW p \in Process, IputRef(p)
  PROVE  IInv'
<1> DEFINE i == th[p].put
           t == [th[p] EXCEPT !.pc = th[p].ret, !.put = 0, !.ret = "user"]
<1>1. /\ NoPanic /\ th[p].pc = "iputref" /\ th[p] \in Threads /\ th \in [Process -> Threads]
      /\ Local(th[p], cwd[p]) /\ Locked(p, th[p], lock) /\ Used(th[p], copy)
  BY Here DEF IputRef, At
<1>2. /\ i \in Inum /\ Place(th[p]) = th[p].ret
      /\ th[p].ret \notin Putting \cup {"panic", "iget", "ialloc"}
  BY <1>1 DEF Local, Putting, Threads, Maybe, Place
<1>3. UNCHANGED <<disk, lock, cwd, files, calls, lost>> /\ dinode' = dinode
  BY DEF IputRef, disk
<1>4. /\ t \in Threads /\ t.pc = th[p].ret /\ t.at = th[p].at /\ t.dp = th[p].dp
      /\ t.ip = th[p].ip /\ t.put = 0 /\ t.ret = "user" /\ t.call = th[p].call
      /\ t.rest = th[p].rest
  <2>1. "user" \in Points /\ th[p].ret \in Points /\ 0 \in Maybe
    BY <1>1 DEF Threads, Points, Maybe
  <2> QED
    BY <1>1, <2>1 DEF Threads
<1>5. th' = [th EXCEPT ![p] = t]
  BY DEF IputRef, Set
<1> HIDE DEF t
<1>6. /\ ref \in [Inum -> Nat] /\ lock \in [Inum -> Process \cup {0}]
      /\ copy \in [Inum -> Metas \cup {Invalid}]
  BY DEF IInv, StateOK
<1>7. /\ ref' = [ref EXCEPT ![i] = @ - 1]
      /\ copy' = IF ref[i] = 1 THEN [copy EXCEPT ![i] = Invalid] ELSE copy
  BY DEF IputRef
<1>8. Mine(p, i) >= 1 /\ ref[i] >= 1
  <2>1. Mine(p, i) >= 1
    BY <1>2 DEF Mine, Held, One
  <2> QED
    BY <1>2, <2>1, RefsMine DEF IInv
<1>9. copy' \in [Inum -> Metas \cup {Invalid}] /\ ref' \in [Inum -> Nat]
  BY <1>2, <1>6, <1>7, <1>8
<1>10. StateOK'
  BY <1>3, <1>4, <1>5, <1>6, <1>9, ThreadType DEF IInv
<1>11. Cached'
  <2>1. Coherent'
    BY <1>3, <1>6, <1>7 DEF IInv, Cached, Coherent
  <2>2. \A j \in Inum : copy'[j] # Invalid => copy'[j].type # Free
    BY <1>1, <1>6, <1>7 DEF IInv, Cached, NoPanic
  <2> QED
    BY <2>1, <2>2 DEF Cached
<1>12. Place(t) = Place(th[p]) /\ (Linking(t) <=> Linking(th[p]))
  BY <1>2, <1>4 DEF Place, Putting, Linking
<1>13. ref[i] = 1 =>
         /\ th[p].dp # i /\ th[p].ip # i
         /\ \A q \in Process \ {p} : th[q].dp # i /\ (th[q].pc # "iget" => th[q].ip # i)
  <2> SUFFICES ASSUME ref[i] = 1
               PROVE  /\ th[p].dp # i /\ th[p].ip # i
                      /\ \A q \in Process \ {p} :
                           th[q].dp # i /\ (th[q].pc # "iget" => th[q].ip # i)
    OBVIOUS
  <2>1. /\ Mine(p, i) = 1
        /\ \A q \in Process \ {p} : th[q].dp # i /\ (th[q].pc # "iget" => th[q].ip # i)
    BY <1>2, <1>8, Alone DEF IInv
  <2> QED
    BY <1>1, <2>1 DEF Mine, Held, One
<1>14. Local(t, cwd[p]) /\ Locked(p, t, lock') /\ Used(t, copy')
  <2>1. Local(t, cwd[p])
    BY <1>1, <1>2, <1>4, <1>12 DEF Local, Putting
  <2>2. /\ Place(t) \in LocksDp => t.dp \in Inum
        /\ Place(t) \in LocksIp => t.ip \in Inum
        /\ Linking(t) => t.ip \in Inum
    BY <1>4, <2>1 DEF Local, HasDp, HasIp, LocksDp, LocksIp, Linking, Threads, Maybe
  <2>3. Locked(p, t, lock')
    BY <1>1, <1>2, <1>3, <1>4, <1>12 DEF Locked, Putting
  <2>4. Used(t, copy')
    BY <1>1, <1>4, <1>6, <1>7, <1>12, <1>13, <2>2 DEF Used
  <2> QED
    BY <2>1, <2>3, <2>4
<1>15. \A j \in Inum : copy[j] # Invalid /\ copy'[j] = Invalid =>
         \A q \in Process \ {p} : th[q].pc # "panic" => ~Uses(th[q], j)
  <2> SUFFICES ASSUME ref[i] = 1, NEW q \in Process \ {p}
               PROVE  ~Uses(th[q], i)
    BY <1>6, <1>7
  <2>1. th[q].pc = "iget" => Place(th[q]) \notin LocksIp /\ ~Linking(th[q])
    BY DEF Place, Putting, LocksIp, Linking
  <2> QED
    BY <1>13, <2>1 DEF Uses
<1>16. \A j \in Inum : ref'[j] = ref[j] - Held(th[p], cwd[p], j) + Held(t, cwd[p], j)
  <2>1. \A j \in Inum : ref'[j] = ref[j] - One(j = i)
    BY <1>2, <1>6, <1>7 DEF One
  <2> QED
    BY <1>1, <1>2, <1>4, <1>6, <2>1, Constants DEF Held, One
<1>17. t.pc # "itrunc"
  BY <1>2, <1>4 DEF Putting
<1> QED
  BY <1>1, <1>3, <1>4, <1>5, <1>10, <1>11, <1>12, <1>14, <1>15, <1>16, <1>17, StepInv

(***************************************************************************)
(* Steps that change files and current directories too.                    *)
(***************************************************************************)

\* The references follow when p and the file f change by what ref changes.
LEMMA StepCounts ==
  ASSUME RefsCounted, ref \in [Inum -> Nat], NEW p \in Process, NEW f \in Files,
         \A q \in Process \ {p} : th'[q] = th[q] /\ cwd'[q] = cwd[q],
         \A g \in Files \ {f} : ftable'[g].ip = ftable[g].ip,
         NEW i \in Inum,
         ref'[i] = ref[i] - Mine(p, i) + Mine(p, i)'
                     - One(ftable[f].ip = i) + One(ftable'[f].ip = i)
  PROVE  ref'[i] = Cardinality(Pointers(i))'
<1>1. Cardinality(ByProcesses(i))' = Cardinality(ByProcesses(i)) - Mine(p, i) + Mine(p, i)'
  BY ProcessStep
<1>2. Cardinality(ByFiles(i))' =
        Cardinality(ByFiles(i)) - One(ftable[f].ip = i) + One(ftable'[f].ip = i)
  BY FileStep
<1>3. Cardinality(Pointers(i)) = Cardinality(ByProcesses(i)) + Cardinality(ByFiles(i))
  BY PointersSum
<1>4. (Cardinality(Pointers(i)) = Cardinality(ByProcesses(i)) + Cardinality(ByFiles(i)))'
  BY PointersSumNext
<1>5. Cardinality(ByProcesses(i)) \in Nat /\ Cardinality(ByFiles(i)) \in Nat
      /\ Mine(p, i) \in Nat /\ Mine(p, i)' \in Nat
  BY PointersSum DEF Mine, Held, One
<1>6. ref[i] = Cardinality(Pointers(i))
  BY DEF RefsCounted
<1> QED
  BY <1>1, <1>2, <1>3, <1>4, <1>5, <1>6 DEF One

LEMMA StepInvFiles ==
  ASSUME IInv, NoPanic, NEW p \in Process, NEW t, th' = [th EXCEPT ![p] = t],
         \A q \in Process \ {p} : cwd'[q] = cwd[q],
         StateOK', Cached', FilesOpen', RefsCounted',
         Local(t, cwd'[p]), Locked(p, t, lock'), Used(t, copy'),
         \A i \in Inum : lock[i] \in Process \ {p} => lock'[i] = lock[i],
         \A i \in Inum : copy[i] # Invalid => copy'[i] # Invalid,
         t.pc # "itrunc",
         Linking(t) => Linking(th[p]) /\ t.ip = th[p].ip
  PROVE  IInv'
<1>1. th'[p] = t /\ \A q \in Process \ {p} : th'[q] = th[q]
  BY DEF IInv, StateOK
<1>2. \A q \in Process \ {p} : Live(q)'
  BY <1>1, OthersLive DEF IInv
<1>3. Live(p)'
  BY <1>1 DEF Live
<1>4. Truncating'
  BY <1>1, StepTruncating DEF IInv, NoPanic
<1> QED
  BY <1>2, <1>3, <1>4 DEF IInv

\* Who has f open, when p opens or closes it, or another process does.
Having(f) == {p \in Process : file[p] = f}

LEMMA HavingCounted ==
  ASSUME RefsCounted, NEW f \in Files
  PROVE  IsFiniteSet(Having(f)) /\ Cardinality(Having(f)) = ftable[f].ref
<1>1. IsFiniteSet(Having(f))
  BY Constants, FS_Subset DEF Having
<1> QED
  BY <1>1 DEF RefsCounted, Having

\* The step of p from a point with a reference to k into an open file.
LEMMA OpensInv ==
  ASSUME IInv, NoPanic, NEW p \in Process, NEW k \in Inum, Opens(p, k), cwd[p] # 0,
         UNCHANGED <<disk, ref, cwd, calls, lost>>, Reads,
         lock' \in [Inum -> Process \cup {0}],
         \A i \in Inum : lock[i] \in Process \ {p} => lock'[i] = lock[i],
         \A i \in Inum : Held(th[p], cwd[p], i) = One(cwd[p] = i) + One(k = i)
  PROVE  IInv'
<1>1. CASE EndPut(p, k) /\ UNCHANGED files
  BY <1>1, EndPutInv
<1>2. ASSUME NEW f \in Files,
             file[p] = 0, ftable[f].ref = 0,
             ftable' = [ftable EXCEPT ![f] = [ref |-> 1, ip |-> k]],
             file' = [file EXCEPT ![p] = f], Set(p, Idle)
      PROVE  IInv'
  <2>1. /\ copy' \in [Inum -> Metas \cup {Invalid}] /\ Cached'
        /\ \A i \in Inum : copy[i] # Invalid => copy'[i] # Invalid
    BY ReadsCached
  <2>2. /\ ftable \in [Files -> [ref : Nat, ip : Maybe]] /\ file \in [Process -> Files \cup {0}]
        /\ th \in [Process -> Threads] /\ ref \in [Inum -> Nat]
    BY DEF IInv, StateOK
  <2>3. th' = [th EXCEPT ![p] = Idle]
    BY <1>2 DEF Set
  <2>4. /\ th'[p] = Idle /\ ftable'[f] = [ref |-> 1, ip |-> k] /\ file'[p] = f
        /\ \A q \in Process \ {p} : th'[q] = th[q] /\ file'[q] = file[q] /\ cwd'[q] = cwd[q]
        /\ \A g \in Files \ {f} : ftable'[g] = ftable[g]
    BY <1>2, <2>2, <2>3
  <2>5. StateOK'
    <3>1. [ref |-> 1, ip |-> k] \in [ref : Nat, ip : Maybe]
      BY DEF Maybe
    <3>2. ftable' \in [Files -> [ref : Nat, ip : Maybe]] /\ file' \in [Process -> Files \cup {0}]
      BY <1>2, <2>2, <3>1
    <3>3. th' \in [Process -> Threads]
      BY <2>2, <2>3, IdleType
    <3> QED
      BY <2>1, <3>2, <3>3 DEF IInv, StateOK, disk
  <2>6. ftable[f].ip = 0 /\ k # 0 /\ 0 \notin Inum
    BY <1>2, Constants DEF IInv, FilesOpen
  <2>7. FilesOpen'
    BY <2>4, <2>6 DEF IInv, FilesOpen
  <2>8. ASSUME NEW i \in Inum
        PROVE  ref'[i] = Cardinality(Pointers(i))'
    <3>1. Mine(p, i) = One(cwd[p] = i) + One(k = i)
      BY DEF Mine
    <3>2. Mine(p, i)' = One(cwd[p] = i)
      BY <2>4, <2>6 DEF Mine, Held, One, Idle
    <3>3. One(ftable[f].ip = i) = 0 /\ One(ftable'[f].ip = i) = One(k = i)
      BY <2>4, <2>6 DEF One
    <3>4. ref'[i] = ref[i] - Mine(p, i) + Mine(p, i)'
                     - One(ftable[f].ip = i) + One(ftable'[f].ip = i)
      BY <2>2, <3>1, <3>2, <3>3 DEF One
    <3> QED
      BY <2>2, <2>4, <3>4, StepCounts, ZenonT(60) DEF IInv
  <2>9. ASSUME NEW g \in Files
        PROVE  ftable'[g].ref = Cardinality({q \in Process : file'[q] = g})
    <3>1. CASE g = f
      <4>1. Having(f) = {}
        BY <1>2, HavingCounted, FS_EmptySet DEF IInv
      <4>2. {q \in Process : file'[q] = f} = {p}
        BY <2>4, <4>1 DEF Having
      <4> QED
        <5>1. ftable'[g].ref = 1 /\ {q \in Process : file'[q] = g} = {p}
          BY <2>4, <3>1, <4>2
        <5>2. Cardinality({p}) = 1
          BY FS_Singleton
        <5> QED
          BY <5>1, <5>2
    <3>2. CASE g # f
      <4>1. g # 0
        BY DEF Files
      <4>2. {q \in Process : file'[q] = g} = {q \in Process : file[q] = g}
        BY <1>2, <2>4, <3>2, <4>1
      <4> QED
        BY <2>4, <3>2, <4>2, SMTT(30) DEF IInv, RefsCounted
    <3> QED
      BY <3>1, <3>2
  <2>10. RefsCounted'
    BY <2>8, <2>9 DEF RefsCounted
  <2>11. Place(Idle) = "user" /\ ~Linking(Idle) /\ Idle.pc = "user"
    BY DEF Idle, Place, Putting, Linking
  <2>12. Local(Idle, cwd'[p]) /\ Locked(p, Idle, lock') /\ Used(Idle, copy')
    BY <2>11 DEF Idle, Local, Locked, Used, Putting, HasDp, HasIp, LocksDp, LocksIp
  <2> QED
    BY <2>1, <2>3, <2>4, <2>5, <2>7, <2>10, <2>11, <2>12, StepInvFiles
<1> QED
  BY <1>1, <1>2 DEF Opens

\* The variables of p at a point where it has only ip, or only dp.
LEMMA HereIp ==
  ASSUME IInv, NEW p \in Process, NEW L, In(p, L),
         L \subseteq HasIp \ (HasDp \cup {"iget"})
  PROVE  /\ NoPanic /\ th[p].pc \in L /\ th[p] \in Threads /\ Place(th[p]) = th[p].pc
         /\ th[p].ip \in Inum /\ th[p].at = 0 /\ th[p].dp = 0 /\ th[p].put = 0
         /\ th[p].ret \notin Putting \cup {"panic", "iget", "ialloc"} /\ cwd[p] # 0
         /\ Local(th[p], cwd[p]) /\ Locked(p, th[p], lock) /\ Used(th[p], copy)
         /\ \A i \in Inum : Held(th[p], cwd[p], i) = One(cwd[p] = i) + One(th[p].ip = i)
<1>1. /\ NoPanic /\ th[p].pc \in L /\ th[p] \in Threads
      /\ Local(th[p], cwd[p]) /\ Locked(p, th[p], lock) /\ Used(th[p], copy)
  BY Here
<1>2. Place(th[p]) = th[p].pc /\ th[p].pc \notin Putting /\ th[p].pc \notin {"namex", "user", "iget"}
      /\ th[p].pc \in HasIp /\ th[p].pc \notin HasDp
  BY <1>1 DEF Place, Putting, HasIp
<1>3. /\ th[p].ip \in Inum /\ th[p].at = 0 /\ th[p].dp = 0 /\ th[p].put = 0
      /\ th[p].ret \notin Putting \cup {"panic", "iget", "ialloc"} /\ cwd[p] # 0
  BY <1>1, <1>2 DEF Local, Threads, Maybe
<1>4. \A i \in Inum : Held(th[p], cwd[p], i) = One(cwd[p] = i) + One(th[p].ip = i)
  BY <1>2, <1>3, Constants DEF Held, One
<1> QED
  BY <1>1, <1>2, <1>3, <1>4

LEMMA OpenInv ==
  ASSUME IInv, NEW p \in Process, Open(p)
  PROVE  IInv'
<1>1. In(p, {"open"}) /\ {"open"} \subseteq HasIp \ (HasDp \cup {"iget"})
  BY DEF Open, At, HasIp, HasDp
<1>2. /\ NoPanic /\ th[p].pc = "open" /\ th[p].ip \in Inum /\ cwd[p] # 0
      /\ \A i \in Inum : Held(th[p], cwd[p], i) = One(cwd[p] = i) + One(th[p].ip = i)
  BY <1>1, HereIp
<1>3. UNCHANGED <<disk, ref, lock, cwd, calls, lost>> /\ Loaded(th[p].ip)
      /\ lock' \in [Inum -> Process \cup {0}]
  BY DEF Open, IInv, StateOK
<1>4. CASE Typed(th[p].ip) /\ Opens(p, th[p].ip)
  BY <1>2, <1>3, <1>4, OpensInv DEF Reads
<1>5. CASE NoType(p, th[p].ip) /\ UNCHANGED files
  BY <1>2, <1>3, <1>5, NoTypeInv
<1> QED
  BY <1>4, <1>5 DEF Open

LEMMA ExecInv ==
  ASSUME IInv, NEW p \in Process, Exec(p)
  PROVE  IInv'
<1>1. In(p, {"exec"}) /\ {"exec"} \subseteq HasIp \ (HasDp \cup {"iget"})
  BY DEF Exec, At, HasIp, HasDp
<1>2. /\ NoPanic /\ th[p].pc = "exec" /\ th[p].ip \in Inum /\ cwd[p] # 0
      /\ \A i \in Inum : Held(th[p], cwd[p], i) = One(cwd[p] = i) + One(th[p].ip = i)
  BY <1>1, HereIp
<1>3. UNCHANGED <<disk, ref, lock, cwd, files, calls, lost>> /\ Loaded(th[p].ip)
      /\ lock' \in [Inum -> Process \cup {0}]
  BY DEF Exec, IInv, StateOK
<1>4. CASE Typed(th[p].ip) /\ EndPut(p, th[p].ip)
  BY <1>2, <1>3, <1>4, EndPutInv DEF Reads
<1>5. CASE NoType(p, th[p].ip)
  BY <1>2, <1>3, <1>5, NoTypeInv
<1> QED
  BY <1>4, <1>5 DEF Exec

LEMMA CreateExistsInv ==
  ASSUME IInv, NEW p \in Process, CreateExists(p)
  PROVE  IInv'
<1>1. In(p, {"exists"}) /\ {"exists"} \subseteq HasIp \ (HasDp \cup {"iget"})
  BY DEF CreateExists, At, HasIp, HasDp
<1>2. /\ NoPanic /\ th[p].pc = "exists" /\ th[p].ip \in Inum /\ cwd[p] # 0
      /\ \A i \in Inum : Held(th[p], cwd[p], i) = One(cwd[p] = i) + One(th[p].ip = i)
  BY <1>1, HereIp
<1>3. UNCHANGED <<disk, ref, lock, cwd, calls, lost>> /\ Loaded(th[p].ip)
      /\ lock' \in [Inum -> Process \cup {0}]
  BY DEF CreateExists, IInv, StateOK
<1>4. CASE NoType(p, th[p].ip) /\ UNCHANGED files
  BY <1>2, <1>3, <1>4, NoTypeInv
<1>5. CASE Meta(th[p].ip).type = FILE /\ Opens(p, th[p].ip)
  <2>1. Typed(th[p].ip)
    BY <1>5 DEF Typed, FILE, Free
  <2> QED
    BY <1>2, <1>3, <1>5, <2>1, OpensInv DEF Reads
<1>6. CASE Typed(th[p].ip) /\ EndPut(p, th[p].ip) /\ UNCHANGED files
  BY <1>2, <1>3, <1>6, EndPutInv DEF Reads
<1> QED
  BY <1>4, <1>5, <1>6 DEF CreateExists

\* A lock that p has or takes, and gives back.
LEMMA LockStep ==
  ASSUME StateOK, NEW p \in Process, NEW k \in Inum, NEW v \in {0, p},
         lock[k] \in {0, p}, lock' = [lock EXCEPT ![k] = v]
  PROVE  /\ lock' \in [Inum -> Process \cup {0}]
         /\ \A i \in Inum : lock[i] \in Process \ {p} => lock'[i] = lock[i]
         /\ lock'[k] = v /\ \A i \in Inum \ {k} : lock'[i] = lock[i]
<1>1. lock \in [Inum -> Process \cup {0}] /\ 0 \notin Process
  BY Constants DEF StateOK
<1> QED
  BY <1>1

LEMMA CreatedInv ==
  ASSUME IInv, NEW p \in Process, Created(p)
  PROVE  IInv'
<1>1. In(p, {"created"}) /\ {"created"} \subseteq HasIp \ (HasDp \cup {"iget"})
  BY DEF Created, At, HasIp, HasDp
<1>2. /\ NoPanic /\ th[p].pc = "created" /\ th[p].ip \in Inum /\ cwd[p] # 0
      /\ Place(th[p]) = "created" /\ Locked(p, th[p], lock)
      /\ \A i \in Inum : Held(th[p], cwd[p], i) = One(cwd[p] = i) + One(th[p].ip = i)
  BY <1>1, HereIp
<1>3. lock[th[p].ip] = p
  BY <1>2 DEF Locked, LocksIp
<1>4. UNCHANGED <<disk, ref, copy, cwd, calls, lost>> /\ Reads
      /\ lock' = [lock EXCEPT ![th[p].ip] = 0]
  BY DEF Created, Reads
<1>5. /\ lock' \in [Inum -> Process \cup {0}]
      /\ \A i \in Inum : lock[i] \in Process \ {p} => lock'[i] = lock[i]
  BY <1>2, <1>3, <1>4, LockStep DEF IInv
<1>6. CASE Opens(p, th[p].ip)
  BY <1>2, <1>4, <1>5, <1>6, OpensInv
<1>7. CASE EndPut(p, th[p].ip) /\ UNCHANGED files
  BY <1>2, <1>4, <1>5, <1>7, EndPutInv
<1> QED
  BY <1>6, <1>7 DEF Created

LEMMA LinkedInv ==
  ASSUME IInv, NEW p \in Process, Linked(p)
  PROVE  IInv'
<1>1. In(p, {"linked"}) /\ {"linked"} \subseteq HasIp \ (HasDp \cup {"iget"})
  BY DEF Linked, At, HasIp, HasDp
<1>2. /\ NoPanic /\ th[p].pc = "linked" /\ th[p].ip \in Inum /\ cwd[p] # 0
      /\ \A i \in Inum : Held(th[p], cwd[p], i) = One(cwd[p] = i) + One(th[p].ip = i)
  BY <1>1, HereIp
<1>3. UNCHANGED <<disk, ref, copy, lock, cwd, files, calls, lost>> /\ Reads
      /\ lock' \in [Inum -> Process \cup {0}] /\ EndPut(p, th[p].ip)
  BY DEF Linked, icache, Reads, IInv, StateOK
<1> QED
  BY <1>2, <1>3, EndPutInv

LEMMA HereDp ==
  ASSUME IInv, NEW p \in Process, NEW L, In(p, L), L \subseteq HasDp \ HasIp
  PROVE  /\ NoPanic /\ th[p].pc \in L /\ th[p] \in Threads /\ Place(th[p]) = th[p].pc
         /\ th[p].dp \in Inum /\ th[p].at = 0 /\ th[p].ip = 0 /\ th[p].put = 0
         /\ th[p].ret \notin Putting \cup {"panic", "iget", "ialloc"} /\ cwd[p] # 0
         /\ Local(th[p], cwd[p]) /\ Locked(p, th[p], lock) /\ Used(th[p], copy)
         /\ \A i \in Inum : Held(th[p], cwd[p], i) = One(cwd[p] = i) + One(th[p].dp = i)
<1>1. /\ NoPanic /\ th[p].pc \in L /\ th[p] \in Threads
      /\ Local(th[p], cwd[p]) /\ Locked(p, th[p], lock) /\ Used(th[p], copy)
  BY Here
<1>2. Place(th[p]) = th[p].pc /\ th[p].pc \notin Putting /\ th[p].pc \notin {"namex", "user", "iget"}
      /\ th[p].pc \in HasDp /\ th[p].pc \notin HasIp
  BY <1>1 DEF Place, Putting, HasDp, HasIp
<1>3. /\ th[p].dp \in Inum /\ th[p].at = 0 /\ th[p].ip = 0 /\ th[p].put = 0
      /\ th[p].ret \notin Putting \cup {"panic", "iget", "ialloc"} /\ cwd[p] # 0
  BY <1>1, <1>2 DEF Local, Threads, Maybe
<1>4. \A i \in Inum : Held(th[p], cwd[p], i) = One(cwd[p] = i) + One(th[p].dp = i)
  BY <1>2, <1>3, Constants DEF Held, One
<1> QED
  BY <1>1, <1>2, <1>3, <1>4

LEMMA HereBoth ==
  ASSUME IInv, NEW p \in Process, NEW L, In(p, L), L \subseteq HasDp \cap HasIp
  PROVE  /\ NoPanic /\ th[p].pc \in L /\ th[p] \in Threads /\ Place(th[p]) = th[p].pc
         /\ th[p].dp \in Inum /\ th[p].ip \in Inum /\ th[p].at = 0 /\ th[p].put = 0
         /\ th[p].ret \notin Putting \cup {"panic", "iget", "ialloc"} /\ cwd[p] # 0
         /\ Local(th[p], cwd[p]) /\ Locked(p, th[p], lock) /\ Used(th[p], copy)
         /\ \A i \in Inum : Held(th[p], cwd[p], i) =
              One(cwd[p] = i) + One(th[p].dp = i) + One(th[p].pc # "iget" /\ th[p].ip = i)
<1>1. /\ NoPanic /\ th[p].pc \in L /\ th[p] \in Threads
      /\ Local(th[p], cwd[p]) /\ Locked(p, th[p], lock) /\ Used(th[p], copy)
  BY Here
<1>2. Place(th[p]) = th[p].pc /\ th[p].pc \notin Putting /\ th[p].pc \notin {"namex", "user"}
      /\ th[p].pc \in HasDp /\ th[p].pc \in HasIp
  BY <1>1 DEF Place, Putting, HasDp, HasIp
<1>3. /\ th[p].dp \in Inum /\ th[p].ip \in Inum /\ th[p].at = 0 /\ th[p].put = 0
      /\ th[p].ret \notin Putting \cup {"panic", "iget", "ialloc"} /\ cwd[p] # 0
  BY <1>1, <1>2 DEF Local, Threads, Maybe
<1>4. \A i \in Inum : Held(th[p], cwd[p], i) =
        One(cwd[p] = i) + One(th[p].dp = i) + One(th[p].pc # "iget" /\ th[p].ip = i)
  BY <1>3, Constants DEF Held, One
<1> QED
  BY <1>1, <1>2, <1>3, <1>4

\* The first element of what is left of a path names an inode or none.
LEMMA HeadLookup ==
  ASSUME IInv, NEW p \in Process, th[p] \in Threads, th[p].rest # <<>>, NEW d \in Inum
  PROVE  Lookup(d, Head(th[p].rest)) \in Maybe
<1>1. Head(th[p].rest) \in Element
  BY HeadTailProperties DEF Threads
<1> QED
  BY <1>1, LookupType DEF IInv

LEMMA LoadedReads ==
  ASSUME IInv, NoPanic, NEW i \in Inum, Loaded(i), Typed(i), UNCHANGED disk
  PROVE  /\ Reads /\ copy'[i] # Invalid
         /\ \A j \in Inum : copy[j] # Invalid => copy'[j] # Invalid
<1>1. dinode' = dinode
  BY DEF disk
<1> QED
  BY <1>1, LoadedCached DEF Reads, IInv

LEMMA CreateLookupInv ==
  ASSUME IInv, NEW p \in Process, CreateLookup(p)
  PROVE  IInv'
<1> DEFINE d == th[p].dp
           i == Lookup(d, Head(th[p].rest))
           L == {"creat", "mkdir", "mknod"}
<1>1. In(p, L) /\ L \subseteq HasDp \ HasIp
  BY DEF CreateLookup, HasIp, HasDp
<1>2. /\ NoPanic /\ th[p].pc \in L /\ th[p] \in Threads /\ Place(th[p]) = th[p].pc
      /\ d \in Inum /\ th[p].at = 0 /\ th[p].ip = 0 /\ th[p].put = 0
      /\ th[p].ret \notin Putting \cup {"panic", "iget", "ialloc"} /\ cwd[p] # 0
      /\ Local(th[p], cwd[p])
      /\ \A j \in Inum : Held(th[p], cwd[p], j) = One(cwd[p] = j) + One(d = j)
  BY <1>1, HereDp
<1>3. th[p].rest # <<>> /\ th[p].call \in L
  BY <1>2 DEF Local, HasDp
<1>4. i \in Maybe
  BY <1>2, <1>3, HeadLookup
<1>5. UNCHANGED <<disk, cwd, files, calls, lost>>
  BY DEF CreateLookup
<1>6. /\ ref \in [Inum -> Nat] /\ lock \in [Inum -> Process \cup {0}] /\ calls \in 0..MaxCalls
      /\ lock[d] = 0 /\ calls' \in 0..MaxCalls
  BY <1>5 DEF IInv, StateOK, CreateLookup, Unlocked
<1>7. CASE NoType(p, d) /\ UNCHANGED <<ref, lock>>
  BY <1>2, <1>5, <1>7, NoTypeInv
<1>8. CASE /\ Typed(d) /\ i # 0
           /\ Loaded(d) /\ Got(i)
           /\ Set(p, Put([th[p] EXCEPT !.dp = 0, !.ip = i], d, "exists"))
           /\ UNCHANGED lock
  <2> DEFINE s == [th[p] EXCEPT !.dp = 0, !.ip = i]
             t == Put(s, d, "exists")
  <2>1. i \in Inum
    BY <1>4, <1>8 DEF Maybe
  <2>2. s \in Threads /\ s.dp = 0 /\ s.ip = i /\ s.at = 0 /\ s.call = th[p].call
    BY <1>2, <1>4 DEF Threads, Maybe
  <2>3. Set(p, t)
    BY <1>8
  <2> HIDE DEF s
  <2>4. "exists" \in Points \ Putting
    BY DEF Points, Putting
  <2>5. /\ t \in Threads /\ Place(t) = "exists" /\ t.pc = "iput" /\ t.put = d
        /\ t.ret = "exists" /\ t.at = 0 /\ t.dp = 0 /\ t.ip = i
    BY <1>2, <2>2, <2>4, PutFields
  <2> HIDE DEF t
  <2>6. ~Linking(t)
    BY <2>5 DEF Linking
  <2>7. Local(t, cwd[p]) /\ Locked(p, t, lock') /\ Used(t, copy')
    BY <1>2, <2>1, <2>5, <2>6, Constants
       DEF Local, Locked, Used, Putting, HasDp, HasIp, LocksDp, LocksIp
  <2>8. ref' \in [Inum -> Nat] /\ \A j \in Inum : ref'[j] = ref[j] + One(j = i)
    BY <1>8, <2>1, GotOne DEF IInv
  <2>9. \A j \in Inum : ref'[j] = ref[j] - Held(th[p], cwd[p], j) + Held(t, cwd[p], j)
    BY <1>2, <1>6, <2>5, <2>8, Constants DEF Held, One
  <2>10. Reads
    BY <1>2, <1>8 DEF Reads
  <2>11. lock' \in [Inum -> Process \cup {0}]
    BY <1>6, <1>8
  <2> QED
    BY <1>2, <1>5, <1>6, <1>8, <2>3, <2>5, <2>6, <2>7, <2>8, <2>9, <2>10, <2>11, ReadInv
<1>9. CASE /\ Typed(d) /\ Loaded(d)
           /\ lock' = [lock EXCEPT ![d] = p]
           /\ Set(p, [th[p] EXCEPT !.pc = "ialloc", !.inum = 0])
           /\ UNCHANGED ref
  <2> DEFINE t == [th[p] EXCEPT !.pc = "ialloc", !.inum = 0]
  <2>1. /\ t \in Threads /\ t.pc = "ialloc" /\ t.at = 0 /\ t.dp = d /\ t.ip = 0 /\ t.put = 0
        /\ t.ret = th[p].ret /\ t.call = th[p].call /\ t.rest = th[p].rest
    BY <1>2 DEF Threads, Points, Maybe
  <2>2. Set(p, t)
    BY <1>9
  <2> HIDE DEF t
  <2>3. Place(t) = "ialloc" /\ ~Linking(t)
    BY <2>1 DEF Place, Putting, Linking
  <2>4. /\ lock' \in [Inum -> Process \cup {0}] /\ lock'[d] = p
        /\ \A j \in Inum : lock[j] \in Process \ {p} => lock'[j] = lock[j]
    BY <1>2, <1>6, <1>9, LockStep DEF IInv
  <2>5. Reads /\ copy'[d] # Invalid
    BY <1>2, <1>5, <1>9, LoadedReads
  <2>6. Local(t, cwd[p]) /\ Locked(p, t, lock') /\ Used(t, copy')
    BY <1>2, <1>3, <2>1, <2>3, <2>4, <2>5, Constants
       DEF Local, Locked, Used, Putting, HasDp, HasIp, LocksDp, LocksIp
  <2>7. \A j \in Inum : ref'[j] = ref[j] - Held(th[p], cwd[p], j) + Held(t, cwd[p], j)
    BY <1>2, <1>6, <1>9, <2>1, Constants DEF Held, One
  <2>8. ref' \in [Inum -> Nat] /\ calls' \in 0..MaxCalls /\ t.pc # "itrunc" /\ t \in Threads
    BY <1>6, <1>9, <2>1
  <2>9. NoPanic
    BY <1>2
  <2> QED
    BY <1>5, <2>2, <2>3, <2>4, <2>5, <2>6, <2>7, <2>8, <2>9, ReadInv
<1> QED
  BY <1>7, <1>8, <1>9 DEF CreateLookup

LEMMA IallocInv ==
  ASSUME IInv, NEW p \in Process, Ialloc(p)
  PROVE  IInv'
<1> DEFINE d == th[p].dp
<1>1. In(p, {"ialloc"}) /\ {"ialloc"} \subseteq HasDp \ HasIp
  BY DEF Ialloc, At, HasIp, HasDp
<1>2. /\ NoPanic /\ th[p].pc = "ialloc" /\ th[p] \in Threads /\ Place(th[p]) = "ialloc"
      /\ d \in Inum /\ th[p].at = 0 /\ th[p].ip = 0 /\ th[p].put = 0
      /\ th[p].ret \notin Putting \cup {"panic", "iget", "ialloc"} /\ cwd[p] # 0
      /\ Local(th[p], cwd[p]) /\ Locked(p, th[p], lock) /\ Used(th[p], copy)
      /\ \A j \in Inum : Held(th[p], cwd[p], j) = One(cwd[p] = j) + One(d = j)
  BY <1>1, HereDp
<1>3. /\ th[p].rest # <<>> /\ th[p].call \in {"creat", "mkdir", "mknod"}
      /\ lock[d] = p /\ copy[d] # Invalid
  BY <1>2 DEF Local, HasDp, Locked, Used, LocksDp
<1>4. UNCHANGED <<ents, up, ref, copy, lock, cwd, files, calls, lost>>
  BY DEF Ialloc, icache
<1>5. /\ ref \in [Inum -> Nat] /\ copy \in [Inum -> Metas \cup {Invalid}]
      /\ dinode \in [Inum -> Metas] /\ th \in [Process -> Threads]
  BY DEF IInv, StateOK
<1>6. CASE Goto(p, "panic") /\ UNCHANGED dinode
  <2>1. Loaded(d)
    BY <1>2, <1>3, <1>4, <1>5 DEF Loaded, Meta
  <2> QED
    BY <1>2, <1>4, <1>6, <2>1, PanicInv DEF disk
<1>7. ASSUME NEW i \in Inum, dinode[i].type = Free,
             dinode' = [dinode EXCEPT ![i] = [type |-> NewType(p), nlink |-> 0]],
             Set(p, [th[p] EXCEPT !.pc = "iget", !.ip = i, !.inum = 0])
      PROVE  IInv'
  <2> DEFINE t == [th[p] EXCEPT !.pc = "iget", !.ip = i, !.inum = 0]
  <2>1. /\ t \in Threads /\ t.pc = "iget" /\ t.at = 0 /\ t.dp = d /\ t.ip = i /\ t.put = 0
        /\ t.ret = th[p].ret /\ t.call = th[p].call /\ t.rest = th[p].rest
    BY <1>2 DEF Threads, Points, Maybe
  <2>2. th' = [th EXCEPT ![p] = t]
    BY <1>7 DEF Set
  <2> HIDE DEF t
  <2>3. Place(t) = "iget" /\ ~Linking(t)
    BY <2>1 DEF Place, Putting, Linking
  <2>4. copy[i] = Invalid
    BY <1>2, <1>7 DEF IInv, Cached, Coherent, NoPanic
  <2>5. Cached'
    <3>1. Coherent'
      BY <1>4, <1>5, <1>7, <2>4 DEF IInv, Cached, Coherent
    <3>2. \A j \in Inum : copy'[j] # Invalid => copy'[j].type # Free
      BY <1>2, <1>4 DEF IInv, Cached, NoPanic
    <3> QED
      BY <3>1, <3>2 DEF Cached
  <2>6. StateOK'
    <3>1. [type |-> NewType(p), nlink |-> 0] \in Metas
      <4>1. NewType(p) \in {FILE, DIR, DEV}
        BY <1>3 DEF NewType
      <4> QED
        BY <4>1 DEF Metas
    <3>2. dinode' \in [Inum -> Metas]
      BY <1>5, <1>7, <3>1
    <3>3. th' \in [Process -> Threads]
      BY <1>5, <2>1, <2>2
    <3> QED
      BY <1>4, <3>2, <3>3 DEF IInv, StateOK, files
  <2>7. Local(t, cwd[p]) /\ Locked(p, t, lock') /\ Used(t, copy')
    BY <1>2, <1>3, <1>4, <2>1, <2>3, Constants
       DEF Local, Locked, Used, Putting, HasDp, HasIp, LocksDp, LocksIp
  <2>8. \A j \in Inum : ref'[j] = ref[j] - Held(th[p], cwd[p], j) + Held(t, cwd[p], j)
    BY <1>2, <1>4, <1>5, <2>1, Constants DEF Held, One
  <2> QED
    BY <1>4, <2>1, <2>2, <2>3, <2>5, <2>6, <2>7, <2>8, StepInv
<1>8. ASSUME NEW i \in Inum, Set(p, [th[p] EXCEPT !.inum = i]), UNCHANGED dinode
      PROVE  IInv'
  <2> DEFINE t == [th[p] EXCEPT !.inum = i]
  <2>1. /\ t \in Threads /\ t.pc = "ialloc" /\ t.at = 0 /\ t.dp = d /\ t.ip = 0 /\ t.put = 0
        /\ t.ret = th[p].ret /\ t.call = th[p].call /\ t.rest = th[p].rest
    BY <1>2 DEF Threads, Maybe
  <2>2. th' = [th EXCEPT ![p] = t]
    BY <1>8 DEF Set
  <2> HIDE DEF t
  <2>3. Place(t) = "ialloc" /\ ~Linking(t)
    BY <2>1 DEF Place, Putting, Linking
  <2>4. Cached'
    <3>1. Coherent'
      BY <1>4, <1>8 DEF IInv, Cached, Coherent
    <3>2. \A j \in Inum : copy'[j] # Invalid => copy'[j].type # Free
      BY <1>2, <1>4 DEF IInv, Cached, NoPanic
    <3> QED
      BY <3>1, <3>2 DEF Cached
  <2>5. StateOK'
    <3>1. th' \in [Process -> Threads]
      BY <1>5, <2>1, <2>2
    <3> QED
      BY <1>4, <1>8, <3>1 DEF IInv, StateOK, files
  <2>6. Local(t, cwd[p]) /\ Locked(p, t, lock') /\ Used(t, copy')
    BY <1>2, <1>3, <1>4, <2>1, <2>3, Constants
       DEF Local, Locked, Used, Putting, HasDp, HasIp, LocksDp, LocksIp
  <2>7. \A j \in Inum : ref'[j] = ref[j] - Held(th[p], cwd[p], j) + Held(t, cwd[p], j)
    BY <1>2, <1>4, <1>5, <2>1, Constants DEF Held, One
  <2> QED
    BY <1>4, <2>1, <2>2, <2>3, <2>4, <2>5, <2>6, <2>7, StepInv
<1> QED
  BY <1>6, <1>7, <1>8 DEF Ialloc

LEMMA IallocGetInv ==
  ASSUME IInv, NEW p \in Process, IallocGet(p)
  PROVE  IInv'
<1> DEFINE d == th[p].dp
           i == th[p].ip
           t == [th[p] EXCEPT !.pc = "create"]
<1>1. In(p, {"iget"}) /\ {"iget"} \subseteq HasDp \cap HasIp
  BY DEF IallocGet, At, HasIp, HasDp
<1>2. /\ NoPanic /\ th[p].pc = "iget" /\ th[p] \in Threads /\ Place(th[p]) = "iget"
      /\ d \in Inum /\ i \in Inum /\ th[p].at = 0 /\ th[p].put = 0
      /\ th[p].ret \notin Putting \cup {"panic", "iget", "ialloc"} /\ cwd[p] # 0
      /\ Local(th[p], cwd[p]) /\ Locked(p, th[p], lock) /\ Used(th[p], copy)
  BY <1>1, HereBoth
<1>3. /\ th[p].rest # <<>> /\ th[p].call \in {"creat", "mkdir", "mknod"}
      /\ lock[d] = p /\ copy[d] # Invalid
  BY <1>2 DEF Local, HasDp, Locked, Used, LocksDp
<1>4. UNCHANGED <<disk, copy, lock, cwd, files, calls, lost>> /\ Reads /\ Got(i)
  BY DEF IallocGet, Reads
<1>5. /\ t \in Threads /\ t.pc = "create" /\ t.at = 0 /\ t.dp = d /\ t.ip = i /\ t.put = 0
      /\ t.ret = th[p].ret /\ t.call = th[p].call /\ t.rest = th[p].rest
  BY <1>2 DEF Threads, Points, Maybe
<1>6. Set(p, t)
  BY DEF IallocGet, Goto
<1> HIDE DEF t
<1>7. Place(t) = "create" /\ ~Linking(t)
  BY <1>5 DEF Place, Putting, Linking
<1>8. Local(t, cwd[p]) /\ Locked(p, t, lock') /\ Used(t, copy')
  BY <1>2, <1>3, <1>4, <1>5, <1>7, Constants
     DEF Local, Locked, Used, Putting, HasDp, HasIp, LocksDp, LocksIp
<1>9. ref' \in [Inum -> Nat] /\ \A j \in Inum : ref'[j] = ref[j] + One(j = i)
  BY <1>2, <1>4, GotOne DEF IInv
<1>10. \A j \in Inum : ref'[j] = ref[j] - Held(th[p], cwd[p], j) + Held(t, cwd[p], j)
  <2>1. ref \in [Inum -> Nat]
    BY DEF IInv, StateOK
  <2> QED
    BY <1>2, <1>5, <1>9, <2>1, Constants DEF Held, One
<1>11. lock' \in [Inum -> Process \cup {0}] /\ calls' \in 0..MaxCalls
  BY <1>4 DEF IInv, StateOK
<1> QED
  BY <1>2, <1>4, <1>5, <1>6, <1>7, <1>8, <1>9, <1>10, <1>11, ReadInv

\* An inode that is not free is written through the cache.
LEMMA UpdatedCached ==
  ASSUME IInv, NoPanic, NEW i \in Inum, NEW m \in Metas, m.type # Free, Updated(i, m)
  PROVE  /\ dinode' \in [Inum -> Metas] /\ copy' \in [Inum -> Metas \cup {Invalid}]
         /\ Cached' /\ copy'[i] # Invalid
         /\ \A j \in Inum : copy[j] # Invalid => copy'[j] # Invalid
<1>1. dinode \in [Inum -> Metas] /\ copy \in [Inum -> Metas \cup {Invalid}]
  BY DEF IInv, StateOK
<1>2. dinode' = [dinode EXCEPT ![i] = m] /\ copy' = [copy EXCEPT ![i] = m]
  BY DEF Updated
<1>3. m # Invalid
  BY DEF Metas, Invalid, Free, FILE, DIR, DEV
<1>4. Coherent'
  BY <1>1, <1>2 DEF IInv, Cached, Coherent
<1>5. \A j \in Inum : copy'[j] # Invalid => copy'[j].type # Free
  BY <1>1, <1>2 DEF IInv, Cached, NoPanic
<1> QED
  BY <1>1, <1>2, <1>3, <1>4, <1>5 DEF Cached

\* A count of an inode in the cache goes up or down.
LEMMA CopyMeta ==
  ASSUME IInv, NoPanic, NEW i \in Inum, copy[i] # Invalid, NEW k \in {-1, 1}
  PROVE  LET m == [copy[i] EXCEPT !.nlink = @ + k]
         IN  m \in Metas /\ m.type # Free
<1>1. copy[i] \in Metas /\ copy[i].type # Free
  BY DEF IInv, StateOK, Cached, NoPanic
<1> QED
  BY <1>1 DEF Metas

\* The end of a call that has changed inodes.
LEMMA EndPutDisk ==
  ASSUME IInv, NoPanic, NEW p \in Process, NEW k \in Inum, EndPut(p, k), cwd[p] # 0,
         UNCHANGED <<ents, up, ref, cwd, files, calls, lost>>,
         dinode' \in [Inum -> Metas], copy' \in [Inum -> Metas \cup {Invalid}], Cached',
         \A i \in Inum : copy[i] # Invalid => copy'[i] # Invalid,
         lock' \in [Inum -> Process \cup {0}],
         \A i \in Inum : lock[i] \in Process \ {p} => lock'[i] = lock[i],
         \A i \in Inum : Held(th[p], cwd[p], i) = One(cwd[p] = i) + One(k = i)
  PROVE  IInv'
<1> DEFINE t == Put(Idle, k, "user")
<1>1. /\ t.pc = "iput" /\ t.put = k /\ t.at = 0 /\ t.dp = 0 /\ t.ip = 0 /\ t.ret = "user"
      /\ t.call = "none"
  BY DEF Put, Idle
<1>2. t \in Threads
  BY IdleType, ZenonT(60) DEF Put, Threads, Points, Maybe
<1>3. th' = [th EXCEPT ![p] = t]
  BY DEF EndPut, Set
<1> HIDE DEF t
<1>4. k # 0
  BY Constants
<1>5. Place(t) = "user" /\ ~Linking(t)
  BY <1>1 DEF Place, Putting, Linking
<1>6. Local(t, cwd[p]) /\ Locked(p, t, lock') /\ Used(t, copy')
  BY <1>1, <1>4, <1>5 DEF Local, Locked, Used, Putting, HasDp, HasIp, LocksDp, LocksIp
<1>7. \A i \in Inum : Held(t, cwd[p], i) = One(cwd[p] = i) + One(k = i)
  BY <1>1, Constants DEF Held, One
<1>8. \A i \in Inum : ref'[i] = ref[i] - Held(th[p], cwd[p], i) + Held(t, cwd[p], i)
  BY <1>7 DEF IInv, StateOK, One
<1>9. StateOK'
  <2>1. th' \in [Process -> Threads]
    BY <1>2, <1>3 DEF IInv, StateOK
  <2> QED
    BY <2>1 DEF IInv, StateOK, files
<1>10. t.pc # "itrunc" /\ UNCHANGED <<cwd, files>>
  BY <1>1 DEF files
<1>11. \A i \in Inum : copy[i] # Invalid /\ copy'[i] = Invalid =>
         \A q \in Process \ {p} : th[q].pc # "panic" => ~Uses(th[q], i)
  OBVIOUS
<1>12. Cached' /\ \A i \in Inum : lock[i] \in Process \ {p} => lock'[i] = lock[i]
  OBVIOUS
<1> QED
  BY ONLY IInv, <1>3, <1>5, <1>6, <1>8, <1>9, <1>10, <1>11, <1>12, StepInv

LEMMA CreateInv ==
  ASSUME IInv, NEW p \in Process, Create(p)
  PROVE  IInv'
<1> DEFINE d == th[p].dp
           i == th[p].ip
           n == Head(th[p].rest)
           dir == th[p].call = "mkdir"
           mine == [Meta(i) EXCEPT !.nlink = 1]
           more == [copy[d] EXCEPT !.nlink = @ + 1]
           s == [th[p] EXCEPT !.dp = 0]
           t == Put(s, d, "created")
<1>1. In(p, {"create"}) /\ {"create"} \subseteq HasDp \cap HasIp
  BY DEF Create, At, HasIp, HasDp
<1>2. /\ NoPanic /\ th[p].pc = "create" /\ th[p] \in Threads /\ Place(th[p]) = "create"
      /\ d \in Inum /\ i \in Inum /\ th[p].at = 0 /\ th[p].put = 0
      /\ th[p].ret \notin Putting \cup {"panic", "iget", "ialloc"} /\ cwd[p] # 0
      /\ Local(th[p], cwd[p]) /\ Locked(p, th[p], lock) /\ Used(th[p], copy)
      /\ \A j \in Inum : Held(th[p], cwd[p], j) =
           One(cwd[p] = j) + One(d = j) + One(th[p].pc # "iget" /\ i = j)
  BY <1>1, HereBoth
<1>3. /\ lock[d] = p /\ copy[d] # Invalid /\ lock[i] = 0 /\ d # i
  BY <1>2, Constants DEF Locked, Used, LocksDp, Create, Unlocked
<1>4. UNCHANGED <<ref, cwd, files, calls, lost>>
  BY DEF Create
<1>5. /\ ref \in [Inum -> Nat] /\ copy \in [Inum -> Metas \cup {Invalid}]
      /\ dinode \in [Inum -> Metas] /\ th \in [Process -> Threads]
      /\ lock \in [Inum -> Process \cup {0}]
      /\ ents \in [Inum -> [Name -> Maybe]] /\ up \in [Inum -> Maybe]
  BY DEF IInv, StateOK
<1>6. CASE NoType(p, i) /\ UNCHANGED <<disk, lock>>
  BY <1>2, <1>4, <1>6, NoTypeInv
<1>7. CASE /\ Typed(i)
           /\ dinode' = [dinode EXCEPT ![i] = mine, ![d] = IF dir THEN more ELSE @]
           /\ copy' = [copy EXCEPT ![i] = mine, ![d] = IF dir THEN more ELSE @]
           /\ ents' = [ents EXCEPT ![d][n] = i]
           /\ up' = IF dir THEN [up EXCEPT ![i] = d] ELSE up
           /\ lock' = [lock EXCEPT ![d] = 0, ![i] = p]
           /\ Set(p, t)
  <2>1. mine \in Metas /\ mine.type # Free
    <3>1. Meta(i) \in Metas /\ Meta(i).type # Free
      BY <1>2, <1>7, MetaType DEF IInv, Typed
    <3> QED
      BY <3>1 DEF Metas
  <2>2. more \in Metas /\ more.type # Free
    BY <1>2, <1>3, CopyMeta
  <2>3. Invalid \notin Metas
    BY <1>2, MetaType DEF IInv
  <2>4. /\ dinode' \in [Inum -> Metas] /\ dinode'[i] = mine
        /\ dinode'[d] = (IF dir THEN more ELSE dinode[d])
        /\ \A j \in Inum \ {i, d} : dinode'[j] = dinode[j]
    <3> HIDE DEF mine, more, dir
    <3> QED
      BY <1>2, <1>3, <1>5, <1>7, <2>1, <2>2
  <2>5. /\ copy' \in [Inum -> Metas \cup {Invalid}] /\ copy'[i] = mine
        /\ copy'[d] = (IF dir THEN more ELSE copy[d])
        /\ \A j \in Inum \ {i, d} : copy'[j] = copy[j]
    <3> HIDE DEF mine, more, dir
    <3> QED
      BY <1>2, <1>3, <1>5, <1>7, <2>1, <2>2
  <2> HIDE DEF mine, more, dir
  <2>6. \A j \in Inum : copy[j] # Invalid => copy'[j] # Invalid
    BY <2>1, <2>2, <2>3, <2>5
  <2>7. Cached'
    <3>1. Coherent'
      BY <2>4, <2>5 DEF IInv, Cached, Coherent
    <3>2. \A j \in Inum : copy'[j] # Invalid => copy'[j].type # Free
      BY <1>2, <2>1, <2>2, <2>5 DEF IInv, Cached, NoPanic
    <3> QED
      BY <3>1, <3>2 DEF Cached
  <2>8. s \in Threads /\ s.at = 0 /\ s.dp = 0 /\ s.ip = i /\ s.call = th[p].call
    BY <1>2 DEF Threads, Maybe
  <2> HIDE DEF s
  <2>9. "created" \in Points \ Putting
    BY DEF Points, Putting
  <2>10. /\ t \in Threads /\ Place(t) = "created" /\ t.pc = "iput" /\ t.put = d
         /\ t.ret = "created" /\ t.at = 0 /\ t.dp = 0 /\ t.ip = i
    BY <1>2, <2>8, <2>9, PutFields
  <2>11. th' = [th EXCEPT ![p] = t]
    BY <1>7 DEF Set
  <2> HIDE DEF t
  <2>12. ~Linking(t)
    BY <2>10 DEF Linking
  <2>13. /\ lock' \in [Inum -> Process \cup {0}] /\ lock'[i] = p
         /\ \A j \in Inum : lock[j] \in Process \ {p} => lock'[j] = lock[j]
    <3>1. /\ lock' = [lock EXCEPT ![d] = 0, ![i] = p] /\ 0 \notin Process
          /\ d \in Inum /\ i \in Inum /\ d # i /\ lock[d] = p /\ lock[i] = 0
      BY <1>2, <1>3, <1>7, Constants
    <3>2. /\ lock'[i] = p /\ lock'[d] = 0
          /\ \A j \in Inum \ {i, d} : lock'[j] = lock[j]
      BY <1>5, <3>1
    <3>3. lock' \in [Inum -> Process \cup {0}]
      BY <1>5, <3>1
    <3> QED
      BY <3>1, <3>2, <3>3
  <2>14. StateOK'
    <3>1. ents' \in [Inum -> [Name -> Maybe]] /\ up' \in [Inum -> Maybe]
      BY <1>2, <1>5, <1>7 DEF Maybe
    <3>2. th' \in [Process -> Threads]
      BY <1>5, <2>10, <2>11
    <3> QED
      BY <1>4, <2>4, <2>5, <2>13, <3>1, <3>2 DEF IInv, StateOK, files
  <2>15. Local(t, cwd[p]) /\ Locked(p, t, lock') /\ Used(t, copy')
    BY <1>2, <2>1, <2>3, <2>5, <2>10, <2>12, <2>13, Constants
       DEF Local, Locked, Used, Putting, HasDp, HasIp, LocksDp, LocksIp
  <2>16. \A j \in Inum : ref'[j] = ref[j] - Held(th[p], cwd[p], j) + Held(t, cwd[p], j)
    BY <1>2, <1>4, <1>5, <2>10, Constants DEF Held, One
  <2> QED
    BY <1>4, <2>6, <2>7, <2>10, <2>11, <2>12, <2>13, <2>14, <2>15, <2>16, StepInv
<1> QED
  BY <1>6, <1>7 DEF Create

LEMMA LinkOldInv ==
  ASSUME IInv, NEW p \in Process, LinkOld(p)
  PROVE  IInv'
<1> DEFINE i == th[p].ip
           m == [Meta(i) EXCEPT !.nlink = @ + 1]
<1>1. In(p, {"link"}) /\ {"link"} \subseteq HasIp \ (HasDp \cup {"iget"})
  BY DEF LinkOld, At, HasIp, HasDp
<1>2. /\ NoPanic /\ th[p].pc = "link" /\ th[p] \in Threads /\ Place(th[p]) = "link"
      /\ i \in Inum /\ th[p].at = 0 /\ th[p].dp = 0 /\ th[p].put = 0
      /\ th[p].ret \notin Putting \cup {"panic", "iget", "ialloc"} /\ cwd[p] # 0
      /\ Local(th[p], cwd[p])
      /\ \A j \in Inum : Held(th[p], cwd[p], j) = One(cwd[p] = j) + One(i = j)
  BY <1>1, HereIp
<1>3. th[p].call = "link" /\ lock[i] = 0
  BY <1>2 DEF Local, LinkOld, Unlocked
<1>4. UNCHANGED <<lock, cwd, files, calls, lost>>
  BY DEF LinkOld
<1>5. /\ ref \in [Inum -> Nat] /\ th \in [Process -> Threads]
      /\ lock \in [Inum -> Process \cup {0}]
  BY DEF IInv, StateOK
<1>6. CASE NoType(p, i) /\ UNCHANGED <<disk, ref>>
  BY <1>2, <1>4, <1>6, NoTypeInv
<1>7. CASE /\ Meta(i).type = DIR
           /\ Loaded(i)
           /\ EndPut(p, i)
           /\ UNCHANGED <<disk, ref>>
  <2>1. Reads
    BY <1>2, <1>7, MetaType DEF IInv, Reads
  <2> QED
    BY <1>2, <1>4, <1>5, <1>7, <2>1, EndPutInv
<1>8. CASE /\ Typed(i) /\ Updated(i, m)
           /\ Goto(p, "linkwalk")
           /\ UNCHANGED <<ents, up, ref>>
  <2> DEFINE t == [th[p] EXCEPT !.pc = "linkwalk"]
  <2>1. /\ t \in Threads /\ t.pc = "linkwalk" /\ t.at = 0 /\ t.dp = 0 /\ t.ip = i /\ t.put = 0
        /\ t.ret = th[p].ret /\ t.call = th[p].call
    BY <1>2 DEF Threads, Points
  <2>2. th' = [th EXCEPT ![p] = t]
    BY <1>8 DEF Goto, Set
  <2> HIDE DEF t
  <2>3. m \in Metas /\ m.type # Free
    <3>1. Meta(i) \in Metas /\ Meta(i).type # Free
      BY <1>2, <1>8, MetaType DEF IInv, Typed
    <3> QED
      BY <3>1 DEF Metas
  <2> HIDE DEF m
  <2>4. /\ dinode' \in [Inum -> Metas] /\ copy' \in [Inum -> Metas \cup {Invalid}]
        /\ Cached' /\ copy'[i] # Invalid
        /\ \A j \in Inum : copy[j] # Invalid => copy'[j] # Invalid
    BY <1>2, <1>8, <2>3, UpdatedCached
  <2>5. th'[p] = t /\ \A q \in Process \ {p} : th'[q] = th[q]
    BY <1>5, <2>2
  <2>6. StateOK'
    <3>1. th' \in [Process -> Threads]
      BY <1>5, <2>1, <2>2
    <3> QED
      BY <1>4, <1>8, <2>4, <3>1 DEF IInv, StateOK, files
  <2>7. Place(t) = "linkwalk"
    BY <2>1 DEF Place, Putting
  <2>8. Local(t, cwd[p]) /\ Locked(p, t, lock') /\ Used(t, copy')
    BY <1>2, <1>3, <2>1, <2>4, <2>7, Constants
       DEF Local, Locked, Used, Putting, HasDp, HasIp, LocksDp, LocksIp, Linking
  <2>9. Live(p)'
    BY <1>4, <2>5, <2>8 DEF Live
  <2>10. \A q \in Process \ {p} : Live(q)'
    BY <1>4, <2>4, <2>5, OthersLive DEF IInv
  <2>11. \A q \in Process : th[q].pc = "itrunc" => th[q].put # i
    <3>1. \A q \in Process : th[q].pc = "itrunc" => lock[th[q].put] = q
      BY <1>2 DEF IInv, Live, Locked, NoPanic
    <3> QED
      BY <1>3, <3>1, Constants
  <2>12. Truncating'
    BY <1>2, <2>1, <2>5, <2>11 DEF IInv, Truncating
  <2>13. FilesOpen'
    BY <1>4 DEF IInv, FilesOpen, files
  <2>14. RefsCounted'
    <3>1. \A j \in Inum : ref'[j] = ref[j] - Mine(p, j) + Mine(p, j)'
      BY <1>2, <1>4, <1>5, <1>8, <2>1, <2>5 DEF Mine, Held, One
    <3> QED
      BY <1>4, <1>5, <2>5, <3>1, StepRefs DEF IInv
  <2> QED
    BY <2>4, <2>6, <2>9, <2>10, <2>12, <2>13, <2>14 DEF IInv
<1> QED
  BY <1>6, <1>7, <1>8 DEF LinkOld

LEMMA LinkHasInv ==
  ASSUME IInv, NEW p \in Process, LinkHas(p)
  PROVE  IInv'
<1> DEFINE d == th[p].dp
           i == th[p].ip
           s == [th[p] EXCEPT !.dp = 0]
           t == Put(s, d, "linkbad")
<1>1. In(p, {"linkhas"}) /\ {"linkhas"} \subseteq HasDp \cap HasIp
  BY DEF LinkHas, At, HasIp, HasDp
<1>2. /\ NoPanic /\ th[p].pc = "linkhas" /\ th[p] \in Threads /\ Place(th[p]) = "linkhas"
      /\ d \in Inum /\ i \in Inum /\ th[p].at = 0 /\ th[p].put = 0
      /\ th[p].ret \notin Putting \cup {"panic", "iget", "ialloc"} /\ cwd[p] # 0
      /\ Local(th[p], cwd[p]) /\ Locked(p, th[p], lock) /\ Used(th[p], copy)
      /\ \A j \in Inum : Held(th[p], cwd[p], j) =
           One(cwd[p] = j) + One(d = j) + One(th[p].pc # "iget" /\ i = j)
  BY <1>1, HereBoth
<1>3. Linking(th[p])
  BY <1>2 DEF Linking
<1>4. lock[d] = p /\ th[p].call = "link" /\ copy[i] # Invalid
  BY <1>2, <1>3 DEF Local, Locked, Used, LocksDp
<1>5. UNCHANGED <<disk, ref, copy, cwd, files, calls, lost>> /\ Reads
      /\ lock' = [lock EXCEPT ![d] = 0]
  BY DEF LinkHas, Reads
<1>6. s \in Threads /\ s.at = 0 /\ s.dp = 0 /\ s.ip = i /\ s.call = th[p].call
  BY <1>2 DEF Threads, Maybe
<1>7. Set(p, t)
  BY DEF LinkHas
<1> HIDE DEF s
<1>8. "linkbad" \in Points \ Putting
  BY DEF Points, Putting
<1>9. /\ t \in Threads /\ Place(t) = "linkbad" /\ t.pc = "iput" /\ t.put = d
      /\ t.ret = "linkbad" /\ t.at = 0 /\ t.dp = 0 /\ t.ip = i /\ t.call = th[p].call
  BY <1>2, <1>6, <1>8, PutFields
<1> HIDE DEF t
<1>10. /\ lock' \in [Inum -> Process \cup {0}]
       /\ \A j \in Inum : lock[j] \in Process \ {p} => lock'[j] = lock[j]
  BY <1>2, <1>4, <1>5, LockStep DEF IInv
<1>11. Local(t, cwd[p]) /\ Locked(p, t, lock') /\ Used(t, copy')
  BY <1>2, <1>4, <1>5, <1>9, Constants
     DEF Local, Locked, Used, Putting, HasDp, HasIp, LocksDp, LocksIp, Linking
<1>12. ref' \in [Inum -> Nat] /\ calls' \in 0..MaxCalls
  BY <1>5 DEF IInv, StateOK
<1>13. \A j \in Inum : ref'[j] = ref[j] - Held(th[p], cwd[p], j) + Held(t, cwd[p], j)
  BY <1>2, <1>5, <1>9, <1>12, Constants DEF Held, One
<1> QED
  BY <1>2, <1>3, <1>5, <1>7, <1>9, <1>10, <1>11, <1>12, <1>13, ReadInv, ZenonT(60)

LEMMA LinkBadInv ==
  ASSUME IInv, NEW p \in Process, LinkBad(p)
  PROVE  IInv'
<1> DEFINE i == th[p].ip
           m == [copy[i] EXCEPT !.nlink = @ + (-1)]
<1>1. In(p, {"linkbad"}) /\ {"linkbad"} \subseteq HasIp \ (HasDp \cup {"iget"})
  BY DEF LinkBad, At, HasIp, HasDp
<1>2. /\ NoPanic /\ th[p].pc = "linkbad" /\ th[p] \in Threads /\ Place(th[p]) = "linkbad"
      /\ i \in Inum /\ cwd[p] # 0 /\ Used(th[p], copy)
      /\ \A j \in Inum : Held(th[p], cwd[p], j) = One(cwd[p] = j) + One(i = j)
  BY <1>1, HereIp
<1>3. copy[i] # Invalid /\ copy[i] \in Metas
  BY <1>2 DEF Used, Linking, IInv, StateOK
<1>4. m \in Metas /\ m.type # Free
  BY <1>2, <1>3, CopyMeta
<1>5. Updated(i, m)
  <2>1. copy[i].nlink - 1 = copy[i].nlink + (-1)
    BY <1>3 DEF Metas
  <2> QED
    BY <2>1 DEF LinkBad
<1> HIDE DEF m
<1>6. /\ dinode' \in [Inum -> Metas] /\ copy' \in [Inum -> Metas \cup {Invalid}]
      /\ Cached' /\ copy'[i] # Invalid
      /\ \A j \in Inum : copy[j] # Invalid => copy'[j] # Invalid
  BY <1>2, <1>4, <1>5, UpdatedCached
<1>7. UNCHANGED <<ents, up, ref, lock, cwd, files, calls, lost>> /\ EndPut(p, i)
      /\ lock' \in [Inum -> Process \cup {0}]
  BY DEF LinkBad, IInv, StateOK
<1> QED
  BY <1>2, <1>6, <1>7, EndPutDisk

LEMMA LinkNewInv ==
  ASSUME IInv, NEW p \in Process, LinkNew(p)
  PROVE  IInv'
<1> DEFINE d == th[p].dp
           i == Lookup(d, Head(th[p].rest))
<1>1. In(p, {"linknew"}) /\ {"linknew"} \subseteq HasDp \cap HasIp
  BY DEF LinkNew, At, HasIp, HasDp
<1>2. /\ NoPanic /\ th[p].pc = "linknew" /\ th[p] \in Threads /\ Place(th[p]) = "linknew"
      /\ d \in Inum /\ th[p].ip \in Inum /\ th[p].at = 0 /\ th[p].put = 0
      /\ th[p].ret \notin Putting \cup {"panic", "iget", "ialloc"} /\ cwd[p] # 0
      /\ Local(th[p], cwd[p]) /\ Locked(p, th[p], lock) /\ Used(th[p], copy)
      /\ \A j \in Inum : Held(th[p], cwd[p], j) =
           One(cwd[p] = j) + One(d = j) + One(th[p].pc # "iget" /\ th[p].ip = j)
  BY <1>1, HereBoth
<1>3. Linking(th[p])
  BY <1>2 DEF Linking
<1>4. /\ th[p].rest # <<>> /\ th[p].call = "link" /\ copy[th[p].ip] # Invalid
  BY <1>2, <1>3 DEF Local, Used, HasDp
<1>5. i \in Maybe
  BY <1>2, <1>4, HeadLookup
<1>6. UNCHANGED <<dinode, up, cwd, files, calls, lost>>
  BY DEF LinkNew
<1>7. /\ ref \in [Inum -> Nat] /\ lock \in [Inum -> Process \cup {0}] /\ calls' \in 0..MaxCalls
      /\ lock[d] = 0 /\ th \in [Process -> Threads]
  BY <1>6 DEF IInv, StateOK, LinkNew, Unlocked
<1>8. CASE NoType(p, d) /\ UNCHANGED <<ents, ref, lock>>
  BY <1>2, <1>6, <1>8, NoTypeInv DEF disk
<1>9. CASE /\ Typed(d) /\ i # 0
           /\ Loaded(d) /\ Got(i)
           /\ lock' = [lock EXCEPT ![d] = p]
           /\ Set(p, Put(th[p], i, "linkhas"))
           /\ UNCHANGED ents
  <2> DEFINE t == Put(th[p], i, "linkhas")
  <2>1. i \in Inum
    BY <1>5, <1>9 DEF Maybe
  <2>2. Set(p, t)
    BY <1>9
  <2>3. "linkhas" \in Points \ Putting
    BY DEF Points, Putting
  <2>4. /\ t \in Threads /\ Place(t) = "linkhas" /\ t.pc = "iput" /\ t.put = i
        /\ t.ret = "linkhas" /\ t.at = 0 /\ t.dp = d /\ t.ip = th[p].ip /\ t.call = th[p].call
    BY <1>2, <2>1, <2>3, PutFields
  <2> HIDE DEF t
  <2>5. UNCHANGED disk
    BY <1>6, <1>9 DEF disk
  <2>6. /\ Reads /\ copy'[d] # Invalid
        /\ \A j \in Inum : copy[j] # Invalid => copy'[j] # Invalid
    BY <1>2, <1>9, <2>5, LoadedReads
  <2>7. /\ lock' \in [Inum -> Process \cup {0}] /\ lock'[d] = p
        /\ \A j \in Inum : lock[j] \in Process \ {p} => lock'[j] = lock[j]
    BY <1>2, <1>7, <1>9, LockStep DEF IInv
  <2>8. Local(t, cwd[p]) /\ Locked(p, t, lock') /\ Used(t, copy')
    BY <1>2, <1>4, <2>1, <2>4, <2>6, <2>7, Constants
       DEF Local, Locked, Used, Putting, HasDp, HasIp, LocksDp, LocksIp, Linking
  <2>9. ref' \in [Inum -> Nat] /\ \A j \in Inum : ref'[j] = ref[j] + One(j = i)
    BY <1>9, <2>1, GotOne DEF IInv
  <2>10. \A j \in Inum : ref'[j] = ref[j] - Held(th[p], cwd[p], j) + Held(t, cwd[p], j)
    BY <1>2, <1>7, <2>4, <2>9, Constants DEF Held, One
  <2>11. UNCHANGED <<disk, cwd, files, lost>> /\ NoPanic /\ calls' \in 0..MaxCalls
    BY <1>2, <1>6, <1>7, <2>5
  <2>12. t \in Threads /\ t.pc # "itrunc" /\ (Linking(t) => Linking(th[p]) /\ t.ip = th[p].ip)
    BY <1>3, <2>4
  <2> QED
    BY ONLY IInv, <2>2, <2>6, <2>7, <2>8, <2>9, <2>10, <2>11, <2>12, ReadInv
<1>10. CASE /\ Typed(d) /\ i = 0
            /\ Loaded(d)
            /\ ents' = [ents EXCEPT ![d][Head(th[p].rest)] = th[p].ip]
            /\ Set(p, Put([th[p] EXCEPT !.dp = 0], d, "linked"))
            /\ UNCHANGED <<ref, lock>>
  <2> DEFINE s == [th[p] EXCEPT !.dp = 0]
             t == Put(s, d, "linked")
  <2>1. s \in Threads /\ s.at = 0 /\ s.dp = 0 /\ s.ip = th[p].ip /\ s.call = th[p].call
    BY <1>2 DEF Threads, Maybe
  <2>2. th' = [th EXCEPT ![p] = t]
    BY <1>10 DEF Set
  <2> HIDE DEF s
  <2>3. "linked" \in Points \ Putting
    BY DEF Points, Putting
  <2>4. /\ t \in Threads /\ Place(t) = "linked" /\ t.pc = "iput" /\ t.put = d
        /\ t.ret = "linked" /\ t.at = 0 /\ t.dp = 0 /\ t.ip = th[p].ip /\ t.call = th[p].call
    BY <1>2, <2>1, <2>3, PutFields
  <2> HIDE DEF t
  <2>5. th'[p] = t
    BY <1>7, <2>2
  <2>6. /\ copy' \in [Inum -> Metas \cup {Invalid}] /\ Cached'
        /\ \A j \in Inum : copy[j] # Invalid => copy'[j] # Invalid
    BY <1>2, <1>6, <1>10, LoadedCached DEF IInv
  <2>7. StateOK'
    <3>1. ents' \in [Inum -> [Name -> Maybe]]
      BY <1>2, <1>10 DEF IInv, StateOK, Maybe
    <3>2. th' \in [Process -> Threads]
      BY <1>7, <2>2, <2>4
    <3> QED
      BY <1>6, <1>10, <2>6, <3>1, <3>2 DEF IInv, StateOK, files
  <2>8. Local(t, cwd[p]) /\ Locked(p, t, lock') /\ Used(t, copy')
    BY <1>2, <1>4, <2>4, <2>6, Constants
       DEF Local, Locked, Used, Putting, HasDp, HasIp, LocksDp, LocksIp, Linking
  <2>9. \A j \in Inum : ref'[j] = ref[j] - Held(th[p], cwd[p], j) + Held(t, cwd[p], j)
    BY <1>2, <1>7, <1>10, <2>4, Constants DEF Held, One
  <2>10. /\ UNCHANGED <<cwd, files>> /\ t.pc # "itrunc"
         /\ t.pc # "panic" /\ Linking(t) =>
              th[p].pc # "panic" /\ Linking(th[p]) /\ t.ip = th[p].ip
    BY <1>2, <1>3, <1>6, <2>4
  <2>11. /\ \A j \in Inum : copy[j] # Invalid /\ copy'[j] = Invalid =>
              \A q \in Process \ {p} : th[q].pc # "panic" => ~Uses(th[q], j)
         /\ \A j \in Inum : lock[j] \in Process \ {p} => lock'[j] = lock[j]
    BY <1>10, <2>6
  <2> QED
    BY ONLY IInv, <2>2, <2>6, <2>7, <2>8, <2>9, <2>10, <2>11, StepInv
<1> QED
  BY <1>8, <1>9, <1>10 DEF LinkNew

LEMMA UnlinkLookupInv ==
  ASSUME IInv, NEW p \in Process, UnlinkLookup(p)
  PROVE  IInv'
<1> DEFINE d == th[p].dp
           i == Lookup(d, Head(th[p].rest))
<1>1. In(p, {"unlink"}) /\ {"unlink"} \subseteq HasDp \ HasIp
  BY DEF UnlinkLookup, At, HasIp, HasDp
<1>2. /\ NoPanic /\ th[p].pc = "unlink" /\ th[p] \in Threads /\ Place(th[p]) = "unlink"
      /\ d \in Inum /\ th[p].at = 0 /\ th[p].ip = 0 /\ th[p].put = 0
      /\ th[p].ret \notin Putting \cup {"panic", "iget", "ialloc"} /\ cwd[p] # 0
      /\ Local(th[p], cwd[p])
      /\ \A j \in Inum : Held(th[p], cwd[p], j) = One(cwd[p] = j) + One(d = j)
  BY <1>1, HereDp
<1>3. th[p].rest # <<>>
  BY <1>2 DEF Local, HasDp
<1>4. i \in Maybe
  BY <1>2, <1>3, HeadLookup
<1>5. UNCHANGED <<disk, cwd, files, calls, lost>>
  BY DEF UnlinkLookup
<1>6. /\ ref \in [Inum -> Nat] /\ lock \in [Inum -> Process \cup {0}] /\ calls' \in 0..MaxCalls
      /\ lock[d] = 0
  BY <1>5 DEF IInv, StateOK, UnlinkLookup, Unlocked
<1>7. CASE NoType(p, d) /\ UNCHANGED <<ref, lock>>
  BY <1>2, <1>5, <1>7, NoTypeInv
<1>8. CASE Typed(d) /\ Loaded(d) /\ EndPut(p, d) /\ UNCHANGED <<ref, lock>>
  <2>1. Reads
    BY <1>2, <1>8 DEF Reads
  <2> QED
    BY <1>2, <1>5, <1>6, <1>8, <2>1, EndPutInv
<1>9. CASE /\ Typed(d) /\ i # 0
           /\ Loaded(d) /\ Got(i)
           /\ lock' = [lock EXCEPT ![d] = p]
           /\ Set(p, [th[p] EXCEPT !.pc = "unlinkip", !.ip = i])
  <2> DEFINE t == [th[p] EXCEPT !.pc = "unlinkip", !.ip = i]
  <2>1. i \in Inum
    BY <1>4, <1>9 DEF Maybe
  <2>2. /\ t \in Threads /\ t.pc = "unlinkip" /\ t.at = 0 /\ t.dp = d /\ t.ip = i /\ t.put = 0
        /\ t.ret = th[p].ret /\ t.call = th[p].call /\ t.rest = th[p].rest
    BY <1>2, <1>4 DEF Threads, Points
  <2>3. Set(p, t)
    BY <1>9
  <2> HIDE DEF t
  <2>4. Place(t) = "unlinkip" /\ ~Linking(t)
    BY <2>2 DEF Place, Putting, Linking
  <2>5. /\ lock' \in [Inum -> Process \cup {0}] /\ lock'[d] = p
        /\ \A j \in Inum : lock[j] \in Process \ {p} => lock'[j] = lock[j]
    BY <1>2, <1>6, <1>9, LockStep DEF IInv
  <2>6. Reads /\ copy'[d] # Invalid
    BY <1>2, <1>5, <1>9, LoadedReads
  <2>7. Local(t, cwd[p]) /\ Locked(p, t, lock') /\ Used(t, copy')
    BY <1>2, <1>3, <2>1, <2>2, <2>4, <2>5, <2>6, Constants
       DEF Local, Locked, Used, Putting, HasDp, HasIp, LocksDp, LocksIp
  <2>8. ref' \in [Inum -> Nat] /\ \A j \in Inum : ref'[j] = ref[j] + One(j = i)
    BY <1>9, <2>1, GotOne DEF IInv
  <2>9. \A j \in Inum : ref'[j] = ref[j] - Held(th[p], cwd[p], j) + Held(t, cwd[p], j)
    BY <1>2, <1>6, <2>2, <2>8, Constants DEF Held, One
  <2>10. UNCHANGED <<disk, cwd, files, lost>> /\ NoPanic /\ calls' \in 0..MaxCalls
    BY <1>2, <1>5, <1>6
  <2>11. t \in Threads /\ t.pc # "itrunc"
    BY <2>2
  <2> QED
    BY ONLY IInv, <2>3, <2>4, <2>5, <2>6, <2>7, <2>8, <2>9, <2>10, <2>11, ReadInv
<1> QED
  BY <1>7, <1>8, <1>9 DEF UnlinkLookup

LEMMA UnlinkBadInv ==
  ASSUME IInv, NEW p \in Process, UnlinkBad(p)
  PROVE  IInv'
<1>1. In(p, {"unlinkbad"}) /\ {"unlinkbad"} \subseteq HasDp \ HasIp
  BY DEF UnlinkBad, At, HasIp, HasDp
<1>2. /\ NoPanic /\ th[p].pc = "unlinkbad" /\ th[p].dp \in Inum /\ cwd[p] # 0
      /\ Place(th[p]) = "unlinkbad" /\ Locked(p, th[p], lock)
      /\ \A i \in Inum : Held(th[p], cwd[p], i) = One(cwd[p] = i) + One(th[p].dp = i)
  BY <1>1, HereDp
<1>3. lock[th[p].dp] = p
  BY <1>2 DEF Locked, LocksDp
<1>4. UNCHANGED <<disk, ref, copy, cwd, files, calls, lost>> /\ Reads
      /\ lock' = [lock EXCEPT ![th[p].dp] = 0] /\ EndPut(p, th[p].dp)
  BY DEF UnlinkBad, Reads
<1>5. /\ lock' \in [Inum -> Process \cup {0}]
      /\ \A i \in Inum : lock[i] \in Process \ {p} => lock'[i] = lock[i]
  BY <1>2, <1>3, <1>4, LockStep DEF IInv
<1> QED
  BY <1>2, <1>4, <1>5, EndPutInv

LEMMA UnlinkedInv ==
  ASSUME IInv, NEW p \in Process, Unlinked(p)
  PROVE  IInv'
<1> DEFINE i == th[p].ip
           m == [copy[i] EXCEPT !.nlink = @ + (-1)]
<1>1. In(p, {"unlinked"}) /\ {"unlinked"} \subseteq HasIp \ (HasDp \cup {"iget"})
  BY DEF Unlinked, At, HasIp, HasDp
<1>2. /\ NoPanic /\ th[p].pc = "unlinked" /\ th[p] \in Threads /\ Place(th[p]) = "unlinked"
      /\ i \in Inum /\ cwd[p] # 0 /\ Used(th[p], copy) /\ Locked(p, th[p], lock)
      /\ \A j \in Inum : Held(th[p], cwd[p], j) = One(cwd[p] = j) + One(i = j)
  BY <1>1, HereIp
<1>3. copy[i] # Invalid /\ copy[i] \in Metas /\ lock[i] = p
  BY <1>2 DEF Used, Locked, LocksIp, IInv, StateOK
<1>4. m \in Metas /\ m.type # Free
  BY <1>2, <1>3, CopyMeta
<1>5. Updated(i, m)
  <2>1. copy[i].nlink - 1 = copy[i].nlink + (-1)
    BY <1>3 DEF Metas
  <2> QED
    BY <2>1 DEF Unlinked
<1> HIDE DEF m
<1>6. /\ dinode' \in [Inum -> Metas] /\ copy' \in [Inum -> Metas \cup {Invalid}]
      /\ Cached' /\ copy'[i] # Invalid
      /\ \A j \in Inum : copy[j] # Invalid => copy'[j] # Invalid
  BY <1>2, <1>4, <1>5, UpdatedCached
<1>7. UNCHANGED <<ents, up, ref, cwd, files, calls, lost>> /\ EndPut(p, i)
      /\ lock' = [lock EXCEPT ![i] = 0]
  BY DEF Unlinked
<1>8. /\ lock' \in [Inum -> Process \cup {0}]
      /\ \A j \in Inum : lock[j] \in Process \ {p} => lock'[j] = lock[j]
  BY <1>2, <1>3, <1>7, LockStep DEF IInv
<1> QED
  BY <1>2, <1>6, <1>7, <1>8, EndPutDisk

LEMMA UnlinkEntryInv ==
  ASSUME IInv, NEW p \in Process, UnlinkEntry(p)
  PROVE  IInv'
<1> DEFINE d == th[p].dp
           i == th[p].ip
           n == Head(th[p].rest)
           dir == Meta(i).type = DIR
           less == [copy[d] EXCEPT !.nlink = @ - 1]
           m == [copy[d] EXCEPT !.nlink = @ + (-1)]
<1>1. In(p, {"unlinkip"}) /\ {"unlinkip"} \subseteq HasDp \cap HasIp
  BY DEF UnlinkEntry, At, HasIp, HasDp
<1>2. /\ NoPanic /\ th[p].pc = "unlinkip" /\ th[p] \in Threads /\ Place(th[p]) = "unlinkip"
      /\ d \in Inum /\ i \in Inum /\ th[p].at = 0 /\ th[p].put = 0
      /\ th[p].ret \notin Putting \cup {"panic", "iget", "ialloc"} /\ cwd[p] # 0
      /\ Local(th[p], cwd[p]) /\ Locked(p, th[p], lock) /\ Used(th[p], copy)
      /\ \A j \in Inum : Held(th[p], cwd[p], j) =
           One(cwd[p] = j) + One(d = j) + One(th[p].pc # "iget" /\ i = j)
  BY <1>1, HereBoth
<1>3. /\ lock[d] = p /\ copy[d] # Invalid /\ lock[i] = 0 /\ d # i
  BY <1>2, Constants DEF Locked, Used, LocksDp, UnlinkEntry, Unlocked
<1>4. UNCHANGED <<up, ref, cwd, files, calls, lost>>
  BY DEF UnlinkEntry
<1>5. /\ ref \in [Inum -> Nat] /\ copy \in [Inum -> Metas \cup {Invalid}]
      /\ dinode \in [Inum -> Metas] /\ th \in [Process -> Threads]
      /\ lock \in [Inum -> Process \cup {0}]
      /\ ents \in [Inum -> [Name -> Maybe]]
  BY DEF IInv, StateOK
<1>6. CASE Loaded(i) /\ Goto(p, "panic") /\ UNCHANGED <<dinode, ents, lock>>
  <2>1. UNCHANGED disk
    BY <1>4, <1>6 DEF disk
  <2> QED
    BY <1>2, <1>4, <1>6, <2>1, PanicInv
<1>7. CASE /\ Typed(i) /\ Loaded(i)
           /\ Set(p, Put([th[p] EXCEPT !.ip = 0], i, "unlinkbad"))
           /\ UNCHANGED <<dinode, ents, lock>>
  <2> DEFINE s == [th[p] EXCEPT !.ip = 0]
             t == Put(s, i, "unlinkbad")
  <2>1. s \in Threads /\ s.at = 0 /\ s.dp = d /\ s.ip = 0
    BY <1>2 DEF Threads, Maybe
  <2>2. Set(p, t)
    BY <1>7
  <2> HIDE DEF s
  <2>3. "unlinkbad" \in Points \ Putting
    BY DEF Points, Putting
  <2>4. /\ t \in Threads /\ Place(t) = "unlinkbad" /\ t.pc = "iput" /\ t.put = i
        /\ t.ret = "unlinkbad" /\ t.at = 0 /\ t.dp = d /\ t.ip = 0
    BY <1>2, <2>1, <2>3, PutFields
  <2> HIDE DEF t
  <2>5. ~Linking(t)
    BY <2>4 DEF Linking
  <2>6. UNCHANGED disk
    BY <1>4, <1>7 DEF disk
  <2>7. Reads /\ \A j \in Inum : copy[j] # Invalid => copy'[j] # Invalid
    BY <1>2, <1>7, <2>6, LoadedReads
  <2>8. Local(t, cwd[p]) /\ Locked(p, t, lock') /\ Used(t, copy')
    BY <1>2, <1>3, <1>7, <2>4, <2>5, <2>7, Constants
       DEF Local, Locked, Used, Putting, HasDp, HasIp, LocksDp, LocksIp
  <2>9. \A j \in Inum : ref'[j] = ref[j] - Held(th[p], cwd[p], j) + Held(t, cwd[p], j)
    BY <1>2, <1>4, <1>5, <2>4, Constants DEF Held, One
  <2>10. /\ UNCHANGED <<disk, cwd, files, lost>> /\ NoPanic /\ calls' \in 0..MaxCalls
         /\ ref' \in [Inum -> Nat] /\ lock' \in [Inum -> Process \cup {0}]
         /\ t \in Threads /\ t.pc # "itrunc"
         /\ \A j \in Inum : lock[j] \in Process \ {p} => lock'[j] = lock[j]
    BY <1>2, <1>4, <1>5, <1>7, <2>4, <2>6 DEF IInv, StateOK
  <2> QED
    BY ONLY IInv, <2>2, <2>5, <2>7, <2>8, <2>9, <2>10, ReadInv
<1>8. CASE /\ Typed(i)
           /\ ents' = [ents EXCEPT ![d][n] = 0]
           /\ dinode' = IF dir THEN [dinode EXCEPT ![d] = less] ELSE dinode
           /\ copy' = [copy EXCEPT ![i] = Meta(i), ![d] = IF dir THEN less ELSE @]
           /\ lock' = [lock EXCEPT ![d] = 0, ![i] = p]
           /\ Set(p, Put([th[p] EXCEPT !.dp = 0], d, "unlinked"))
  <2> DEFINE s == [th[p] EXCEPT !.dp = 0]
             t == Put(s, d, "unlinked")
  <2>1. /\ Meta(i) \in Metas /\ Meta(i).type # Free /\ Invalid \notin Metas
        /\ copy[i] # Invalid => copy[i] = Meta(i)
        /\ Meta(i) = dinode[i]
    BY <1>2, <1>8, MetaType DEF IInv, Typed, Meta, Cached, Coherent
  <2>2. less \in Metas /\ less.type # Free
    <3>1. m \in Metas /\ m.type # Free
      BY <1>2, <1>3, CopyMeta
    <3>2. copy[d].nlink - 1 = copy[d].nlink + (-1)
      BY <1>2, <1>3, <1>5 DEF Metas
    <3> QED
      BY <3>1, <3>2
  <2> HIDE DEF less, dir, m
  <2>3. /\ dinode' \in [Inum -> Metas]
        /\ dinode'[d] = (IF dir THEN less ELSE dinode[d])
        /\ \A j \in Inum \ {d} : dinode'[j] = dinode[j]
    BY <1>2, <1>5, <1>8, <2>2
  <2>4. /\ copy' \in [Inum -> Metas \cup {Invalid}] /\ copy'[i] = Meta(i)
        /\ copy'[d] = (IF dir THEN less ELSE copy[d])
        /\ \A j \in Inum \ {i, d} : copy'[j] = copy[j]
    BY <1>2, <1>3, <1>5, <1>8, <2>1, <2>2
  <2>5. \A j \in Inum : copy[j] # Invalid => copy'[j] # Invalid
    BY <2>1, <2>2, <2>4
  <2>6. Cached'
    <3>1. Coherent'
      <4>1. copy'[i] = dinode'[i]
        BY <1>2, <1>3, <2>1, <2>3, <2>4
      <4>2. copy'[d] = dinode'[d]
        BY <1>2, <1>3, <2>3, <2>4 DEF IInv, Cached, Coherent
      <4>3. \A j \in Inum \ {i, d} : copy'[j] # Invalid => copy'[j] = dinode'[j]
        BY <2>3, <2>4 DEF IInv, Cached, Coherent
      <4> QED
        BY <4>1, <4>2, <4>3 DEF Coherent
    <3>2. \A j \in Inum : copy'[j] # Invalid => copy'[j].type # Free
      BY <1>2, <2>1, <2>2, <2>4 DEF IInv, Cached, NoPanic
    <3> QED
      BY <3>1, <3>2 DEF Cached
  <2>7. s \in Threads /\ s.at = 0 /\ s.dp = 0 /\ s.ip = i
    BY <1>2 DEF Threads, Maybe
  <2>8. th' = [th EXCEPT ![p] = t]
    BY <1>8 DEF Set
  <2> HIDE DEF s
  <2>9. "unlinked" \in Points \ Putting
    BY DEF Points, Putting
  <2>10. /\ t \in Threads /\ Place(t) = "unlinked" /\ t.pc = "iput" /\ t.put = d
         /\ t.ret = "unlinked" /\ t.at = 0 /\ t.dp = 0 /\ t.ip = i
    BY <1>2, <2>7, <2>9, PutFields
  <2> HIDE DEF t
  <2>11. ~Linking(t)
    BY <2>10 DEF Linking
  <2>12. /\ lock' \in [Inum -> Process \cup {0}] /\ lock'[i] = p
         /\ \A j \in Inum : lock[j] \in Process \ {p} => lock'[j] = lock[j]
    <3>1. /\ lock' = [lock EXCEPT ![d] = 0, ![i] = p] /\ 0 \notin Process
          /\ d \in Inum /\ i \in Inum /\ d # i /\ lock[d] = p /\ lock[i] = 0
      BY <1>2, <1>3, <1>8, Constants
    <3>2. /\ lock'[i] = p /\ lock'[d] = 0
          /\ \A j \in Inum \ {i, d} : lock'[j] = lock[j]
      BY <1>5, <3>1
    <3>3. lock' \in [Inum -> Process \cup {0}]
      BY <1>5, <3>1
    <3> QED
      BY <3>1, <3>2, <3>3
  <2>13. StateOK'
    <3>1. ents' \in [Inum -> [Name -> Maybe]]
      BY <1>2, <1>5, <1>8 DEF Maybe
    <3>2. th' \in [Process -> Threads]
      BY <1>5, <2>8, <2>10
    <3> QED
      BY <1>4, <2>3, <2>4, <2>12, <3>1, <3>2 DEF IInv, StateOK, files
  <2>14. Local(t, cwd[p]) /\ Locked(p, t, lock') /\ Used(t, copy')
    BY <1>2, <2>1, <2>4, <2>10, <2>11, <2>12, Constants
       DEF Local, Locked, Used, Putting, HasDp, HasIp, LocksDp, LocksIp
  <2>15. \A j \in Inum : ref'[j] = ref[j] - Held(th[p], cwd[p], j) + Held(t, cwd[p], j)
    BY <1>2, <1>4, <1>5, <2>10, Constants DEF Held, One
  <2>16. /\ \A j \in Inum : copy[j] # Invalid /\ copy'[j] = Invalid =>
              \A q \in Process \ {p} : th[q].pc # "panic" => ~Uses(th[q], j)
         /\ UNCHANGED <<cwd, files>> /\ t.pc # "itrunc"
    BY <1>4, <2>5, <2>10
  <2> QED
    BY ONLY IInv, <2>6, <2>8, <2>11, <2>12, <2>13, <2>14, <2>15, <2>16, StepInv
<1> QED
  BY <1>6, <1>7, <1>8 DEF UnlinkEntry

LEMMA ChdirInv ==
  ASSUME IInv, NEW p \in Process, Chdir(p)
  PROVE  IInv'
<1> DEFINE i == th[p].ip
           c == cwd[p]
           t == Put(Idle, c, "user")
<1>1. In(p, {"chdir"}) /\ {"chdir"} \subseteq HasIp \ (HasDp \cup {"iget"})
  BY DEF Chdir, At, HasIp, HasDp
<1>2. /\ NoPanic /\ th[p].pc = "chdir" /\ i \in Inum /\ c # 0
      /\ \A j \in Inum : Held(th[p], c, j) = One(c = j) + One(i = j)
  BY <1>1, HereIp
<1>3. UNCHANGED <<disk, ref, lock, files, calls, lost>> /\ Loaded(i)
      /\ lock' \in [Inum -> Process \cup {0}]
  BY DEF Chdir, IInv, StateOK
<1>4. CASE NoType(p, i) /\ UNCHANGED cwd
  BY <1>2, <1>3, <1>4, NoTypeInv
<1>5. CASE Typed(i) /\ EndPut(p, i) /\ UNCHANGED cwd
  <2>1. Reads
    BY <1>2, <1>3, <1>5 DEF Reads
  <2> QED
    BY <1>2, <1>3, <1>5, <2>1, EndPutInv
<1>6. CASE /\ Meta(i).type = DIR
           /\ cwd' = [cwd EXCEPT ![p] = i]
           /\ EndPut(p, c)
  <2>1. /\ th \in [Process -> Threads] /\ cwd \in [Process -> Maybe] /\ c \in Inum
        /\ ref \in [Inum -> Nat]
    BY <1>2 DEF IInv, StateOK, Maybe
  <2>2. Typed(i)
    BY <1>2, <1>6, MetaType DEF IInv
  <2>3. Reads
    BY <1>2, <1>3, <2>2 DEF Reads
  <2>4. /\ copy' \in [Inum -> Metas \cup {Invalid}] /\ Cached'
        /\ \A j \in Inum : copy[j] # Invalid => copy'[j] # Invalid
    BY <1>2, <1>3, <2>3, ReadsCached
  <2>5. /\ t.pc = "iput" /\ t.put = c /\ t.at = 0 /\ t.dp = 0 /\ t.ip = 0 /\ t.ret = "user"
    BY DEF Put, Idle
  <2>6. t \in Threads
    BY <2>1, IdleType, ZenonT(60) DEF Put, Threads, Points, Maybe
  <2>7. th' = [th EXCEPT ![p] = t]
    BY <1>6 DEF EndPut, Set
  <2> HIDE DEF t
  <2>8. /\ th'[p] = t /\ cwd'[p] = i
        /\ \A q \in Process \ {p} : th'[q] = th[q] /\ cwd'[q] = cwd[q]
    BY <1>6, <2>1, <2>7
  <2>9. StateOK'
    <3>1. th' \in [Process -> Threads] /\ cwd' \in [Process -> Maybe]
      BY <1>2, <1>6, <2>1, <2>6, <2>7 DEF Maybe
    <3> QED
      BY <1>3, <2>4, <3>1 DEF IInv, StateOK, files, disk
  <2>10. FilesOpen'
    <3>1. \A q \in Process : cwd'[q] = 0 => cwd[q] = 0
      BY <1>2, <2>8, Constants
    <3> QED
      BY <1>3, <3>1 DEF IInv, FilesOpen, files
  <2>11. RefsCounted'
    <3>1. ASSUME NEW j \in Inum
          PROVE  ref'[j] = ref[j] - Mine(p, j) + Mine(p, j)'
      <4>1. Mine(p, j) = One(c = j) + One(i = j)
        BY <1>2 DEF Mine
      <4>2. Mine(p, j)' = One(i = j) + One(c = j)
        BY <2>5, <2>8, Constants DEF Mine, Held, One
      <4> QED
        BY <1>3, <2>1, <4>1, <4>2 DEF One
    <3> QED
      BY <1>3, <2>1, <2>8, <3>1, StepRefs DEF IInv
  <2>12. Place(t) = "user" /\ ~Linking(t)
    BY <2>5 DEF Place, Putting, Linking
  <2>13. Local(t, cwd'[p]) /\ Locked(p, t, lock') /\ Used(t, copy')
    BY <1>2, <2>1, <2>5, <2>8, <2>12, Constants
       DEF Local, Locked, Used, Putting, HasDp, HasIp, LocksDp, LocksIp
  <2>14. /\ \A q \in Process \ {p} : cwd'[q] = cwd[q]
         /\ \A j \in Inum : lock[j] \in Process \ {p} => lock'[j] = lock[j]
         /\ t.pc # "itrunc" /\ NoPanic
    BY <1>2, <1>3, <2>5, <2>8
  <2> QED
    BY ONLY IInv, <2>4, <2>7, <2>9, <2>10, <2>11, <2>12, <2>13, <2>14, StepInvFiles
<1> QED
  BY <1>4, <1>5, <1>6, MetaType DEF Chdir

\* A process that is in no call, or between the parts of exit().
LEMMA HereUser ==
  ASSUME IInv, NEW p \in Process, In(p, {"user", "exit"})
  PROVE  /\ NoPanic /\ th[p] \in Threads /\ Place(th[p]) \in {"user", "exit"}
         /\ th[p].pc \in {"user", "exit"}
         /\ th[p].at = 0 /\ th[p].dp = 0 /\ th[p].ip = 0 /\ th[p].put = 0
         /\ th[p].ret \notin Putting \cup {"panic", "iget", "ialloc"}
         /\ \A c : \A i \in Inum : Held(th[p], c, i) = One(c = i)
<1>1. /\ NoPanic /\ th[p].pc \in {"user", "exit"} /\ th[p] \in Threads
      /\ Local(th[p], cwd[p])
  BY Here
<1>2. Place(th[p]) \in {"user", "exit"}
  BY <1>1 DEF Place, Putting
<1>3. /\ th[p].at = 0 /\ th[p].dp = 0 /\ th[p].ip = 0 /\ th[p].put = 0
      /\ th[p].ret \notin Putting \cup {"panic", "iget", "ialloc"}
  BY <1>1, <1>2 DEF Local, Putting, HasDp, HasIp
<1>4. ASSUME NEW c, NEW i \in Inum
      PROVE  Held(th[p], c, i) = One(c = i)
  BY <1>3, Constants DEF Held, One
<1> QED
  BY <1>1, <1>2, <1>3, <1>4

\* One process fewer has the file that p closes.
LEMMA ClosedHaving ==
  ASSUME IInv, NEW p \in Process, NEW f \in Files, file[p] = f,
         file' = [file EXCEPT ![p] = 0]
  PROVE  /\ ftable[f].ref \in Nat /\ ftable[f].ref >= 1
         /\ Cardinality({q \in Process : file'[q] = f}) = ftable[f].ref - 1
         /\ \A g \in Files \ {f} :
              Cardinality({q \in Process : file'[q] = g}) = ftable[g].ref
<1>1. file \in [Process -> Files \cup {0}] /\ 0 \notin Files
  BY DEF IInv, StateOK, Files
<1>2. IsFiniteSet(Having(f)) /\ Cardinality(Having(f)) = ftable[f].ref
  BY HavingCounted DEF IInv
<1>3. {q \in Process : file'[q] = f} = Having(f) \ {p} /\ p \in Having(f)
  BY <1>1 DEF Having
<1>4. Cardinality(Having(f) \ {p}) = Cardinality(Having(f)) - 1
  BY <1>2, <1>3, FS_RemoveElement
<1>5. Cardinality(Having(f)) \in Nat /\ Cardinality(Having(f)) # 0
  BY <1>2, <1>3, FS_CardinalityType, FS_EmptySet
<1>6. ASSUME NEW g \in Files \ {f}
      PROVE  Cardinality({q \in Process : file'[q] = g}) = ftable[g].ref
  <2>1. {q \in Process : file'[q] = g} = {q \in Process : file[q] = g}
    BY <1>1
  <2> QED
    BY <2>1 DEF IInv, RefsCounted
<1> QED
  BY <1>2, <1>3, <1>4, <1>5, <1>6, SMTT(30)

LEMMA FileCloseInv ==
  ASSUME IInv, NEW p \in Process, In(p, {"user", "exit"}), file[p] # 0,
         NEW l \in {"user", "exit"}, FileClose(p, l),
         UNCHANGED <<disk, icache, cwd, calls, lost>>
  PROVE  IInv'
<1> DEFINE f == file[p]
<1>1. /\ NoPanic /\ th[p] \in Threads /\ Place(th[p]) \in {"user", "exit"}
      /\ th[p].pc \in {"user", "exit"}
      /\ th[p].at = 0 /\ th[p].dp = 0 /\ th[p].ip = 0 /\ th[p].put = 0
      /\ th[p].ret \notin Putting \cup {"panic", "iget", "ialloc"}
      /\ \A c : \A i \in Inum : Held(th[p], c, i) = One(c = i)
  BY HereUser
<1>2. /\ th \in [Process -> Threads] /\ file \in [Process -> Files \cup {0}]
      /\ ftable \in [Files -> [ref : Nat, ip : Maybe]] /\ ref \in [Inum -> Nat]
      /\ lock \in [Inum -> Process \cup {0}] /\ f \in Files /\ cwd \in [Process -> Maybe]
  BY DEF IInv, StateOK
<1>3. cwd[p] # 0
  BY DEF IInv, FilesOpen
<1>4. file' = [file EXCEPT ![p] = 0]
  BY DEF FileClose
<1>5. /\ ftable[f].ref \in Nat /\ ftable[f].ref >= 1
      /\ Cardinality({q \in Process : file'[q] = f}) = ftable[f].ref - 1
      /\ \A g \in Files \ {f} : Cardinality({q \in Process : file'[q] = g}) = ftable[g].ref
  BY <1>2, <1>4, ClosedHaving
<1>6. ftable[f].ip \in Inum
  <2>1. ftable[f].ref # 0
    BY <1>5
  <2> QED
    BY <1>2, <2>1 DEF IInv, FilesOpen, Maybe
<1>7. UNCHANGED <<ref, copy, lock, dinode>> /\ Reads
  BY DEF icache, disk, Reads
<1>8. /\ copy' \in [Inum -> Metas \cup {Invalid}] /\ Cached'
      /\ \A i \in Inum : copy[i] # Invalid => copy'[i] # Invalid
  BY <1>1, <1>7, ReadsCached
<1>9. \A q \in Process : cwd'[q] = 0 => file'[q] = 0
  BY <1>2, <1>4 DEF IInv, FilesOpen
<1>10. file' \in [Process -> Files \cup {0}]
  BY <1>2, <1>4
<1>11. ASSUME NEW t \in Threads, Set(p, t), Place(t) = l, t.pc \in {l, "iput"},
              t.put # 0 <=> t.pc = "iput", t.ret \notin Putting \cup {"panic", "iget", "ialloc"},
              t.at = 0, t.dp = 0, t.ip = 0,
              NEW e \in [ref : Nat, ip : Maybe], ftable' = [ftable EXCEPT ![f] = e],
              e.ref = ftable[f].ref - 1, e.ref = 0 <=> e.ip = 0,
              \A i \in Inum : One(t.put = i) + One(e.ip = i) = One(ftable[f].ip = i)
       PROVE  IInv'
  <2>1. th' = [th EXCEPT ![p] = t]
    BY <1>11 DEF Set
  <2>2. /\ th'[p] = t /\ ftable'[f] = e
        /\ \A q \in Process \ {p} : th'[q] = th[q] /\ cwd'[q] = cwd[q]
        /\ \A g \in Files \ {f} : ftable'[g] = ftable[g]
    BY <1>2, <1>11, <2>1
  <2>3. StateOK'
    <3>1. th' \in [Process -> Threads] /\ ftable' \in [Files -> [ref : Nat, ip : Maybe]]
      BY <1>2, <1>11, <2>1
    <3> QED
      BY <1>7, <1>8, <1>10, <3>1 DEF IInv, StateOK, disk
  <2>4. FilesOpen'
    <3>1. ASSUME NEW g \in Files
          PROVE  ftable'[g].ref = 0 <=> ftable'[g].ip = 0
      <4>1. CASE g = f
        <5>1. ftable'[g] = e
          BY <2>2, <4>1
        <5>2. e.ref = 0 <=> e.ip = 0
          BY <1>11
        <5> QED
          BY <5>1, <5>2
      <4>2. CASE g # f
        BY <2>2, <4>2 DEF IInv, FilesOpen
      <4> QED
        BY <4>1, <4>2
    <3> QED
      BY <1>9, <3>1 DEF FilesOpen
  <2>5. ASSUME NEW i \in Inum
        PROVE  ref'[i] = Cardinality(Pointers(i))'
    <3>1. Mine(p, i) = One(cwd[p] = i)
      BY <1>1 DEF Mine
    <3>2. Mine(p, i)' = One(cwd[p] = i) + One(t.put = i)
      BY <1>11, <2>2, Constants DEF Mine, Held, One
    <3>3. ref'[i] = ref[i] - Mine(p, i) + Mine(p, i)'
                       - One(ftable[f].ip = i) + One(ftable'[f].ip = i)
      <4>1. One(t.put = i) + One(e.ip = i) = One(ftable[f].ip = i)
        BY <1>11
      <4>2. ref'[i] = ref[i] /\ ref[i] \in Nat
        BY <1>2, <1>7
      <4> QED
        BY <2>2, <3>1, <3>2, <4>1, <4>2 DEF One
    <3> QED
      BY <1>2, <2>2, <3>3, StepCounts DEF IInv
  <2>6. ASSUME NEW g \in Files
        PROVE  ftable'[g].ref = Cardinality({q \in Process : file'[q] = g})
    <3>1. CASE g = f
      BY <1>5, <1>11, <2>2, <3>1
    <3>2. CASE g # f
      BY <1>5, <2>2, <3>2
    <3> QED
      BY <3>1, <3>2
  <2>7. RefsCounted'
    BY <2>5, <2>6 DEF RefsCounted
  <2>8. ~Linking(t)
    BY <1>11 DEF Linking
  <2>9. Local(t, cwd'[p]) /\ Locked(p, t, lock') /\ Used(t, copy')
    BY <1>3, <1>11, <2>8 DEF Local, Locked, Used, Putting, HasDp, HasIp, LocksDp, LocksIp
  <2>10. /\ \A q \in Process \ {p} : cwd'[q] = cwd[q]
         /\ \A j \in Inum : lock[j] \in Process \ {p} => lock'[j] = lock[j]
         /\ t.pc # "itrunc" /\ NoPanic
    BY <1>1, <1>7, <1>11
  <2> QED
    BY ONLY IInv, <1>8, <2>1, <2>3, <2>4, <2>7, <2>8, <2>9, <2>10, StepInvFiles
<1>12. CASE /\ ftable[f].ref > 1
            /\ ftable' = [ftable EXCEPT ![f].ref = @ - 1]
            /\ Goto(p, l)
  <2> DEFINE t == [th[p] EXCEPT !.pc = l]
             e == [ftable[f] EXCEPT !.ref = @ - 1]
  <2>1. /\ t \in Threads /\ t.pc = l /\ t.at = 0 /\ t.dp = 0 /\ t.ip = 0 /\ t.put = 0
        /\ t.ret = th[p].ret
    BY <1>1 DEF Threads, Points
  <2>2. /\ e \in [ref : Nat, ip : Maybe] /\ e.ref = ftable[f].ref - 1
        /\ e.ip = ftable[f].ip
    BY <1>2, <1>5
  <2>3. Set(p, t) /\ ftable' = [ftable EXCEPT ![f] = e]
    BY <1>12 DEF Goto
  <2> HIDE DEF t, e
  <2>4. Place(t) = l
    BY <2>1 DEF Place, Putting
  <2>5. \A i \in Inum : One(t.put = i) + One(e.ip = i) = One(ftable[f].ip = i)
    BY <2>1, <2>2, Constants DEF One
  <2>6. e.ref = 0 <=> e.ip = 0
    BY <1>5, <1>6, <1>12, <2>2, Constants
  <2> QED
    BY <1>1, <1>11, <2>1, <2>2, <2>3, <2>4, <2>5, <2>6, ZenonT(60)
<1>13. CASE /\ ftable[f].ref = 1
            /\ ftable' = [ftable EXCEPT ![f] = NoFile]
            /\ Set(p, Put(th[p], ftable[f].ip, l))
  <2> DEFINE t == Put(th[p], ftable[f].ip, l)
  <2>1. l \in Points \ Putting
    BY DEF Points, Putting
  <2>2. /\ t \in Threads /\ Place(t) = l /\ t.pc = "iput" /\ t.put = ftable[f].ip
        /\ t.ret = l /\ t.at = 0 /\ t.dp = 0 /\ t.ip = 0
    BY <1>1, <1>6, <2>1, PutFields
  <2>3. Set(p, t)
    BY <1>13
  <2> HIDE DEF t
  <2>4. NoFile \in [ref : Nat, ip : Maybe] /\ NoFile.ref = ftable[f].ref - 1 /\ NoFile.ip = 0
        /\ (NoFile.ref = 0 <=> NoFile.ip = 0)
    BY <1>13 DEF NoFile, Maybe
  <2>5. \A i \in Inum : One(t.put = i) + One(NoFile.ip = i) = One(ftable[f].ip = i)
    BY <2>2, <2>4, Constants DEF One
  <2>6. /\ t.put # 0 <=> t.pc = "iput"
    BY <1>6, <2>2, Constants
  <2>7. t.ret \notin Putting \cup {"panic", "iget", "ialloc"}
    BY <2>2 DEF Putting
  <2> QED
    BY <1>11, <1>13, <2>2, <2>3, <2>4, <2>5, <2>6, <2>7
<1> QED
  BY <1>12, <1>13 DEF FileClose

LEMMA CloseInv ==
  ASSUME IInv, NEW p \in Process, Close(p)
  PROVE  IInv'
<1>1. /\ In(p, {"user", "exit"}) /\ file[p] # 0 /\ FileClose(p, "user")
      /\ UNCHANGED <<disk, icache, cwd, calls, lost>>
  BY DEF Close, At, In
<1> QED
  BY <1>1, FileCloseInv

LEMMA ExitInv ==
  ASSUME IInv, NEW p \in Process, Exit(p)
  PROVE  IInv'
<1> DEFINE c == cwd[p]
           t == Put(Idle, c, "user")
<1>1. In(p, {"user", "exit"}) /\ c # 0 /\ UNCHANGED <<disk, icache, calls, lost>>
  BY DEF Exit
<1>2. /\ NoPanic /\ th[p] \in Threads
      /\ \A i \in Inum : Held(th[p], c, i) = One(c = i)
  BY <1>1, HereUser
<1>3. CASE file[p] # 0 /\ FileClose(p, "exit") /\ UNCHANGED cwd
  BY <1>1, <1>3, FileCloseInv
<1>4. CASE /\ file[p] = 0
           /\ cwd' = [cwd EXCEPT ![p] = 0]
           /\ EndPut(p, c)
           /\ UNCHANGED files
  <2>1. /\ th \in [Process -> Threads] /\ cwd \in [Process -> Maybe] /\ c \in Inum
        /\ ref \in [Inum -> Nat]
    BY <1>1 DEF IInv, StateOK, Maybe
  <2>2. UNCHANGED <<ref, copy, lock, dinode>> /\ Reads
    BY <1>1 DEF icache, disk, Reads
  <2>3. /\ copy' \in [Inum -> Metas \cup {Invalid}] /\ Cached'
        /\ \A j \in Inum : copy[j] # Invalid => copy'[j] # Invalid
    BY <1>1, <1>2, <2>2, ReadsCached
  <2>4. /\ t.pc = "iput" /\ t.put = c /\ t.at = 0 /\ t.dp = 0 /\ t.ip = 0 /\ t.ret = "user"
    BY DEF Put, Idle
  <2>5. t \in Threads
    BY <2>1, IdleType, ZenonT(60) DEF Put, Threads, Points, Maybe
  <2>6. th' = [th EXCEPT ![p] = t]
    BY <1>4 DEF EndPut, Set
  <2> HIDE DEF t
  <2>7. /\ th'[p] = t /\ cwd'[p] = 0
        /\ \A q \in Process \ {p} : th'[q] = th[q] /\ cwd'[q] = cwd[q]
    BY <1>4, <2>1, <2>6
  <2>8. StateOK'
    <3>1. th' \in [Process -> Threads] /\ cwd' \in [Process -> Maybe]
      BY <1>4, <2>1, <2>5, <2>6 DEF Maybe
    <3> QED
      BY <1>1, <1>4, <2>2, <2>3, <3>1 DEF IInv, StateOK, files, disk
  <2>9. FilesOpen'
    BY <1>4, <2>7 DEF IInv, FilesOpen, files
  <2>10. RefsCounted'
    <3>1. ASSUME NEW j \in Inum
          PROVE  ref'[j] = ref[j] - Mine(p, j) + Mine(p, j)'
      <4>1. Mine(p, j) = One(c = j)
        BY <1>2 DEF Mine
      <4>2. Mine(p, j)' = One(c = j)
        BY <2>4, <2>7, Constants DEF Mine, Held, One
      <4> QED
        BY <2>1, <2>2, <4>1, <4>2 DEF One
    <3> QED
      BY <1>4, <2>1, <2>7, <3>1, StepRefs DEF IInv
  <2>11. Place(t) = "user" /\ ~Linking(t)
    BY <2>4 DEF Place, Putting, Linking
  <2>12. Local(t, cwd'[p]) /\ Locked(p, t, lock') /\ Used(t, copy')
    BY <1>1, <2>1, <2>4, <2>11, Constants
       DEF Local, Locked, Used, Putting, HasDp, HasIp, LocksDp, LocksIp
  <2>13. /\ \A q \in Process \ {p} : cwd'[q] = cwd[q]
         /\ \A j \in Inum : lock[j] \in Process \ {p} => lock'[j] = lock[j]
         /\ t.pc # "itrunc" /\ NoPanic
    BY <1>2, <2>2, <2>4, <2>7
  <2> QED
    BY ONLY IInv, <2>3, <2>6, <2>8, <2>9, <2>10, <2>11, <2>12, <2>13, StepInvFiles
<1> QED
  BY <1>3, <1>4 DEF Exit

LEMMA ForkInv ==
  ASSUME IInv, NEW p \in Process, Fork(p)
  PROVE  IInv'
<1> DEFINE c == cwd[p]
           f == file[p]
<1>1. c # 0 /\ Got(c) /\ UNCHANGED <<disk, copy, lock, th, calls, lost>>
  BY DEF Fork
<1>2. PICK q \in Process :
        /\ At(q, "user") /\ cwd[q] = 0
        /\ file' = [file EXCEPT ![q] = f]
        /\ ftable' = [g \in Files |-> IF g = f THEN [ftable[g] EXCEPT !.ref = @ + 1]
                                               ELSE ftable[g]]
        /\ cwd' = [cwd EXCEPT ![q] = c]
  BY DEF Fork
<1>3. /\ th \in [Process -> Threads] /\ cwd \in [Process -> Maybe] /\ c \in Inum
      /\ file \in [Process -> Files \cup {0}] /\ 0 \notin Files
      /\ ftable \in [Files -> [ref : Nat, ip : Maybe]] /\ ref \in [Inum -> Nat]
  BY <1>1 DEF IInv, StateOK, Maybe, Files
<1>4. In(q, {"user", "exit"})
  BY <1>2 DEF At, In
<1>5. \A j : \A i \in Inum : Held(th[q], j, i) = One(j = i)
  BY <1>4, HereUser
<1>6. /\ NoPanic /\ th[q].pc = "user" /\ Local(th[q], cwd[q])
  BY <1>2, Here DEF At
<1>7. /\ cwd'[q] = c /\ file'[q] = f /\ file[q] = 0
      /\ \A r \in Process \ {q} : cwd'[r] = cwd[r] /\ file'[r] = file[r]
      /\ \A g \in Files : ftable'[g].ip = ftable[g].ip
                          /\ ftable'[g].ref = ftable[g].ref + One(g = f)
  <2>1. file[q] = 0
    BY <1>2 DEF IInv, FilesOpen
  <2>2. ASSUME NEW g \in Files
        PROVE  ftable'[g].ip = ftable[g].ip /\ ftable'[g].ref = ftable[g].ref + One(g = f)
    <3>1. ftable[g] \in [ref : Nat, ip : Maybe]
      BY <1>3
    <3>2. ftable'[g] = IF g = f THEN [ftable[g] EXCEPT !.ref = @ + 1] ELSE ftable[g]
      BY <1>2
    <3> QED
      BY <3>1, <3>2 DEF One
  <2> QED
    BY <1>2, <1>3, <2>1, <2>2
<1>8. ref' \in [Inum -> Nat] /\ \A i \in Inum : ref'[i] = ref[i] + One(i = c)
  BY <1>1, <1>3, GotOne DEF IInv
<1>9. StateOK'
  <2>1. ftable' \in [Files -> [ref : Nat, ip : Maybe]]
    BY <1>2, <1>3
  <2>2. file' \in [Process -> Files \cup {0}] /\ cwd' \in [Process -> Maybe]
    BY <1>2, <1>3 DEF Maybe
  <2> QED
    BY <1>1, <1>8, <2>1, <2>2 DEF IInv, StateOK, disk
<1>10. ASSUME NEW r \in Process
       PROVE  Live(r)'
  <2>1. CASE r = q
    <3>1. Local(th[q], c)
      BY <1>1, <1>6 DEF Local
    <3>2. Locked(q, th[q], lock) /\ Used(th[q], copy)
      BY <1>6 DEF IInv, Live
    <3> QED
      BY <1>1, <1>7, <2>1, <3>1, <3>2 DEF Live
  <2>2. CASE r # q
    BY <1>1, <1>7, <2>2 DEF IInv, Live
  <2> QED
    BY <2>1, <2>2
<1>11. Truncating'
  BY <1>1 DEF IInv, Truncating
<1>12. Cached'
  <2>1. Reads
    BY <1>1 DEF Reads
  <2> QED
    BY <1>1, <1>6, <2>1, ReadsCached
<1>13. ASSUME NEW g \in Files
       PROVE  ftable'[g].ref = Cardinality({r \in Process : file'[r] = g})
  <2>1. IsFiniteSet(Having(g)) /\ Cardinality(Having(g)) = ftable[g].ref
    BY HavingCounted DEF IInv
  <2>2. CASE g = f
    <3>1. {r \in Process : file'[r] = g} = Having(g) \cup {q} /\ q \notin Having(g)
      BY <1>3, <1>7, <2>2 DEF Having
    <3>2. Cardinality(Having(g) \cup {q}) = Cardinality(Having(g)) + 1
      BY <2>1, <3>1, FS_AddElement
    <3> QED
      BY <1>7, <2>1, <2>2, <3>1, <3>2 DEF One
  <2>3. CASE g # f
    <3>1. {r \in Process : file'[r] = g} = Having(g)
      BY <1>3, <1>7, <2>3 DEF Having
    <3>2. ftable'[g].ref = ftable[g].ref
      BY <1>2, <2>3
    <3> QED
      BY <2>1, <3>1, <3>2
  <2> QED
    BY <2>2, <2>3
<1>14. ASSUME NEW i \in Inum
       PROVE  ref'[i] = Cardinality(Pointers(i))'
  <2>1. Cardinality(ByProcesses(i))' = Cardinality(ByProcesses(i)) - Mine(q, i) + Mine(q, i)'
    BY <1>1, <1>7, ProcessStep
  <2>2. ByFiles(i)' = ByFiles(i)
    BY <1>7, FileKinds DEF ByFiles, Pointers
  <2>3. Cardinality(Pointers(i)) = Cardinality(ByProcesses(i)) + Cardinality(ByFiles(i))
        /\ Cardinality(ByProcesses(i)) \in Nat /\ Cardinality(ByFiles(i)) \in Nat
    BY PointersSum
  <2>4. (Cardinality(Pointers(i)) = Cardinality(ByProcesses(i)) + Cardinality(ByFiles(i)))'
    BY PointersSumNext
  <2>5. Mine(q, i) = 0
    BY <1>2, <1>5, Constants DEF Mine, One
  <2>6. Mine(q, i)' = One(c = i)
    BY <1>1, <1>5, <1>7 DEF Mine
  <2>7. ref[i] = Cardinality(Pointers(i))
    BY DEF IInv, RefsCounted
  <2> QED
    BY <1>8, <2>1, <2>2, <2>3, <2>4, <2>5, <2>6, <2>7 DEF One
<1>15. RefsCounted'
  BY <1>13, <1>14 DEF RefsCounted
<1>16. FilesOpen'
  <2>1. ASSUME NEW g \in Files
        PROVE  ftable'[g].ref = 0 <=> ftable'[g].ip = 0
    <3>1. CASE g = f
      <4>1. ftable[g].ref # 0
        <5>1. p \in Having(g)
          BY <3>1 DEF Having
        <5>2. IsFiniteSet(Having(g)) /\ Cardinality(Having(g)) = ftable[g].ref
          BY HavingCounted DEF IInv
        <5> QED
          BY <5>1, <5>2, FS_EmptySet
      <4>2. ftable[g].ip # 0 /\ ftable[g].ref \in Nat
        BY <1>3, <4>1 DEF IInv, FilesOpen
      <4> QED
        BY <1>7, <3>1, <4>2 DEF One
    <3>2. CASE g # f
      <4>1. ftable'[g] = ftable[g]
        BY <1>2, <3>2
      <4> QED
        BY <4>1 DEF IInv, FilesOpen
    <3> QED
      BY <3>1, <3>2
  <2>2. \A r \in Process : cwd'[r] = 0 => file'[r] = 0
    BY <1>1, <1>7 DEF IInv, FilesOpen
  <2> QED
    BY <2>1, <2>2 DEF FilesOpen
<1> QED
  BY <1>9, <1>10, <1>11, <1>12, <1>15, <1>16 DEF IInv

(***************************************************************************)
(* The initial state, and the one after a crash.                           *)
(***************************************************************************)

Fresh ==
  /\ \A p \in Process : /\ th[p].pc = "user" /\ th[p].at = 0 /\ th[p].dp = 0
                        /\ th[p].ip = 0 /\ th[p].put = 0
                        /\ th[p].ret \notin Putting \cup {"panic", "iget", "ialloc"}
  /\ ref = [i \in Inum |-> IF i = ROOT THEN Cardinality(Process) ELSE 0]
  /\ copy = [i \in Inum |-> Invalid]
  /\ cwd = [p \in Process |-> ROOT]
  /\ file = [p \in Process |-> 0]
  /\ ftable = [f \in Files |-> NoFile]

LEMMA FreshInv ==
  Fresh /\ StateOK => IInv
<1> SUFFICES ASSUME Fresh, StateOK
             PROVE  IInv
  OBVIOUS
<1>1. ROOT \in Inum /\ 0 \notin Inum /\ ROOT # 0
  BY Constants
<1>2. ASSUME NEW p \in Process
      PROVE  Live(p)
  <2>1. th[p].pc = "user" /\ Place(th[p]) = "user" /\ ~Linking(th[p]) /\ th[p].ret \notin Putting \cup {"panic", "iget", "ialloc"}
    BY DEF Fresh, Place, Putting, Linking
  <2>2. th[p].at = 0 /\ th[p].dp = 0 /\ th[p].ip = 0 /\ th[p].put = 0
    BY DEF Fresh
  <2> QED
    BY <2>1, <2>2 DEF Live, Local, Locked, Used, Putting, HasDp, HasIp, LocksDp, LocksIp
<1>3. Truncating
  BY DEF Truncating, Fresh
<1>4. FilesOpen
  BY DEF FilesOpen, Fresh, NoFile
<1>5. Cached
  BY DEF Cached, Coherent, Fresh
<1>6. ASSUME NEW i \in Inum
      PROVE  ref[i] = Cardinality(Pointers(i))
  <2>1. /\ \A f \in Files : ftable[f].ip # i
        /\ \A p \in Process :
             /\ th[p].at # i /\ th[p].dp # i /\ th[p].ip # i /\ th[p].put # i
             /\ cwd[p] = ROOT
    BY <1>1 DEF Fresh, NoFile
  <2>4. /\ Pointers(i) \subseteq Process \X {"cwd"}
        /\ \A p \in Process : <<p, "cwd">> \in Pointers(i) <=> ROOT = i
    <3>1. ByFiles(i) = {}
      BY <2>1, FileKinds
    <3>2. Pointers(i) = ByProcesses(i)
      BY <3>1 DEF ByProcesses, ByFiles
    <3>3. ASSUME NEW s \in ByProcesses(i)
          PROVE  s \in Process \X {"cwd"}
      <4>1. PICK p \in Process, v \in Vars : s = <<p, v>>
        BY PointerKinds
      <4>2. v = "cwd" \/ v = "at" \/ v = "dp" \/ v = "ip" \/ v = "put"
        BY DEF Vars
      <4> QED
        BY <2>1, <4>1, <4>2, PointerKinds
    <3>4. \A p \in Process : <<p, "cwd">> \in ByProcesses(i) <=> ROOT = i
      BY <2>1, PointerKinds
    <3> QED
      BY <3>2, <3>3, <3>4
  <2>2. CASE i = ROOT
    <3>1. Pointers(i) = Process \X {"cwd"}
      BY <2>2, <2>4
    <3>2. IsFiniteSet({"cwd"}) /\ Cardinality({"cwd"}) = 1
      BY FS_Singleton
    <3>3. Cardinality(Process \X {"cwd"}) = Cardinality(Process) * Cardinality({"cwd"})
      BY <3>2, Constants, FS_Product
    <3>4. Cardinality(Process) \in Nat
      BY Constants, FS_CardinalityType
    <3> QED
      BY <2>2, <3>1, <3>2, <3>3, <3>4 DEF Fresh
  <2>3. CASE i # ROOT
    <3>1. Pointers(i) = {}
      BY <2>3, <2>4
    <3> QED
      BY <2>3, <3>1, FS_EmptySet DEF Fresh
  <2> QED
    BY <2>2, <2>3
<1>7. ASSUME NEW f \in Files
      PROVE  ftable[f].ref = Cardinality({p \in Process : file[p] = f})
  <2>1. {p \in Process : file[p] = f} = {}
    BY DEF Fresh, Files
  <2> QED
    BY <2>1, FS_EmptySet DEF Fresh, NoFile
<1>8. RefsCounted
  BY <1>6, <1>7 DEF RefsCounted
<1> QED
  BY <1>2, <1>3, <1>4, <1>5, <1>8 DEF IInv

LEMMA FreshInvNext == Fresh' /\ StateOK' => IInv'
BY FreshInv, PTL

LEMMA InitInv == Init => IInv
<1> SUFFICES ASSUME Init
             PROVE  IInv
  OBVIOUS
<1>1. Fresh
  BY DEF Init, Fresh, Idle, Putting
<1>2. StateOK
  <2>1. dinode \in [Inum -> Metas]
    BY DEF Init, Metas, Free, FILE, DIR, DEV
  <2>2. copy \in [Inum -> Metas \cup {Invalid}] /\ lock \in [Inum -> Process \cup {0}]
        /\ ents \in [Inum -> [Name -> Maybe]] /\ up \in [Inum -> Maybe]
        /\ cwd \in [Process -> Maybe] /\ file \in [Process -> Files \cup {0}]
    BY Constants DEF Init, Maybe
  <2>3. ref \in [Inum -> Nat]
    BY Constants, FS_CardinalityType DEF Init
  <2>4. th \in [Process -> Threads]
    BY IdleType DEF Init
  <2>5. ftable \in [Files -> [ref : Nat, ip : Maybe]]
    BY DEF Init, NoFile, Maybe
  <2>6. lost \subseteq Inum /\ calls \in 0..MaxCalls
    BY FsAssumption DEF Init
  <2> QED
    BY <2>1, <2>2, <2>3, <2>4, <2>5, <2>6 DEF StateOK
<1> QED
  BY <1>1, <1>2, FreshInv

LEMMA CrashInv ==
  ASSUME IInv, Crash
  PROVE  IInv'
<1>1. Fresh'
  <2>1. ASSUME NEW p \in Process
        PROVE  /\ th[p].pc = "user" /\ th[p].at = 0 /\ th[p].dp = 0
               /\ th[p].ip = 0 /\ th[p].put = 0
               /\ th[p].ret \notin Putting \cup {"panic", "iget", "ialloc"}
    <3>1. In(p, {"user", "exit"}) /\ th[p].pc = "user"
      BY DEF Crash, At, In
    <3> QED
      BY <3>1, HereUser
  <2> QED
    BY <2>1 DEF Crash, Fresh
<1>2. StateOK'
  <2>1. copy' \in [Inum -> Metas \cup {Invalid}]
        /\ cwd' \in [Process -> Maybe] /\ file' \in [Process -> Files \cup {0}]
    BY Constants DEF Crash, Maybe
  <2>2. ref' \in [Inum -> Nat]
    BY Constants, FS_CardinalityType DEF Crash
  <2>3. ftable' \in [Files -> [ref : Nat, ip : Maybe]]
    BY DEF Crash, NoFile, Maybe
  <2> QED
    BY <2>1, <2>2, <2>3 DEF Crash, IInv, StateOK, disk
<1> QED
  BY <1>1, <1>2, FreshInvNext

LEMMA Stutter ==
  ASSUME IInv, UNCHANGED vars
  PROVE  IInv'
<1>1. UNCHANGED <<dinode, ents, up, ref, copy, lock, th, cwd, file, ftable, calls, lost>>
  BY DEF vars, disk, icache, files
<1>2. StateOK' /\ Cached' /\ FilesOpen' /\ Truncating' /\ (\A p \in Process : Live(p)')
  BY <1>1 DEF IInv, StateOK, Cached, Coherent, FilesOpen, Truncating, Live
<1>3. \A i \in Inum : Pointers(i)' = Pointers(i)
  BY <1>1 DEF Pointers
<1>4. RefsCounted'
  BY <1>1, <1>3 DEF IInv, RefsCounted
<1> QED
  BY <1>2, <1>4 DEF IInv

LEMMA NextInv ==
  ASSUME IInv, [Next]_vars
  PROVE  IInv'
<1>1. ASSUME NEW p \in Process, Work(p)
      PROVE  IInv'
  BY <1>1, NamexElemInv, NamexEndInv, IputCheckInv, IputFreeInv, IputRefInv, OpenInv,
     ExecInv, CreateLookupInv, CreateExistsInv, IallocInv, IallocGetInv, CreateInv,
     CreatedInv, LinkOldInv, LinkWalkInv, LinkNewInv, LinkHasInv, LinkedInv, LinkBadInv,
     UnlinkLookupInv, UnlinkEntryInv, UnlinkBadInv, UnlinkedInv, ChdirInv DEF Work
<1>2. ASSUME NEW p \in Process, Panic(p)
      PROVE  IInv'
  BY <1>2, Stutter DEF Panic
<1> QED
  BY <1>1, <1>2, StartInv, CloseInv, ForkInv, ExitInv, CrashInv, Stutter DEF Next

\* The invariant that the theorems follow from.
LEMMA Invariance == Spec => []IInv
BY InitInv, NextInv, PTL DEF Spec

\* The history variables: whom a lookup has followed.
LEMMA HerePut ==
  ASSUME IInv, NEW p \in Process, At(p, "itrunc")
  PROVE  th[p].put \in Inum /\ th[p].pc = "itrunc"
<1>1. th[p].pc = "itrunc" /\ th[p] \in Threads /\ Local(th[p], cwd[p])
  BY Here DEF At
<1> QED
  BY <1>1 DEF Local, Putting, Threads, Maybe

LEMMA HistoryType ==
  ASSUME IInv, TypeOK, [Next]_vars
  PROVE  stale' \subseteq Inum /\ strayed' \in BOOLEAN /\ missed' \in [Process -> SUBSET Inum]
<1>1. stale \subseteq Inum /\ strayed \in BOOLEAN /\ missed \in [Process -> SUBSET Inum]
  BY DEF TypeOK
<1>2. CASE UNCHANGED vars
  BY <1>1, <1>2 DEF vars, history
<1>3. CASE Crash
  BY <1>1, <1>3 DEF Crash, history
<1>4. ASSUME NEW p \in Process, Start(p) \/ Panic(p) \/ Close(p) \/ Fork(p) \/ Exit(p)
      PROVE  UNCHANGED history
  BY <1>4 DEF Start, Panic, Close, Fork, Exit, vars
<1>5. ASSUME NEW p \in Process, Work(p)
      PROVE  /\ stale' \subseteq Inum /\ strayed' \in BOOLEAN
             /\ missed' \in [Process -> SUBSET Inum]
  <2>1. CASE NamexElem(p) \/ CreateLookup(p) \/ LinkNew(p)
    BY <1>1, <2>1 DEF NamexElem, CreateLookup, LinkNew, Follows, history
  <2>2. CASE IputCheck(p) \/ IputFree(p)
    <3>1. IputFree(p) => th[p].put \in Inum
      BY HerePut DEF IputFree
    <3> QED
      BY <1>1, <2>2, <3>1 DEF IputCheck, IputFree
  <2>3. CASE Ialloc(p)
    BY <1>1, <2>3 DEF Ialloc
  <2>4. CASE /\ ~(NamexElem(p) \/ CreateLookup(p) \/ LinkNew(p))
             /\ ~(IputCheck(p) \/ IputFree(p) \/ Ialloc(p))
    <3>1. UNCHANGED history
      BY <1>5, <2>4 DEF Work, NamexEnd, IputRef, Open, Exec, CreateExists,
         IallocGet, Create, Created, LinkOld, LinkWalk, LinkHas, Linked, LinkBad,
         UnlinkLookup, UnlinkEntry, UnlinkBad, Unlinked, Chdir
    <3> QED
      BY <1>1, <3>1 DEF history
  <2> QED
    BY <2>1, <2>2, <2>3, <2>4
<1> QED
  BY <1>1, <1>2, <1>3, <1>4, <1>5 DEF Next, history

(***************************************************************************)
(* Link counts: the invariant.                                             *)
(***************************************************************************)

\* The inode that ialloc has given to p, and create has not linked yet.
Creating(t) == t.pc \in {"iget", "create"}

\* i is in use: create has it linked, or a crash has kept it.
Settled(i) ==
  dinode[i].type # Free /\ \A p \in Process : Creating(th[p]) => th[p].ip # i

\* Nobody frees it, so it can be locked and read.
Firm(i) == Settled(i) /\ \A p \in Process : th[p].pc = "itrunc" => th[p].put # i

\* t, with the current directory c, goes on with i: as iputref does not.
Holds(t, c, i) ==
  \/ c = i \/ t.at = i \/ t.dp = i
  \/ ~Creating(t) /\ t.ip = i
  \/ t.pc = "iput" /\ t.put = i

\* nlink of t.ip counts a link that link() has not made yet, or that unlink has
\* erased.
Pending(t) ==
  \/ Place(t) \in {"linkwalk", "linknew", "linkhas", "linkbad", "unlinked"}
  \/ Place(t) = "namex" /\ t.ip # 0
Pends(i) == {p \in Process : Pending(th[p]) /\ th[p].ip = i}

Counted(i) ==
  /\ dinode[i].nlink >= Links(i) + Cardinality(Pends(i))
  /\ i \notin lost => dinode[i].nlink = Links(i) + Cardinality(Pends(i))

\* What p has found in the directory that it has locked since.
Named(t) ==
  /\ Place(t) \in {"ialloc", "iget", "create"} =>
       Head(t.rest) \in Name /\ ents[t.dp][Head(t.rest)] = 0
  /\ Place(t) = "unlinkip" => Head(t.rest) \in Name /\ ents[t.dp][Head(t.rest)] = t.ip
  /\ t.dp # 0 => dinode[t.dp].type = DIR
  /\ Linking(t) => dinode[t.ip].type # DIR
  /\ t.ret # "create"

\* The directories; a free inode has no links.
Shape ==
  /\ \A d \in Inum, n \in Name : ents[d][n] # 0 => dinode[d].type = DIR
  /\ \A i \in Inum : dinode[i].type = Free => dinode[i].nlink = 0
  /\ \A d \in Inum : dinode[d].type = DIR /\ Settled(d) => up[d] # 0

\* What can be reached is not free.
Firmly ==
  /\ \A d, i \in Inum : up[d] = i /\ d \notin stale => Firm(i)
  /\ \A p \in Process, i \in Inum : Holds(th[p], cwd[p], i) => Firm(i)
  /\ \A f \in Files, i \in Inum : ftable[f].ip = i => Firm(i)

\* iput frees an inode that has no links, and no ".." leads to any more.
Unlinking ==
  \A p \in Process, i \in Inum : th[p].pc = "itrunc" /\ th[p].put = i =>
    /\ Settled(i) /\ dinode[i].nlink = 0
    /\ \A d \in Inum : up[d] = i => d \in stale

\* The inodes of ialloc are new, and different.
Allocated ==
  \A p \in Process, i \in Inum : Creating(th[p]) /\ th[p].ip = i =>
    /\ dinode[i].type = NewType(p) /\ dinode[i].nlink = 0
    /\ \A q \in Process \ {p} : Creating(th[q]) => th[q].ip # i

Sound ==
  /\ Shape /\ Firmly /\ Unlinking /\ Allocated
  /\ \A i \in Inum : Counted(i)
  /\ \A p \in Process : Named(th[p])

\* What a scan of ialloc has passed is in use, or was freed behind it.
Scans ==
  \A q \in Process, i \in Inum :
    th[q].pc = "ialloc" /\ i <= th[q].inum /\ dinode[i].type = Free => i \in missed[q]

LinkInv ==
  /\ LinksCover /\ PanicsAfterScan
  /\ ~strayed /\ NoPanic => Sound /\ Scans

(***************************************************************************)
(* Counting links.                                                         *)
(***************************************************************************)

LEMMA Tally ==
  \A i \in Inum :
    /\ IsFiniteSet(Entries(i)) /\ Cardinality(Entries(i)) \in Nat
    /\ IsFiniteSet(Subdirs(i)) /\ Cardinality(Subdirs(i)) \in Nat
    /\ IsFiniteSet(Pends(i)) /\ Cardinality(Pends(i)) \in Nat
    /\ Links(i) \in Nat
<1> SUFFICES ASSUME NEW i \in Inum
             PROVE  /\ IsFiniteSet(Entries(i)) /\ Cardinality(Entries(i)) \in Nat
                    /\ IsFiniteSet(Subdirs(i)) /\ Cardinality(Subdirs(i)) \in Nat
                    /\ IsFiniteSet(Pends(i)) /\ Cardinality(Pends(i)) \in Nat
                    /\ Links(i) \in Nat
  OBVIOUS
<1>1. IsFiniteSet(Inum \X Name) /\ IsFiniteSet(Name) /\ IsFiniteSet(Process)
  BY FsAssumption, FS_Product
<1>2. Entries(i) \subseteq Inum \X Name /\ Subdirs(i) \subseteq Name /\ Pends(i) \subseteq Process
  BY DEF Entries, Subdirs, Pends
<1>3. IsFiniteSet(Entries(i)) /\ IsFiniteSet(Subdirs(i)) /\ IsFiniteSet(Pends(i))
  BY <1>1, <1>2, FS_Subset
<1>4. /\ Cardinality(Entries(i)) \in Nat /\ Cardinality(Subdirs(i)) \in Nat
      /\ Cardinality(Pends(i)) \in Nat
  BY <1>3, FS_CardinalityType
<1> QED
  BY <1>3, <1>4 DEF Links

LEMMA TallyNext ==
  \A i \in Inum :
    /\ Cardinality(Entries(i))' \in Nat /\ Cardinality(Subdirs(i))' \in Nat
    /\ Cardinality(Pends(i))' \in Nat
<1>1. (\A i \in Inum :
         /\ IsFiniteSet(Entries(i)) /\ Cardinality(Entries(i)) \in Nat
         /\ IsFiniteSet(Subdirs(i)) /\ Cardinality(Subdirs(i)) \in Nat
         /\ IsFiniteSet(Pends(i)) /\ Cardinality(Pends(i)) \in Nat
         /\ Links(i) \in Nat)'
  BY Tally, PTL
<1> QED
  BY <1>1

\* One element changes.
LEMMA SwapOne ==
  ASSUME NEW S, NEW T, NEW x, IsFiniteSet(S), T \ {x} = S \ {x}
  PROVE  Cardinality(T) = Cardinality(S) - One(x \in S) + One(x \in T)
<1>1. Cardinality(S) \in Nat
  BY FS_CardinalityType
<1>2. CASE x \in S /\ x \in T
  BY <1>1, <1>2, T = S DEF One
<1>3. CASE x \notin S /\ x \notin T
  BY <1>1, <1>3, T = S DEF One
<1>4. CASE x \in S /\ x \notin T
  <2>1. T = S \ {x}
    BY <1>4
  <2> QED
    BY <1>1, <1>4, <2>1, FS_RemoveElement DEF One
<1>5. CASE x \notin S /\ x \in T
  <2>1. T = S \cup {x}
    BY <1>5
  <2> QED
    BY <1>1, <1>5, <2>1, FS_AddElement DEF One
<1> QED
  BY <1>2, <1>3, <1>4, <1>5

\* A step of p changes what p owes.
LEMMA PendStep ==
  ASSUME NEW p \in Process, \A q \in Process \ {p} : th'[q] = th[q],
         NEW i \in Inum
  PROVE  Cardinality(Pends(i))' =
           Cardinality(Pends(i)) - One(Pending(th[p]) /\ th[p].ip = i)
             + One(Pending(th'[p]) /\ th'[p].ip = i)
<1>1. Pends(i)' \ {p} = Pends(i) \ {p}
  BY DEF Pends
<1>2. /\ p \in Pends(i) <=> Pending(th[p]) /\ th[p].ip = i
      /\ p \in Pends(i)' <=> Pending(th'[p]) /\ th'[p].ip = i
  BY DEF Pends
<1>3. Cardinality(Pends(i)') = Cardinality(Pends(i)) - One(p \in Pends(i)) + One(p \in Pends(i)')
  BY <1>1, Tally, SwapOne
<1> QED
  BY <1>2, <1>3 DEF One

\* An entry is written, or erased with 0.
Written(d, n, k) == ents' = [ents EXCEPT ![d][n] = k]

LEMMA EntryStep ==
  ASSUME StateOK, \A j \in Inum : dinode'[j].type = dinode[j].type,
         NEW d \in Inum, NEW n \in Name, NEW k \in Maybe, dinode[d].type = DIR,
         Written(d, n, k),
         NEW i \in Inum
  PROVE  /\ Cardinality(Entries(i))' =
              Cardinality(Entries(i)) - One(ents[d][n] = i) + One(k = i)
         /\ Cardinality(Subdirs(i))' =
              Cardinality(Subdirs(i))
                - One(i = d /\ ents[d][n] # 0 /\ dinode[ents[d][n]].type = DIR)
                + One(i = d /\ k # 0 /\ dinode[k].type = DIR)
<1>1. /\ ents \in [Inum -> [Name -> Maybe]]
      /\ \A e \in Inum, m \in Name : ents'[e][m] = IF e = d /\ m = n THEN k ELSE ents[e][m]
  BY DEF StateOK, Written
<1>2. Entries(i)' \ {<<d, n>>} = Entries(i) \ {<<d, n>>}
  BY <1>1 DEF Entries
<1>3. <<d, n>> \in Entries(i) <=> ents[d][n] = i
  BY DEF Entries
<1>4. <<d, n>> \in Entries(i)' <=> k = i
  BY <1>1 DEF Entries
<1>5. Cardinality(Entries(i)') =
        Cardinality(Entries(i)) - One(<<d, n>> \in Entries(i)) + One(<<d, n>> \in Entries(i)')
  BY <1>2, Tally, SwapOne
<1>6. Subdirs(i)' = {m \in Name : ents'[i][m] # 0 /\ dinode[ents'[i][m]].type = DIR}
  <2>1. \A m \in Name : ents'[i][m] \in Maybe
    BY <1>1
  <2>2. \A m \in Name : ents'[i][m] # 0 => dinode'[ents'[i][m]].type = dinode[ents'[i][m]].type
    BY <2>1 DEF Maybe
  <2> QED
    BY <2>2 DEF Subdirs
<1>7. CASE i = d
  <2>1. Subdirs(i)' \ {n} = Subdirs(i) \ {n}
    BY <1>1, <1>6 DEF Subdirs
  <2>2. n \in Subdirs(i) <=> ents[d][n] # 0 /\ dinode[ents[d][n]].type = DIR
    BY <1>7 DEF Subdirs
  <2>3. n \in Subdirs(i)' <=> k # 0 /\ dinode[k].type = DIR
    BY <1>1, <1>6, <1>7
  <2>4. Cardinality(Subdirs(i)') =
          Cardinality(Subdirs(i)) - One(n \in Subdirs(i)) + One(n \in Subdirs(i)')
    BY <2>1, Tally, SwapOne
  <2> QED
    BY <1>3, <1>4, <1>5, <1>7, <2>2, <2>3, <2>4 DEF One
<1>8. CASE i # d
  <2>1. Subdirs(i)' = Subdirs(i)
    BY <1>1, <1>6, <1>8 DEF Subdirs
  <2>2. Cardinality(Subdirs(i)) \in Nat
    BY Tally
  <2> QED
    BY <1>3, <1>4, <1>5, <1>8, <2>1, <2>2 DEF One
<1> QED
  BY <1>7, <1>8

\* The sum stays right.
LEMMA CountStep ==
  ASSUME NEW i \in Inum, Counted(i), StateOK, lost' = lost,
         NEW e \in Int, NEW s \in Int, NEW w \in Int,
         Cardinality(Entries(i))' = Cardinality(Entries(i)) + e,
         Cardinality(Subdirs(i))' = Cardinality(Subdirs(i)) + s,
         Cardinality(Pends(i))' = Cardinality(Pends(i)) + w,
         dinode'[i].nlink = dinode[i].nlink + e + s + w
  PROVE  Counted(i)'
<1>1. /\ Cardinality(Entries(i)) \in Nat /\ Cardinality(Subdirs(i)) \in Nat
      /\ Cardinality(Pends(i)) \in Nat
  BY Tally
<1>2. dinode[i].nlink \in Int
  BY DEF StateOK, Metas
<1>3. Links(i)' = Links(i) + e + s /\ Links(i) \in Int
  BY <1>1 DEF Links
<1> HIDE DEF Links
<1> QED
  BY <1>1, <1>2, <1>3 DEF Counted

LEMMA SameEntries ==
  ASSUME UNCHANGED ents, \A j \in Inum : dinode'[j].type = dinode[j].type, StateOK,
         NEW i \in Inum
  PROVE  Entries(i)' = Entries(i) /\ Subdirs(i)' = Subdirs(i)
<1>1. Entries(i)' = Entries(i)
  BY DEF Entries
<1>2. \A n \in Name : ents[i][n] \in Maybe
  BY DEF StateOK
<1>3. \A n \in Name : ents[i][n] # 0 => dinode'[ents[i][n]].type = dinode[ents[i][n]].type
  BY <1>2 DEF Maybe
<1>4. Subdirs(i)' = Subdirs(i)
  BY <1>3 DEF Subdirs
<1> QED
  BY <1>1, <1>4

(***************************************************************************)
(* What a lookup finds.                                                    *)
(***************************************************************************)

\* An inode that has links is neither free, nor new, nor being freed.
LEMMA LinkedFirm ==
  ASSUME StateOK, Sound, NEW i \in Inum, Links(i) >= 1
  PROVE  Firm(i) /\ dinode[i].nlink >= 1
<1>1. Cardinality(Pends(i)) \in Nat /\ Links(i) \in Nat
  BY Tally
<1>2. dinode[i].nlink >= 1
  BY <1>1 DEF Sound, Counted, StateOK, Metas
<1>3. dinode[i].type # Free
  BY <1>2 DEF Sound, Shape
<1>4. \A p \in Process : Creating(th[p]) => th[p].ip # i
  BY <1>2 DEF Sound, Allocated
<1>5. \A p \in Process : th[p].pc = "itrunc" => th[p].put # i
  BY <1>2 DEF Sound, Unlinking
<1> QED
  BY <1>2, <1>3, <1>4, <1>5 DEF Firm, Settled

LEMMA EntryFirm ==
  ASSUME StateOK, Sound, NEW d \in Inum, NEW n \in Name, ents[d][n] # 0
  PROVE  /\ ents[d][n] \in Inum /\ Firm(ents[d][n])
         /\ dinode[ents[d][n]].nlink >= 1 /\ Links(ents[d][n]) >= 1
<1> DEFINE i == ents[d][n]
<1>1. i \in Inum /\ dinode[d].type = DIR
  BY DEF StateOK, Maybe, Sound, Shape
<1>2. <<d, n>> \in Entries(i)
  BY <1>1 DEF Entries
<1>3. Cardinality(Entries(i)) >= 1
  <2>1. Cardinality(Entries(i)) # 0
    BY <1>1, <1>2, Tally, FS_EmptySet
  <2> QED
    BY <1>1, <2>1, Tally
<1>4. Links(i) >= 1
  BY <1>1, <1>3, Tally DEF Links
<1> QED
  BY <1>1, <1>4, LinkedFirm

LEMMA RootFirm ==
  ASSUME StateOK, Sound
  PROVE  ROOT \in Inum /\ Firm(ROOT)
<1>1. ROOT \in Inum
  BY Constants
<1>2. Links(ROOT) >= 1
  BY <1>1, Tally DEF Links
<1> QED
  BY <1>1, <1>2, LinkedFirm

\* But for the ".." of a removed directory, a lookup finds what is there to stay.
LEMMA LookupFirm ==
  ASSUME StateOK, Sound, NEW d \in Inum, Firm(d), NEW n \in Element,
         Lookup(d, n) # 0, n = ".." => d \notin stale
  PROVE  Lookup(d, n) \in Inum /\ Firm(Lookup(d, n))
<1>1. CASE n = "."
  BY <1>1 DEF Lookup
<1>2. CASE n = ".."
  BY <1>2 DEF Lookup, Sound, Firmly, StateOK, Maybe
<1>3. CASE n \in Name /\ n # "." /\ n # ".."
  BY <1>3, EntryFirm DEF Lookup
<1> QED
  BY <1>1, <1>2, <1>3 DEF Element

\* ilock finds what the disk says.
LEMMA FirmTyped ==
  ASSUME IInv, NEW i \in Inum, dinode[i].type # Free
  PROVE  Meta(i) = dinode[i] /\ Typed(i)
BY DEF IInv, Cached, Coherent, Meta, Typed

\* What the invariant says of a process that goes on.
LEMMA Standing ==
  ASSUME IInv, Sound, NEW p \in Process
  PROVE  /\ Named(th[p]) /\ th[p] \in Threads /\ cwd[p] \in Maybe
         /\ \A i \in Inum : Holds(th[p], cwd[p], i) => Firm(i) /\ dinode[i].type # Free
BY DEF Sound, Firmly, Firm, Settled, IInv, StateOK

(***************************************************************************)
(* A step of p.                                                            *)
(***************************************************************************)

\* Nobody begins to free an inode or to create one, and none changes its type.
LEMMA FirmStep ==
  ASSUME NEW p \in Process, \A q \in Process \ {p} : th'[q] = th[q],
         ~Creating(th'[p]), th'[p].pc # "itrunc",
         NEW i \in Inum, dinode'[i].type = dinode[i].type
  PROVE  /\ Firm(i) => Firm(i)'
         /\ Settled(i) => Settled(i)'
         /\ ~Creating(th[p]) => (Settled(i)' => Settled(i))
BY DEF Firm, Settled

\* The inodes that change are in use.
LEMMA StepSound ==
  ASSUME IInv, Sound, NEW p \in Process, \A q \in Process \ {p} : th'[q] = th[q],
         UNCHANGED <<up, stale>>,
         \A q \in Process \ {p} : cwd'[q] = cwd[q],
         ~Creating(th[p]), ~Creating(th'[p]), th'[p].pc # "itrunc",
         \A i \in Inum : dinode'[i].type = dinode[i].type,
         \A i \in Inum : dinode'[i] # dinode[i] => Firm(i),
         \A d \in Inum, n \in Name : ents'[d][n] # 0 => ents[d][n] # 0 \/ dinode[d].type = DIR,
         \A i \in Inum : Holds(th'[p], cwd'[p], i) => Firm(i),
         \A f \in Files, i \in Inum : ftable'[f].ip = i => Firm(i),
         \A i \in Inum : Counted(i)',
         \A q \in Process : Named(th[q])'
  PROVE  Sound'
<1>1. \A i \in Inum : /\ Firm(i) => Firm(i)'
                      /\ Settled(i)' <=> Settled(i)
  BY FirmStep
<1>2. Shape'
  <2>1. \A d \in Inum, n \in Name : ents'[d][n] # 0 => dinode'[d].type = DIR
    BY DEF Sound, Shape
  <2>2. ASSUME NEW i \in Inum, dinode'[i].type = Free
        PROVE  dinode'[i].nlink = 0
    <3>1. dinode[i].type = Free
      BY <2>2
    <3>2. ~Firm(i)
      BY <3>1 DEF Firm, Settled
    <3> QED
      BY <3>1, <3>2 DEF Sound, Shape
  <2>3. \A d \in Inum : dinode'[d].type = DIR /\ Settled(d)' => up'[d] # 0
    BY <1>1 DEF Sound, Shape
  <2> QED
    BY <2>1, <2>2, <2>3 DEF Shape
<1>3. Firmly'
  <2>1. ASSUME NEW d \in Inum, NEW i \in Inum, up'[d] = i, d \notin stale'
        PROVE  Firm(i)'
    BY <1>1, <2>1 DEF Sound, Firmly
  <2>2. ASSUME NEW q \in Process, NEW i \in Inum, Holds(th'[q], cwd'[q], i)
        PROVE  Firm(i)'
    <3>1. Firm(i)
      BY <2>2 DEF Sound, Firmly
    <3> QED
      BY <1>1, <3>1
  <2>3. ASSUME NEW f \in Files, NEW i \in Inum, ftable'[f].ip = i
        PROVE  Firm(i)'
    BY <1>1, <2>3
  <2>4. (\A q \in Process, i \in Inum : Holds(th[q], cwd[q], i) => Firm(i))'
    BY <2>2 DEF Holds, Creating
  <2> QED
    BY <2>1, <2>3, <2>4 DEF Firmly
<1>4. Unlinking'
  <2> SUFFICES ASSUME NEW q \in Process, NEW i \in Inum,
                      th'[q].pc = "itrunc", th'[q].put = i
               PROVE  /\ Settled(i)' /\ dinode'[i].nlink = 0
                      /\ \A d \in Inum : up'[d] = i => d \in stale'
    BY DEF Unlinking
  <2>1. th'[q] = th[q] /\ th[q].pc = "itrunc" /\ th[q].put = i
    OBVIOUS
  <2>2. /\ Settled(i) /\ dinode[i].nlink = 0
        /\ \A d \in Inum : up[d] = i => d \in stale
    BY <2>1 DEF Sound, Unlinking
  <2>3. ~Firm(i)
    BY <2>1 DEF Firm
  <2> QED
    BY <1>1, <2>2, <2>3
<1>5. Allocated'
  <2> SUFFICES ASSUME NEW q \in Process, NEW i \in Inum, Creating(th'[q]), th'[q].ip = i
               PROVE  /\ dinode'[i].type = NewType(q)' /\ dinode'[i].nlink = 0
                      /\ \A r \in Process \ {q} : Creating(th'[r]) => th'[r].ip # i
    BY DEF Allocated, Creating
  <2>1. q # p /\ th'[q] = th[q] /\ Creating(th[q]) /\ th[q].ip = i
    BY DEF Creating
  <2>2. /\ dinode[i].type = NewType(q) /\ dinode[i].nlink = 0
        /\ \A r \in Process \ {q} : Creating(th[r]) => th[r].ip # i
    BY <2>1 DEF Sound, Allocated
  <2>3. ~Firm(i)
    BY <2>1 DEF Firm, Settled
  <2>4. NewType(q)' = NewType(q)
    BY <2>1 DEF NewType
  <2> QED
    BY <2>1, <2>2, <2>3, <2>4
<1> QED
  BY <1>2, <1>3, <1>4, <1>5 DEF Sound

\* A step that leaves the disk alone.
LEMMA QuietStep ==
  ASSUME IInv, Sound, NEW p \in Process, NEW t, Set(p, t),
         UNCHANGED <<disk, lost, stale>>,
         \A q \in Process \ {p} : cwd'[q] = cwd[q],
         ~Creating(th[p]), ~Creating(t), t.pc # "itrunc",
         Pending(t) <=> Pending(th[p]), Pending(t) => t.ip = th[p].ip,
         \A i \in Inum : Holds(t, cwd'[p], i) => Firm(i),
         \A f \in Files, i \in Inum : ftable'[f].ip = i => Firm(i),
         Named(t)
  PROVE  Sound'
<1>1. th'[p] = t /\ \A q \in Process \ {p} : th'[q] = th[q]
  BY DEF Set, IInv, StateOK
<1>2. UNCHANGED <<dinode, ents, up, stale, lost>>
  BY DEF disk
<1>3. ASSUME NEW i \in Inum
      PROVE  Counted(i)'
  <2>1. Cardinality(Pends(i))' = Cardinality(Pends(i))
    BY <1>1, PendStep, Tally DEF One
  <2>2. Entries(i)' = Entries(i) /\ Subdirs(i)' = Subdirs(i)
    BY <1>2, SameEntries DEF IInv
  <2> QED
    BY <1>2, <2>1, <2>2 DEF Sound, Counted, Links
<1>4. \A q \in Process : Named(th[q])'
  BY <1>1, <1>2 DEF Sound, Named
<1> QED
  BY <1>1, <1>2, <1>3, <1>4, StepSound

(***************************************************************************)
(* The steps that leave the disk alone.                                    *)
(***************************************************************************)

LEMMA FilesFirm ==
  ASSUME Sound, UNCHANGED files
  PROVE  \A f \in Files, i \in Inum : ftable'[f].ip = i => Firm(i)
BY DEF Sound, Firmly, files

LEMMA CwdFirm ==
  ASSUME Sound, NEW p \in Process, UNCHANGED cwd
  PROVE  \A i \in Inum : cwd'[p] = i => Firm(i)
BY DEF Sound, Firmly, Holds

\* The end of a call.
LEMMA EndPutQuiet ==
  ASSUME IInv, Sound, NEW p \in Process, NEW k \in Inum, EndPut(p, k), Firm(k),
         UNCHANGED <<disk, lost, stale>>,
         \A q \in Process \ {p} : cwd'[q] = cwd[q],
         \A i \in Inum : cwd'[p] = i => Firm(i),
         \A f \in Files, i \in Inum : ftable'[f].ip = i => Firm(i),
         ~Creating(th[p]), ~Pending(th[p])
  PROVE  Sound'
<1> DEFINE t == Put(Idle, k, "user")
<1>1. /\ t.pc = "iput" /\ t.put = k /\ t.at = 0 /\ t.dp = 0 /\ t.ip = 0 /\ t.ret = "user"
  BY DEF Put, Idle
<1>2. Set(p, t)
  BY DEF EndPut
<1> HIDE DEF t
<1>3. Place(t) = "user"
  BY <1>1 DEF Place, Putting
<1>4. ~Creating(t) /\ ~Pending(t) /\ t.pc # "itrunc" /\ ~Linking(t)
  BY <1>1, <1>3 DEF Creating, Pending, Linking
<1>5. Named(t)
  BY <1>1, <1>3, <1>4 DEF Named
<1>6. \A i \in Inum : Holds(t, cwd'[p], i) => Firm(i)
  BY <1>1, Constants DEF Holds
<1> QED
  BY <1>2, <1>4, <1>5, <1>6, QuietStep

\* The file of open() and create() takes the inode over, or it is put.
LEMMA OpensQuiet ==
  ASSUME IInv, Sound, NEW p \in Process, NEW k \in Inum, Opens(p, k), Firm(k),
         UNCHANGED <<disk, cwd, lost, stale>>,
         ~Creating(th[p]), ~Pending(th[p])
  PROVE  Sound'
<1>1. CASE EndPut(p, k) /\ UNCHANGED files
  BY <1>1, EndPutQuiet, FilesFirm, CwdFirm
<1>2. CASE \E f \in Files :
             /\ ftable' = [ftable EXCEPT ![f] = [ref |-> 1, ip |-> k]]
             /\ Set(p, Idle)
  <2>1. PICK f \in Files : /\ ftable' = [ftable EXCEPT ![f] = [ref |-> 1, ip |-> k]]
                           /\ Set(p, Idle)
    BY <1>2
  <2>2. \A g \in Files, i \in Inum : ftable'[g].ip = i => Firm(i)
    BY <2>1 DEF Sound, Firmly, IInv, StateOK
  <2>3. Place(Idle) = "user" /\ Idle.ret = "user" /\ Idle.dp = 0 /\ Idle.at = 0
        /\ Idle.ip = 0 /\ Idle.put = 0 /\ Idle.pc = "user"
    BY DEF Idle, Place, Putting
  <2>4. ~Creating(Idle) /\ ~Pending(Idle) /\ Named(Idle)
    BY <2>3 DEF Creating, Pending, Named, Linking
  <2>5. \A i \in Inum : Holds(Idle, cwd'[p], i) => Firm(i)
    BY <2>3, Constants, CwdFirm DEF Holds
  <2> QED
    BY <2>1, <2>2, <2>3, <2>4, <2>5, QuietStep
<1> QED
  BY <1>1, <1>2 DEF Opens

\* A lookup that ends without an inode.
LEMMA LostPutQuiet ==
  ASSUME IInv, Sound, NEW p \in Process, At(p, "namex"), LostPut(p, th[p].at),
         UNCHANGED <<disk, cwd, files, lost, stale>>
  PROVE  Sound'
<1> DEFINE k == th[p].at
           s == [th[p] EXCEPT !.at = 0, !.rest = <<>>]
           t == Put(s, k, "linkbad")
<1>1. /\ th[p].pc = "namex" /\ th[p] \in Threads /\ Place(th[p]) = "namex" /\ k \in Inum
      /\ th[p].dp = 0 /\ th[p].put = 0 /\ th[p].ip \in Maybe
      /\ th[p].ip # 0 => Linking(th[p])
  BY HereNamex
<1>2. /\ Named(th[p])
      /\ \A i \in Inum : Holds(th[p], cwd[p], i) => Firm(i)
  BY Standing
<1>3. Firm(k)
  BY <1>1, <1>2 DEF Holds
<1>4. ~Creating(th[p]) /\ (Pending(th[p]) <=> th[p].ip # 0)
  BY <1>1 DEF Creating, Pending
<1>5. CASE th[p].ip = 0
  <2>1. EndPut(p, k)
    BY <1>5 DEF LostPut
  <2> QED
    BY <1>1, <1>3, <1>4, <1>5, <2>1, EndPutQuiet, FilesFirm, CwdFirm
<1>6. CASE th[p].ip # 0
  <2>1. Set(p, t)
    BY <1>6 DEF LostPut
  <2>2. s \in Threads /\ s.at = 0 /\ s.dp = 0 /\ s.ip = th[p].ip
    <3>1. <<>> \in Seq(Element)
      OBVIOUS
    <3> QED
      BY <1>1, <3>1 DEF Threads, Maybe
  <2>3. "linkbad" \in Points \ Putting
    BY DEF Points, Putting
  <2> HIDE DEF s
  <2>4. /\ Place(t) = "linkbad" /\ t.pc = "iput" /\ t.put = k
        /\ t.ret = "linkbad" /\ t.at = 0 /\ t.dp = 0 /\ t.ip = th[p].ip
    BY <1>1, <2>2, <2>3, PutFields
  <2> HIDE DEF t
  <2>5. ~Creating(t) /\ Pending(t)
    BY <2>4 DEF Creating, Pending
  <2>6. Named(t)
    BY <1>1, <1>2, <1>6, <2>4 DEF Named
  <2>7. \A i \in Inum : Holds(t, cwd'[p], i) => Firm(i)
    BY <1>2, <1>3, <1>4, <2>4, <2>5, Constants DEF Holds
  <2> QED
    BY <1>4, <1>6, <2>1, <2>4, <2>5, <2>6, <2>7, QuietStep, FilesFirm
<1> QED
  BY <1>5, <1>6

LEMMA NamexElemQuiet ==
  ASSUME IInv, Sound, ~strayed', NEW p \in Process, NamexElem(p)
  PROVE  Sound'
<1> DEFINE k == th[p].at
           n == Head(th[p].rest)
           next == Lookup(k, n)
<1>1. /\ th[p].pc = "namex" /\ th[p] \in Threads /\ Place(th[p]) = "namex" /\ k \in Inum
      /\ th[p].dp = 0 /\ th[p].put = 0 /\ th[p].ip \in Maybe
      /\ th[p].ret \notin Putting
      /\ th[p].ip # 0 => Linking(th[p])
      /\ At(p, "namex") /\ th[p].rest # <<>> /\ th[p].call \in Calls
  BY HereNamex DEF NamexElem
<1>2. n \in Element /\ Tail(th[p].rest) \in Seq(Element)
  BY <1>1, HeadTailProperties DEF Threads
<1>3. /\ Named(th[p])
      /\ \A i \in Inum : Holds(th[p], cwd[p], i) => Firm(i) /\ dinode[i].type # Free
  BY Standing
<1>4. Firm(k) /\ Typed(k) /\ Meta(k) = dinode[k]
  BY <1>1, <1>3, FirmTyped DEF Holds
<1>5. ~Creating(th[p]) /\ (Pending(th[p]) <=> th[p].ip # 0)
  BY <1>1 DEF Creating, Pending
<1>6. UNCHANGED <<disk, cwd, files, lost>>
  BY DEF NamexElem
<1>7. CASE /\ Meta(k).type = DIR
           /\ Parent(p) /\ Len(th[p].rest) = 1
           /\ Set(p, [th[p] EXCEPT !.pc = Found(p), !.dp = k, !.at = 0])
           /\ UNCHANGED history
  <2> DEFINE t == [th[p] EXCEPT !.pc = Found(p), !.dp = k, !.at = 0]
  <2>1. Found(p) = IF th[p].ip # 0 THEN "linknew" ELSE th[p].call
    <3>1. th[p].ip # 0 => th[p].call = "link"
      BY <1>1, HereNamex
    <3> QED
      BY <3>1 DEF Found
  <2>2. th[p].ip = 0 => Found(p) \in {"creat", "mkdir", "mknod", "unlink"}
    BY <1>7, <2>1 DEF Parent
  <2>3. /\ t.pc = Found(p) /\ t.dp = k /\ t.at = 0 /\ t.ip = th[p].ip
        /\ t.put = 0 /\ t.ret = th[p].ret
    BY <1>1 DEF Threads
  <2>4. Set(p, t)
    BY <1>7
  <2> HIDE DEF t
  <2>5. Place(t) = t.pc
    BY <2>1, <2>2, <2>3 DEF Place, Putting
  <2>6. ~Creating(t) /\ (Pending(t) <=> th[p].ip # 0) /\ (Linking(t) <=> th[p].ip # 0)
    BY <2>1, <2>2, <2>3, <2>5 DEF Creating, Pending, Linking
  <2>7. Named(t)
    BY <1>1, <1>3, <1>4, <1>7, <2>1, <2>2, <2>3, <2>5, <2>6 DEF Named
  <2>8. \A i \in Inum : Holds(t, cwd'[p], i) => Firm(i)
    BY <1>3, <1>4, <1>5, <1>6, <2>1, <2>2, <2>3, Constants DEF Holds
  <2>9. t.pc # "itrunc"
    BY <2>1, <2>2, <2>3
  <2> QED
    BY <1>5, <1>6, <1>7, <2>3, <2>4, <2>6, <2>7, <2>8, <2>9, QuietStep, FilesFirm DEF history
<1>8. CASE /\ next # 0 /\ Follows(k, n)
           /\ Set(p, Put([th[p] EXCEPT !.at = next, !.rest = Tail(@)], k, "namex"))
  <2> DEFINE s == [th[p] EXCEPT !.at = next, !.rest = Tail(@)]
             t == Put(s, k, "namex")
  <2>1. next \in Inum /\ Firm(next)
    BY <1>1, <1>2, <1>4, <1>8, LookupFirm DEF Follows, IInv
  <2>2. s \in Threads /\ s.at = next /\ s.dp = 0 /\ s.ip = th[p].ip
    BY <1>1, <1>2, <2>1 DEF Threads, Maybe
  <2>3. Set(p, t)
    BY <1>8
  <2> HIDE DEF s
  <2>4. "namex" \in Points \ Putting
    BY DEF Points, Putting
  <2>5. /\ Place(t) = "namex" /\ t.pc = "iput" /\ t.put = k
        /\ t.ret = "namex" /\ t.at = next /\ t.dp = 0 /\ t.ip = th[p].ip
    BY <1>1, <2>2, <2>4, PutFields
  <2> HIDE DEF t
  <2>6. ~Creating(t) /\ (Pending(t) <=> th[p].ip # 0) /\ (Linking(t) <=> th[p].ip # 0)
    BY <2>5 DEF Creating, Pending, Linking
  <2>7. Named(t)
    BY <1>1, <1>3, <2>5, <2>6 DEF Named
  <2>8. \A i \in Inum : Holds(t, cwd'[p], i) => Firm(i)
    BY <1>3, <1>4, <1>5, <1>6, <2>1, <2>5, Constants DEF Holds
  <2> QED
    BY <1>5, <1>6, <1>8, <2>3, <2>5, <2>6, <2>7, <2>8, QuietStep, FilesFirm DEF Follows
<1>9. CASE LostPut(p, k) /\ UNCHANGED history
  BY <1>1, <1>6, <1>9, LostPutQuiet DEF history
<1>10. ~NoType(p, k)
  BY <1>4 DEF NoType
<1> QED
  BY <1>7, <1>8, <1>9, <1>10 DEF NamexElem

LEMMA NamexEndQuiet ==
  ASSUME IInv, Sound, NEW p \in Process, NamexEnd(p)
  PROVE  Sound'
<1>1. /\ th[p].pc = "namex" /\ th[p] \in Threads /\ Place(th[p]) = "namex"
      /\ th[p].at \in Inum /\ th[p].dp = 0 /\ th[p].put = 0 /\ th[p].ip \in Maybe
      /\ th[p].call \in Calls /\ th[p].ret \notin Putting /\ At(p, "namex")
  BY HereNamex DEF NamexEnd
<1>2. UNCHANGED <<disk, cwd, files, lost, stale>>
  BY DEF NamexEnd, history
<1>3. CASE Parent(p)
  BY <1>1, <1>2, <1>3, LostPutQuiet DEF NamexEnd
<1>4. CASE ~Parent(p)
  <2> DEFINE t == [th[p] EXCEPT !.pc = Found(p), !.at = 0, !.ip = th[p].at]
  <2>1. Found(p) = th[p].call /\ th[p].call \in {"open", "link", "chdir", "exec"}
        /\ th[p].ip = 0
    BY <1>1, <1>4 DEF Found, Parent, Calls
  <2>2. /\ t.pc = th[p].call /\ t.at = 0 /\ t.ip = th[p].at /\ t.dp = 0
        /\ t.put = 0 /\ t.ret = th[p].ret
    BY <1>1, <2>1 DEF Threads
  <2>3. Set(p, t)
    BY <1>4 DEF NamexEnd
  <2> HIDE DEF t
  <2>4. Place(t) = th[p].call
    BY <2>1, <2>2 DEF Place, Putting
  <2>5. ~Creating(t) /\ ~Pending(t) /\ ~Linking(t) /\ t.pc # "itrunc"
        /\ ~Creating(th[p]) /\ ~Pending(th[p])
    BY <1>1, <2>1, <2>2, <2>4 DEF Creating, Pending, Linking
  <2>6. /\ Named(th[p])
        /\ \A i \in Inum : Holds(th[p], cwd[p], i) => Firm(i)
    BY Standing
  <2>7. Named(t)
    BY <2>1, <2>2, <2>4, <2>5, <2>6 DEF Named
  <2>8. \A i \in Inum : Holds(t, cwd'[p], i) => Firm(i)
    BY <1>2, <2>1, <2>2, <2>6, Constants DEF Holds
  <2> QED
    BY <1>2, <2>3, <2>5, <2>7, <2>8, QuietStep, FilesFirm
<1> QED
  BY <1>3, <1>4

\* A lookup begins at the root or in the current directory.
LEMMA WalkQuiet ==
  ASSUME IInv, Sound, NEW p \in Process, NEW s \in Threads,
         NEW path, WalkFrom(p, path, s), cwd[p] # 0,
         UNCHANGED <<disk, cwd, files, lost, stale>>,
         ~Creating(th[p]), s.dp = 0, s.put = 0, s.ip = th[p].ip, s.ret = th[p].ret,
         s.ret \notin Putting, Pending(th[p]) <=> s.ip # 0,
         s.ip # 0 => Linking(th[p])
  PROVE  Sound'
<1> DEFINE rooted == path # <<>> /\ Head(path) = "/"
           start == IF rooted THEN ROOT ELSE cwd[p]
           rest == IF rooted THEN Tail(path) ELSE path
           t == [s EXCEPT !.pc = "namex", !.at = start, !.rest = rest]
<1>1. /\ Named(th[p]) /\ cwd[p] \in Inum
      /\ \A i \in Inum : Holds(th[p], cwd[p], i) => Firm(i)
  BY Standing DEF Maybe
<1>2. start \in Inum /\ Firm(start)
  BY <1>1, RootFirm DEF IInv, Holds
<1>3. Set(p, t)
  BY DEF WalkFrom
<1> HIDE DEF rest, start
<1>4. /\ t.pc = "namex" /\ t.at = start /\ t.dp = 0 /\ t.put = 0
      /\ t.ip = s.ip /\ t.ret = s.ret
  BY DEF Threads
<1> HIDE DEF t
<1>5. /\ Place(t) = "namex" /\ (Linking(t) <=> s.ip # 0) /\ (Pending(t) <=> s.ip # 0)
      /\ ~Creating(t)
  BY <1>4 DEF Place, Putting, Linking, Pending, Creating
<1>6. Named(t)
  BY <1>1, <1>4, <1>5 DEF Named
<1>7. \A i \in Inum : Holds(t, cwd'[p], i) => Firm(i)
  BY <1>1, <1>2, <1>4, Constants DEF Holds
<1> QED
  BY <1>3, <1>4, <1>5, <1>6, <1>7, QuietStep, FilesFirm

LEMMA StartQuiet ==
  ASSUME IInv, Sound, NEW p \in Process, Start(p)
  PROVE  Sound'
<1>1. /\ th[p].pc = "user" /\ th[p] \in Threads /\ Local(th[p], cwd[p])
  BY Here DEF Start, At
<1>2. Place(th[p]) = "user"
  BY <1>1 DEF Place, Putting
<1>3. /\ th[p].dp = 0 /\ th[p].put = 0 /\ th[p].ip = 0 /\ cwd[p] # 0
      /\ th[p].ret \notin Putting
  BY <1>1, <1>2 DEF Local, Putting, HasDp, HasIp, Start
<1>4. ~Creating(th[p]) /\ ~Pending(th[p])
  BY <1>1, <1>2 DEF Creating, Pending
<1>5. PICK c \in Calls, path \in Paths :
        \E new \in IF c = "link" THEN NewPaths ELSE {<<>>} :
          WalkFrom(p, path, [th[p] EXCEPT !.call = c, !.new = new])
  BY DEF Start
<1>6. PICK new \in NewPaths \cup {<<>>} :
        WalkFrom(p, path, [th[p] EXCEPT !.call = c, !.new = new])
  BY <1>5
<1> DEFINE s == [th[p] EXCEPT !.call = c, !.new = new]
<1>7. s \in Threads /\ s.dp = 0 /\ s.put = 0 /\ s.ip = 0 /\ s.ret = th[p].ret
  BY <1>1, <1>3 DEF Threads
<1>8. WalkFrom(p, path, s)
  BY <1>6
<1> HIDE DEF s
<1>9. UNCHANGED <<disk, cwd, files, lost, stale>>
  BY DEF Start, history
<1> QED
  BY <1>3, <1>4, <1>7, <1>8, <1>9, WalkQuiet

LEMMA LinkWalkQuiet ==
  ASSUME IInv, Sound, NEW p \in Process, LinkWalk(p)
  PROVE  Sound'
<1>1. /\ th[p].pc = "linkwalk" /\ th[p] \in Threads /\ Local(th[p], cwd[p])
  BY Here DEF LinkWalk, At
<1>2. Place(th[p]) = "linkwalk"
  BY <1>1 DEF Place, Putting
<1>3. /\ th[p].dp = 0 /\ th[p].put = 0 /\ th[p].ip # 0 /\ cwd[p] # 0
      /\ th[p].ret \notin Putting
  BY <1>1, <1>2 DEF Local, Putting, HasDp, HasIp
<1>4. ~Creating(th[p]) /\ Pending(th[p]) /\ Linking(th[p])
  BY <1>1, <1>2 DEF Creating, Pending, Linking
<1> DEFINE s == [th[p] EXCEPT !.new = <<>>]
<1>5. s \in Threads /\ s.dp = 0 /\ s.put = 0 /\ s.ip = th[p].ip /\ s.ret = th[p].ret
  BY <1>1, <1>3 DEF Threads
<1>6. WalkFrom(p, th[p].new, s)
  BY DEF LinkWalk
<1> HIDE DEF s
<1>7. UNCHANGED <<disk, cwd, files, lost, stale>>
  BY DEF LinkWalk, history
<1> QED
  BY <1>3, <1>4, <1>5, <1>6, <1>7, WalkQuiet

\* iput on its way.
LEMMA PlaceQuiet ==
  ASSUME IInv, Sound, NEW p \in Process, NEW t, Set(p, t),
         UNCHANGED <<disk, cwd, files, lost, stale>>,
         th[p].pc # "panic",
         ~Creating(th[p]), t.pc \notin {"iput", "itrunc", "iget"},
         t.pc = "create" => th[p].ret = "create", t.ret \in {th[p].ret, "user"},
         Place(t) = Place(th[p]),
         t.at = th[p].at, t.dp = th[p].dp, t.ip = th[p].ip, t.rest = th[p].rest
  PROVE  Sound'
<1>1. /\ Named(th[p])
      /\ \A i \in Inum : Holds(th[p], cwd[p], i) => Firm(i)
  BY Standing
<1>2. ~Creating(t)
  BY <1>1 DEF Creating, Named
<1>3. (Pending(t) <=> Pending(th[p])) /\ (Linking(t) <=> Linking(th[p]))
  BY DEF Pending, Linking
<1>4. Named(t)
  BY <1>1, <1>3 DEF Named
<1>5. \A i \in Inum : Holds(t, cwd'[p], i) => Firm(i)
  BY <1>1, <1>2 DEF Holds
<1> QED
  BY <1>2, <1>3, <1>4, <1>5, QuietStep, FilesFirm

LEMMA IputRefQuiet ==
  ASSUME IInv, Sound, NEW p \in Process, IputRef(p)
  PROVE  Sound'
<1> DEFINE t == [th[p] EXCEPT !.pc = th[p].ret, !.put = 0, !.ret = "user"]
<1>1. /\ th[p].pc = "iputref" /\ th[p] \in Threads /\ Local(th[p], cwd[p])
  BY Here DEF IputRef, At
<1>2. Place(th[p]) = th[p].ret /\ th[p].ret \notin Putting \cup {"iget"}
  BY <1>1 DEF Local, Putting, Place
<1>3. /\ t.pc = th[p].ret /\ t.at = th[p].at /\ t.dp = th[p].dp /\ t.ip = th[p].ip
      /\ t.ret = "user" /\ t.rest = th[p].rest
  BY <1>1 DEF Threads
<1>4. Set(p, t) /\ UNCHANGED <<disk, cwd, files, lost, stale>>
  BY DEF IputRef, history
<1> HIDE DEF t
<1>5. Place(t) = Place(th[p]) /\ ~Creating(th[p])
  BY <1>1, <1>2, <1>3 DEF Place, Creating
<1> QED
  BY <1>1, <1>2, <1>3, <1>4, <1>5, PlaceQuiet DEF Putting

\* The last reference to i is that of iput.
LEMMA AloneAll ==
  ASSUME RefsCounted, NEW p \in Process, NEW i \in Inum, ref[i] = 1, th[p].put = i
  PROVE  /\ cwd[p] # i /\ th[p].at # i /\ th[p].dp # i /\ (th[p].pc # "iget" => th[p].ip # i)
         /\ \A q \in Process \ {p} :
              /\ cwd[q] # i /\ th[q].at # i /\ th[q].dp # i /\ th[q].put # i
              /\ th[q].pc # "iget" => th[q].ip # i
         /\ \A f \in Files : ftable[f].ip # i
<1>1. /\ Cardinality(ByProcesses(i)) = Cardinality(Rest(p, i)) + Mine(p, i)
      /\ IsFiniteSet(Rest(p, i)) /\ Cardinality(Rest(p, i)) \in Nat
  BY FiveCounted DEF Parted
<1>2. /\ Cardinality(Pointers(i)) = Cardinality(ByProcesses(i)) + Cardinality(ByFiles(i))
      /\ IsFiniteSet(ByFiles(i)) /\ Cardinality(ByFiles(i)) \in Nat
  BY PointersSum
<1>3. Mine(p, i) >= 1 /\ Mine(p, i) \in Nat /\ Cardinality(Pointers(i)) = 1
  BY CountsAreNat DEF RefsCounted, Mine, Held, One
<1>4. Mine(p, i) = 1 /\ Cardinality(Rest(p, i)) = 0 /\ Cardinality(ByFiles(i)) = 0
  BY <1>1, <1>2, <1>3
<1>5. Rest(p, i) = {} /\ ByFiles(i) = {}
  BY <1>1, <1>2, <1>4, FS_EmptySet
<1>6. cwd[p] # i /\ th[p].at # i /\ th[p].dp # i /\ (th[p].pc # "iget" => th[p].ip # i)
  BY <1>4 DEF Mine, Held, One
<1>7. ASSUME NEW q \in Process \ {p}
      PROVE  /\ cwd[q] # i /\ th[q].at # i /\ th[q].dp # i /\ th[q].put # i
             /\ th[q].pc # "iget" => th[q].ip # i
  <2>1. \A v \in Vars : <<q, v>> \notin ByProcesses(i)
    BY <1>5 DEF Rest
  <2>2. /\ <<q, "cwd">> \notin ByProcesses(i) /\ <<q, "at">> \notin ByProcesses(i)
        /\ <<q, "dp">> \notin ByProcesses(i) /\ <<q, "ip">> \notin ByProcesses(i)
        /\ <<q, "put">> \notin ByProcesses(i)
    BY <2>1 DEF Vars
  <2> QED
    BY <2>2, PointerKinds
<1>8. \A f \in Files : ftable[f].ip # i
  BY <1>5, FileKinds
<1> QED
  BY <1>6, <1>7, <1>8

LEMMA IputCheckSound ==
  ASSUME IInv, Sound, NEW p \in Process, IputCheck(p)
  PROVE  Sound'
<1> DEFINE k == th[p].put
<1>1. /\ th[p].pc = "iput" /\ th[p] \in Threads /\ Local(th[p], cwd[p]) /\ NoPanic
      /\ th \in [Process -> Threads]
  BY Here DEF IputCheck, At
<1>2. k \in Inum /\ Place(th[p]) = th[p].ret /\ ~Creating(th[p])
  BY <1>1 DEF Local, Putting, Threads, Maybe, Place, Creating
<1>3. /\ Named(th[p])
      /\ \A i \in Inum : Holds(th[p], cwd[p], i) => Firm(i)
  BY Standing
<1>4. UNCHANGED <<dinode, ents, up, cwd, ftable, lost>> /\ UNCHANGED <<disk, files>>
  BY DEF IputCheck, disk, files
<1>5. CASE Goto(p, "iputref") /\ UNCHANGED stale
  <2> DEFINE t == [th[p] EXCEPT !.pc = "iputref"]
  <2>1. /\ t.pc = "iputref" /\ t.at = th[p].at /\ t.dp = th[p].dp /\ t.ip = th[p].ip
        /\ t.ret = th[p].ret /\ t.rest = th[p].rest /\ Set(p, t)
    BY <1>1, <1>5 DEF Threads, Goto
  <2> HIDE DEF t
  <2>2. Place(t) = Place(th[p])
    BY <1>2, <2>1 DEF Place, Putting
  <2> QED
    BY <1>1, <1>2, <1>4, <1>5, <2>1, <2>2, PlaceQuiet
<1>6. CASE /\ copy[k] # Invalid /\ copy[k].nlink = 0 /\ ref[k] = 1
           /\ Goto(p, "itrunc")
           /\ stale' = stale \cup {d \in Inum : up[d] = k}
  <2> DEFINE t == [th[p] EXCEPT !.pc = "itrunc"]
  <2>1. /\ t.pc = "itrunc" /\ t.at = th[p].at /\ t.dp = th[p].dp /\ t.ip = th[p].ip
        /\ t.put = k /\ t.ret = th[p].ret /\ t.rest = th[p].rest
        /\ th' = [th EXCEPT ![p] = t]
    BY <1>1, <1>6 DEF Threads, Goto, Set
  <2> HIDE DEF t
  <2>2. th'[p] = t /\ \A q \in Process \ {p} : th'[q] = th[q]
    BY <1>1, <2>1
  <2>3. Place(t) = Place(th[p]) /\ ~Creating(t)
    BY <1>2, <2>1 DEF Place, Putting, Creating
  <2>4. (Pending(t) <=> Pending(th[p])) /\ (Linking(t) <=> Linking(th[p]))
    BY <2>1, <2>3 DEF Pending, Linking
  <2>5. /\ cwd[p] # k /\ th[p].at # k /\ th[p].dp # k /\ th[p].ip # k
        /\ \A q \in Process \ {p} :
             /\ cwd[q] # k /\ th[q].at # k /\ th[q].dp # k /\ th[q].put # k
             /\ th[q].pc # "iget" => th[q].ip # k
        /\ \A f \in Files : ftable[f].ip # k
    BY <1>1, <1>2, <1>6, AloneAll DEF IInv
  <2>6. Firm(k) /\ dinode[k].nlink = 0
    BY <1>1, <1>2, <1>3, <1>6 DEF Holds, IInv, Cached, Coherent
  <2>7. ASSUME NEW i \in Inum
        PROVE  /\ Settled(i)' <=> Settled(i)
               /\ Firm(i) /\ i # k => Firm(i)'
    BY <1>2, <1>4, <2>1, <2>2, <2>3 DEF Settled, Firm
  <2>8. Shape'
    BY <1>4, <2>7 DEF Sound, Shape
  <2>9. Firmly'
    <3>1. ASSUME NEW d \in Inum, NEW i \in Inum, up'[d] = i, d \notin stale'
          PROVE  Firm(i)'
      <4>1. up[d] = i /\ i # k /\ d \notin stale
        BY <1>4, <1>6, <3>1
      <4> QED
        BY <2>7, <4>1 DEF Sound, Firmly
    <3>2. ASSUME NEW q \in Process, NEW i \in Inum, Holds(th'[q], cwd'[q], i)
          PROVE  Firm(i)'
      <4>1. CASE q = p
        <5>1. i # k
          BY <1>4, <2>1, <2>2, <2>5, <3>2, <4>1 DEF Holds
        <5>2. Holds(th[p], cwd[p], i)
          BY <1>2, <1>4, <2>1, <2>2, <3>2, <4>1 DEF Holds
        <5> QED
          BY <1>3, <2>7, <5>1, <5>2
      <4>2. CASE q # p
        <5>1. Holds(th[q], cwd[q], i)
          BY <1>4, <2>2, <3>2, <4>2
        <5>2. i # k
          BY <2>5, <4>2, <5>1 DEF Holds, Creating
        <5> QED
          BY <2>7, <5>1, <5>2 DEF Sound, Firmly
      <4> QED
        BY <4>1, <4>2
    <3>3. ASSUME NEW f \in Files, NEW i \in Inum, ftable'[f].ip = i
          PROVE  Firm(i)'
      BY <1>4, <2>5, <2>7, <3>3 DEF Sound, Firmly
    <3>4. (\A q \in Process, i \in Inum : Holds(th[q], cwd[q], i) => Firm(i))'
      BY <3>2 DEF Holds, Creating
    <3> QED
      BY <3>1, <3>3, <3>4 DEF Firmly
  <2>10. Unlinking'
    <3> SUFFICES ASSUME NEW q \in Process, NEW i \in Inum,
                        th'[q].pc = "itrunc", th'[q].put = i
                 PROVE  /\ Settled(i)' /\ dinode'[i].nlink = 0
                        /\ \A d \in Inum : up'[d] = i => d \in stale'
      BY DEF Unlinking
    <3>1. CASE q = p
      <4>1. i = k
        BY <2>1, <2>2, <3>1
      <4> QED
        BY <1>4, <1>6, <2>6, <2>7, <4>1 DEF Firm
    <3>2. CASE q # p
      <4>1. /\ Settled(i) /\ dinode[i].nlink = 0
            /\ \A d \in Inum : up[d] = i => d \in stale
        BY <2>2, <3>2 DEF Sound, Unlinking
      <4> QED
        BY <1>4, <1>6, <2>7, <4>1
    <3> QED
      BY <3>1, <3>2
  <2>11. Allocated'
    <3> SUFFICES ASSUME NEW q \in Process, NEW i \in Inum, Creating(th'[q]), th'[q].ip = i
                 PROVE  /\ dinode'[i].type = NewType(q)' /\ dinode'[i].nlink = 0
                        /\ \A r \in Process \ {q} : Creating(th'[r]) => th'[r].ip # i
      BY DEF Allocated, Creating
    <3>1. q # p /\ th'[q] = th[q]
      BY <2>2, <2>3
    <3>2. /\ dinode[i].type = NewType(q) /\ dinode[i].nlink = 0
          /\ \A r \in Process \ {q} : Creating(th[r]) => th[r].ip # i
      BY <3>1 DEF Sound, Allocated
    <3>3. NewType(q)' = NewType(q)
      BY <3>1 DEF NewType
    <3> QED
      BY <1>4, <2>2, <2>3, <3>2, <3>3
  <2>12. ASSUME NEW i \in Inum
         PROVE  Counted(i)'
    <3>1. Cardinality(Pends(i))' = Cardinality(Pends(i))
      BY <2>1, <2>2, <2>4, PendStep, Tally DEF One
    <3>2. Entries(i)' = Entries(i) /\ Subdirs(i)' = Subdirs(i)
      BY <1>4, SameEntries DEF IInv
    <3> QED
      BY <1>4, <3>1, <3>2 DEF Sound, Counted, Links
  <2>13. \A q \in Process : Named(th[q])'
    <3>1. Named(t)
      BY <1>3, <2>1, <2>3, <2>4 DEF Named
    <3> QED
      BY <1>4, <2>2, <3>1 DEF Sound, Named
  <2> QED
    BY <2>8, <2>9, <2>10, <2>11, <2>12, <2>13 DEF Sound
<1> QED
  BY <1>5, <1>6 DEF IputCheck

\* The links to an inode that has been freed were none, and those from it are lost.
LEMMA IputFreeSound ==
  ASSUME IInv, Sound, NEW p \in Process, IputFree(p)
  PROVE  Sound'
<1> DEFINE t == [th[p] EXCEPT !.pc = "iputref"]
<1>1. /\ th[p].pc = "itrunc" /\ th[p] \in Threads /\ Local(th[p], cwd[p]) /\ NoPanic
      /\ th \in [Process -> Threads] /\ Locked(p, th[p], lock)
  BY Here DEF IputFree, At
<1>0. PICK k \in Inum : k = th[p].put
  BY <1>1 DEF Local, Putting, Threads, Maybe
<1>2. /\ k = th[p].put /\ Place(th[p]) = th[p].ret /\ ~Creating(th[p]) /\ k # 0
      /\ lock[k] = p
  BY <1>0, <1>1, Constants DEF Locked, Putting, Place, Creating
<1>3. /\ t.pc = "iputref" /\ t.at = th[p].at /\ t.dp = th[p].dp /\ t.ip = th[p].ip
      /\ t.put = k /\ t.ret = th[p].ret /\ t.rest = th[p].rest
      /\ th' = [th EXCEPT ![p] = t]
  BY <1>1, <1>2 DEF Threads, Goto, Set, IputFree
<1> HIDE DEF t
<1>4. th'[p] = t /\ \A q \in Process \ {p} : th'[q] = th[q]
  BY <1>1, <1>3
<1>5. Place(t) = Place(th[p]) /\ ~Creating(t)
  BY <1>2, <1>3 DEF Place, Putting, Creating
<1>6. (Pending(t) <=> Pending(th[p])) /\ (Linking(t) <=> Linking(th[p]))
  BY <1>3, <1>5 DEF Pending, Linking
<1>7. /\ dinode \in [Inum -> Metas] /\ ents \in [Inum -> [Name -> Maybe]]
      /\ up \in [Inum -> Maybe]
  BY DEF IInv, StateOK
<1>8. /\ \A i \in Inum : dinode'[i] = IF i = k THEN [type |-> Free, nlink |-> 0] ELSE dinode[i]
      /\ \A i \in Inum, n \in Name : ents'[i][n] = IF i = k THEN 0 ELSE ents[i][n]
      /\ \A i \in Inum : up'[i] = IF i = k THEN 0 ELSE up[i]
      /\ lost' = (lost \cup {ents[k][n] : n \in Name}) \ {0, k}
      /\ stale' = stale \ {k}
      /\ cwd' = cwd /\ ftable' = ftable
  <2>1. \A i \in Inum : dinode'[i] = IF i = k THEN [type |-> Free, nlink |-> 0] ELSE dinode[i]
    BY <1>2, <1>7 DEF IputFree
  <2>2. ents' = [ents EXCEPT ![k] = [n \in Name |-> 0]]
    BY <1>2 DEF IputFree
  <2>3. \A i \in Inum, n \in Name : ents'[i][n] = IF i = k THEN 0 ELSE ents[i][n]
    BY <1>7, <2>2
  <2>4. \A i \in Inum : up'[i] = IF i = k THEN 0 ELSE up[i]
    BY <1>2, <1>7 DEF IputFree
  <2>5. /\ lost' = (lost \cup {ents[k][n] : n \in Name}) \ {0, k}
        /\ stale' = stale \ {k}
        /\ cwd' = cwd /\ ftable' = ftable
    BY <1>2 DEF IputFree, files
  <2> QED
    BY <2>1, <2>3, <2>4, <2>5
<1>9. /\ Settled(k) /\ dinode[k].nlink = 0 /\ ~Firm(k)
      /\ \A d \in Inum : up[d] = k => d \in stale
  BY <1>1, <1>2 DEF Sound, Unlinking, Firm
<1>10. \A i \in Inum : /\ i # k => (Settled(i)' <=> Settled(i))
                       /\ Firm(i) => Firm(i)' /\ i # k
                       /\ Settled(i)' => i # k
  <2>1. ASSUME NEW i \in Inum, i # k
        PROVE  (Settled(i)' <=> Settled(i)) /\ (Firm(i) => Firm(i)')
    BY <1>2, <1>3, <1>4, <1>5, <1>8, <2>1 DEF Settled, Firm
  <2>2. ~Settled(k)'
    BY <1>2, <1>8 DEF Settled
  <2> QED
    BY <1>9, <2>1, <2>2
<1>11. Cardinality(Entries(k)) = 0 /\ Cardinality(Pends(k)) = 0 /\ k # ROOT
  <2>1. dinode[k].nlink >= Links(k) + Cardinality(Pends(k))
    BY <1>2 DEF Sound, Counted
  <2> QED
    BY <1>2, <1>9, <2>1, Tally DEF Links
<1>12. Entries(k) = {}
  BY <1>2, <1>11, Tally, FS_EmptySet
<1>13. \A d \in Inum, n \in Name : ents[d][n] # k
  <2> SUFFICES ASSUME NEW d \in Inum, NEW n \in Name, ents[d][n] = k
               PROVE  FALSE
    OBVIOUS
  <2>1. dinode[d].type = DIR
    BY <1>2 DEF Sound, Shape
  <2>2. <<d, n>> \in Entries(k)
    BY <2>1 DEF Entries
  <2> QED
    BY <1>12, <2>2
<1>14. Shape'
  <2>1. \A d \in Inum, n \in Name : ents'[d][n] # 0 => dinode'[d].type = DIR
    BY <1>8 DEF Sound, Shape
  <2>2. \A i \in Inum : dinode'[i].type = Free => dinode'[i].nlink = 0
    BY <1>8 DEF Sound, Shape
  <2>3. \A d \in Inum : dinode'[d].type = DIR /\ Settled(d)' => up'[d] # 0
    BY <1>8, <1>10 DEF Sound, Shape
  <2> QED
    BY <2>1, <2>2, <2>3 DEF Shape
<1>15. Firmly'
  <2>1. ASSUME NEW d \in Inum, NEW i \in Inum, up'[d] = i, d \notin stale'
        PROVE  Firm(i)'
    <3>1. d # k /\ up[d] = i /\ d \notin stale
      BY <1>8, <2>1, Constants
    <3> QED
      BY <1>10, <3>1 DEF Sound, Firmly
  <2>2. ASSUME NEW q \in Process, NEW i \in Inum, Holds(th'[q], cwd'[q], i)
        PROVE  Firm(i)'
    <3>1. Holds(th[q], cwd[q], i)
      BY <1>2, <1>3, <1>4, <1>5, <1>8, <2>2 DEF Holds
    <3> QED
      BY <1>10, <3>1 DEF Sound, Firmly
  <2>3. ASSUME NEW f \in Files, NEW i \in Inum, ftable'[f].ip = i
        PROVE  Firm(i)'
    BY <1>8, <1>10, <2>3 DEF Sound, Firmly
  <2>4. (\A q \in Process, i \in Inum : Holds(th[q], cwd[q], i) => Firm(i))'
    BY <2>2 DEF Holds, Creating
  <2> QED
    BY <2>1, <2>3, <2>4 DEF Firmly
<1>16. Unlinking'
  <2> SUFFICES ASSUME NEW q \in Process, NEW i \in Inum,
                      th'[q].pc = "itrunc", th'[q].put = i
               PROVE  /\ Settled(i)' /\ dinode'[i].nlink = 0
                      /\ \A d \in Inum : up'[d] = i => d \in stale'
    BY DEF Unlinking
  <2>1. q # p /\ th[q].pc = "itrunc" /\ th[q].put = i
    BY <1>3, <1>4
  <2>2. lock[i] = q
    BY <2>1 DEF IInv, Live, Locked
  <2>3. i # k
    BY <1>2, <2>1, <2>2
  <2>4. /\ Settled(i) /\ dinode[i].nlink = 0
        /\ \A d \in Inum : up[d] = i => d \in stale
    BY <2>1 DEF Sound, Unlinking
  <2>5. \A d \in Inum : up'[d] = i => d # k /\ up[d] = i
    BY <1>8, Constants
  <2> QED
    BY <1>8, <1>10, <2>3, <2>4, <2>5
<1>17. Allocated'
  <2> SUFFICES ASSUME NEW q \in Process, NEW i \in Inum, Creating(th'[q]), th'[q].ip = i
               PROVE  /\ dinode'[i].type = NewType(q)' /\ dinode'[i].nlink = 0
                      /\ \A r \in Process \ {q} : Creating(th'[r]) => th'[r].ip # i
    BY DEF Allocated, Creating
  <2>1. q # p /\ th'[q] = th[q]
    BY <1>4, <1>5
  <2>2. /\ dinode[i].type = NewType(q) /\ dinode[i].nlink = 0
        /\ \A r \in Process \ {q} : Creating(th[r]) => th[r].ip # i
    BY <2>1 DEF Sound, Allocated
  <2>3. i # k
    BY <1>9, <2>1 DEF Settled
  <2>4. NewType(q)' = NewType(q)
    BY <2>1 DEF NewType
  <2> QED
    BY <1>4, <1>5, <1>8, <2>2, <2>3, <2>4
<1>18. ASSUME NEW i \in Inum
       PROVE  Counted(i)'
  <2>1. Cardinality(Pends(i))' = Cardinality(Pends(i))
    BY <1>3, <1>4, <1>6, PendStep, Tally DEF One
  <2>2. Entries(i)' = {e \in Entries(i) : e[1] # k}
    <3>1. \A e \in Inum \X Name : e[1] \in Inum /\ e[2] \in Name
      OBVIOUS
    <3>2. DIR # Free
      BY DEF DIR, Free
    <3>3. \A e \in Inum \X Name :
            dinode'[e[1]].type = DIR /\ ents'[e[1]][e[2]] = i
              <=> dinode[e[1]].type = DIR /\ ents[e[1]][e[2]] = i /\ e[1] # k
      BY <1>8, <3>1, <3>2
    <3> QED
      BY <3>3 DEF Entries
  <2>3. CASE i = k
    <3>1. Entries(k)' = {} /\ Subdirs(k)' = {}
      BY <1>8, <1>12, <2>2, <2>3 DEF Subdirs
    <3>2. Links(k)' = 0
      BY <1>11, <3>1, FS_EmptySet DEF Links
    <3> QED
      BY <1>2, <1>8, <1>11, <2>1, <2>3, <3>2 DEF Counted
  <2>4. CASE i # k
    <3>1. Subdirs(i)' = Subdirs(i)
      <4>1. ASSUME NEW n \in Name
            PROVE  /\ ents'[i][n] = ents[i][n]
                   /\ ents[i][n] # 0 => dinode'[ents[i][n]] = dinode[ents[i][n]]
        BY <1>7, <1>8, <1>13, <2>4 DEF Maybe
      <4> QED
        BY <4>1 DEF Subdirs
    <3>2. Cardinality(Entries(i)') <= Cardinality(Entries(i))
      BY <2>2, Tally, FS_Subset
    <3>3. i \notin lost' => i \notin lost /\ Entries(i)' = Entries(i)
      <4> SUFFICES ASSUME i \notin lost'
                   PROVE  i \notin lost /\ Entries(i)' = Entries(i)
        OBVIOUS
      <4>1. i \notin lost /\ \A n \in Name : ents[k][n] # i
        BY <1>8, <2>4, Constants
      <4>2. \A e \in Entries(i) : e[1] # k
        BY <4>1 DEF Entries
      <4> QED
        BY <2>2, <4>1, <4>2
    <3>4. dinode'[i] = dinode[i] /\ dinode[i].nlink \in Int
      BY <1>7, <1>8, <2>4 DEF Metas
    <3>5. Counted(i)
      BY DEF Sound
    <3>6. /\ Cardinality(Entries(i)) \in Nat /\ Cardinality(Entries(i))' \in Nat
          /\ Cardinality(Subdirs(i)) \in Nat /\ Cardinality(Pends(i)) \in Nat
      BY Tally, TallyNext
    <3>7. Links(i)' <= Links(i) /\ Links(i)' \in Nat /\ Links(i) \in Nat
      BY <3>1, <3>2, <3>6 DEF Links
    <3>8. i \notin lost' => i \notin lost /\ Links(i)' = Links(i)
      BY <3>1, <3>3 DEF Links
    <3> HIDE DEF Links
    <3> QED
      BY <2>1, <3>4, <3>5, <3>6, <3>7, <3>8 DEF Counted
  <2> QED
    BY <2>3, <2>4
<1>19. ASSUME NEW q \in Process
       PROVE  Named(th[q])'
  <2>1. Named(th[q]) /\ \A i \in Inum : Holds(th[q], cwd[q], i) => i # k
    BY <1>10 DEF Sound, Firmly
  <2>2. th[q].dp \in Maybe /\ th[q].ip \in Maybe
    BY <1>1 DEF Threads
  <2>3. th[q].dp # 0 => th[q].dp \in Inum /\ th[q].dp # k
    BY <2>1, <2>2 DEF Holds, Maybe
  <2>4. /\ Place(th'[q]) = Place(th[q]) /\ th'[q].dp = th[q].dp /\ th'[q].ip = th[q].ip
        /\ th'[q].rest = th[q].rest /\ th'[q].ret = th[q].ret
        /\ Linking(th'[q]) <=> Linking(th[q])
    BY <1>3, <1>4, <1>5, <1>6
  <2>5. Linking(th[q]) => dinode'[th[q].ip].type # DIR
    <3> SUFFICES ASSUME Linking(th[q])
                 PROVE  dinode'[th[q].ip].type # DIR
      OBVIOUS
    <3>1. dinode[th[q].ip].type # DIR
      BY <2>1 DEF Named
    <3>2. CASE th[q].ip \in Inum
      BY <1>8, <3>1, <3>2 DEF DIR, Free
    <3>3. CASE th[q].ip = 0
      <4>1. Live(q) /\ th[q].pc # "panic"
        BY <1>1 DEF IInv, NoPanic
      <4>2. th[q].ip # 0
        BY <4>1 DEF Live, Local, Linking, HasIp
      <4> QED
        BY <3>3, <4>2
    <3> QED
      BY <2>2, <3>2, <3>3 DEF Maybe
  <2>6. Place(th[q]) \in {"ialloc", "iget", "create", "unlinkip"} => th[q].dp # 0
    <3>1. Live(q) /\ th[q].pc # "panic"
      BY <1>1 DEF IInv, NoPanic
    <3> QED
      BY <3>1 DEF Live, Local, HasDp
  <2> QED
    BY <1>8, <2>1, <2>3, <2>4, <2>5, <2>6 DEF Named
<1> QED
  BY <1>14, <1>15, <1>16, <1>17, <1>18, <1>19 DEF Sound

\* What p holds at a point where it has ip only, or dp only.
LEMMA FirmIp ==
  ASSUME IInv, Sound, NEW p \in Process, NEW L, In(p, L),
         L \subseteq HasIp \ (HasDp \cup {"iget"})
  PROVE  /\ NoPanic /\ th[p].pc \in L /\ th[p] \in Threads /\ Place(th[p]) = th[p].pc
         /\ th[p].ip \in Inum /\ th[p].at = 0 /\ th[p].dp = 0 /\ th[p].put = 0
         /\ th[p].ret \notin Putting /\ Local(th[p], cwd[p])
         /\ ~Creating(th[p]) /\ Named(th[p])
         /\ Firm(th[p].ip) /\ Typed(th[p].ip) /\ Meta(th[p].ip) = dinode[th[p].ip]
         /\ \A i \in Inum : cwd[p] = i => Firm(i)
<1>1. /\ NoPanic /\ th[p].pc \in L /\ th[p] \in Threads /\ Place(th[p]) = th[p].pc
      /\ th[p].ip \in Inum /\ th[p].at = 0 /\ th[p].dp = 0 /\ th[p].put = 0
      /\ th[p].ret \notin Putting /\ Local(th[p], cwd[p])
  BY HereIp
<1>2. ~Creating(th[p])
  BY <1>1 DEF Creating, HasDp
<1>3. /\ Named(th[p])
      /\ \A i \in Inum : Holds(th[p], cwd[p], i) => Firm(i) /\ dinode[i].type # Free
  BY Standing
<1>4. Firm(th[p].ip) /\ Typed(th[p].ip) /\ Meta(th[p].ip) = dinode[th[p].ip]
  BY <1>1, <1>2, <1>3, FirmTyped DEF Holds
<1> QED
  BY <1>1, <1>2, <1>3, <1>4 DEF Holds

LEMMA FirmDp ==
  ASSUME IInv, Sound, NEW p \in Process, NEW L, In(p, L), L \subseteq HasDp \ HasIp
  PROVE  /\ NoPanic /\ th[p].pc \in L /\ th[p] \in Threads /\ Place(th[p]) = th[p].pc
         /\ th[p].dp \in Inum /\ th[p].at = 0 /\ th[p].ip = 0 /\ th[p].put = 0
         /\ th[p].ret \notin Putting /\ Local(th[p], cwd[p]) /\ Locked(p, th[p], lock)
         /\ ~Creating(th[p]) /\ Named(th[p]) /\ dinode[th[p].dp].type = DIR
         /\ Firm(th[p].dp) /\ Typed(th[p].dp) /\ Meta(th[p].dp) = dinode[th[p].dp]
         /\ \A i \in Inum : cwd[p] = i => Firm(i)
<1>1. /\ NoPanic /\ th[p].pc \in L /\ th[p] \in Threads /\ Place(th[p]) = th[p].pc
      /\ th[p].dp \in Inum /\ th[p].at = 0 /\ th[p].ip = 0 /\ th[p].put = 0
      /\ th[p].ret \notin Putting /\ Local(th[p], cwd[p]) /\ Locked(p, th[p], lock)
  BY HereDp
<1>2. ~Creating(th[p])
  BY <1>1 DEF Creating, HasIp
<1>3. /\ Named(th[p])
      /\ \A i \in Inum : Holds(th[p], cwd[p], i) => Firm(i) /\ dinode[i].type # Free
  BY Standing
<1>4. /\ Firm(th[p].dp) /\ Typed(th[p].dp) /\ Meta(th[p].dp) = dinode[th[p].dp]
      /\ dinode[th[p].dp].type = DIR
  BY <1>1, <1>3, Constants, FirmTyped DEF Holds, Named
<1> QED
  BY <1>1, <1>2, <1>3, <1>4 DEF Holds

LEMMA FirmBoth ==
  ASSUME IInv, Sound, NEW p \in Process, NEW L, In(p, L), L \subseteq HasDp \cap HasIp,
         L \cap {"iget", "create"} = {}
  PROVE  /\ NoPanic /\ th[p].pc \in L /\ th[p] \in Threads /\ Place(th[p]) = th[p].pc
         /\ th[p].dp \in Inum /\ th[p].ip \in Inum /\ th[p].at = 0 /\ th[p].put = 0
         /\ th[p].ret \notin Putting /\ Local(th[p], cwd[p]) /\ Locked(p, th[p], lock)
         /\ ~Creating(th[p]) /\ Named(th[p]) /\ dinode[th[p].dp].type = DIR
         /\ Firm(th[p].dp) /\ Typed(th[p].dp) /\ Meta(th[p].dp) = dinode[th[p].dp]
         /\ Firm(th[p].ip) /\ Typed(th[p].ip) /\ Meta(th[p].ip) = dinode[th[p].ip]
         /\ \A i \in Inum : cwd[p] = i => Firm(i)
<1>1. /\ NoPanic /\ th[p].pc \in L /\ th[p] \in Threads /\ Place(th[p]) = th[p].pc
      /\ th[p].dp \in Inum /\ th[p].ip \in Inum /\ th[p].at = 0 /\ th[p].put = 0
      /\ th[p].ret \notin Putting /\ Local(th[p], cwd[p]) /\ Locked(p, th[p], lock)
  BY HereBoth
<1>2. ~Creating(th[p])
  BY <1>1 DEF Creating
<1>3. /\ Named(th[p])
      /\ \A i \in Inum : Holds(th[p], cwd[p], i) => Firm(i) /\ dinode[i].type # Free
  BY Standing
<1>4. /\ Firm(th[p].dp) /\ Typed(th[p].dp) /\ Meta(th[p].dp) = dinode[th[p].dp]
      /\ dinode[th[p].dp].type = DIR
  BY <1>1, <1>3, Constants, FirmTyped DEF Holds, Named
<1>5. Firm(th[p].ip) /\ Typed(th[p].ip) /\ Meta(th[p].ip) = dinode[th[p].ip]
  BY <1>1, <1>2, <1>3, FirmTyped DEF Holds
<1> QED
  BY <1>1, <1>2, <1>3, <1>4, <1>5 DEF Holds

LEMMA OpenQuiet ==
  ASSUME IInv, Sound, NEW p \in Process, Open(p)
  PROVE  Sound'
<1>1. In(p, {"open"}) /\ {"open"} \subseteq HasIp \ (HasDp \cup {"iget"})
  BY DEF Open, At, HasIp, HasDp
<1>2. /\ th[p].pc = "open" /\ th[p].ip \in Inum /\ Place(th[p]) = th[p].pc
      /\ ~Creating(th[p]) /\ Firm(th[p].ip) /\ Typed(th[p].ip)
  BY <1>1, FirmIp
<1>3. Opens(p, th[p].ip) /\ UNCHANGED <<disk, cwd, lost, stale>>
  BY <1>2 DEF Open, NoType, history
<1>4. ~Pending(th[p])
  BY <1>2 DEF Pending
<1> QED
  BY <1>2, <1>3, <1>4, OpensQuiet

LEMMA ExecQuiet ==
  ASSUME IInv, Sound, NEW p \in Process, Exec(p)
  PROVE  Sound'
<1>1. In(p, {"exec"}) /\ {"exec"} \subseteq HasIp \ (HasDp \cup {"iget"})
  BY DEF Exec, At, HasIp, HasDp
<1>2. /\ th[p].pc = "exec" /\ th[p].ip \in Inum /\ Place(th[p]) = th[p].pc
      /\ ~Creating(th[p]) /\ Firm(th[p].ip) /\ Typed(th[p].ip)
  BY <1>1, FirmIp
<1>3. EndPut(p, th[p].ip) /\ UNCHANGED <<disk, cwd, files, lost, stale>>
  BY <1>2 DEF Exec, NoType, history
<1>4. ~Pending(th[p])
  BY <1>2 DEF Pending
<1> QED
  BY <1>2, <1>3, <1>4, EndPutQuiet, FilesFirm, CwdFirm

LEMMA CreateExistsQuiet ==
  ASSUME IInv, Sound, NEW p \in Process, CreateExists(p)
  PROVE  Sound'
<1>1. In(p, {"exists"}) /\ {"exists"} \subseteq HasIp \ (HasDp \cup {"iget"})
  BY DEF CreateExists, At, HasIp, HasDp
<1>2. /\ th[p].pc = "exists" /\ th[p].ip \in Inum /\ Place(th[p]) = th[p].pc
      /\ ~Creating(th[p]) /\ Firm(th[p].ip) /\ Typed(th[p].ip)
  BY <1>1, FirmIp
<1>3. UNCHANGED <<disk, cwd, lost, stale>>
  BY DEF CreateExists, history
<1>4. ~Pending(th[p])
  BY <1>2 DEF Pending
<1>5. CASE Opens(p, th[p].ip)
  BY <1>2, <1>3, <1>4, <1>5, OpensQuiet
<1>6. CASE EndPut(p, th[p].ip) /\ UNCHANGED files
  BY <1>2, <1>3, <1>4, <1>6, EndPutQuiet, FilesFirm, CwdFirm
<1> QED
  BY <1>2, <1>5, <1>6 DEF CreateExists, NoType

LEMMA CreatedQuiet ==
  ASSUME IInv, Sound, NEW p \in Process, Created(p)
  PROVE  Sound'
<1>1. In(p, {"created"}) /\ {"created"} \subseteq HasIp \ (HasDp \cup {"iget"})
  BY DEF Created, At, HasIp, HasDp
<1>2. /\ th[p].pc = "created" /\ th[p].ip \in Inum /\ Place(th[p]) = th[p].pc
      /\ ~Creating(th[p]) /\ Firm(th[p].ip)
  BY <1>1, FirmIp
<1>3. UNCHANGED <<disk, cwd, lost, stale>>
  BY DEF Created, history
<1>4. ~Pending(th[p])
  BY <1>2 DEF Pending
<1>5. CASE Opens(p, th[p].ip)
  BY <1>2, <1>3, <1>4, <1>5, OpensQuiet
<1>6. CASE EndPut(p, th[p].ip) /\ UNCHANGED files
  BY <1>2, <1>3, <1>4, <1>6, EndPutQuiet, FilesFirm, CwdFirm
<1> QED
  BY <1>5, <1>6 DEF Created

LEMMA LinkedQuiet ==
  ASSUME IInv, Sound, NEW p \in Process, Linked(p)
  PROVE  Sound'
<1>1. In(p, {"linked"}) /\ {"linked"} \subseteq HasIp \ (HasDp \cup {"iget"})
  BY DEF Linked, At, HasIp, HasDp
<1>2. /\ th[p].pc = "linked" /\ th[p].ip \in Inum /\ Place(th[p]) = th[p].pc
      /\ ~Creating(th[p]) /\ Firm(th[p].ip)
  BY <1>1, FirmIp
<1>3. EndPut(p, th[p].ip) /\ UNCHANGED <<disk, cwd, files, lost, stale>>
  BY DEF Linked, history
<1>4. ~Pending(th[p])
  BY <1>2 DEF Pending
<1> QED
  BY <1>2, <1>3, <1>4, EndPutQuiet, FilesFirm, CwdFirm

LEMMA UnlinkBadQuiet ==
  ASSUME IInv, Sound, NEW p \in Process, UnlinkBad(p)
  PROVE  Sound'
<1>1. In(p, {"unlinkbad"}) /\ {"unlinkbad"} \subseteq HasDp \ HasIp
  BY DEF UnlinkBad, At, HasIp, HasDp
<1>2. /\ th[p].pc = "unlinkbad" /\ th[p].dp \in Inum /\ Place(th[p]) = th[p].pc
      /\ ~Creating(th[p]) /\ Firm(th[p].dp)
  BY <1>1, FirmDp
<1>3. EndPut(p, th[p].dp) /\ UNCHANGED <<disk, cwd, files, lost, stale>>
  BY DEF UnlinkBad, history
<1>4. ~Pending(th[p])
  BY <1>2 DEF Pending
<1> QED
  BY <1>2, <1>3, <1>4, EndPutQuiet, FilesFirm, CwdFirm

LEMMA ChdirQuiet ==
  ASSUME IInv, Sound, NEW p \in Process, Chdir(p)
  PROVE  Sound'
<1>1. In(p, {"chdir"}) /\ {"chdir"} \subseteq HasIp \ (HasDp \cup {"iget"})
  BY DEF Chdir, At, HasIp, HasDp
<1>2. /\ th[p].pc = "chdir" /\ th[p].ip \in Inum /\ Place(th[p]) = th[p].pc
      /\ ~Creating(th[p]) /\ Firm(th[p].ip) /\ Typed(th[p].ip)
      /\ Local(th[p], cwd[p]) /\ \A i \in Inum : cwd[p] = i => Firm(i)
  BY <1>1, FirmIp
<1>3. UNCHANGED <<disk, files, lost, stale>> /\ cwd \in [Process -> Maybe]
  BY DEF Chdir, history, IInv, StateOK
<1>4. ~Pending(th[p])
  BY <1>2 DEF Pending
<1>5. CASE EndPut(p, th[p].ip) /\ UNCHANGED cwd
  BY <1>2, <1>3, <1>4, <1>5, EndPutQuiet, FilesFirm, CwdFirm
<1>6. CASE cwd' = [cwd EXCEPT ![p] = th[p].ip] /\ EndPut(p, cwd[p])
  <2>1. cwd[p] \in Inum /\ Firm(cwd[p])
    BY <1>2, <1>3 DEF Local, Maybe
  <2>2. \A i \in Inum : cwd'[p] = i => Firm(i)
    BY <1>2, <1>3, <1>6
  <2>3. \A q \in Process \ {p} : cwd'[q] = cwd[q]
    BY <1>3, <1>6
  <2> QED
    BY <1>2, <1>3, <1>4, <1>6, <2>1, <2>2, <2>3, EndPutQuiet, FilesFirm
<1> QED
  BY <1>2, <1>5, <1>6 DEF Chdir, NoType

\* An iput in the middle of a call, with the disk as it is.
LEMMA PutQuiet ==
  ASSUME IInv, Sound, NEW p \in Process, NEW s \in Threads, NEW k \in Inum,
         NEW l \in {"exists", "linkhas", "linkbad", "unlinkbad"},
         Set(p, Put(s, k, l)), UNCHANGED <<disk, cwd, files, lost, stale>>,
         ~Creating(th[p]), s.at = 0, Firm(k),
         s.dp # 0 => Firm(s.dp) /\ dinode[s.dp].type = DIR,
         s.ip # 0 => Firm(s.ip),
         l \in {"linkhas", "linkbad"} =>
           Pending(th[p]) /\ s.ip = th[p].ip /\ dinode[s.ip].type # DIR,
         l \in {"exists", "unlinkbad"} => ~Pending(th[p])
  PROVE  Sound'
<1> DEFINE t == Put(s, k, l)
<1>1. l \in Points \ Putting
  BY DEF Points, Putting
<1>2. /\ Place(t) = l /\ t.pc = "iput" /\ t.put = k
      /\ t.ret = l /\ t.at = 0 /\ t.dp = s.dp /\ t.ip = s.ip
  BY <1>1, PutFields
<1>3. Set(p, t)
  OBVIOUS
<1> HIDE DEF t
<1>4. /\ ~Creating(t) /\ t.pc # "itrunc"
      /\ Pending(t) <=> l \in {"linkhas", "linkbad"}
      /\ Linking(t) <=> l \in {"linkhas", "linkbad"}
  BY <1>2 DEF Creating, Pending, Linking
<1>5. Named(t)
  BY <1>2, <1>4 DEF Named
<1>6. \A i \in Inum : Holds(t, cwd'[p], i) => Firm(i)
  BY <1>2, Constants, CwdFirm DEF Holds
<1> QED
  BY <1>2, <1>3, <1>4, <1>5, <1>6, QuietStep, FilesFirm

LEMMA CreateLookupQuiet ==
  ASSUME IInv, Sound, ~strayed', NEW p \in Process, CreateLookup(p)
  PROVE  Sound'
<1> DEFINE d == th[p].dp
           n == Head(th[p].rest)
           i == Lookup(d, n)
           L == {"creat", "mkdir", "mknod"}
<1>1. In(p, L) /\ L \subseteq HasDp \ HasIp
  BY DEF CreateLookup, HasIp, HasDp
<1>2. /\ th[p].pc \in L /\ th[p] \in Threads /\ Place(th[p]) = th[p].pc
      /\ d \in Inum /\ th[p].at = 0 /\ th[p].ip = 0 /\ th[p].put = 0
      /\ th[p].ret \notin Putting /\ Local(th[p], cwd[p])
      /\ ~Creating(th[p]) /\ Named(th[p]) /\ dinode[d].type = DIR
      /\ Firm(d) /\ Typed(d)
      /\ \A j \in Inum : cwd[p] = j => Firm(j)
  BY <1>1, FirmDp
<1>3. UNCHANGED <<disk, cwd, files, lost>> /\ ~Pending(th[p])
  BY <1>2 DEF CreateLookup, Pending
<1>4. n \in Element
  BY <1>2, HeadTailProperties DEF Threads, Local, HasDp
<1>5. CASE /\ i # 0 /\ Follows(d, n)
           /\ Set(p, Put([th[p] EXCEPT !.dp = 0, !.ip = i], d, "exists"))
  <2> DEFINE s == [th[p] EXCEPT !.dp = 0, !.ip = i]
  <2>1. i \in Inum /\ Firm(i)
    BY <1>2, <1>4, <1>5, LookupFirm DEF Follows, IInv
  <2>2. s \in Threads /\ s.at = 0 /\ s.dp = 0 /\ s.ip = i
    BY <1>2, <2>1 DEF Threads, Maybe
  <2>3. Set(p, Put(s, d, "exists")) /\ stale' = stale
    BY <1>5 DEF Follows
  <2> HIDE DEF s
  <2> QED
    BY <1>2, <1>3, <2>1, <2>2, <2>3, PutQuiet
<1>6. CASE /\ i = 0 /\ UNCHANGED history
           /\ Set(p, [th[p] EXCEPT !.pc = "ialloc", !.inum = 0])
  <2> DEFINE t == [th[p] EXCEPT !.pc = "ialloc", !.inum = 0]
  <2>1. /\ t.pc = "ialloc" /\ t.at = 0 /\ t.dp = d /\ t.ip = 0 /\ t.put = 0
        /\ t.ret = th[p].ret /\ t.rest = th[p].rest
    BY <1>2 DEF Threads
  <2>2. Set(p, t)
    BY <1>6
  <2> HIDE DEF t
  <2>3. Place(t) = "ialloc"
    BY <2>1 DEF Place, Putting
  <2>4. ~Creating(t) /\ ~Pending(t) /\ ~Linking(t)
    BY <2>1, <2>3 DEF Creating, Pending, Linking
  <2>5. up[d] # 0
    BY <1>2 DEF Sound, Shape, Firm
  <2>6. n \in Name /\ ents[d][n] = 0
    <3>1. n # "." /\ n # ".."
      BY <1>2, <1>6, <2>5, Constants DEF Lookup
    <3> QED
      BY <1>4, <1>6, <3>1 DEF Lookup, Element
  <2>7. Named(t)
    BY <1>2, <2>1, <2>3, <2>4, <2>6 DEF Named
  <2>8. \A j \in Inum : Holds(t, cwd'[p], j) => Firm(j)
    BY <1>2, <1>3, <2>1, Constants DEF Holds
  <2> QED
    BY <1>2, <1>3, <1>6, <2>1, <2>2, <2>4, <2>7, <2>8, QuietStep, FilesFirm DEF history
<1> QED
  BY <1>2, <1>5, <1>6 DEF CreateLookup, NoType

LEMMA LinkHasQuiet ==
  ASSUME IInv, Sound, NEW p \in Process, LinkHas(p)
  PROVE  Sound'
<1> DEFINE s == [th[p] EXCEPT !.dp = 0]
<1>1. In(p, {"linkhas"}) /\ {"linkhas"} \subseteq HasDp \cap HasIp
  BY DEF LinkHas, At, HasIp, HasDp
<1>2. /\ th[p].pc = "linkhas" /\ th[p] \in Threads /\ Place(th[p]) = th[p].pc
      /\ th[p].dp \in Inum /\ th[p].ip \in Inum /\ th[p].at = 0
      /\ ~Creating(th[p]) /\ Named(th[p])
      /\ Firm(th[p].dp) /\ Firm(th[p].ip)
  BY <1>1, FirmBoth
<1>3. UNCHANGED <<disk, cwd, files, lost, stale>>
  BY DEF LinkHas, history
<1>4. Pending(th[p]) /\ Linking(th[p]) /\ dinode[th[p].ip].type # DIR
  BY <1>2 DEF Pending, Linking, Named
<1>5. s \in Threads /\ s.at = 0 /\ s.dp = 0 /\ s.ip = th[p].ip
  BY <1>2 DEF Threads, Maybe
<1>6. Set(p, Put(s, th[p].dp, "linkbad"))
  BY DEF LinkHas
<1> HIDE DEF s
<1> QED
  BY <1>2, <1>3, <1>4, <1>5, <1>6, PutQuiet

LEMMA UnlinkLookupQuiet ==
  ASSUME IInv, Sound, NEW p \in Process, UnlinkLookup(p)
  PROVE  Sound'
<1> DEFINE d == th[p].dp
           n == Head(th[p].rest)
           i == Lookup(d, n)
<1>1. In(p, {"unlink"}) /\ {"unlink"} \subseteq HasDp \ HasIp
  BY DEF UnlinkLookup, At, HasIp, HasDp
<1>2. /\ th[p].pc = "unlink" /\ th[p] \in Threads /\ Place(th[p]) = th[p].pc
      /\ d \in Inum /\ th[p].at = 0 /\ th[p].ip = 0 /\ th[p].put = 0
      /\ th[p].ret \notin Putting /\ Local(th[p], cwd[p])
      /\ ~Creating(th[p]) /\ Named(th[p]) /\ dinode[d].type = DIR
      /\ Firm(d) /\ Typed(d)
      /\ \A j \in Inum : cwd[p] = j => Firm(j)
  BY <1>1, FirmDp
<1>3. UNCHANGED <<disk, cwd, files, lost, stale>> /\ ~Pending(th[p])
  BY <1>2 DEF UnlinkLookup, Pending, history
<1>4. n \in Element
  BY <1>2, HeadTailProperties DEF Threads, Local, HasDp
<1>5. CASE EndPut(p, d)
  BY <1>2, <1>3, <1>5, EndPutQuiet, FilesFirm, CwdFirm
<1>6. CASE /\ n \notin {".", ".."} /\ i # 0
           /\ Set(p, [th[p] EXCEPT !.pc = "unlinkip", !.ip = i])
  <2> DEFINE t == [th[p] EXCEPT !.pc = "unlinkip", !.ip = i]
  <2>1. n \in Name /\ i = ents[d][n]
    BY <1>4, <1>6 DEF Element, Lookup
  <2>2. i \in Inum /\ Firm(i)
    BY <1>2, <1>6, <2>1, EntryFirm DEF IInv
  <2>3. /\ t.pc = "unlinkip" /\ t.at = 0 /\ t.dp = d /\ t.ip = i /\ t.put = 0
        /\ t.ret = th[p].ret /\ t.rest = th[p].rest
    BY <1>2 DEF Threads
  <2>4. Set(p, t)
    BY <1>6
  <2> HIDE DEF t
  <2>5. Place(t) = "unlinkip"
    BY <2>3 DEF Place, Putting
  <2>6. ~Creating(t) /\ ~Pending(t) /\ ~Linking(t)
    BY <2>3, <2>5 DEF Creating, Pending, Linking
  <2>7. Named(t)
    BY <1>2, <2>1, <2>3, <2>5, <2>6 DEF Named
  <2>8. \A j \in Inum : Holds(t, cwd'[p], j) => Firm(j)
    BY <1>2, <1>3, <2>2, <2>3, Constants DEF Holds
  <2> QED
    BY <1>2, <1>3, <2>3, <2>4, <2>6, <2>7, <2>8, QuietStep, FilesFirm
<1> QED
  BY <1>2, <1>5, <1>6 DEF UnlinkLookup, NoType

\* The inode of ialloc stays new.
LEMMA IallocGetSound ==
  ASSUME IInv, Sound, NEW p \in Process, IallocGet(p)
  PROVE  Sound'
<1> DEFINE t == [th[p] EXCEPT !.pc = "create"]
<1>1. /\ th[p].pc = "iget" /\ th[p] \in Threads /\ th \in [Process -> Threads]
  BY Here DEF IallocGet, At
<1>2. /\ t.pc = "create" /\ t.at = th[p].at /\ t.dp = th[p].dp /\ t.ip = th[p].ip
      /\ t.put = th[p].put /\ t.ret = th[p].ret /\ t.rest = th[p].rest
      /\ t.call = th[p].call /\ th' = [th EXCEPT ![p] = t]
  BY <1>1 DEF Threads, IallocGet, Goto, Set
<1> HIDE DEF t
<1>3. th'[p] = t /\ \A q \in Process \ {p} : th'[q] = th[q]
  BY <1>1, <1>2
<1>4. UNCHANGED <<dinode, ents, up, cwd, ftable, lost, stale>>
  BY DEF IallocGet, disk, files, history
<1>5. Place(th[p]) = "iget" /\ Place(t) = "create" /\ Creating(th[p]) /\ Creating(t)
  BY <1>1, <1>2 DEF Place, Putting, Creating
<1>6. ~Pending(th[p]) /\ ~Pending(t) /\ ~Linking(t)
  BY <1>1, <1>2, <1>5 DEF Pending, Linking
<1>7. \A q \in Process : /\ Creating(th'[q]) <=> Creating(th[q])
                         /\ th'[q].ip = th[q].ip /\ th'[q].put = th[q].put
                         /\ th'[q].call = th[q].call
                         /\ th'[q].pc = "itrunc" <=> th[q].pc = "itrunc"
                         /\ \A c, i : Holds(th'[q], c, i) <=> Holds(th[q], c, i)
  BY <1>1, <1>2, <1>3, <1>5 DEF Holds
<1>8. \A i \in Inum : /\ Settled(i)' <=> Settled(i)
                      /\ Firm(i)' <=> Firm(i)
  BY <1>4, <1>7 DEF Settled, Firm
<1>9. Shape'
  BY <1>4, <1>8 DEF Sound, Shape
<1>10. Firmly'
  <2>1. ASSUME NEW q \in Process, NEW i \in Inum, Holds(th'[q], cwd'[q], i)
        PROVE  Firm(i)'
    BY <1>4, <1>7, <1>8, <2>1 DEF Sound, Firmly
  <2>2. (\A q \in Process, i \in Inum : Holds(th[q], cwd[q], i) => Firm(i))'
    BY <2>1 DEF Holds, Creating
  <2> QED
    BY <1>4, <1>8, <2>2 DEF Sound, Firmly
<1>11. Unlinking'
  BY <1>4, <1>7, <1>8 DEF Sound, Unlinking
<1>12. Allocated'
  <2> SUFFICES ASSUME NEW q \in Process, NEW i \in Inum, Creating(th'[q]), th'[q].ip = i
               PROVE  /\ dinode'[i].type = NewType(q)' /\ dinode'[i].nlink = 0
                      /\ \A r \in Process \ {q} : Creating(th'[r]) => th'[r].ip # i
    BY DEF Allocated, Creating
  <2>1. NewType(q)' = NewType(q)
    BY <1>7 DEF NewType
  <2> QED
    BY <1>4, <1>7, <2>1 DEF Sound, Allocated
<1>13. ASSUME NEW i \in Inum
       PROVE  Counted(i)'
  <2>1. Cardinality(Pends(i))' = Cardinality(Pends(i))
    BY <1>3, <1>6, PendStep, Tally DEF One
  <2>2. Entries(i)' = Entries(i) /\ Subdirs(i)' = Subdirs(i)
    BY <1>4, SameEntries DEF IInv
  <2> QED
    BY <1>4, <2>1, <2>2 DEF Sound, Counted, Links
<1>14. \A q \in Process : Named(th[q])'
  <2>1. Named(th[p])
    BY DEF Sound
  <2>2. Named(t)
    BY <1>2, <1>5, <1>6, <2>1 DEF Named
  <2> QED
    BY <1>3, <1>4, <2>2 DEF Sound, Named
<1> QED
  BY <1>9, <1>10, <1>11, <1>12, <1>13, <1>14 DEF Sound

(***************************************************************************)
(* Files, processes, crashes.                                              *)
(***************************************************************************)

LEMMA FileCloseQuiet ==
  ASSUME IInv, Sound, NEW p \in Process, In(p, {"user", "exit"}), file[p] # 0,
         NEW l \in {"user", "exit"}, FileClose(p, l), UNCHANGED <<disk, cwd, lost, stale>>
  PROVE  Sound'
<1> DEFINE f == file[p]
           k == ftable[f].ip
<1>1. /\ th[p] \in Threads /\ Place(th[p]) \in {"user", "exit"}
      /\ th[p].pc \in {"user", "exit"}
      /\ th[p].at = 0 /\ th[p].dp = 0 /\ th[p].ip = 0 /\ th[p].put = 0
      /\ th[p].ret \notin Putting
  BY HereUser
<1>2. /\ f \in Files /\ ftable \in [Files -> [ref : Nat, ip : Maybe]]
      /\ Named(th[p]) /\ \A i \in Inum : cwd[p] = i => Firm(i)
  BY Standing DEF IInv, StateOK, Holds
<1>3. ~Creating(th[p]) /\ ~Pending(th[p]) /\ UNCHANGED cwd
  BY <1>1 DEF Creating, Pending
<1>4. CASE /\ ftable[f].ref > 1
           /\ ftable' = [ftable EXCEPT ![f].ref = @ - 1]
           /\ Goto(p, l)
  <2> DEFINE t == [th[p] EXCEPT !.pc = l]
  <2>1. /\ t.pc = l /\ t.at = 0 /\ t.dp = 0 /\ t.ip = 0 /\ t.put = 0 /\ t.ret = th[p].ret
    BY <1>1 DEF Threads
  <2>2. Set(p, t)
    BY <1>4 DEF Goto
  <2> HIDE DEF t
  <2>3. Place(t) = l
    BY <2>1 DEF Place, Putting
  <2>4. ~Creating(t) /\ ~Pending(t) /\ ~Linking(t)
    BY <2>1, <2>3 DEF Creating, Pending, Linking
  <2>5. Named(t)
    BY <1>2, <2>1, <2>3, <2>4 DEF Named
  <2>6. \A i \in Inum : Holds(t, cwd'[p], i) => Firm(i)
    BY <1>2, <1>3, <2>1, Constants DEF Holds
  <2>7. \A g \in Files : ftable'[g].ip = ftable[g].ip
    BY <1>2, <1>4
  <2>8. \A g \in Files, i \in Inum : ftable'[g].ip = i => Firm(i)
    BY <2>7 DEF Sound, Firmly
  <2> QED
    BY <1>3, <2>1, <2>2, <2>4, <2>5, <2>6, <2>8, QuietStep
<1>5. CASE /\ ftable[f].ref = 1
           /\ ftable' = [ftable EXCEPT ![f] = NoFile]
           /\ Set(p, Put(th[p], k, l))
  <2> DEFINE t == Put(th[p], k, l)
  <2>1. k \in Inum /\ Firm(k)
    <3>1. k # 0 /\ k \in Maybe
      BY <1>2, <1>5 DEF IInv, FilesOpen
    <3> QED
      BY <1>2, <3>1 DEF Sound, Firmly, Maybe
  <2>2. l \in Points \ Putting
    BY DEF Points, Putting
  <2>3. /\ Place(t) = l /\ t.pc = "iput" /\ t.put = k /\ t.ret = l
        /\ t.at = 0 /\ t.dp = 0 /\ t.ip = 0
    BY <1>1, <2>1, <2>2, PutFields
  <2>4. Set(p, t)
    BY <1>5
  <2> HIDE DEF t
  <2>5. ~Creating(t) /\ ~Pending(t) /\ ~Linking(t)
    BY <2>3 DEF Creating, Pending, Linking
  <2>6. Named(t)
    BY <2>3, <2>5 DEF Named
  <2>7. \A i \in Inum : Holds(t, cwd'[p], i) => Firm(i)
    BY <1>2, <1>3, <2>1, <2>3, Constants DEF Holds
  <2>8. \A g \in Files, i \in Inum : ftable'[g].ip = i => Firm(i)
    <3>1. \A g \in Files : ftable'[g].ip = ftable[g].ip \/ ftable'[g].ip = 0
      BY <1>2, <1>5 DEF NoFile
    <3> QED
      BY <3>1, Constants DEF Sound, Firmly
  <2> QED
    BY <1>3, <2>3, <2>4, <2>5, <2>6, <2>7, <2>8, QuietStep
<1> QED
  BY <1>4, <1>5 DEF FileClose

LEMMA CloseQuiet ==
  ASSUME IInv, Sound, NEW p \in Process, Close(p)
  PROVE  Sound'
<1>1. In(p, {"user", "exit"})
  BY DEF Close, At, In
<1> QED
  BY <1>1, FileCloseQuiet DEF Close, history

LEMMA ExitQuiet ==
  ASSUME IInv, Sound, NEW p \in Process, Exit(p)
  PROVE  Sound'
<1>1. In(p, {"user", "exit"}) /\ UNCHANGED <<disk, lost, stale>> /\ cwd \in [Process -> Maybe]
  BY DEF Exit, history, IInv, StateOK
<1>2. CASE file[p] # 0 /\ FileClose(p, "exit") /\ UNCHANGED cwd
  BY <1>1, <1>2, FileCloseQuiet
<1>3. CASE cwd' = [cwd EXCEPT ![p] = 0] /\ EndPut(p, cwd[p]) /\ UNCHANGED files
  <2>1. Place(th[p]) \in {"user", "exit"} /\ th[p].pc \in {"user", "exit"} /\ th[p].ip = 0
    BY <1>1, HereUser
  <2>2. ~Creating(th[p]) /\ ~Pending(th[p])
    BY <2>1 DEF Creating, Pending
  <2>3. cwd[p] \in Inum /\ Firm(cwd[p])
    <3>1. cwd[p] \in Inum
      BY <1>1 DEF Exit, Maybe
    <3> QED
      BY <3>1, Standing DEF Holds
  <2>4. cwd'[p] = 0 /\ \A q \in Process \ {p} : cwd'[q] = cwd[q]
    BY <1>1, <1>3
  <2>5. \A i \in Inum : cwd'[p] # i
    BY <2>4, Constants
  <2> QED
    BY <1>1, <1>3, <2>2, <2>3, <2>4, <2>5, EndPutQuiet, FilesFirm
<1> QED
  BY <1>2, <1>3 DEF Exit

LEMMA ForkQuiet ==
  ASSUME IInv, Sound, NEW p \in Process, Fork(p)
  PROVE  Sound'
<1>1. PICK q \in Process :
        /\ At(q, "user")
        /\ ftable' = [g \in Files |-> IF g = file[p] THEN [ftable[g] EXCEPT !.ref = @ + 1]
                                                     ELSE ftable[g]]
        /\ cwd' = [cwd EXCEPT ![q] = cwd[p]]
  BY DEF Fork
<1>2. /\ UNCHANGED <<disk, lost, stale>> /\ th' = th
      /\ th \in [Process -> Threads] /\ cwd \in [Process -> Maybe]
      /\ ftable \in [Files -> [ref : Nat, ip : Maybe]]
  BY DEF Fork, history, IInv, StateOK
<1>3. Set(q, th[q])
  BY <1>2 DEF Set
<1>4. In(q, {"user", "exit"})
  BY <1>1 DEF At, In
<1>5. th[q].pc \in {"user", "exit"} /\ th[q].at = 0 /\ th[q].dp = 0 /\ th[q].ip = 0
  BY <1>4, HereUser
<1>6. ~Creating(th[q]) /\ th[q].pc # "itrunc" /\ Named(th[q])
  BY <1>5, Standing DEF Creating
<1>7. cwd'[q] = cwd[p] /\ \A r \in Process \ {q} : cwd'[r] = cwd[r]
  BY <1>1, <1>2
<1>8. \A i \in Inum : Holds(th[q], cwd'[q], i) => Firm(i)
  <2>1. /\ \A i \in Inum : Holds(th[p], cwd[p], i) => Firm(i)
        /\ \A i \in Inum : Holds(th[q], cwd[q], i) => Firm(i)
    BY Standing
  <2> QED
    BY <1>7, <2>1 DEF Holds
<1>9. \A g \in Files, i \in Inum : ftable'[g].ip = i => Firm(i)
  <2>1. \A g \in Files : ftable'[g].ip = ftable[g].ip
    BY <1>1, <1>2
  <2> QED
    BY <2>1 DEF Sound, Firmly
<1> QED
  BY <1>2, <1>3, <1>6, <1>7, <1>8, <1>9, QuietStep

\* A crash: nobody is in a call, and the root is there.
LEMMA CrashSound ==
  ASSUME IInv, Sound, Crash
  PROVE  Sound'
<1>1. /\ UNCHANGED <<dinode, ents, up, th, lost, stale>>
      /\ cwd' = [p \in Process |-> ROOT] /\ ftable' = [f \in Files |-> NoFile]
  BY DEF Crash, disk, history
<1>2. \A p \in Process : th[p].pc = "user" /\ th[p].at = 0 /\ th[p].dp = 0 /\ th[p].ip = 0
  <2> SUFFICES ASSUME NEW p \in Process
               PROVE  th[p].pc = "user" /\ th[p].at = 0 /\ th[p].dp = 0 /\ th[p].ip = 0
    OBVIOUS
  <2>1. In(p, {"user", "exit"}) /\ th[p].pc = "user"
    BY DEF Crash, At, In
  <2> QED
    BY <2>1, HereUser
<1>3. \A i \in Inum : (Settled(i)' <=> Settled(i)) /\ (Firm(i)' <=> Firm(i))
  BY <1>1 DEF Settled, Firm
<1>4. Shape'
  BY <1>1, <1>3 DEF Sound, Shape
<1>5. Firmly'
  <2>1. ASSUME NEW q \in Process, NEW i \in Inum, Holds(th'[q], cwd'[q], i)
        PROVE  Firm(i)'
    <3>1. i = ROOT
      BY <1>1, <1>2, <2>1, Constants DEF Holds
    <3>2. Firm(ROOT) /\ ROOT \in Inum
      BY RootFirm DEF IInv
    <3> QED
      BY <1>3, <3>1, <3>2
  <2>2. (\A q \in Process, i \in Inum : Holds(th[q], cwd[q], i) => Firm(i))'
    BY <2>1 DEF Holds, Creating
  <2>3. \A f \in Files, i \in Inum : ftable'[f].ip # i
    BY <1>1, Constants DEF NoFile
  <2> QED
    BY <1>1, <1>3, <2>2, <2>3 DEF Sound, Firmly
<1>6. Unlinking'
  BY <1>1, <1>3 DEF Sound, Unlinking
<1>7. Allocated'
  BY <1>1, <1>2 DEF Allocated, Creating
<1>8. ASSUME NEW i \in Inum
      PROVE  Counted(i)'
  <2>1. Pends(i)' = Pends(i)
    BY <1>1 DEF Pends
  <2>2. Entries(i)' = Entries(i) /\ Subdirs(i)' = Subdirs(i)
    BY <1>1, SameEntries DEF IInv
  <2> QED
    BY <1>1, <2>1, <2>2 DEF Sound, Counted, Links
<1>9. \A q \in Process : Named(th[q])'
  BY <1>1 DEF Sound, Named
<1> QED
  BY <1>4, <1>5, <1>6, <1>7, <1>8, <1>9 DEF Sound

LEMMA StutterSound ==
  ASSUME Sound, UNCHANGED vars
  PROVE  Sound'
<1>1. UNCHANGED <<dinode, ents, up, th, cwd, ftable, lost, stale>>
  BY DEF vars, disk, files, history
<1>2. \A i \in Inum : (Settled(i)' <=> Settled(i)) /\ (Firm(i)' <=> Firm(i))
  BY <1>1 DEF Settled, Firm
<1>3. Shape' /\ Firmly' /\ Unlinking'
  BY <1>1, <1>2 DEF Sound, Shape, Firmly, Unlinking
<1>4. Allocated'
  BY <1>1 DEF Sound, Allocated, NewType
<1>5. \A i \in Inum : Counted(i)'
  BY <1>1 DEF Sound, Counted, Links, Entries, Subdirs, Pends
<1>6. \A q \in Process : Named(th[q])'
  BY <1>1 DEF Sound, Named
<1> QED
  BY <1>3, <1>4, <1>5, <1>6 DEF Sound

(***************************************************************************)
(* The steps that change nlink, or an entry.                               *)
(***************************************************************************)

\* A process finds what it has looked up: its directory is locked.
LEMMA OthersNamed ==
  ASSUME IInv, NoPanic, Sound, NEW p \in Process, NEW q \in Process, q # p, th'[q] = th[q],
         \A i \in Inum : dinode'[i].type = dinode[i].type,
         \A d \in Inum : lock[d] \in Process \ {p} => ents'[d] = ents[d]
  PROVE  Named(th[q])'
<1>1. /\ Named(th[q]) /\ th[q] \in Threads /\ Local(th[q], cwd[q])
      /\ Locked(q, th[q], lock)
  BY DEF Sound, IInv, StateOK, Live, NoPanic
<1>2. Place(th[q]) \in {"ialloc", "iget", "create", "unlinkip"} =>
        th[q].dp \in Inum /\ ents'[th[q].dp] = ents[th[q].dp]
  BY <1>1 DEF Local, Locked, HasDp, LocksDp, Threads, Maybe
<1>3. th[q].dp # 0 => dinode'[th[q].dp].type = DIR
  BY <1>1 DEF Named, Threads, Maybe
<1>4. Linking(th[q]) => dinode'[th[q].ip].type # DIR
  <2>1. Linking(th[q]) => th[q].ip \in Inum
    BY <1>1 DEF Local, Linking, HasIp, Threads, Maybe
  <2> QED
    BY <1>1, <2>1 DEF Named
<1> QED
  BY <1>1, <1>2, <1>3, <1>4 DEF Named

\* The call goes on with t: what p changes on the disk is in use, and counted.
LEMMA DiskStep ==
  ASSUME IInv, NoPanic, Sound, NEW p \in Process, NEW t, Set(p, t),
         UNCHANGED <<up, cwd, files, lost, stale>>,
         ~Creating(th[p]), ~Creating(t), t.pc # "itrunc",
         \A i \in Inum : dinode'[i].type = dinode[i].type,
         \A i \in Inum : dinode'[i] # dinode[i] => Firm(i),
         \A d \in Inum, n \in Name : ents'[d][n] # 0 => ents[d][n] # 0 \/ dinode[d].type = DIR,
         \A d \in Inum : lock[d] \in Process \ {p} => ents'[d] = ents[d],
         \A i \in Inum : Holds(t, cwd[p], i) => Firm(i),
         \A i \in Inum : Counted(i)',
         Named(t)'
  PROVE  Sound'
<1>1. th' = [th EXCEPT ![p] = t] /\ th \in [Process -> Threads] /\ cwd' = cwd
  BY DEF Set, IInv, StateOK
<1>2. th'[p] = t /\ \A q \in Process \ {p} : th'[q] = th[q]
  BY <1>1
<1>3. ASSUME NEW q \in Process
      PROVE  Named(th[q])'
  <2>1. CASE q = p
    BY <1>2, <2>1 DEF Named
  <2>2. CASE q # p
    BY <1>2, <2>2, OthersNamed
  <2> QED
    BY <2>1, <2>2
<1>4. \A i \in Inum : Holds(th'[p], cwd'[p], i) => Firm(i)
  BY <1>1, <1>2
<1>5. ~Creating(th'[p]) /\ th'[p].pc # "itrunc"
  BY <1>2
<1> QED
  BY <1>1, <1>2, <1>3, <1>4, <1>5, StepSound, FilesFirm

LEMMA LinkOldSound ==
  ASSUME IInv, Sound, NEW p \in Process, LinkOld(p)
  PROVE  Sound'
<1>1. In(p, {"link"}) /\ {"link"} \subseteq HasIp \ (HasDp \cup {"iget"})
  BY DEF LinkOld, At, HasIp, HasDp
<1>0. PICK k \in Inum : k = th[p].ip
  BY <1>1, FirmIp
<1>2. /\ NoPanic /\ th[p].pc = "link" /\ th[p] \in Threads /\ Place(th[p]) = th[p].pc
      /\ k = th[p].ip /\ th[p].at = 0 /\ th[p].dp = 0 /\ th[p].put = 0
      /\ ~Creating(th[p]) /\ Named(th[p]) /\ Firm(k) /\ Typed(k) /\ Meta(k) = dinode[k]
      /\ \A i \in Inum : cwd[p] = i => Firm(i)
  BY <1>0, <1>1, FirmIp
<1>3. UNCHANGED <<cwd, files, lost, stale>> /\ ~Pending(th[p])
  BY <1>2 DEF LinkOld, Pending, history
<1>4. CASE EndPut(p, k) /\ UNCHANGED disk
  BY <1>2, <1>3, <1>4, EndPutQuiet, FilesFirm, CwdFirm
<1>5. CASE /\ Meta(k).type # DIR
           /\ Updated(k, [Meta(k) EXCEPT !.nlink = @ + 1])
           /\ Goto(p, "linkwalk")
           /\ UNCHANGED <<ents, up>>
  <2>1. PICK t : t = [th[p] EXCEPT !.pc = "linkwalk"]
    OBVIOUS
  <2>2. /\ t.pc = "linkwalk" /\ t.at = 0 /\ t.dp = 0 /\ t.ip = k /\ t.put = 0
        /\ t.ret = th[p].ret /\ Set(p, t)
    BY <1>2, <1>5, <2>1 DEF Threads, Goto
  <2>3. Place(t) = "linkwalk"
    BY <2>2 DEF Place, Putting
  <2>4. ~Creating(t) /\ Pending(t)
    BY <2>2, <2>3 DEF Creating, Pending
  <2>5. dinode \in [Inum -> Metas] /\ th \in [Process -> Threads]
    BY DEF IInv, StateOK
  <2>6. \A i \in Inum : /\ dinode'[i].type = dinode[i].type
                        /\ dinode'[i].nlink = dinode[i].nlink + One(k = i)
                        /\ dinode'[i] # dinode[i] => i = k
    BY <1>2, <1>5, <2>5 DEF Updated, Metas, One
  <2>7. Named(t)'
    BY <1>2, <1>5, <2>2, <2>3, <2>6 DEF Named
  <2>8. \A i \in Inum : Holds(t, cwd[p], i) => Firm(i)
    BY <1>2, <2>2, Constants DEF Holds
  <2>9. th'[p] = t /\ \A q \in Process \ {p} : th'[q] = th[q]
    BY <2>2, <2>5 DEF Set
  <2>10. ASSUME NEW i \in Inum
         PROVE  Counted(i)'
    <3>1. Cardinality(Pends(i))' = Cardinality(Pends(i)) + One(k = i)
      BY <1>3, <2>2, <2>4, <2>9, PendStep, Tally DEF One
    <3>2. Entries(i)' = Entries(i) /\ Subdirs(i)' = Subdirs(i)
      BY <1>5, <2>6, SameEntries DEF IInv
    <3>3. Counted(i) /\ StateOK /\ lost' = lost /\ One(k = i) \in Int
          /\ dinode[i].nlink \in Int
      BY <1>3, <2>5 DEF Sound, IInv, One, Metas
    <3>4. Cardinality(Entries(i)) \in Nat /\ Cardinality(Subdirs(i)) \in Nat
      BY Tally
    <3>5. /\ Cardinality(Entries(i))' = Cardinality(Entries(i)) + 0
          /\ Cardinality(Subdirs(i))' = Cardinality(Subdirs(i)) + 0
          /\ dinode'[i].nlink = dinode[i].nlink + 0 + 0 + One(k = i)
      BY <2>6, <3>2, <3>3, <3>4
    <3> QED
      BY <3>1, <3>3, <3>5, CountStep
  <2> QED
    BY <1>2, <1>3, <1>5, <2>2, <2>4, <2>6, <2>7, <2>8, <2>10, DiskStep
<1> QED
  BY <1>2, <1>4, <1>5 DEF LinkOld, NoType

\* A link that is counted, and neither there nor going to be.
LEMMA UncountSound ==
  ASSUME IInv, NoPanic, Sound, NEW p \in Process, NEW k \in Inum, k = th[p].ip,
         ~Creating(th[p]), Pending(th[p]), copy[k] # Invalid,
         Updated(k, [copy[k] EXCEPT !.nlink = @ - 1]), EndPut(p, k),
         UNCHANGED <<ents, up, cwd, files, lost, stale>>
  PROVE  Sound'
<1>1. copy[k] = dinode[k]
  BY DEF IInv, Cached, Coherent
<1>2. Firm(k) /\ \A i \in Inum : cwd[p] = i => Firm(i)
  BY Standing DEF Holds
<1>3. PICK t : t = Put(Idle, k, "user")
  OBVIOUS
<1>4. /\ t.pc = "iput" /\ t.put = k /\ t.at = 0 /\ t.dp = 0 /\ t.ip = 0 /\ t.ret = "user"
      /\ Set(p, t)
  BY <1>3 DEF Put, Idle, EndPut
<1>5. Place(t) = "user"
  BY <1>4 DEF Place, Putting
<1>6. ~Creating(t) /\ ~Pending(t) /\ t.pc # "itrunc" /\ ~Linking(t)
  BY <1>4, <1>5 DEF Creating, Pending, Linking
<1>7. dinode \in [Inum -> Metas] /\ th \in [Process -> Threads]
  BY DEF IInv, StateOK
<1>8. \A i \in Inum : /\ dinode'[i].type = dinode[i].type
                      /\ dinode'[i].nlink = dinode[i].nlink - One(k = i)
                      /\ dinode'[i] # dinode[i] => i = k
  BY <1>1, <1>7 DEF Updated, Metas, One
<1>9. Named(t)'
  BY <1>4, <1>5, <1>6 DEF Named
<1>10. \A i \in Inum : Holds(t, cwd[p], i) => Firm(i)
  BY <1>2, <1>4, Constants DEF Holds
<1>11. th'[p] = t /\ \A q \in Process \ {p} : th'[q] = th[q]
  BY <1>4, <1>7 DEF Set
<1>12. ASSUME NEW i \in Inum
       PROVE  Counted(i)'
  <2>1. Cardinality(Pends(i))' = Cardinality(Pends(i)) + (-One(k = i))
    BY <1>6, <1>11, PendStep, Tally DEF One
  <2>2. Entries(i)' = Entries(i) /\ Subdirs(i)' = Subdirs(i)
    BY <1>8, SameEntries DEF IInv
  <2>3. Counted(i) /\ StateOK /\ lost' = lost /\ -One(k = i) \in Int
        /\ dinode[i].nlink \in Int
    BY <1>7 DEF Sound, IInv, One, Metas
  <2>4. Cardinality(Entries(i)) \in Nat /\ Cardinality(Subdirs(i)) \in Nat
    BY Tally
  <2>5. /\ Cardinality(Entries(i))' = Cardinality(Entries(i)) + 0
        /\ Cardinality(Subdirs(i))' = Cardinality(Subdirs(i)) + 0
        /\ dinode'[i].nlink = dinode[i].nlink + 0 + 0 + (-One(k = i))
    BY <1>8, <2>2, <2>3, <2>4 DEF One
  <2> QED
    BY <2>1, <2>3, <2>5, CountStep
<1> QED
  BY <1>2, <1>4, <1>6, <1>8, <1>9, <1>10, <1>12, DiskStep

LEMMA LinkBadSound ==
  ASSUME IInv, Sound, NEW p \in Process, LinkBad(p)
  PROVE  Sound'
<1>1. In(p, {"linkbad"}) /\ {"linkbad"} \subseteq HasIp \ (HasDp \cup {"iget"})
  BY DEF LinkBad, At, HasIp, HasDp
<1>2. PICK k \in Inum : k = th[p].ip
  BY <1>1, FirmIp
<1>3. /\ NoPanic /\ th[p].pc = "linkbad" /\ Place(th[p]) = th[p].pc /\ ~Creating(th[p])
  BY <1>1, FirmIp
<1>4. Used(th[p], copy)
  BY <1>1, HereIp
<1>5. Pending(th[p]) /\ copy[k] # Invalid
  BY <1>2, <1>3, <1>4 DEF Pending, Used, Linking
<1>6. /\ Updated(k, [copy[k] EXCEPT !.nlink = @ - 1]) /\ EndPut(p, k)
      /\ UNCHANGED <<ents, up, cwd, files, lost, stale>>
  BY <1>2 DEF LinkBad, history
<1> QED
  BY <1>2, <1>3, <1>5, <1>6, UncountSound

LEMMA UnlinkedSound ==
  ASSUME IInv, Sound, NEW p \in Process, Unlinked(p)
  PROVE  Sound'
<1>1. In(p, {"unlinked"}) /\ {"unlinked"} \subseteq HasIp \ (HasDp \cup {"iget"})
  BY DEF Unlinked, At, HasIp, HasDp
<1>2. PICK k \in Inum : k = th[p].ip
  BY <1>1, FirmIp
<1>3. /\ NoPanic /\ th[p].pc = "unlinked" /\ Place(th[p]) = th[p].pc /\ ~Creating(th[p])
  BY <1>1, FirmIp
<1>4. Used(th[p], copy)
  BY <1>1, HereIp
<1>5. Pending(th[p]) /\ copy[k] # Invalid
  BY <1>2, <1>3, <1>4 DEF Pending, Used, LocksIp
<1>6. /\ Updated(k, [copy[k] EXCEPT !.nlink = @ - 1]) /\ EndPut(p, k)
      /\ UNCHANGED <<ents, up, cwd, files, lost, stale>>
  BY <1>2 DEF Unlinked, history
<1> QED
  BY <1>2, <1>3, <1>5, <1>6, UncountSound

\* The entry of a new link: the link was counted, and is there now.
LEMMA LinkNewSound ==
  ASSUME IInv, Sound, ~strayed', NEW p \in Process, LinkNew(p)
  PROVE  Sound'
<1>1. In(p, {"linknew"}) /\ {"linknew"} \subseteq HasDp \cap HasIp
  BY DEF LinkNew, At, HasIp, HasDp
<1>0. PICK d \in Inum, k \in Inum, n \in Element :
        d = th[p].dp /\ k = th[p].ip /\ n = Head(th[p].rest)
  <2>1. /\ th[p].dp \in Inum /\ th[p].ip \in Inum /\ th[p] \in Threads
        /\ Place(th[p]) = "linknew" /\ Local(th[p], cwd[p])
    BY <1>1, FirmBoth
  <2> QED
    BY <2>1, HeadTailProperties DEF Threads, Local, HasDp
<1>2. /\ NoPanic /\ th[p].pc = "linknew" /\ th[p] \in Threads /\ Place(th[p]) = th[p].pc
      /\ d = th[p].dp /\ k = th[p].ip /\ n = Head(th[p].rest)
      /\ th[p].at = 0 /\ th[p].put = 0
      /\ ~Creating(th[p]) /\ Named(th[p]) /\ dinode[d].type = DIR
      /\ Firm(d) /\ Typed(d) /\ Firm(k)
      /\ \A j \in Inum : cwd[p] = j => Firm(j)
  BY <1>0, <1>1, FirmBoth
<1>3. UNCHANGED <<dinode, up, cwd, files, lost>> /\ Pending(th[p]) /\ Unlocked(d)
  BY <1>2 DEF LinkNew, Pending
<1>4. dinode[k].type # DIR
  BY <1>2 DEF Named, Linking
<1>5. CASE /\ Lookup(d, n) # 0 /\ Follows(d, n) /\ UNCHANGED ents
           /\ Set(p, Put(th[p], Lookup(d, n), "linkhas"))
  <2>1. Lookup(d, n) \in Inum /\ Firm(Lookup(d, n))
    BY <1>2, <1>5, LookupFirm DEF Follows, IInv
  <2>2. UNCHANGED <<disk, cwd, files, lost, stale>>
    BY <1>3, <1>5 DEF disk, Follows
  <2> QED
    BY <1>2, <1>3, <1>4, <1>5, <2>1, <2>2, PutQuiet
<1>6. CASE /\ Lookup(d, n) = 0 /\ UNCHANGED history
           /\ ents' = [ents EXCEPT ![d][n] = k]
           /\ Set(p, Put([th[p] EXCEPT !.dp = 0], d, "linked"))
  <2>1. PICK t : t = Put([th[p] EXCEPT !.dp = 0], d, "linked")
    OBVIOUS
  <2>2. /\ t.pc = "iput" /\ t.put = d /\ t.at = 0 /\ t.dp = 0 /\ t.ip = k /\ t.ret = "linked"
        /\ Set(p, t)
    BY <1>2, <1>6, <2>1 DEF Put, Threads
  <2>3. Place(t) = "linked"
    BY <2>2 DEF Place, Putting
  <2>4. ~Creating(t) /\ ~Pending(t) /\ t.pc # "itrunc"
    BY <2>2, <2>3 DEF Creating, Pending
  <2>5. up[d] # 0
    BY <1>2 DEF Sound, Shape, Firm
  <2>6. n \in Name /\ ents[d][n] = 0
    <3>1. n # "." /\ n # ".."
      BY <1>6, <2>5, Constants DEF Lookup
    <3> QED
      BY <1>6, <3>1 DEF Lookup, Element
  <2>7. /\ dinode \in [Inum -> Metas] /\ th \in [Process -> Threads]
        /\ ents \in [Inum -> [Name -> Maybe]] /\ k \in Maybe /\ k # 0
    BY Constants DEF IInv, StateOK, Maybe
  <2>8. /\ \A i \in Inum : dinode'[i] = dinode[i] /\ dinode'[i].type = dinode[i].type
        /\ \A i \in Inum : i # d => ents'[i] = ents[i]
        /\ \A i \in Inum, m \in Name : ents'[i][m] # 0 => ents[i][m] # 0 \/ dinode[i].type = DIR
    BY <1>2, <1>3, <1>6, <2>7
  <2>9. Named(t)'
    BY <1>3, <1>4, <2>2, <2>3 DEF Named
  <2>10. \A i \in Inum : Holds(t, cwd[p], i) => Firm(i)
    BY <1>2, <2>2, Constants DEF Holds
  <2>11. th'[p] = t /\ \A q \in Process \ {p} : th'[q] = th[q]
    BY <2>2, <2>7 DEF Set
  <2>12. ASSUME NEW i \in Inum
         PROVE  Counted(i)'
    <3>1. Cardinality(Pends(i))' = Cardinality(Pends(i)) + (-One(k = i))
      BY <1>2, <1>3, <2>4, <2>11, PendStep, Tally DEF One
    <3>2. /\ Cardinality(Entries(i))' =
               Cardinality(Entries(i)) - One(ents[d][n] = i) + One(k = i)
          /\ Cardinality(Subdirs(i))' =
               Cardinality(Subdirs(i))
                 - One(i = d /\ ents[d][n] # 0 /\ dinode[ents[d][n]].type = DIR)
                 + One(i = d /\ k # 0 /\ dinode[k].type = DIR)
      <4>1. /\ StateOK /\ \A j \in Inum : dinode'[j].type = dinode[j].type
            /\ n \in Name /\ k \in Maybe /\ dinode[d].type = DIR
            /\ Written(d, n, k)
        BY <1>2, <1>6, <2>6, <2>7, <2>8 DEF IInv, Written
      <4> QED
        BY <4>1, EntryStep
    <3>3. Counted(i) /\ StateOK /\ lost' = lost /\ One(k = i) \in Int /\ -One(k = i) \in Int
          /\ dinode[i].nlink \in Int /\ i # 0
      BY <1>3, <2>7, Constants DEF Sound, IInv, One, Metas
    <3>4. Cardinality(Entries(i)) \in Nat /\ Cardinality(Subdirs(i)) \in Nat
      BY Tally
    <3>5. /\ Cardinality(Entries(i))' = Cardinality(Entries(i)) + One(k = i)
          /\ Cardinality(Subdirs(i))' = Cardinality(Subdirs(i)) + 0
      BY <1>4, <2>6, <3>2, <3>3, <3>4 DEF One
    <3>6. 0 \in Int /\ dinode'[i].nlink = dinode[i].nlink + One(k = i) + 0 + (-One(k = i))
      BY <1>3, <3>3
    <3> DEFINE e == One(k = i)
               w == -One(k = i)
    <3>7. /\ Counted(i) /\ StateOK /\ lost' = lost /\ e \in Int /\ w \in Int
          /\ Cardinality(Entries(i))' = Cardinality(Entries(i)) + e
          /\ Cardinality(Subdirs(i))' = Cardinality(Subdirs(i)) + 0
          /\ Cardinality(Pends(i))' = Cardinality(Pends(i)) + w
          /\ dinode'[i].nlink = dinode[i].nlink + e + 0 + w
      BY <3>1, <3>3, <3>5, <3>6
    <3> HIDE DEF e, w
    <3> QED
      BY <3>6, <3>7, CountStep
  <2>13. \A i \in Inum : lock[i] \in Process \ {p} => ents'[i] = ents[i]
    BY <1>3, <2>8, Constants DEF Unlocked
  <2>14. UNCHANGED <<up, cwd, files, lost, stale>>
    BY <1>3, <1>6 DEF history
  <2> QED
    BY <1>2, <2>2, <2>4, <2>8, <2>9, <2>10, <2>12, <2>13, <2>14, DiskStep
<1> QED
  BY <1>2, <1>5, <1>6 DEF LinkNew, NoType

\* unlink() erases an entry; the inode's count follows when the directory is put.
LEMMA UnlinkEntrySound ==
  ASSUME IInv, Sound, NEW p \in Process, UnlinkEntry(p)
  PROVE  Sound'
<1>1. In(p, {"unlinkip"}) /\ {"unlinkip"} \subseteq HasDp \cap HasIp
  BY DEF UnlinkEntry, At, HasIp, HasDp
<1>0. PICK d \in Inum, k \in Inum, n \in Name :
        d = th[p].dp /\ k = th[p].ip /\ n = Head(th[p].rest) /\ ents[d][n] = k
  BY <1>1, FirmBoth DEF Named
<1>2. /\ NoPanic /\ th[p].pc = "unlinkip" /\ th[p] \in Threads /\ Place(th[p]) = th[p].pc
      /\ d = th[p].dp /\ k = th[p].ip /\ n = Head(th[p].rest) /\ ents[d][n] = k
      /\ th[p].at = 0 /\ th[p].put = 0 /\ Locked(p, th[p], lock)
      /\ ~Creating(th[p]) /\ Named(th[p]) /\ dinode[d].type = DIR
      /\ Firm(d) /\ Firm(k) /\ Typed(k) /\ Meta(k) = dinode[k]
      /\ \A j \in Inum : cwd[p] = j => Firm(j)
  BY <1>0, <1>1, FirmBoth
<1>3. UNCHANGED <<up, cwd, files, lost, stale>> /\ ~Pending(th[p]) /\ Unlocked(k)
  BY <1>2 DEF UnlinkEntry, Pending, history
<1>4. dinode[k].nlink >= 1 /\ k # 0
  BY <1>2, EntryFirm, Constants DEF IInv
<1>5. lock[d] = p /\ d # k /\ copy[d] = dinode[d]
  <2>1. Used(th[p], copy)
    BY <1>1, HereBoth
  <2>2. lock[d] = p /\ copy[d] # Invalid
    BY <1>2, <2>1 DEF Locked, Used, LocksDp
  <2> QED
    BY <1>3, <2>2, Constants DEF Unlocked, IInv, Cached, Coherent
<1>6. CASE Set(p, Put([th[p] EXCEPT !.ip = 0], k, "unlinkbad")) /\ UNCHANGED <<dinode, ents>>
  <2> DEFINE s == [th[p] EXCEPT !.ip = 0]
  <2>1. s \in Threads /\ s.at = 0 /\ s.dp = d /\ s.ip = 0
    BY <1>2 DEF Threads, Maybe
  <2>2. Set(p, Put(s, k, "unlinkbad")) /\ UNCHANGED <<disk, cwd, files, lost, stale>>
    BY <1>3, <1>6 DEF disk
  <2> HIDE DEF s
  <2> QED
    BY <1>2, <1>3, <2>1, <2>2, PutQuiet
<1>7. ASSUME ents' = [ents EXCEPT ![d][n] = 0],
             dinode' = IF dinode[k].type = DIR
                         THEN [dinode EXCEPT ![d] = [copy[d] EXCEPT !.nlink = @ - 1]]
                         ELSE dinode,
             Set(p, Put([th[p] EXCEPT !.dp = 0], d, "unlinked"))
      PROVE  Sound'
  <2>1. PICK t : t = Put([th[p] EXCEPT !.dp = 0], d, "unlinked")
    OBVIOUS
  <2>2. /\ t.pc = "iput" /\ t.put = d /\ t.at = 0 /\ t.dp = 0 /\ t.ip = k /\ t.ret = "unlinked"
        /\ Set(p, t)
    BY <1>2, <1>7, <2>1 DEF Put, Threads
  <2>3. Place(t) = "unlinked"
    BY <2>2 DEF Place, Putting
  <2>4. ~Creating(t) /\ Pending(t) /\ t.pc # "itrunc" /\ ~Linking(t)
    BY <2>2, <2>3 DEF Creating, Pending, Linking
  <2>5. /\ dinode \in [Inum -> Metas] /\ th \in [Process -> Threads]
        /\ ents \in [Inum -> [Name -> Maybe]] /\ 0 \in Maybe
    BY DEF IInv, StateOK, Maybe
  <2>6. /\ \A i \in Inum : /\ dinode'[i].type = dinode[i].type
                           /\ dinode'[i].nlink = dinode[i].nlink - One(i = d /\ dinode[k].type = DIR)
                           /\ dinode'[i] # dinode[i] => i = d
        /\ \A i \in Inum : i # d => ents'[i] = ents[i]
        /\ \A i \in Inum, m \in Name : ents'[i][m] # 0 => ents[i][m] # 0
    <3>1. ASSUME NEW i \in Inum
          PROVE  /\ dinode'[i].type = dinode[i].type
                 /\ dinode'[i].nlink = dinode[i].nlink - One(i = d /\ dinode[k].type = DIR)
                 /\ dinode'[i] # dinode[i] => i = d
      BY <1>5, <1>7, <2>5 DEF Metas, One
    <3> QED
      BY <1>7, <2>5, <3>1
  <2>7. Named(t)'
    BY <2>2, <2>3, <2>4 DEF Named
  <2>8. \A i \in Inum : Holds(t, cwd[p], i) => Firm(i)
    BY <1>2, <2>2, Constants DEF Holds
  <2>9. th'[p] = t /\ \A q \in Process \ {p} : th'[q] = th[q]
    BY <2>2, <2>5 DEF Set
  <2>10. ASSUME NEW i \in Inum
         PROVE  Counted(i)'
    <3> DEFINE b == One(i = d /\ dinode[k].type = DIR)
    <3>1. Cardinality(Pends(i))' = Cardinality(Pends(i)) + One(k = i)
      BY <1>3, <2>2, <2>4, <2>9, PendStep, Tally DEF One
    <3>2. /\ Cardinality(Entries(i))' =
               Cardinality(Entries(i)) - One(ents[d][n] = i) + One(0 = i)
          /\ Cardinality(Subdirs(i))' =
               Cardinality(Subdirs(i))
                 - One(i = d /\ ents[d][n] # 0 /\ dinode[ents[d][n]].type = DIR)
                 + One(i = d /\ 0 # 0 /\ dinode[0].type = DIR)
      <4>1. /\ StateOK /\ \A j \in Inum : dinode'[j].type = dinode[j].type
            /\ 0 \in Maybe /\ dinode[d].type = DIR
            /\ Written(d, n, 0)
        BY <1>2, <1>7, <2>5, <2>6 DEF IInv, Written
      <4> QED
        BY <4>1, EntryStep
    <3>3. Counted(i) /\ StateOK /\ lost' = lost /\ One(k = i) \in Int /\ -One(k = i) \in Int
          /\ dinode[i].nlink \in Int /\ i # 0 /\ b \in Int /\ -b \in Int
      BY <1>3, <2>5, Constants DEF Sound, IInv, One, Metas
    <3>4. Cardinality(Entries(i)) \in Nat /\ Cardinality(Subdirs(i)) \in Nat
      BY Tally
    <3>5. One(0 = i) = 0 /\ One(i = d /\ 0 # 0 /\ dinode[0].type = DIR) = 0
      BY <3>3 DEF One
    <3>6. One(ents[d][n] = i) = One(k = i)
          /\ One(i = d /\ ents[d][n] # 0 /\ dinode[ents[d][n]].type = DIR) = b
      BY <1>2, <1>4
    <3>7. dinode'[i].nlink = dinode[i].nlink - b
      BY <2>6
    <3> HIDE DEF b
    <3>8. /\ Cardinality(Entries(i))' = Cardinality(Entries(i)) + (-One(k = i))
          /\ Cardinality(Subdirs(i))' = Cardinality(Subdirs(i)) + (-b)
          /\ dinode'[i].nlink = dinode[i].nlink + (-One(k = i)) + (-b) + One(k = i)
      BY <3>2, <3>3, <3>4, <3>5, <3>6, <3>7
    <3> QED
      BY <3>1, <3>3, <3>8, CountStep
  <2>11. \A i \in Inum : lock[i] \in Process \ {p} => ents'[i] = ents[i]
    BY <1>5, <2>6, Constants
  <2> QED
    BY <1>2, <1>3, <2>2, <2>4, <2>6, <2>7, <2>8, <2>10, <2>11, DiskStep
<1>8. ~(~Typed(k) \/ Meta(k).nlink < 1)
  <2>1. dinode[k].nlink \in Int
    BY DEF IInv, StateOK, Metas
  <2> QED
    BY <1>2, <1>4, <2>1
<1> QED
  BY <1>2, <1>6, <1>7, <1>8 DEF UnlinkEntry

\* What create() asks ialloc for.
LEMMA NewTypes ==
  ASSUME IInv, NEW p \in Process, th[p].pc \in {"ialloc", "iget", "create"}
  PROVE  /\ NewType(p) \in {FILE, DIR, DEV} /\ NewType(p) # Free
         /\ NewType(p) = DIR <=> th[p].call = "mkdir"
<1>1. Place(th[p]) = th[p].pc /\ Local(th[p], cwd[p])
  BY DEF Place, Putting, IInv, Live
<1>2. th[p].call \in {"creat", "mkdir", "mknod"}
  BY <1>1 DEF Local
<1> QED
  BY <1>2 DEF NewType, FILE, DIR, DEV, Free

\* ialloc: a free inode gets a type, and is nobody's yet.
LEMMA TakeSound ==
  ASSUME IInv, Sound, NEW p \in Process, In(p, {"ialloc"}),
         NEW k \in Inum, dinode[k].type = Free,
         dinode' = [dinode EXCEPT ![k] = [type |-> NewType(p), nlink |-> 0]],
         Set(p, [th[p] EXCEPT !.pc = "iget", !.ip = k, !.inum = 0]),
         UNCHANGED <<ents, up, cwd, files, lost, stale>>
  PROVE  Sound'
<1>1. In(p, {"ialloc"}) /\ {"ialloc"} \subseteq HasDp \ HasIp
  BY DEF HasDp, HasIp
<1>2. /\ NoPanic /\ th[p].pc = "ialloc" /\ th[p] \in Threads /\ Place(th[p]) = th[p].pc
      /\ th[p].dp \in Inum /\ th[p].at = 0 /\ th[p].ip = 0 /\ th[p].put = 0
      /\ ~Creating(th[p]) /\ Named(th[p])
  BY <1>1, FirmDp
<1>3. /\ dinode \in [Inum -> Metas] /\ th \in [Process -> Threads]
      /\ ents \in [Inum -> [Name -> Maybe]]
  BY DEF IInv, StateOK
<1>4. UNCHANGED <<ents, up, cwd, ftable, lost, stale>>
  BY DEF files
<1>6. PICK t : t = [th[p] EXCEPT !.pc = "iget", !.ip = k, !.inum = 0]
  OBVIOUS
<1>7. /\ t.pc = "iget" /\ t.at = 0 /\ t.dp = th[p].dp /\ t.ip = k /\ t.put = 0
      /\ t.ret = th[p].ret /\ t.rest = th[p].rest /\ t.call = th[p].call
  BY <1>2, <1>6 DEF Threads
<1>8. th'[p] = t /\ \A q \in Process \ {p} : th'[q] = th[q]
  BY <1>3, <1>6 DEF Set
<1>9. Place(t) = "iget" /\ Creating(t) /\ ~Pending(th[p]) /\ ~Pending(t) /\ ~Linking(t)
  BY <1>2, <1>7 DEF Place, Putting, Creating, Pending, Linking
<1>10. /\ \A i \in Inum : i # k => dinode'[i] = dinode[i]
       /\ dinode'[k].type = NewType(p) /\ dinode'[k].nlink = 0 /\ dinode[k].nlink = 0
       /\ NewType(p) # Free /\ ~Firm(k) /\ ~Settled(k)
  BY <1>2, <1>3, NewTypes DEF Firm, Settled, Sound, Shape
<1>11. \A i \in Inum : /\ i # k => (Settled(i)' <=> Settled(i))
                       /\ Settled(i)' => i # k
                       /\ Firm(i) => Firm(i)' /\ i # k
  <2>1. ASSUME NEW i \in Inum, i # k
        PROVE  (Settled(i)' <=> Settled(i)) /\ (Firm(i) => Firm(i)')
    BY <1>2, <1>7, <1>8, <1>9, <1>10, <2>1 DEF Settled, Firm
  <2>2. ~Settled(k)'
    BY <1>7, <1>8, <1>9 DEF Settled
  <2> QED
    BY <1>10, <2>1, <2>2
<1>12. /\ \A n \in Name : ents[k][n] = 0
       /\ \A d \in Inum, n \in Name : ents[d][n] # k
  <2>1. \A n \in Name : ents[k][n] = 0
    BY DEF Sound, Shape, DIR, Free
  <2>2. \A d \in Inum, n \in Name : ents[d][n] # k
    BY <1>10, EntryFirm, Constants DEF IInv
  <2> QED
    BY <2>1, <2>2
<1>13. Shape'
  <2>1. \A d \in Inum, n \in Name : ents'[d][n] # 0 => dinode'[d].type = DIR
    BY <1>4, <1>10, <1>12 DEF Sound, Shape
  <2>2. \A i \in Inum : dinode'[i].type = Free => dinode'[i].nlink = 0
    BY <1>10 DEF Sound, Shape
  <2>3. \A d \in Inum : dinode'[d].type = DIR /\ Settled(d)' => up'[d] # 0
    BY <1>4, <1>10, <1>11 DEF Sound, Shape
  <2> QED
    BY <2>1, <2>2, <2>3 DEF Shape
<1>14. Firmly'
  <2>1. ASSUME NEW q \in Process, NEW i \in Inum, Holds(th'[q], cwd'[q], i)
        PROVE  Firm(i)'
    <3>1. Holds(th[q], cwd[q], i)
      BY <1>2, <1>4, <1>7, <1>8, <1>9, <2>1 DEF Holds
    <3> QED
      BY <1>11, <3>1 DEF Sound, Firmly
  <2>2. (\A q \in Process, i \in Inum : Holds(th[q], cwd[q], i) => Firm(i))'
    BY <2>1 DEF Holds, Creating
  <2> QED
    BY <1>4, <1>11, <2>2 DEF Sound, Firmly
<1>15. Unlinking'
  <2> SUFFICES ASSUME NEW q \in Process, NEW i \in Inum,
                      th'[q].pc = "itrunc", th'[q].put = i
               PROVE  /\ Settled(i)' /\ dinode'[i].nlink = 0
                      /\ \A d \in Inum : up'[d] = i => d \in stale'
    BY DEF Unlinking
  <2>1. th[q].pc = "itrunc" /\ th[q].put = i
    BY <1>7, <1>8
  <2>2. /\ Settled(i) /\ dinode[i].nlink = 0
        /\ \A d \in Inum : up[d] = i => d \in stale
    BY <2>1 DEF Sound, Unlinking
  <2>3. i # k
    BY <1>10, <2>2
  <2> QED
    BY <1>4, <1>10, <1>11, <2>2, <2>3
<1>16. Allocated'
  <2> SUFFICES ASSUME NEW q \in Process, NEW i \in Inum, Creating(th'[q]), th'[q].ip = i
               PROVE  /\ dinode'[i].type = NewType(q)' /\ dinode'[i].nlink = 0
                      /\ \A r \in Process \ {q} : Creating(th'[r]) => th'[r].ip # i
    BY DEF Allocated, Creating
  <2>1. ASSUME NEW r \in Process, r # p, Creating(th[r])
        PROVE  th[r].ip # k
    <3>1. NewType(r) # Free
      BY <2>1, NewTypes DEF Creating
    <3> QED
      BY <2>1, <3>1 DEF Sound, Allocated
  <2>2. NewType(q)' = NewType(q)
    BY <1>7, <1>8 DEF NewType
  <2>3. CASE q = p
    BY <1>7, <1>8, <1>10, <2>1, <2>2, <2>3
  <2>4. CASE q # p
    <3>1. th'[q] = th[q] /\ Creating(th[q]) /\ i # k
      BY <1>8, <2>1, <2>4
    <3>2. /\ dinode[i].type = NewType(q) /\ dinode[i].nlink = 0
          /\ \A r \in Process \ {q} : Creating(th[r]) => th[r].ip # i
      BY <3>1 DEF Sound, Allocated
    <3> QED
      BY <1>7, <1>8, <1>10, <2>2, <3>1, <3>2
  <2> QED
    BY <2>3, <2>4
<1>17. ASSUME NEW i \in Inum
       PROVE  Counted(i)'
  <2>1. Cardinality(Pends(i))' = Cardinality(Pends(i))
    BY <1>8, <1>9, PendStep, Tally DEF One
  <2>2. Entries(i)' = Entries(i)
    <3>1. i # 0
      BY Constants
    <3>2. ASSUME NEW e \in Inum, NEW n \in Name
          PROVE  dinode'[e].type = DIR /\ ents'[e][n] = i <=> dinode[e].type = DIR /\ ents[e][n] = i
      BY <1>4, <1>10, <1>12, <3>1
    <3> QED
      BY <3>2 DEF Entries
  <2>3. Subdirs(i)' = Subdirs(i)
    <3>1. ASSUME NEW n \in Name, ents[i][n] # 0
          PROVE  dinode'[ents[i][n]] = dinode[ents[i][n]]
      BY <1>3, <1>10, <1>12, <3>1 DEF Maybe
    <3> QED
      BY <1>4, <3>1 DEF Subdirs
  <2>4. dinode'[i].nlink = dinode[i].nlink
    BY <1>10
  <2> QED
    BY <1>4, <2>1, <2>2, <2>3, <2>4 DEF Sound, Counted, Links
<1>18. ASSUME NEW q \in Process
       PROVE  Named(th[q])'
  <2>1. /\ Named(th[q]) /\ th[q] \in Threads /\ Local(th[q], cwd[q])
        /\ \A i \in Inum : Holds(th[q], cwd[q], i) => i # k
    BY <1>2, <1>3, <1>11 DEF Sound, Firmly, IInv, Live, NoPanic
  <2>2. th[q].dp # 0 => th[q].dp \in Inum /\ th[q].dp # k
    BY <2>1 DEF Holds, Threads, Maybe
  <2>3. Linking(th[q]) => th[q].ip \in Inum /\ th[q].ip # k
    <3>1. Linking(th[q]) => th[q].ip \in Inum
      BY <2>1 DEF Local, Linking, HasIp, Threads, Maybe
    <3>2. Linking(th[q]) => ~Creating(th[q])
      BY DEF Linking, Creating, Place, Putting
    <3> QED
      BY <2>1, <3>1, <3>2 DEF Holds
  <2>4. /\ th[q].dp # 0 => dinode'[th[q].dp].type = DIR
        /\ Linking(th[q]) => dinode'[th[q].ip].type # DIR
    BY <1>10, <2>1, <2>2, <2>3 DEF Named
  <2>5. CASE q = p
    BY <1>2, <1>4, <1>7, <1>8, <1>9, <2>1, <2>4, <2>5 DEF Named
  <2>6. CASE q # p
    BY <1>4, <1>8, <2>1, <2>4, <2>6 DEF Named
  <2> QED
    BY <2>5, <2>6
<1> QED
  BY <1>13, <1>14, <1>15, <1>16, <1>17, <1>18 DEF Sound

LEMMA IallocSound ==
  ASSUME IInv, Sound, NEW p \in Process, Ialloc(p), NoPanic'
  PROVE  Sound'
<1>1. In(p, {"ialloc"}) /\ {"ialloc"} \subseteq HasDp \ HasIp
  BY DEF Ialloc, At, HasIp, HasDp
<1>2. /\ NoPanic /\ th[p].pc = "ialloc" /\ th[p] \in Threads /\ Place(th[p]) = th[p].pc
      /\ th[p].dp \in Inum /\ th[p].at = 0 /\ th[p].ip = 0 /\ th[p].put = 0
      /\ ~Creating(th[p]) /\ Named(th[p])
  BY <1>1, FirmDp
<1>3. /\ dinode \in [Inum -> Metas] /\ th \in [Process -> Threads]
      /\ ents \in [Inum -> [Name -> Maybe]]
  BY DEF IInv, StateOK
<1>4. ~Goto(p, "panic")
  BY <1>2, <1>3 DEF Goto, Set, NoPanic, Threads
<1>5. UNCHANGED <<ents, up, cwd, files, lost, stale>>
  BY DEF Ialloc
<1>6. ASSUME NEW i \in Inum, Set(p, [th[p] EXCEPT !.inum = i]), UNCHANGED dinode
      PROVE  Sound'
  <2> DEFINE t == [th[p] EXCEPT !.inum = i]
  <2>1. /\ t.pc = "ialloc" /\ t.at = th[p].at /\ t.dp = th[p].dp /\ t.ip = th[p].ip
        /\ t.ret = th[p].ret /\ t.rest = th[p].rest
    BY <1>2 DEF Threads
  <2>2. Set(p, t) /\ UNCHANGED <<disk, cwd, files, lost, stale>>
    BY <1>5, <1>6 DEF disk
  <2> HIDE DEF t
  <2>3. Place(t) = Place(th[p])
    BY <1>2, <2>1 DEF Place, Putting
  <2> QED
    BY <1>2, <2>1, <2>2, <2>3, PlaceQuiet
<1>7. ASSUME NEW k \in Inum, dinode[k].type = Free,
             dinode' = [dinode EXCEPT ![k] = [type |-> NewType(p), nlink |-> 0]],
             Set(p, [th[p] EXCEPT !.pc = "iget", !.ip = k, !.inum = 0])
      PROVE  Sound'
  BY <1>7, <1>1, <1>2, <1>5, TakeSound
<1> QED
  BY <1>4, <1>6, <1>7 DEF Ialloc

\* create: the new inode has its entry, and a new directory the ".." that its
\* parent counts.
LEMMA CreateSound ==
  ASSUME IInv, Sound, NEW p \in Process, Create(p)
  PROVE  Sound'
<1>1. In(p, {"create"}) /\ {"create"} \subseteq HasDp \cap HasIp
  BY DEF Create, At, HasIp, HasDp
<1>0. PICK d \in Inum, k \in Inum : d = th[p].dp /\ k = th[p].ip
  BY <1>1, HereBoth
<1>2. /\ NoPanic /\ th[p].pc = "create" /\ th[p] \in Threads /\ Place(th[p]) = "create"
      /\ d = th[p].dp /\ k = th[p].ip /\ th[p].at = 0 /\ th[p].put = 0
      /\ Locked(p, th[p], lock) /\ Used(th[p], copy) /\ Creating(th[p])
  BY <1>0, <1>1, HereBoth DEF Creating
<1>3. /\ Named(th[p])
      /\ \A i \in Inum : Holds(th[p], cwd[p], i) => Firm(i)
  BY Standing
<1>4. PICK n \in Name : n = Head(th[p].rest) /\ ents[d][n] = 0
  BY <1>2, <1>3 DEF Named
<1>5. /\ Firm(d) /\ dinode[d].type = DIR /\ lock[d] = p /\ copy[d] = dinode[d]
  <2>1. lock[d] = p /\ copy[d] # Invalid
    BY <1>2 DEF Locked, Used, LocksDp
  <2>2. copy[d] = dinode[d]
    BY <2>1 DEF IInv, Cached, Coherent
  <2>3. d # 0
    BY Constants
  <2> QED
    BY <1>2, <1>3, <2>1, <2>2, <2>3 DEF Holds, Named
<1>6. /\ dinode[k].type = NewType(p) /\ dinode[k].nlink = 0 /\ NewType(p) # Free
      /\ NewType(p) = DIR <=> th[p].call = "mkdir"
      /\ \A q \in Process \ {p} : Creating(th[q]) => th[q].ip # k
      /\ ~Settled(k) /\ ~Firm(k) /\ d # k
  BY <1>2, <1>5, NewTypes DEF Sound, Allocated, Firm, Settled
<1>7. Meta(k) = dinode[k] /\ Typed(k)
  BY <1>6, FirmTyped
<1>8. /\ dinode \in [Inum -> Metas] /\ th \in [Process -> Threads]
      /\ ents \in [Inum -> [Name -> Maybe]] /\ up \in [Inum -> Maybe]
      /\ k \in Maybe /\ k # 0 /\ d # 0
  BY Constants DEF IInv, StateOK, Maybe
<1> DEFINE dir == th[p].call = "mkdir"
<1>9. /\ dinode' = [dinode EXCEPT ![k] = [dinode[k] EXCEPT !.nlink = 1],
                                  ![d] = IF dir THEN [dinode[d] EXCEPT !.nlink = @ + 1] ELSE @]
      /\ ents' = [ents EXCEPT ![d][n] = k]
      /\ up' = IF dir THEN [up EXCEPT ![k] = d] ELSE up
      /\ Set(p, Put([th[p] EXCEPT !.dp = 0], d, "created"))
      /\ UNCHANGED <<cwd, ftable, lost, stale>>
  BY <1>2, <1>4, <1>5, <1>7 DEF Create, NoType, files, history
<1>10. PICK t : t = Put([th[p] EXCEPT !.dp = 0], d, "created")
  OBVIOUS
<1>11. /\ t.pc = "iput" /\ t.put = d /\ t.at = 0 /\ t.dp = 0 /\ t.ip = k /\ t.ret = "created"
       /\ Set(p, t)
  BY <1>2, <1>9, <1>10 DEF Put, Threads
<1>12. th'[p] = t /\ \A q \in Process \ {p} : th'[q] = th[q]
  BY <1>8, <1>11 DEF Set
<1>13. Place(t) = "created"
  BY <1>11 DEF Place, Putting
<1>14. ~Creating(t) /\ ~Pending(t) /\ ~Linking(t) /\ ~Pending(th[p])
  BY <1>2, <1>11, <1>13 DEF Creating, Pending, Linking
<1>15. \A i \in Inum : /\ dinode'[i].type = dinode[i].type
                       /\ dinode'[i].nlink = dinode[i].nlink + One(k = i) + One(i = d /\ dir)
                       /\ i # k /\ i # d => dinode'[i] = dinode[i]
  BY <1>6, <1>8, <1>9 DEF Metas, One
<1>16. \A i \in Inum : up'[i] = IF i = k /\ dir THEN d ELSE up[i]
  BY <1>8, <1>9
<1>17. \A i \in Inum : /\ i # k => (Settled(i)' <=> Settled(i))
                       /\ Firm(i) => Firm(i)'
  BY <1>2, <1>11, <1>12, <1>14, <1>15 DEF Settled, Firm
<1>18. Settled(k)' /\ Firm(k)'
  <2>1. \A q \in Process : th[q].pc = "itrunc" => th[q].put # k
    BY <1>6 DEF Sound, Unlinking
  <2> QED
    BY <1>6, <1>11, <1>12, <1>14, <1>15, <2>1 DEF Settled, Firm
<1>19. Shape'
  <2>1. ASSUME NEW i \in Inum, NEW m \in Name, ents'[i][m] # 0
        PROVE  dinode'[i].type = DIR
    <3>1. CASE i = d
      BY <1>5, <1>15, <3>1
    <3>2. CASE i # d
      <4>1. ents'[i] = ents[i]
        BY <1>8, <1>9, <3>2
      <4>2. ents[i][m] # 0
        BY <2>1, <4>1
      <4>3. dinode[i].type = DIR
        BY <4>2 DEF Sound, Shape
      <4> QED
        BY <1>15, <4>3
    <3> QED
      BY <3>1, <3>2
  <2>2. \A i \in Inum : dinode'[i].type = Free => dinode'[i].nlink = 0
    <3>1. \A i \in Inum : dinode[i].type = Free => i # k /\ i # d
      BY <1>5, <1>6 DEF Firm, Settled
    <3> QED
      BY <1>15, <3>1 DEF Sound, Shape
  <2>3. \A i \in Inum : dinode'[i].type = DIR /\ Settled(i)' => up'[i] # 0
    BY <1>6, <1>8, <1>15, <1>16, <1>17 DEF Sound, Shape
  <2> QED
    BY <2>1, <2>2, <2>3 DEF Shape
<1>20. Firmly'
  <2>1. ASSUME NEW j \in Inum, NEW i \in Inum, up'[j] = i, j \notin stale'
        PROVE  Firm(i)'
    <3>1. CASE j = k /\ dir
      BY <1>5, <1>16, <1>17, <2>1, <3>1
    <3>2. CASE ~(j = k /\ dir)
      <4>1. Firm(i)
        BY <1>9, <1>16, <2>1, <3>2 DEF Sound, Firmly
      <4> QED
        BY <1>17, <4>1
    <3> QED
      BY <3>1, <3>2
  <2>2. ASSUME NEW q \in Process, NEW i \in Inum, Holds(th'[q], cwd'[q], i)
        PROVE  Firm(i)'
    <3>1. CASE q = p
      <4>1. i = k \/ i = d \/ cwd[p] = i
        BY <1>8, <1>9, <1>11, <1>12, <2>2, <3>1, Constants DEF Holds
      <4>2. CASE i = k
        BY <1>18, <4>2
      <4>3. CASE i = d \/ cwd[p] = i
        BY <1>3, <1>5, <1>17, <4>3 DEF Holds
      <4> QED
        BY <4>1, <4>2, <4>3
    <3>2. CASE q # p
      BY <1>9, <1>12, <1>17, <2>2, <3>2 DEF Sound, Firmly
    <3> QED
      BY <3>1, <3>2
  <2>3. ASSUME NEW f \in Files, NEW i \in Inum, ftable'[f].ip = i
        PROVE  Firm(i)'
    BY <1>9, <1>17, <2>3 DEF Sound, Firmly
  <2>4. (\A q \in Process, i \in Inum : Holds(th[q], cwd[q], i) => Firm(i))'
    BY <2>2 DEF Holds, Creating
  <2> QED
    BY <2>1, <2>3, <2>4 DEF Firmly
<1>21. Unlinking'
  <2> SUFFICES ASSUME NEW q \in Process, NEW i \in Inum,
                      th'[q].pc = "itrunc", th'[q].put = i
               PROVE  /\ Settled(i)' /\ dinode'[i].nlink = 0
                      /\ \A j \in Inum : up'[j] = i => j \in stale'
    BY DEF Unlinking
  <2>1. th[q].pc = "itrunc" /\ th[q].put = i
    BY <1>11, <1>12
  <2>2. /\ Settled(i) /\ dinode[i].nlink = 0
        /\ \A j \in Inum : up[j] = i => j \in stale
    BY <2>1 DEF Sound, Unlinking
  <2>3. i # k /\ i # d
    BY <1>5, <1>6, <2>1, <2>2 DEF Firm
  <2>4. \A j \in Inum : up'[j] = i => up[j] = i
    BY <1>16, <2>3
  <2>5. \A j \in Inum : up'[j] = i => j \in stale'
    BY <1>9, <2>2, <2>4
  <2>6. Settled(i)' /\ dinode'[i].nlink = 0
    BY <1>15, <1>17, <2>2, <2>3
  <2> QED
    BY <2>5, <2>6
<1>22. Allocated'
  <2> SUFFICES ASSUME NEW q \in Process, NEW i \in Inum, Creating(th'[q]), th'[q].ip = i
               PROVE  /\ dinode'[i].type = NewType(q)' /\ dinode'[i].nlink = 0
                      /\ \A r \in Process \ {q} : Creating(th'[r]) => th'[r].ip # i
    BY DEF Allocated, Creating
  <2>1. q # p /\ th'[q] = th[q]
    BY <1>12, <1>14
  <2>2. /\ dinode[i].type = NewType(q) /\ dinode[i].nlink = 0
        /\ \A r \in Process \ {q} : Creating(th[r]) => th[r].ip # i
        /\ ~Firm(i)
    BY <2>1 DEF Sound, Allocated, Firm, Settled
  <2>3. i # k /\ i # d
    BY <1>5, <1>6, <2>1, <2>2
  <2>4. NewType(q)' = NewType(q)
    BY <2>1 DEF NewType
  <2> QED
    BY <1>12, <1>14, <1>15, <2>2, <2>3, <2>4
<1>23. ASSUME NEW i \in Inum
       PROVE  Counted(i)'
  <2>1. Cardinality(Pends(i))' = Cardinality(Pends(i))
    BY <1>12, <1>14, PendStep, Tally DEF One
  <2>2. /\ Cardinality(Entries(i))' =
             Cardinality(Entries(i)) - One(ents[d][n] = i) + One(k = i)
        /\ Cardinality(Subdirs(i))' =
             Cardinality(Subdirs(i))
               - One(i = d /\ ents[d][n] # 0 /\ dinode[ents[d][n]].type = DIR)
               + One(i = d /\ k # 0 /\ dinode[k].type = DIR)
    <3>1. /\ StateOK /\ \A j \in Inum : dinode'[j].type = dinode[j].type
          /\ k \in Maybe /\ dinode[d].type = DIR
          /\ Written(d, n, k)
      BY <1>5, <1>8, <1>9, <1>15 DEF IInv, Written
    <3> QED
      BY <3>1, EntryStep
  <2> DEFINE e == One(k = i)
             s == One(i = d /\ dir)
  <2>3. /\ Counted(i) /\ StateOK /\ lost' = lost /\ e \in Int /\ s \in Int /\ 0 \in Int
        /\ dinode[i].nlink \in Int /\ i # 0
    BY <1>8, <1>9, Constants DEF Sound, IInv, One, Metas
  <2>4. /\ Cardinality(Entries(i)) \in Nat /\ Cardinality(Subdirs(i)) \in Nat
        /\ Cardinality(Pends(i)) \in Nat
    BY Tally
  <2>5. /\ One(ents[d][n] = i) = 0
        /\ One(i = d /\ ents[d][n] # 0 /\ dinode[ents[d][n]].type = DIR) = 0
        /\ One(i = d /\ k # 0 /\ dinode[k].type = DIR) = s
    BY <1>4, <1>6, <1>8, <2>3 DEF One
  <2>6. dinode'[i].nlink = dinode[i].nlink + e + s
    BY <1>15
  <2> HIDE DEF e, s
  <2>7. /\ Cardinality(Entries(i))' = Cardinality(Entries(i)) + e
        /\ Cardinality(Subdirs(i))' = Cardinality(Subdirs(i)) + s
    BY <2>2, <2>3, <2>4, <2>5 DEF e
  <2>8. /\ Cardinality(Pends(i))' = Cardinality(Pends(i)) + 0
        /\ dinode'[i].nlink = dinode[i].nlink + e + s + 0
    BY <2>1, <2>3, <2>4, <2>6
  <2> QED
    BY <2>3, <2>7, <2>8, CountStep
<1>24. ASSUME NEW q \in Process
       PROVE  Named(th[q])'
  <2>1. CASE q = p
    BY <1>11, <1>12, <1>13, <1>14, <2>1 DEF Named
  <2>2. CASE q # p
    <3>1. \A i \in Inum : lock[i] \in Process \ {p} => ents'[i] = ents[i]
      BY <1>5, <1>8, <1>9, Constants
    <3> QED
      BY <1>2, <1>12, <1>15, <2>2, <3>1, OthersNamed
  <2> QED
    BY <2>1, <2>2
<1> QED
  BY <1>19, <1>20, <1>21, <1>22, <1>23, <1>24 DEF Sound

(***************************************************************************)
(* The panics.                                                             *)
(***************************************************************************)

\* A step of p that neither stops the system nor enters ialloc.
Moves(p) ==
  /\ NoPanic'
  /\ th'[p].pc # "ialloc"
  /\ \A q \in Process \ {p} : th'[q] = th[q]

LEMMA Runs ==
  ASSUME NoPanic, th \in [Process -> Threads], NEW p \in Process, NEW t, Set(p, t),
         t.pc \notin {"panic", "ialloc"}
  PROVE  Moves(p)
BY DEF NoPanic, Set, Moves

LEMMA EndRuns ==
  ASSUME NoPanic, th \in [Process -> Threads], NEW p \in Process, NEW k, EndPut(p, k)
  PROVE  Moves(p)
<1>1. Put(Idle, k, "user").pc \notin {"panic", "ialloc"}
  BY DEF Put, Idle
<1> QED
  BY <1>1, Runs DEF EndPut

LEMMA OpensRuns ==
  ASSUME NoPanic, th \in [Process -> Threads], NEW p \in Process, NEW k, Opens(p, k)
  PROVE  Moves(p)
<1>1. Idle.pc \notin {"panic", "ialloc"}
  BY DEF Idle
<1> QED
  BY <1>1, Runs, EndRuns DEF Opens

LEMMA PutRuns ==
  ASSUME NoPanic, th \in [Process -> Threads], NEW p \in Process, NEW s \in Threads,
         NEW k, NEW l, Set(p, Put(s, k, l))
  PROVE  Moves(p)
<1>1. Put(s, k, l).pc \notin {"panic", "ialloc"}
  BY DEF Put, Threads
<1> QED
  BY <1>1, Runs

LEMMA GotoRuns ==
  ASSUME NoPanic, th \in [Process -> Threads], NEW p \in Process, NEW l, Goto(p, l),
         l \notin {"panic", "ialloc"}
  PROVE  Moves(p)
<1>1. [th[p] EXCEPT !.pc = l].pc \notin {"panic", "ialloc"}
  BY DEF Threads
<1> QED
  BY <1>1, Runs DEF Goto

LEMMA LostRuns ==
  ASSUME NoPanic, th \in [Process -> Threads], NEW p \in Process, NEW k, LostPut(p, k)
  PROVE  Moves(p)
<1> DEFINE s == [th[p] EXCEPT !.at = 0, !.rest = <<>>]
<1>1. Put(s, k, "linkbad").pc \notin {"panic", "ialloc"}
  BY DEF Put, Threads
<1>2. Set(p, Put(s, k, "linkbad")) \/ EndPut(p, k)
  BY DEF LostPut
<1> HIDE DEF s
<1> QED
  BY <1>1, <1>2, Runs, EndRuns

LEMMA WalkRuns ==
  ASSUME NoPanic, th \in [Process -> Threads], NEW p \in Process, NEW s \in Threads,
         NEW path, WalkFrom(p, path, s)
  PROVE  Moves(p)
<1> DEFINE rooted == path # <<>> /\ Head(path) = "/"
           start == IF rooted THEN ROOT ELSE cwd[p]
           t == [s EXCEPT !.pc = "namex", !.at = start,
                          !.rest = IF rooted THEN Tail(path) ELSE path]
<1>1. t.pc \notin {"panic", "ialloc"}
  BY DEF Threads
<1>2. Set(p, t)
  BY DEF WalkFrom
<1> HIDE DEF t
<1> QED
  BY <1>1, <1>2, Runs

LEMMA FileCloseRuns ==
  ASSUME NoPanic, th \in [Process -> Threads], NEW p \in Process, NEW l, FileClose(p, l),
         l \notin {"panic", "ialloc"}
  PROVE  Moves(p)
<1>1. th[p] \in Threads
  OBVIOUS
<1>2. Goto(p, l) \/ Set(p, Put(th[p], ftable[file[p]].ip, l))
  BY DEF FileClose
<1> QED
  BY <1>1, <1>2, PutRuns, GotoRuns

LEMMA NamexElemRuns ==
  ASSUME IInv, Sound, NEW p \in Process, NamexElem(p)
  PROVE  Moves(p)
<1> DEFINE k == th[p].at
           next == Lookup(k, Head(th[p].rest))
           s == [th[p] EXCEPT !.at = next, !.rest = Tail(@)]
           t == [th[p] EXCEPT !.pc = Found(p), !.dp = k, !.at = 0]
<1>1. /\ NoPanic /\ th[p] \in Threads /\ k \in Inum /\ th \in [Process -> Threads]
      /\ th[p].call \in Calls
  BY HereNamex DEF NamexElem, IInv, StateOK
<1>2. Typed(k)
  BY <1>1, Standing, FirmTyped DEF Holds
<1>3. \/ Set(p, t)
      \/ Set(p, Put(s, k, "namex"))
      \/ LostPut(p, k)
  BY <1>2 DEF NamexElem, NoType
<1>4. t.pc \notin {"panic", "ialloc"}
  BY <1>1 DEF Threads, Found, Calls
<1>5. Put(s, k, "namex").pc \notin {"panic", "ialloc"}
  BY <1>1 DEF Threads, Put
<1> HIDE DEF s, t
<1> QED
  BY <1>1, <1>3, <1>4, <1>5, Runs, LostRuns

LEMMA Goes ==
  ASSUME NoPanic, th \in [Process -> Threads], NEW p \in Process, NEW t, Set(p, t),
         t.pc # "panic"
  PROVE  NoPanic'
BY DEF NoPanic, Set

LEMMA CreateLookupRuns ==
  ASSUME IInv, Sound, NEW p \in Process, CreateLookup(p)
  PROVE  NoPanic'
<1>0. th \in [Process -> Threads] /\ th[p] \in Threads
  BY DEF IInv, StateOK
<1> DEFINE d == th[p].dp
           i == Lookup(d, Head(th[p].rest))
           s == [th[p] EXCEPT !.dp = 0, !.ip = i]
           t == [th[p] EXCEPT !.pc = "ialloc", !.inum = 0]
<1>1. In(p, {"creat", "mkdir", "mknod"}) /\ {"creat", "mkdir", "mknod"} \subseteq HasDp \ HasIp
  BY DEF CreateLookup, HasIp, HasDp
<1>2. NoPanic /\ Typed(d)
  BY <1>1, FirmDp
<1>3. Put(s, d, "exists").pc # "panic" /\ t.pc # "panic"
  BY <1>0 DEF Put, Threads
<1>4. Set(p, t) \/ Set(p, Put(s, d, "exists"))
  BY <1>2 DEF CreateLookup, NoType
<1> HIDE DEF s, t
<1> QED
  BY <1>0, <1>2, <1>3, <1>4, Goes

LEMMA CreateRuns ==
  ASSUME IInv, Sound, NEW p \in Process, CreateExists(p) \/ Create(p)
  PROVE  Moves(p)
<1>1. th \in [Process -> Threads] /\ th[p] \in Threads
  BY DEF IInv, StateOK
<1>2. CASE CreateExists(p)
  <2>1. In(p, {"exists"}) /\ {"exists"} \subseteq HasIp \ (HasDp \cup {"iget"})
    BY <1>2 DEF CreateExists, At, HasIp, HasDp
  <2>2. NoPanic /\ Typed(th[p].ip)
    BY <2>1, FirmIp
  <2>3. Opens(p, th[p].ip) \/ EndPut(p, th[p].ip)
    BY <1>2, <2>2 DEF CreateExists, NoType
  <2> QED
    BY <1>1, <2>2, <2>3, OpensRuns, EndRuns
<1>3. CASE Create(p)
  <2> DEFINE s == [th[p] EXCEPT !.dp = 0]
             k == th[p].ip
  <2>1. In(p, {"create"}) /\ {"create"} \subseteq HasDp \cap HasIp
    BY <1>3 DEF Create, At, HasIp, HasDp
  <2>2. NoPanic /\ th[p].pc = "create" /\ k \in Inum
    BY <2>1, HereBoth
  <2>3. dinode[k].type # Free
    BY <2>2, NewTypes DEF Sound, Allocated, Creating
  <2>4. Typed(k)
    BY <2>2, <2>3, FirmTyped
  <2>5. Put(s, th[p].dp, "created").pc \notin {"panic", "ialloc"}
    BY <1>1 DEF Put, Threads
  <2>6. Set(p, Put(s, th[p].dp, "created"))
    BY <1>3, <2>4 DEF Create, NoType
  <2> HIDE DEF s
  <2> QED
    BY <1>1, <2>2, <2>5, <2>6, Runs
<1> QED
  BY <1>2, <1>3

LEMMA LinkRuns ==
  ASSUME IInv, Sound, NEW p \in Process,
         LinkOld(p) \/ LinkWalk(p) \/ LinkNew(p) \/ LinkHas(p) \/ Linked(p) \/ LinkBad(p)
  PROVE  Moves(p)
<1>1. th \in [Process -> Threads] /\ th[p] \in Threads
  BY DEF IInv, StateOK
<1>2. CASE LinkOld(p)
  <2>1. In(p, {"link"}) /\ {"link"} \subseteq HasIp \ (HasDp \cup {"iget"})
    BY <1>2 DEF LinkOld, At, HasIp, HasDp
  <2>2. NoPanic /\ Typed(th[p].ip)
    BY <2>1, FirmIp
  <2>3. EndPut(p, th[p].ip) \/ Goto(p, "linkwalk")
    BY <1>2, <2>2 DEF LinkOld, NoType
  <2> QED
    BY <1>1, <2>2, <2>3, EndRuns, GotoRuns
<1>3. CASE LinkWalk(p)
  <2>1. NoPanic
    BY <1>3 DEF LinkWalk, At, In, NoPanic
  <2>2. [th[p] EXCEPT !.new = <<>>] \in Threads
    BY <1>1 DEF Threads
  <2>3. WalkFrom(p, th[p].new, [th[p] EXCEPT !.new = <<>>])
    BY <1>3 DEF LinkWalk
  <2> QED
    BY <1>1, <2>1, <2>2, <2>3, WalkRuns
<1>4. CASE LinkNew(p)
  <2> DEFINE d == th[p].dp
             i == Lookup(d, Head(th[p].rest))
             s == [th[p] EXCEPT !.dp = 0]
  <2>1. In(p, {"linknew"}) /\ {"linknew"} \subseteq HasDp \cap HasIp
        /\ {"linknew"} \cap {"iget", "create"} = {}
    BY <1>4 DEF LinkNew, At, HasIp, HasDp
  <2>2. NoPanic /\ Typed(d)
    BY <2>1, FirmBoth
  <2>3. Put(s, d, "linked").pc \notin {"panic", "ialloc"} /\ Put(th[p], i, "linkhas").pc \notin {"panic", "ialloc"}
    BY <1>1 DEF Put, Threads
  <2>4. Set(p, Put(th[p], i, "linkhas")) \/ Set(p, Put(s, d, "linked"))
    BY <1>4, <2>2 DEF LinkNew, NoType
  <2> HIDE DEF s
  <2> QED
    BY <1>1, <2>2, <2>3, <2>4, Runs
<1>5. CASE LinkHas(p)
  <2>1. NoPanic
    BY <1>5 DEF LinkHas, At, In, NoPanic
  <2>2. Put([th[p] EXCEPT !.dp = 0], th[p].dp, "linkbad").pc \notin {"panic", "ialloc"}
    BY <1>1 DEF Put, Threads
  <2>3. Set(p, Put([th[p] EXCEPT !.dp = 0], th[p].dp, "linkbad"))
    BY <1>5 DEF LinkHas
  <2> QED
    BY <1>1, <2>1, <2>2, <2>3, Runs
<1>6. CASE Linked(p) \/ LinkBad(p)
  <2>1. NoPanic /\ EndPut(p, th[p].ip)
    BY <1>6 DEF Linked, LinkBad, At, In, NoPanic
  <2> QED
    BY <1>1, <2>1, EndRuns
<1> QED
  BY <1>2, <1>3, <1>4, <1>5, <1>6

LEMMA UnlinkRuns ==
  ASSUME IInv, Sound, NEW p \in Process,
         UnlinkLookup(p) \/ UnlinkEntry(p) \/ UnlinkBad(p) \/ Unlinked(p)
  PROVE  Moves(p)
<1>1. th \in [Process -> Threads] /\ th[p] \in Threads
  BY DEF IInv, StateOK
<1>2. CASE UnlinkLookup(p)
  <2> DEFINE d == th[p].dp
             i == Lookup(d, Head(th[p].rest))
             s == [th[p] EXCEPT !.pc = "unlinkip", !.ip = i]
  <2>1. In(p, {"unlink"}) /\ {"unlink"} \subseteq HasDp \ HasIp
    BY <1>2 DEF UnlinkLookup, At, HasIp, HasDp
  <2>2. NoPanic /\ Typed(d)
    BY <2>1, FirmDp
  <2>3. s.pc \notin {"panic", "ialloc"}
    BY <1>1 DEF Threads
  <2>4. EndPut(p, d) \/ Set(p, s)
    BY <1>2, <2>2 DEF UnlinkLookup, NoType
  <2> HIDE DEF s
  <2> QED
    BY <1>1, <2>2, <2>3, <2>4, Runs, EndRuns
<1>3. CASE UnlinkEntry(p)
  <2> DEFINE d == th[p].dp
             k == th[p].ip
             s == [th[p] EXCEPT !.ip = 0]
             t == [th[p] EXCEPT !.dp = 0]
  <2>1. In(p, {"unlinkip"}) /\ {"unlinkip"} \subseteq HasDp \cap HasIp
        /\ {"unlinkip"} \cap {"iget", "create"} = {}
    BY <1>3 DEF UnlinkEntry, At, HasIp, HasDp
  <2>2. NoPanic /\ Typed(k) /\ Meta(k) = dinode[k] /\ d \in Inum /\ k \in Inum
        /\ Named(th[p]) /\ Place(th[p]) = "unlinkip"
    BY <2>1, FirmBoth
  <2>3. PICK n \in Name : ents[d][n] = k
    BY <2>2 DEF Named
  <2>4. Meta(k).nlink >= 1
    BY <2>2, <2>3, EntryFirm, Constants DEF IInv
  <2>5. ~(Meta(k).nlink < 1)
    <3>1. dinode[k].nlink \in Int
      BY <2>2 DEF IInv, StateOK, Metas
    <3> QED
      BY <2>2, <2>4, <3>1
  <2>6. Put(s, k, "unlinkbad").pc \notin {"panic", "ialloc"} /\ Put(t, d, "unlinked").pc \notin {"panic", "ialloc"}
    BY <1>1 DEF Put, Threads
  <2>7. Set(p, Put(s, k, "unlinkbad")) \/ Set(p, Put(t, d, "unlinked"))
    BY <1>3, <2>2, <2>5 DEF UnlinkEntry
  <2> HIDE DEF s, t
  <2> QED
    BY <1>1, <2>2, <2>6, <2>7, Runs
<1>4. CASE UnlinkBad(p) \/ Unlinked(p)
  <2>1. NoPanic /\ (EndPut(p, th[p].ip) \/ EndPut(p, th[p].dp))
    BY <1>4 DEF UnlinkBad, Unlinked, At, In, NoPanic
  <2> QED
    BY <1>1, <2>1, EndRuns
<1> QED
  BY <1>2, <1>3, <1>4

LEMMA PathRuns ==
  ASSUME IInv, Sound, NEW p \in Process,
         \/ NamexElem(p) \/ NamexEnd(p)
         \/ IputCheck(p) \/ IputFree(p) \/ IputRef(p)
         \/ Open(p) \/ Exec(p) \/ Chdir(p)
  PROVE  Moves(p)
<1>1. th \in [Process -> Threads] /\ th[p] \in Threads
  BY DEF IInv, StateOK
<1>2. CASE NamexElem(p)
  BY <1>2, NamexElemRuns
<1>3. CASE NamexEnd(p)
  <2> DEFINE t == [th[p] EXCEPT !.pc = Found(p), !.at = 0, !.ip = th[p].at]
  <2>1. NoPanic /\ th[p].call \in Calls
    BY <1>3, HereNamex DEF NamexEnd
  <2>2. t.pc \notin {"panic", "ialloc"}
    BY <1>1, <2>1 DEF Threads, Found, Calls
  <2>3. LostPut(p, th[p].at) \/ Set(p, t)
    BY <1>3 DEF NamexEnd
  <2> HIDE DEF t
  <2> QED
    BY <1>1, <2>1, <2>2, <2>3, Runs, LostRuns
<1>4. CASE IputCheck(p) \/ IputFree(p)
  <2>1. NoPanic /\ (Goto(p, "itrunc") \/ Goto(p, "iputref"))
    BY <1>4 DEF IputCheck, IputFree, At, In, NoPanic
  <2> QED
    BY <1>1, <2>1, GotoRuns
<1>5. CASE IputRef(p)
  <2> DEFINE t == [th[p] EXCEPT !.pc = th[p].ret, !.put = 0, !.ret = "user"]
  <2>1. NoPanic /\ th[p].pc = "iputref" /\ Local(th[p], cwd[p])
    BY <1>5, Here DEF IputRef, At
  <2>2. t.pc \notin {"panic", "ialloc"}
    BY <1>1, <2>1 DEF Threads, Local, Place, Putting
  <2>3. Set(p, t)
    BY <1>5 DEF IputRef
  <2> HIDE DEF t
  <2> QED
    BY <1>1, <2>1, <2>2, <2>3, Runs
<1>6. CASE Open(p) \/ Exec(p) \/ Chdir(p)
  <2>1. PICK l \in {"open", "exec", "chdir"} : At(p, l)
    BY <1>6 DEF Open, Exec, Chdir
  <2>2. In(p, {l}) /\ {l} \subseteq HasIp \ (HasDp \cup {"iget"})
    BY <2>1 DEF At, HasIp, HasDp
  <2>3. NoPanic /\ Typed(th[p].ip)
    BY <2>2, FirmIp
  <2>4. Opens(p, th[p].ip) \/ EndPut(p, th[p].ip) \/ EndPut(p, cwd[p])
    BY <1>6, <2>3 DEF Open, Exec, Chdir, NoType
  <2> QED
    BY <1>1, <2>3, <2>4, OpensRuns, EndRuns
<1> QED
  BY <1>2, <1>3, <1>4, <1>5, <1>6

LEMMA MostMove ==
  ASSUME IInv, Sound, NEW p \in Process, Work(p), ~Ialloc(p), ~CreateLookup(p)
  PROVE  Moves(p)
<1>1. th \in [Process -> Threads] /\ th[p] \in Threads
  BY DEF IInv, StateOK
<1>2. CASE IallocGet(p) \/ Created(p)
  <2>1. NoPanic /\ (Goto(p, "create") \/ Opens(p, th[p].ip) \/ EndPut(p, th[p].ip))
    BY <1>2 DEF IallocGet, Created, At, In, NoPanic
  <2> QED
    BY <1>1, <2>1, GotoRuns, OpensRuns, EndRuns
<1> QED
  BY <1>2, PathRuns, CreateRuns, LinkRuns, UnlinkRuns DEF Work

\* ialloc is the only step that stops the system, and it does where its scan has
\* passed every inode of the disk.
LEMMA WorkRuns ==
  ASSUME IInv, Sound, NEW p \in Process, Work(p), ~NoPanic'
  PROVE  /\ Ialloc(p) /\ th[p].pc = "ialloc" /\ UNCHANGED <<dinode, missed>>
         /\ \A i \in Inum : i <= th[p].inum
         /\ \A q \in Process, i \in Inum :
              th'[q].pc = "panic" => q = p /\ th'[q].inum = th[p].inum
<1>1. th \in [Process -> Threads] /\ th[p] \in Threads
  BY DEF IInv, StateOK
<1>2. Ialloc(p)
  BY MostMove, CreateLookupRuns DEF Moves
<1>3. th[p].pc = "ialloc" /\ NoPanic
  BY <1>2 DEF Ialloc, At, In, NoPanic
<1>4. ASSUME NEW k \in Inum, Set(p, [th[p] EXCEPT !.pc = "iget", !.ip = k, !.inum = 0])
      PROVE  FALSE
  <2>1. [th[p] EXCEPT !.pc = "iget", !.ip = k, !.inum = 0].pc # "panic"
    BY <1>1 DEF Threads
  <2> QED
    BY <1>1, <1>3, <1>4, <2>1, Goes
<1>5. ASSUME NEW k \in Inum, Set(p, [th[p] EXCEPT !.inum = k])
      PROVE  FALSE
  <2>1. [th[p] EXCEPT !.inum = k].pc # "panic"
    BY <1>1, <1>3 DEF Threads
  <2> QED
    BY <1>1, <1>3, <1>5, <2>1, Goes
<1>6. /\ {i \in Inum : i > th[p].inum} = {}
      /\ Goto(p, "panic") /\ UNCHANGED <<dinode, missed>>
  BY <1>2, <1>4, <1>5 DEF Ialloc
<1>7. \A i \in Inum : i <= th[p].inum
  BY <1>1, <1>6, Constants DEF Threads, Maybe
<1>8. th' = [th EXCEPT ![p] = [th[p] EXCEPT !.pc = "panic"]]
  BY <1>6 DEF Goto, Set
<1>9. /\ th'[p].inum = th[p].inum
      /\ \A q \in Process \ {p} : th'[q] = th[q]
  BY <1>1, <1>8 DEF Threads
<1> QED
  BY <1>2, <1>3, <1>6, <1>7, <1>9 DEF NoPanic

\* The system calls that processes begin, and what needs no lock.
LEMMA OthersRun ==
  ASSUME IInv, NEW p \in Process, Start(p) \/ Close(p) \/ Fork(p) \/ Exit(p)
  PROVE  Moves(p)
<1>1. th \in [Process -> Threads] /\ th[p] \in Threads
  BY DEF IInv, StateOK
<1>2. NoPanic
  BY DEF Start, Close, Fork, Exit, At, In, NoPanic
<1>3. CASE Start(p)
  <2>1. PICK c \in Calls, path \in Paths :
          \E new \in IF c = "link" THEN NewPaths ELSE {<<>>} :
            WalkFrom(p, path, [th[p] EXCEPT !.call = c, !.new = new])
    BY <1>3 DEF Start
  <2>2. PICK new \in NewPaths \cup {<<>>} :
          WalkFrom(p, path, [th[p] EXCEPT !.call = c, !.new = new])
    BY <2>1
  <2>3. [th[p] EXCEPT !.call = c, !.new = new] \in Threads
    BY <1>1 DEF Threads
  <2> QED
    BY <1>1, <1>2, <2>2, <2>3, WalkRuns
<1>4. CASE Close(p)
  BY <1>1, <1>2, <1>4, FileCloseRuns DEF Close
<1>5. CASE Fork(p)
  BY <1>2, <1>5 DEF Fork, NoPanic, Moves, At, In
<1>6. CASE Exit(p)
  BY <1>1, <1>2, <1>6, FileCloseRuns, EndRuns DEF Exit
<1> QED
  BY <1>3, <1>4, <1>5, <1>6

(***************************************************************************)
(* What a scan of ialloc leaves behind.                                    *)
(***************************************************************************)

\* Nobody enters ialloc, and no inode is freed.
LEMMA ScanStep ==
  ASSUME Scans, NEW p \in Process, th'[p].pc # "ialloc",
         \A q \in Process \ {p} : th'[q] = th[q],
         \A i \in Inum : dinode'[i].type = dinode[i].type, UNCHANGED missed
  PROVE  Scans'
BY DEF Scans

\* Only iput and ialloc change the type of an inode.
LEMMA TypesStay ==
  ASSUME IInv, Sound, NEW p \in Process, Work(p), ~IputFree(p), ~Ialloc(p), NoPanic'
  PROVE  \A i \in Inum : dinode'[i].type = dinode[i].type
<1>1. dinode \in [Inum -> Metas] /\ th \in [Process -> Threads] /\ th[p] \in Threads
  BY DEF IInv, StateOK
<1>2. ASSUME NEW i \in Inum
      PROVE  Meta(i) = dinode[i] /\ (copy[i] # Invalid => copy[i] = dinode[i])
  BY DEF Meta, IInv, Cached, Coherent
<1>3. CASE Create(p)
  <2>1. /\ th[p].dp \in Inum /\ th[p].ip \in Inum /\ Used(th[p], copy)
        /\ Place(th[p]) = th[p].pc /\ th[p].pc = "create" /\ NoPanic
    <3>1. In(p, {"create"}) /\ {"create"} \subseteq HasDp \cap HasIp
      BY <1>3 DEF Create, At, HasIp, HasDp
    <3> QED
      BY <3>1, HereBoth
  <2>2. copy[th[p].dp] = dinode[th[p].dp] /\ Meta(th[p].ip) = dinode[th[p].ip]
    <3>1. copy[th[p].dp] # Invalid
      BY <2>1 DEF Used, LocksDp
    <3> QED
      BY <1>2, <2>1, <3>1
  <2>3. UNCHANGED disk
        \/ dinode' = [dinode EXCEPT ![th[p].ip] = [Meta(th[p].ip) EXCEPT !.nlink = 1],
                                    ![th[p].dp] = IF th[p].call = "mkdir"
                                                    THEN [copy[th[p].dp] EXCEPT !.nlink = @ + 1]
                                                    ELSE @]
    BY <1>3 DEF Create
  <2> QED
    BY <1>1, <2>1, <2>2, <2>3 DEF disk, Metas
<1>4. CASE LinkOld(p)
  <2>1. th[p].ip \in Inum /\ Meta(th[p].ip) = dinode[th[p].ip]
    <3>1. In(p, {"link"}) /\ {"link"} \subseteq HasIp \ (HasDp \cup {"iget"})
      BY <1>4 DEF LinkOld, At, HasIp, HasDp
    <3>2. th[p].ip \in Inum
      BY <3>1, HereIp
    <3> QED
      BY <1>2, <3>2
  <2>2. \/ UNCHANGED disk
        \/ dinode' = [dinode EXCEPT ![th[p].ip] = [Meta(th[p].ip) EXCEPT !.nlink = @ + 1]]
    BY <1>4 DEF LinkOld, Updated
  <2> QED
    BY <1>1, <2>1, <2>2 DEF disk, Metas
<1>5. CASE LinkBad(p) \/ Unlinked(p)
  <2>1. th[p].ip \in Inum /\ copy[th[p].ip] = dinode[th[p].ip]
    <3>1. PICK l \in {"linkbad", "unlinked"} : At(p, l)
      BY <1>5 DEF LinkBad, Unlinked
    <3>2. In(p, {l}) /\ {l} \subseteq HasIp \ (HasDp \cup {"iget"})
      BY <3>1 DEF At, HasIp, HasDp
    <3>3. /\ th[p].ip \in Inum /\ th[p].pc = l /\ Place(th[p]) = l /\ Used(th[p], copy)
      BY <3>2, HereIp
    <3>4. l = "unlinked" \/ Linking(th[p])
      BY <3>3 DEF Linking
    <3>5. copy[th[p].ip] # Invalid
      BY <3>3, <3>4 DEF Used, LocksIp
    <3> QED
      BY <1>2, <3>3, <3>5
  <2>2. dinode' = [dinode EXCEPT ![th[p].ip] = [copy[th[p].ip] EXCEPT !.nlink = @ - 1]]
    BY <1>5 DEF LinkBad, Unlinked, Updated
  <2> QED
    BY <1>1, <2>1, <2>2 DEF Metas
<1>6. CASE UnlinkEntry(p)
  <2>1. /\ th[p].dp \in Inum /\ Used(th[p], copy)
        /\ Place(th[p]) = th[p].pc /\ th[p].pc = "unlinkip"
    <3>1. In(p, {"unlinkip"}) /\ {"unlinkip"} \subseteq HasDp \cap HasIp
      BY <1>6 DEF UnlinkEntry, At, HasIp, HasDp
    <3> QED
      BY <3>1, HereBoth
  <2>2. copy[th[p].dp] = dinode[th[p].dp]
    <3>1. copy[th[p].dp] # Invalid
      BY <2>1 DEF Used, LocksDp
    <3> QED
      BY <1>2, <2>1, <3>1
  <2>3. \/ UNCHANGED dinode
        \/ dinode' = [dinode EXCEPT ![th[p].dp] = [copy[th[p].dp] EXCEPT !.nlink = @ - 1]]
    BY <1>6 DEF UnlinkEntry
  <2> QED
    BY <1>1, <2>1, <2>2, <2>3 DEF Metas
<1>7. CASE /\ ~(Create(p) \/ LinkOld(p) \/ LinkBad(p) \/ Unlinked(p) \/ UnlinkEntry(p))
  <2>1. UNCHANGED dinode
    BY <1>7 DEF Work, NamexElem, NamexEnd, IputCheck, IputRef, Open, Exec, CreateLookup,
       CreateExists, IallocGet, Created, LinkWalk, LinkNew, LinkHas, Linked,
       UnlinkLookup, UnlinkBad, Chdir, disk
  <2> QED
    BY <2>1
<1> QED
  BY <1>3, <1>4, <1>5, <1>6, <1>7

\* Nor is missed changed by any other call.
LEMMA MissedStays ==
  ASSUME NEW p \in Process, Work(p), ~IputFree(p), ~Ialloc(p)
  PROVE  UNCHANGED missed
<1>1. CASE NamexElem(p) \/ CreateLookup(p) \/ LinkNew(p) \/ IputCheck(p)
  BY <1>1 DEF NamexElem, CreateLookup, LinkNew, Follows, IputCheck, history
<1>2. CASE ~(NamexElem(p) \/ CreateLookup(p) \/ LinkNew(p) \/ IputCheck(p))
  <2>1. UNCHANGED history
    BY <1>2 DEF Work, NamexEnd, IputRef, Open, Exec, CreateExists,
       IallocGet, Create, Created, LinkOld, LinkWalk, LinkHas, Linked, LinkBad,
       UnlinkLookup, UnlinkEntry, UnlinkBad, Unlinked, Chdir
  <2> QED
    BY <2>1 DEF history
<1> QED
  BY <1>1, <1>2

LEMMA WorkScans ==
  ASSUME IInv, Sound, Scans, missed \in [Process -> SUBSET Inum],
         NEW p \in Process, Work(p), NoPanic'
  PROVE  Scans'
<1>1. /\ th \in [Process -> Threads] /\ dinode \in [Inum -> Metas] /\ th[p] \in Threads
  BY DEF IInv, StateOK
<1>2. CASE IputFree(p)
  <2> DEFINE k == th[p].put
  <2>1. k \in Inum /\ th[p].pc = "itrunc"
    BY <1>2, HerePut DEF IputFree
  <2>2. /\ \A i \in Inum \ {k} : dinode'[i] = dinode[i]
        /\ \A q \in Process :
             missed'[q] = IF Passed(q, k) THEN missed[q] \cup {k} ELSE missed[q]
    BY <1>1, <1>2 DEF IputFree
  <2>3. th' = [th EXCEPT ![p] = [th[p] EXCEPT !.pc = "iputref"]]
    BY <1>2 DEF IputFree, Goto, Set
  <2>4. th'[p].pc = "iputref" /\ \A q \in Process \ {p} : th'[q] = th[q]
    BY <1>1, <2>3 DEF Threads
  <2> SUFFICES ASSUME NEW q \in Process, NEW i \in Inum, th'[q].pc = "ialloc",
                      i <= th'[q].inum, dinode'[i].type = Free
               PROVE  i \in missed'[q]
    BY DEF Scans
  <2>5. th[q].pc = "ialloc" /\ i <= th[q].inum
    BY <2>4
  <2>6. CASE i = k
    BY <2>2, <2>5, <2>6 DEF Passed
  <2>7. CASE i # k
    BY <2>2, <2>5, <2>7 DEF Scans
  <2> QED
    BY <2>6, <2>7
<1>3. CASE Ialloc(p)
  <2>1. th[p].pc = "ialloc" /\ NoPanic
    BY <1>3 DEF Ialloc, At, In, NoPanic
  <2>2. ~Goto(p, "panic")
    BY <1>1, <2>1 DEF Goto, Set, NoPanic, Threads
  <2>3. PICK k \in Inum :
          /\ k > th[p].inum
          /\ \A j \in Inum : j > th[p].inum => k <= j
          /\ \/ /\ dinode[k].type # Free
                /\ Set(p, [th[p] EXCEPT !.inum = k])
                /\ UNCHANGED <<dinode, missed>>
             \/ /\ dinode[k].type = Free
                /\ dinode' = [dinode EXCEPT ![k] = [type |-> NewType(p), nlink |-> 0]]
                /\ Set(p, [th[p] EXCEPT !.pc = "iget", !.ip = k, !.inum = 0])
                /\ missed' = [missed EXCEPT ![p] = {}]
    BY <1>3, <2>2 DEF Ialloc
  <2>4. CASE /\ dinode[k].type # Free
             /\ Set(p, [th[p] EXCEPT !.inum = k])
             /\ UNCHANGED <<dinode, missed>>
    <3>1. th'[p].inum = k /\ \A q \in Process \ {p} : th'[q] = th[q]
      BY <1>1, <2>4 DEF Set, Threads
    <3> SUFFICES ASSUME NEW q \in Process, NEW i \in Inum, th'[q].pc = "ialloc",
                        i <= th'[q].inum, dinode[i].type = Free
                 PROVE  i \in missed[q]
      BY <2>4 DEF Scans
    <3>2. CASE q # p
      BY <3>1, <3>2 DEF Scans
    <3>3. CASE q = p
      <4>1. i <= k /\ i # k
        BY <2>4, <3>1, <3>3
      <4>2. i \in Nat /\ k \in Nat /\ th[p].inum \in Nat
        BY <1>1, Constants DEF Threads, Maybe
      <4>3. ~(i > th[p].inum)
        BY <2>3, <4>1, <4>2
      <4>4. i <= th[p].inum
        BY <4>2, <4>3
      <4> QED
        BY <2>1, <3>3, <4>4 DEF Scans
    <3> QED
      BY <3>2, <3>3
  <2>5. CASE /\ dinode' = [dinode EXCEPT ![k] = [type |-> NewType(p), nlink |-> 0]]
             /\ Set(p, [th[p] EXCEPT !.pc = "iget", !.ip = k, !.inum = 0])
             /\ missed' = [missed EXCEPT ![p] = {}]
    <3>1. /\ th'[p].pc = "iget" /\ \A q \in Process \ {p} : th'[q] = th[q]
          /\ \A q \in Process \ {p} : missed'[q] = missed[q]
      BY <1>1, <2>5 DEF Set, Threads
    <3>2. NewType(p) # Free
      BY <2>1, NewTypes
    <3>3. \A i \in Inum : dinode'[i].type = Free => dinode[i].type = Free
      BY <1>1, <2>5, <3>2
    <3> QED
      BY <3>1, <3>3 DEF Scans
  <2> QED
    BY <2>3, <2>4, <2>5
<1>4. CASE CreateLookup(p)
  <2>1. (\A i \in Inum : dinode'[i].type = dinode[i].type) /\ UNCHANGED missed
    <3>1. ~IputFree(p) /\ ~Ialloc(p)
      BY <1>4 DEF CreateLookup, IputFree, Ialloc, At, In
    <3> QED
      BY <3>1, TypesStay, MissedStays
  <2> DEFINE d == th[p].dp
             i == Lookup(d, Head(th[p].rest))
             s == [th[p] EXCEPT !.dp = 0, !.ip = i]
             t == [th[p] EXCEPT !.pc = "ialloc", !.inum = 0]
  <2>2. Typed(d)
    <3>1. In(p, {"creat", "mkdir", "mknod"})
          /\ {"creat", "mkdir", "mknod"} \subseteq HasDp \ HasIp
      BY <1>4 DEF CreateLookup, HasIp, HasDp
    <3> QED
      BY <3>1, FirmDp
  <2>3. Set(p, t) \/ Set(p, Put(s, d, "exists"))
    BY <1>4, <2>2 DEF CreateLookup, NoType
  <2>4. t.inum = 0 /\ Put(s, d, "exists").pc # "ialloc"
    BY <1>1 DEF Put, Threads
  <2> HIDE DEF s, t
  <2>5. th'[p].inum = 0 \/ th'[p].pc # "ialloc"
    BY <1>1, <2>3, <2>4 DEF Set
  <2>6. \A q \in Process \ {p} : th'[q] = th[q]
    BY <1>1, <2>3 DEF Set
  <2>7. \A j \in Inum : ~(j <= 0)
    BY Constants
  <2> QED
    BY <2>1, <2>5, <2>6, <2>7 DEF Scans
<1>5. CASE ~(IputFree(p) \/ Ialloc(p) \/ CreateLookup(p))
  BY <1>5, MostMove, TypesStay, MissedStays, ScanStep DEF Moves
<1> QED
  BY <1>2, <1>3, <1>4, <1>5

LEMMA OthersScan ==
  ASSUME IInv, Scans, NEW p \in Process, Start(p) \/ Close(p) \/ Fork(p) \/ Exit(p)
  PROVE  Scans'
<1>1. UNCHANGED <<dinode, missed>>
  BY DEF Start, Close, Fork, Exit, disk, history
<1> QED
  BY <1>1, OthersRun, ScanStep DEF Moves

(***************************************************************************)
(* The invariant of the link counts.                                       *)
(***************************************************************************)

\* What has been counted covers the links; what is free is not held.
LEMMA SoundCovers ==
  ASSUME IInv, Sound, NoPanic
  PROVE  LinksCover /\ PanicsAfterScan
<1>1. ASSUME NEW i \in Inum
      PROVE  dinode[i].nlink >= Links(i)
  <2>1. Links(i) \in Nat /\ Cardinality(Pends(i)) \in Nat
    BY Tally
  <2>2. dinode[i].nlink \in Int /\ dinode[i].nlink >= Links(i) + Cardinality(Pends(i))
    BY DEF IInv, StateOK, Metas, Sound, Counted
  <2> QED
    BY <2>1, <2>2
<1>2. ASSUME NEW i \in Inum, dinode[i].type = Free
      PROVE  /\ \A p \in Process : cwd[p] # i
             /\ \A f \in Files : ftable[f].ip # i
  <2>1. ~Firm(i)
    BY <1>2 DEF Firm, Settled
  <2>2. \A p \in Process : cwd[p] # i
    BY <2>1 DEF Sound, Firmly, Holds
  <2> QED
    BY <2>1, <2>2 DEF Sound, Firmly
<1> QED
  BY <1>1, <1>2 DEF LinksCover, PanicsAfterScan, NoPanic

\* Between calls nothing is pending.
LEMMA LinkInvExact ==
  ASSUME IInv, LinkInv
  PROVE  LinksExact
<1> SUFFICES ASSUME ~strayed, Quiescent, NEW i \in Inum \ lost
             PROVE  dinode[i].nlink = Links(i)
  BY DEF LinksExact
<1>1. NoPanic
  BY DEF Quiescent, NoPanic
<1>2. dinode[i].nlink = Links(i) + Cardinality(Pends(i))
  BY <1>1 DEF LinkInv, Sound, Counted
<1>3. Pends(i) = {}
  BY DEF Quiescent, Pends, Pending, Place, Putting
<1>4. Cardinality(Pends(i)) = 0
  BY <1>3, FS_EmptySet
<1> QED
  BY <1>2, <1>4, Tally

\* Before the first call: the root is linked to itself.
LEMMA InitSound ==
  ASSUME Init
  PROVE  Sound
<1>1. ROOT \in Inum /\ 0 \notin Inum /\ ROOT # 0
  BY Constants
<1>2. /\ dinode = [i \in Inum |-> IF i = ROOT THEN [type |-> DIR, nlink |-> 1]
                                             ELSE [type |-> Free, nlink |-> 0]]
      /\ ents = [i \in Inum |-> [n \in Name |-> 0]]
      /\ up = [i \in Inum |-> IF i = ROOT THEN ROOT ELSE 0]
      /\ \A p \in Process : th[p] = Idle /\ cwd[p] = ROOT
      /\ \A f \in Files : ftable[f].ip = 0
      /\ lost = {}
  BY DEF Init, NoFile
<1>3. \A p \in Process : /\ ~Creating(th[p]) /\ ~Pending(th[p]) /\ ~Linking(th[p])
                         /\ Place(th[p]) = "user"
                         /\ th[p].pc = "user" /\ th[p].at = 0 /\ th[p].dp = 0
                         /\ th[p].ip = 0 /\ th[p].ret = "user"
  BY <1>2 DEF Idle, Creating, Pending, Linking, Place, Putting
<1>4. Firm(ROOT)
  BY <1>1, <1>2, <1>3 DEF Firm, Settled, DIR, Free
<1>5. Shape
  BY <1>1, <1>2 DEF Shape, Settled, DIR, Free
<1>6. Firmly
  BY <1>1, <1>2, <1>3, <1>4 DEF Firmly, Holds
<1>7. Unlinking /\ Allocated
  BY <1>3 DEF Unlinking, Allocated
<1>8. ASSUME NEW i \in Inum
      PROVE  Counted(i)
  <2>1. Entries(i) = {} /\ Subdirs(i) = {} /\ Pends(i) = {}
    BY <1>1, <1>2, <1>3 DEF Entries, Subdirs, Pends
  <2>2. Cardinality({}) = 0
    BY FS_EmptySet
  <2>3. Links(i) = IF i = ROOT THEN 1 ELSE 0
    BY <2>1, <2>2 DEF Links
  <2>4. dinode[i].nlink = IF i = ROOT THEN 1 ELSE 0
    BY <1>2
  <2> QED
    BY <2>1, <2>2, <2>3, <2>4 DEF Counted
<1>9. \A p \in Process : Named(th[p])
  BY <1>3 DEF Named
<1> QED
  BY <1>5, <1>6, <1>7, <1>8, <1>9 DEF Sound

LEMMA InitLinks ==
  ASSUME Init
  PROVE  LinkInv
<1>1. IInv /\ Sound
  BY InitInv, InitSound
<1>2. NoPanic
  BY DEF Init, Idle, NoPanic
<1>3. Scans
  BY DEF Init, Idle, Scans
<1> QED
  BY <1>1, <1>2, <1>3, SoundCovers DEF LinkInv

LEMMA WorkSound ==
  ASSUME IInv, Sound, ~strayed', NEW p \in Process, Work(p), NoPanic'
  PROVE  Sound'
<1>1. CASE NamexElem(p) \/ NamexEnd(p) \/ IputCheck(p) \/ IputFree(p) \/ IputRef(p)
  BY <1>1, NamexElemQuiet, NamexEndQuiet, IputCheckSound, IputFreeSound, IputRefQuiet
<1>2. CASE Open(p) \/ Exec(p) \/ CreateLookup(p) \/ CreateExists(p)
  BY <1>2, OpenQuiet, ExecQuiet, CreateLookupQuiet, CreateExistsQuiet
<1>3. CASE Ialloc(p) \/ IallocGet(p) \/ Create(p) \/ Created(p)
  BY <1>3, IallocSound, IallocGetSound, CreateSound, CreatedQuiet
<1>4. CASE LinkOld(p) \/ LinkWalk(p) \/ LinkNew(p) \/ LinkHas(p) \/ Linked(p) \/ LinkBad(p)
  BY <1>4, LinkOldSound, LinkWalkQuiet, LinkNewSound, LinkHasQuiet, LinkedQuiet, LinkBadSound
<1>5. CASE UnlinkLookup(p) \/ UnlinkEntry(p) \/ UnlinkBad(p) \/ Unlinked(p) \/ Chdir(p)
  BY <1>5, UnlinkLookupQuiet, UnlinkEntrySound, UnlinkBadQuiet, UnlinkedSound, ChdirQuiet
<1> QED
  BY <1>1, <1>2, <1>3, <1>4, <1>5 DEF Work

\* Who has strayed has for good.
LEMMA StrayedStays ==
  ASSUME [Next]_vars, strayed
  PROVE  strayed'
<1>1. CASE UNCHANGED vars
  BY <1>1 DEF vars, history
<1>2. CASE Crash
  BY <1>2 DEF Crash, history
<1>3. ASSUME NEW p \in Process, Start(p) \/ Panic(p) \/ Close(p) \/ Fork(p) \/ Exit(p)
      PROVE  strayed'
  BY <1>3 DEF Start, Panic, Close, Fork, Exit, vars, history
<1>4. ASSUME NEW p \in Process, Work(p)
      PROVE  strayed'
  <2>1. CASE NamexElem(p) \/ CreateLookup(p) \/ LinkNew(p) \/ IputCheck(p) \/ IputFree(p)
    BY <2>1 DEF NamexElem, CreateLookup, LinkNew, Follows, IputCheck, IputFree, history
  <2>2. CASE Ialloc(p)
    BY <2>2 DEF Ialloc
  <2>3. CASE /\ ~(NamexElem(p) \/ CreateLookup(p) \/ LinkNew(p))
             /\ ~(IputCheck(p) \/ IputFree(p) \/ Ialloc(p))
    <3>1. UNCHANGED history
      BY <1>4, <2>3 DEF Work, NamexEnd, IputRef, Open, Exec, CreateExists,
         IallocGet, Create, Created, LinkOld, LinkWalk, LinkHas, Linked, LinkBad,
         UnlinkLookup, UnlinkEntry, UnlinkBad, Unlinked, Chdir
    <3> QED
      BY <3>1 DEF history
  <2> QED
    BY <2>1, <2>2, <2>3
<1> QED
  BY <1>1, <1>2, <1>3, <1>4 DEF Next

\* A panic is the end.
LEMMA PanicStops ==
  ASSUME [Next]_vars, ~NoPanic
  PROVE  UNCHANGED vars
<1>1. \A p \in Process : \A L : ~In(p, L)
  BY DEF In, NoPanic
<1>2. \A p \in Process : ~(Start(p) \/ Close(p) \/ Fork(p) \/ Exit(p))
  BY <1>1 DEF Start, Close, Fork, Exit, At
<1>3. ASSUME NEW p \in Process, Work(p)
      PROVE  FALSE
  <2>1. ~(NamexElem(p) \/ NamexEnd(p) \/ IputCheck(p) \/ IputFree(p) \/ IputRef(p))
    BY <1>1 DEF At, NamexElem, NamexEnd, IputCheck, IputFree, IputRef
  <2>2. ~(Open(p) \/ Exec(p) \/ CreateLookup(p) \/ CreateExists(p) \/ Chdir(p))
    BY <1>1 DEF At, Open, Exec, CreateLookup, CreateExists, Chdir
  <2>3. ~(Ialloc(p) \/ IallocGet(p) \/ Create(p) \/ Created(p))
    BY <1>1 DEF At, Ialloc, IallocGet, Create, Created
  <2>4. ~(LinkOld(p) \/ LinkWalk(p) \/ LinkNew(p) \/ LinkHas(p) \/ Linked(p) \/ LinkBad(p))
    BY <1>1 DEF At, LinkOld, LinkWalk, LinkNew, LinkHas, Linked, LinkBad
  <2>5. ~(UnlinkLookup(p) \/ UnlinkEntry(p) \/ UnlinkBad(p) \/ Unlinked(p))
    BY <1>1 DEF At, UnlinkLookup, UnlinkEntry, UnlinkBad, Unlinked
  <2> QED
    BY <1>3, <2>1, <2>2, <2>3, <2>4, <2>5 DEF Work
<1>4. ~Crash
  BY <1>1 DEF Crash, At, NoPanic
<1> QED
  BY <1>2, <1>3, <1>4 DEF Next, Panic

LEMMA LinkInvNext ==
  ASSUME IInv, TypeOK, IInv', LinkInv, [Next]_vars
  PROVE  LinkInv'
<1>1. CASE UNCHANGED vars
  <2>1. (LinksCover' <=> LinksCover) /\ (PanicsAfterScan' <=> PanicsAfterScan)
    BY <1>1 DEF LinksCover, PanicsAfterScan, Links, Entries, Subdirs, vars, disk, files, history
  <2>2. (strayed' <=> strayed) /\ (NoPanic' <=> NoPanic) /\ (Scans => Scans')
    BY <1>1 DEF NoPanic, Scans, vars, disk, history
  <2> QED
    BY <1>1, <2>1, <2>2, StutterSound DEF LinkInv
<1>2. CASE strayed'
  BY <1>2 DEF LinkInv, LinksCover, PanicsAfterScan
<1>3. CASE ~strayed' /\ ~UNCHANGED vars
  <2>1. ~strayed /\ NoPanic /\ Sound /\ Scans
    BY <1>3, StrayedStays, PanicStops DEF LinkInv
  <2>2. ASSUME Sound', Scans', NoPanic'
        PROVE  LinkInv'
    <3>1. (IInv /\ Sound /\ NoPanic => LinksCover /\ PanicsAfterScan)'
      BY SoundCovers, PTL
    <3> QED
      BY <2>2, <3>1 DEF LinkInv
  <2>3. CASE Crash
    <3>1. NoPanic'
      BY <2>1, <2>3 DEF Crash, NoPanic
    <3>2. Scans'
      BY <2>1, <2>3 DEF Crash, Scans, disk, history
    <3> QED
      BY <2>1, <2>2, <2>3, <3>1, <3>2, CrashSound
  <2>4. ASSUME NEW p \in Process, Start(p) \/ Close(p) \/ Fork(p) \/ Exit(p)
        PROVE  LinkInv'
    <3>1. NoPanic' /\ Scans'
      BY <2>1, <2>4, OthersRun, OthersScan DEF Moves
    <3> QED
      BY <2>1, <2>2, <2>4, <3>1, StartQuiet, CloseQuiet, ForkQuiet, ExitQuiet
  <2>5. ASSUME NEW p \in Process, Work(p)
        PROVE  LinkInv'
    <3>1. CASE NoPanic'
      <4>1. Sound' /\ Scans'
        BY <1>3, <2>1, <2>5, <3>1, WorkSound, WorkScans DEF TypeOK
      <4> QED
        BY <2>2, <3>1, <4>1
    <3>2. CASE ~NoPanic'
      <4>1. /\ Ialloc(p) /\ th[p].pc = "ialloc" /\ UNCHANGED <<dinode, missed>>
            /\ \A i \in Inum : i <= th[p].inum
            /\ \A q \in Process, i \in Inum :
                 th'[q].pc = "panic" => q = p /\ th'[q].inum = th[p].inum
        BY <2>1, <2>5, <3>2, WorkRuns
      <4>2. UNCHANGED <<ents, cwd, ftable>>
        BY <4>1 DEF Ialloc, files
      <4>3. LinksCover
        BY <2>1, SoundCovers
      <4>4. LinksCover'
        BY <2>1, <4>1, <4>2, <4>3 DEF LinksCover, Links, Entries, Subdirs
      <4>5. PanicsAfterScan'
        BY <2>1, <4>1 DEF PanicsAfterScan, Scans
      <4> QED
        BY <3>2, <4>4, <4>5 DEF LinkInv
    <3> QED
      BY <3>1, <3>2
  <2>6. \A p \in Process : ~Panic(p)
    BY <1>3 DEF Panic
  <2> QED
    BY <1>3, <2>3, <2>4, <2>5, <2>6 DEF Next
<1> QED
  BY <1>1, <1>2, <1>3

(***************************************************************************)
(* Theorems.                                                               *)
(***************************************************************************)

\* Every variable keeps its type: the inode numbers that a call carries from
\* one step to the next are those of inodes, or 0 where it has none.
THEOREM TypeCorrect == Spec => []TypeOK
<1>1. Init => TypeOK
  <2>1. Init => IInv
    BY InitInv
  <2> QED
    BY <2>1 DEF Init, TypeOK, IInv
<1>2. IInv /\ TypeOK /\ IInv' /\ [Next]_vars => TypeOK'
  BY HistoryType DEF IInv, TypeOK
<1> QED
  BY <1>1, <1>2, Invariance, PTL DEF Spec

\* ip->ref is the number of pointers to the cache entry that processes and open
\* files have, and f->ref the number of processes that have the file open, in the
\* middle of calls as well, on the paths that fail, and after fork and exit.
THEOREM ReferencesAreCounted == Spec => []RefsCounted
<1>1. IInv => RefsCounted
  BY DEF IInv
<1> QED
  BY <1>1, Invariance, PTL

\* Whatever a valid entry of the inode cache says is what the disk says.
THEOREM CacheIsCoherent == Spec => []Coherent
<1>1. IInv => Coherent
  BY DEF IInv, Cached
<1> QED
  BY <1>1, Invariance, PTL

\* nlink is never below the number of links, and no free inode is open or the
\* current directory of a process: at every step of every call, failing ones and
\* crashes included, until a lookup follows a stale "..".
THEOREM LinksAreCovered == Spec => []LinksCover
<1>1. LinkInv => LinksCover
  BY DEF LinkInv
<1> QED
  BY <1>1, InitLinks, LinkInvNext, TypeCorrect, Invariance, PTL DEF Spec

\* Between calls nlink is the number of links: what a call that fails has counted
\* is taken back, and what unlink erases is uncounted.
THEOREM LinksAreExact == Spec => []LinksExact
<1>1. IInv /\ LinkInv => LinksExact
  BY LinkInvExact
<1> QED
  BY <1>1, InitLinks, LinkInvNext, TypeCorrect, Invariance, PTL DEF Spec

\* Of the panics of ilock, unlink and ialloc only "ialloc: no inodes" is reached,
\* behind a scan that has passed every inode of the disk; an inode that is free at
\* that moment was freed by an iput behind the scan.
THEOREM PanicsOnlyAfterScan == Spec => []PanicsAfterScan
<1>1. LinkInv => PanicsAfterScan
  BY DEF LinkInv
<1> QED
  BY <1>1, InitLinks, LinkInvNext, TypeCorrect, Invariance, PTL DEF Spec

=============================================================================
