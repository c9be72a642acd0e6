---------------------------- MODULE FileDataProofs ----------------------------
(***************************************************************************)
(* Theorems about FileData for every number of processes, files, inodes,   *)
(* blocks, and every layout of the disk: no block is lost or shared, files *)
(* have no holes, a chunk fits in its transaction, and the whole           *)
(* implements files of bytes (ByteFile).                                   *)
(***************************************************************************)
EXTENDS FileData, FiniteSetTheorems, SequenceTheorems, WellFoundedInduction,
        NaturalsInduction, TLAPS

(***************************************************************************)
(* The inductive invariant.                                                *)
(***************************************************************************)

Cells == [0..(BSIZE - 1) -> Byte \cup Blocks \cup {0}]
Nodes == [size : 0..(MAXFILE * BSIZE), addrs : [0..NDIRECT -> Blocks \cup {0}]]
Stores == [used : SUBSET Blocks, cell : [Blocks -> Cells], dinode : [Inode -> Nodes]]
Items == {Data(b) : b \in Blocks} \cup {Bitmap(b) : b \in Blocks} \cup {DiskInode}
CallRecords == [file : File \cup {None}, ip : Inode \cup {None}, n : Nat, i : Nat, tot : Nat]

Typed ==
  /\ mem \in Stores /\ disk \in Stores
  /\ inode \in [Inode -> Nodes]
  /\ lock \in [Inode -> Process \cup {None}]
  /\ outstanding \subseteq Process
  /\ off \in [File -> 0..(MAXFILE * BSIZE) \cup {Closed}]
  /\ pc \in [Process -> Points]
  /\ call \in [Process -> CallRecords]
  /\ logged \in [Process -> SUBSET Items]
  /\ panicked \in BOOLEAN

\* What a call is at each place: of filewrite, or (without a file) of itrunc.
Writing(p) == pc[p] # "user" /\ call[p].file # None
Removing(p) == pc[p] # "user" /\ call[p].file = None

CallOf(p) ==
  /\ pc[p] = "user" => call[p] = NoCall
  /\ Writing(p) =>
       /\ call[p].ip = InodeOf[call[p].file] /\ off[call[p].file] # Closed
       /\ call[p].n \in Lengths /\ call[p].i < call[p].n
       /\ call[p].tot <= N1(p)
       /\ pc[p] # "trunc"
  /\ Removing(p) =>
       /\ call[p].ip \in Inode /\ call[p].n = 0 /\ call[p].i = 0
       /\ \A f \in File : InodeOf[f] = call[p].ip => off[f] = Closed
       /\ call[p].tot <= MAXFILE
       /\ pc[p] # "write"
  /\ pc[p] \in {"begin", "lock"} => call[p].tot = 0
  /\ pc[p] = "write" /\ call[p].tot > 0 => ~BadRange(p)

Inside == {"write", "trunc"}
Locks ==
  /\ \A ip \in Inode : lock[ip] # None => pc[lock[ip]] \in Inside /\ call[lock[ip]].ip = ip
  /\ \A p \in Process : pc[p] \in Inside => lock[call[p].ip] = p
  /\ outstanding = {p \in Process : pc[p] \in Inside \cup {"lock", "end"}}

\* The addresses of all inodes, place by place.
All == Inode \X Places
Map(cell, nodes) == [x \in All |-> Place(nodes[x[1]], cell, x[2])]
Now == Map(mem.cell, inode)
Stable == Map(disk.cell, disk.dinode)

Spot(bn) == IF bn < NDIRECT THEN bn ELSE bn + 1

\* Where itrunc has been: the blocks are freed, the addresses may still be there.
Cleared(x) ==
  \E p \in Process :
    /\ pc[p] = "trunc" /\ call[p].ip = x[1]
    /\ \E bn \in 0..(call[p].tot - 1) : x[2] = Spot(bn)
Kept == {x \in All : ~Cleared(x)}

\* The blocks in use are those at the places L, each at one of them.
Exact(used, at, L) ==
  /\ \A x \in L : at[x] # 0 => at[x] \in used
  /\ \A x, y \in L : at[x] = at[y] /\ at[x] # 0 => x = y
  /\ \A b \in used : \E x \in L : at[x] = b

\* From block lo on there are blocks up to the byte end, and no others.
Filled(at, ip, lo, end) ==
  \A bn \in lo..(MAXFILE - 1) : bn * BSIZE < end <=> at[<<ip, Spot(bn)>>] # 0

End(p) == IF Position(p) > inode[call[p].ip].size THEN Position(p) ELSE inode[call[p].ip].size

\* The inode of a call inside writei or itrunc.
CallShape(p) ==
  /\ pc[p] = "write" =>
       /\ Filled(Now, call[p].ip, 0, End(p))
       /\ Position(p) <= inode[call[p].ip].size => mem.dinode[call[p].ip] = inode[call[p].ip]
  /\ pc[p] = "trunc" => Filled(Now, call[p].ip, call[p].tot, inode[call[p].ip].size)

\* The inodes that nobody has locked, and those on the disk.
Shape ==
  /\ \A ip \in Inode : Filled(Stable, ip, 0, disk.dinode[ip].size)
  /\ \A ip \in Inode :
       lock[ip] = None => Filled(Now, ip, 0, inode[ip].size) /\ mem.dinode[ip] = inode[ip]
  /\ \A f \in File : off[f] <= inode[InodeOf[f]].size

\* What a chunk has passed to log_write: blocks it has put bytes in, bitmap
\* blocks of those it has allocated, and the block of addresses.
Touched(p) ==
  {bn \in 0..(MAXFILE - 1) : off[call[p].file] < (bn + 1) * BSIZE /\ bn * BSIZE < Position(p)}
Fresh(p) ==
  {bn \in 0..(MAXFILE - 1) : off[call[p].file] <= bn * BSIZE /\ bn * BSIZE < Position(p)}
TableLog(a) == IF a = 0 THEN {} ELSE {Data(a), Bitmap(a)}
ChunkLog(p) ==
  TableLog(Now[<<call[p].ip, NDIRECT>>])
  \cup {Data(Now[<<call[p].ip, Spot(bn)>>]) : bn \in Touched(p)}
  \cup {Bitmap(Now[<<call[p].ip, Spot(bn)>>]) : bn \in Fresh(p)}
TruncLog == {Bitmap(b) : b \in Blocks} \cup {DiskInode}

LogOf(p) ==
  /\ pc[p] \in {"user", "begin", "lock"} => logged[p] = {}
  /\ pc[p] = "write" => logged[p] \subseteq ChunkLog(p)
  /\ pc[p] = "trunc" => logged[p] \subseteq TruncLog
  /\ Cardinality(logged[p]) <= MAXOPBLOCKS

Live(p) == CallOf(p) /\ CallShape(p) /\ LogOf(p)

IInv ==
  /\ Typed
  /\ \A p \in Process : Live(p)
  /\ Locks
  /\ Exact(disk.used, Stable, All)
  /\ Exact(mem.used, Now, Kept)
  /\ Shape

(***************************************************************************)
(* Numbers and least elements.                                             *)
(***************************************************************************)

LEMMA Layout ==
  /\ BSIZE \in Nat /\ BSIZE > 0 /\ NDIRECT \in Nat /\ NINDIRECT \in Nat /\ NINDIRECT > 0
  /\ NINDIRECT <= BSIZE /\ MAXFILE = NDIRECT + NINDIRECT /\ MAXFILE \in Nat
  /\ BPB \in Nat /\ BPB > 0 /\ NBlocks \in Nat /\ MAXOPBLOCKS \in Nat /\ MAXOPBLOCKS >= 6
  /\ IsFiniteSet(Blocks) /\ 0 \notin Blocks /\ Blocks \subseteq Nat
  /\ Lengths \subseteq Nat /\ \A n \in Lengths : n > 0
  /\ None \notin Process /\ None \notin Inode /\ None \notin File
  /\ InodeOf \in [File -> Inode]
<1>1. IsFiniteSet(Blocks)
  <2>1. NBlocks \in Int /\ 1 \in Int
    BY LayoutAssumption
  <2> QED
    BY <2>1, FS_Interval DEF Blocks
<1> QED
  BY <1>1, LayoutAssumption, NamesAssumption DEF Blocks, MAXFILE

LEMMA MinProperties ==
  ASSUME NEW S \in SUBSET Nat, S # {}
  PROVE  Min(S) \in S /\ \A y \in S : Min(S) <= y
<1>1. PICK x \in S : \A y \in S : <<y, x>> \notin OpToRel(<, Nat)
  BY WFMin, NatLessThanWellFounded, Zenon
<1>2. \A y \in S : ~(y < x)
  BY <1>1, Zenon DEF OpToRel
<1>3. \A y \in S : x <= y
  BY <1>2
<1> QED
  BY <1>3, Zenon DEF Min

LEMMA DivMod ==
  ASSUME NEW P \in Nat, P > 0, NEW x \in Nat
  PROVE  /\ x \div P \in Nat /\ x % P \in 0..(P - 1)
         /\ x = P * (x \div P) + (x % P)
<1>1. x \div P \in Nat
  BY SMT
<1>2. x % P \in 0..(P - 1)
  BY SMT
<1>3. x = P * (x \div P) + (x % P)
  BY SMT
<1> QED
  BY <1>1, <1>2, <1>3

\* Blocks are BSIZE apart.
LEMMA Apart ==
  \A m, n \in Nat :
    /\ m * BSIZE \in Nat
    /\ m < n => m * BSIZE + BSIZE <= n * BSIZE
    /\ m * BSIZE < n * BSIZE => m < n
    /\ (m + 1) * BSIZE = m * BSIZE + BSIZE
<1>1. ASSUME NEW m \in Nat, NEW n \in Nat
      PROVE  m * BSIZE \in Nat
  BY Layout
<1>2. ASSUME NEW m \in Nat
      PROVE  (m + 1) * BSIZE = m * BSIZE + BSIZE
  BY Layout
<1>3. ASSUME NEW m \in Nat, NEW n \in Nat, m <= n
      PROVE  m * BSIZE <= n * BSIZE
  BY <1>3, Layout
<1>4. ASSUME NEW m \in Nat, NEW n \in Nat, m < n
      PROVE  m * BSIZE + BSIZE <= n * BSIZE
  <2>1. (m + 1) * BSIZE <= n * BSIZE
    BY <1>3, <1>4
  <2> QED
    BY <2>1, <1>2
<1>5. ASSUME NEW m \in Nat, NEW n \in Nat, m * BSIZE < n * BSIZE
      PROVE  m < n
  <2>1. CASE n <= m
    BY <1>1, <1>3, <1>5, <2>1
  <2> QED
    BY <2>1
<1> QED
  BY <1>1, <1>2, <1>4, <1>5

(***************************************************************************)
(* Blocks and their places.                                                *)
(***************************************************************************)

\* A place that gets a block.
PutAt(at, x, b) == [at EXCEPT ![x] = b]

LEMMA ExactAdd ==
  ASSUME NEW used, NEW at, NEW L, Exact(used, at, L), L \subseteq DOMAIN at,
         0 \notin used,
         NEW b, b # 0, b \notin used, NEW x \in L, at[x] = 0
  PROVE  Exact(used \cup {b}, PutAt(at, x, b), L)
<1> DEFINE new == PutAt(at, x, b)
<1>1. new[x] = b /\ \A y \in L : y # x => new[y] = at[y]
  BY DEF PutAt
<1> HIDE DEF new
<1>2. \A y \in L : new[y] # 0 => new[y] \in used \cup {b}
  BY <1>1 DEF Exact
<1>3. \A y, z \in L : new[y] = new[z] /\ new[y] # 0 => y = z
  BY <1>1 DEF Exact
<1>4. \A c \in used \cup {b} : \E y \in L : new[y] = c
  <2> SUFFICES ASSUME NEW c \in used, c # b
               PROVE  \E y \in L : new[y] = c
    BY <1>1
  <2>1. PICK y \in L : at[y] = c
    BY DEF Exact
  <2>2. c # 0 => y # x
    BY <2>1
  <2> QED
    BY <1>1, <2>1, <2>2
<1> QED
  BY <1>2, <1>3, <1>4 DEF Exact, new

LEMMA ExactDrop ==
  ASSUME NEW used, NEW at, NEW L, Exact(used, at, L), NEW x \in L
  PROVE  Exact(used \ {at[x]}, at, L \ {x})
BY DEF Exact

\* Only what is at the places counts, and empty places do not.
LEMMA ExactSame ==
  ASSUME NEW used, NEW at, NEW L, Exact(used, at, L), 0 \notin used,
         NEW new, NEW M, M \subseteq L, \A x \in M : new[x] = at[x],
         \A x \in L : x \notin M => at[x] = 0
  PROVE  Exact(used, new, M)
<1>1. \A b \in used : \E x \in M : new[x] = b
  <2> SUFFICES ASSUME NEW b \in used
               PROVE  \E x \in M : new[x] = b
    OBVIOUS
  <2>1. PICK x \in L : at[x] = b
    BY DEF Exact
  <2> QED
    BY <2>1
<1>2. \A x \in M : new[x] # 0 => new[x] \in used
  BY DEF Exact
<1>3. \A x, y \in M : new[x] = new[y] /\ new[x] # 0 => x = y
  BY DEF Exact
<1> QED
  BY <1>1, <1>2, <1>3 DEF Exact

\* More places that are empty.
LEMMA ExactMore ==
  ASSUME NEW used, NEW at, NEW L, Exact(used, at, L), 0 \notin used,
         NEW M, L \subseteq M, \A x \in M : x \notin L => at[x] = 0
  PROVE  Exact(used, at, M)
BY DEF Exact

LEMMA ExactOwned ==
  ASSUME NEW s \in Stores, NEW nodes \in [Inode -> Nodes],
         Exact(s.used, Map(s.cell, nodes), All)
  PROVE  Owned(s, nodes)
<1> DEFINE at == Map(s.cell, nodes)
           S(b) == {x \in Inode \X Places : Place(nodes[x[1]], s.cell, x[2]) = b}
<1> SUFFICES ASSUME NEW b \in Blocks
             PROVE  Cardinality(S(b)) = IF b \in s.used THEN 1 ELSE 0
  BY DEF Owned
<1>1. b # 0
  BY Layout
<1>2. S(b) = {x \in All : at[x] = b}
  BY DEF All, Map
<1> HIDE DEF at, S
<1>3. CASE b \in s.used
  <2>1. PICK x \in All : at[x] = b
    BY <1>3 DEF Exact, at
  <2>2. \A y \in S(b) : y = x
    BY <1>1, <1>2, <2>1 DEF Exact, at
  <2>3. S(b) = {x}
    BY <1>2, <2>1, <2>2
  <2> QED
    BY <1>3, <2>3, FS_Singleton, Zenon
<1>4. CASE b \notin s.used
  <2>1. S(b) = {}
    BY <1>1, <1>2, <1>4 DEF Exact, at
  <2> QED
    BY <1>4, <2>1, FS_EmptySet
<1> QED
  BY <1>3, <1>4

(***************************************************************************)
(* The places of an inode.                                                 *)
(***************************************************************************)

Tables(nodes) == {nodes[ip].addrs[NDIRECT] : ip \in Inode}

LEMMA PlaceTypes ==
  ASSUME NEW cell, NEW nodes
  PROVE  /\ DOMAIN Map(cell, nodes) = All
         /\ \A ip \in Inode : <<ip, NDIRECT>> \in All
         /\ \A ip \in Inode : Map(cell, nodes)[<<ip, NDIRECT>>] = nodes[ip].addrs[NDIRECT]
         /\ \A ip \in Inode, bn \in 0..(MAXFILE - 1) :
              /\ <<ip, Spot(bn)>> \in All /\ Spot(bn) # NDIRECT
              /\ Map(cell, nodes)[<<ip, Spot(bn)>>] = Addr(nodes[ip].addrs, cell, bn)
<1>1. \A k \in Places, ip \in Inode :
        <<ip, k>> \in All /\ Map(cell, nodes)[<<ip, k>>] = Place(nodes[ip], cell, k)
  BY DEF Map, All
<1>2. NDIRECT \in Places
  BY Layout DEF Places
<1>3. \A ip \in Inode : Place(nodes[ip], cell, NDIRECT) = nodes[ip].addrs[NDIRECT]
  BY Layout DEF Place
<1>4. \A bn \in 0..(MAXFILE - 1) : Spot(bn) \in Places /\ Spot(bn) # NDIRECT
  BY Layout DEF Spot, Places
<1>5. ASSUME NEW ip \in Inode, NEW bn \in 0..(MAXFILE - 1)
      PROVE  Place(nodes[ip], cell, Spot(bn)) = Addr(nodes[ip].addrs, cell, bn)
  <2>1. bn \in Int /\ NDIRECT \in Int
    BY Layout
  <2>2. CASE bn < NDIRECT
    BY <2>1, <2>2 DEF Place, Spot, Addr
  <2>3. CASE ~(bn < NDIRECT)
    <3>1. Spot(bn) = bn + 1 /\ ~(bn + 1 <= NDIRECT) /\ (bn + 1) - NDIRECT - 1 = bn - NDIRECT
      BY <2>1, <2>3 DEF Spot
    <3> QED
      BY <2>3, <3>1 DEF Place, Addr
  <2> QED
    BY <2>2, <2>3
<1>6. DOMAIN Map(cell, nodes) = All
  BY DEF Map
<1> QED
  BY <1>1, <1>2, <1>3, <1>4, <1>5, <1>6

LEMMA SpotsDiffer ==
  \A m, n \in 0..(MAXFILE - 1) : Spot(m) = Spot(n) => m = n
BY Layout DEF Spot

LEMMA AnyPlace ==
  \A x \in All :
    /\ x = <<x[1], x[2]>> /\ x[1] \in Inode /\ x[2] \in Places
    /\ x[2] = NDIRECT \/ \E bn \in 0..(MAXFILE - 1) : x[2] = Spot(bn)
<1> SUFFICES ASSUME NEW x \in All
             PROVE  /\ x = <<x[1], x[2]>> /\ x[1] \in Inode /\ x[2] \in Places
                    /\ x[2] = NDIRECT \/ \E bn \in 0..(MAXFILE - 1) : x[2] = Spot(bn)
  OBVIOUS
<1>1. x = <<x[1], x[2]>> /\ x[1] \in Inode /\ x[2] \in 0..MAXFILE
  BY DEF All, Places
<1>2. CASE x[2] < NDIRECT
  <2>1. x[2] \in 0..(MAXFILE - 1) /\ x[2] = Spot(x[2])
    BY <1>1, <1>2, Layout DEF Spot
  <2> QED
    BY <1>1, <2>1 DEF Places
<1>3. CASE x[2] > NDIRECT
  <2>1. x[2] - 1 \in 0..(MAXFILE - 1) /\ x[2] = Spot(x[2] - 1)
    BY <1>1, <1>3, Layout DEF Spot
  <2> QED
    BY <1>1, <2>1 DEF Places
<1>4. x[2] = NDIRECT \/ x[2] < NDIRECT \/ x[2] > NDIRECT
  BY <1>1, Layout
<1> QED
  BY <1>1, <1>2, <1>3, <1>4 DEF Places

\* A block that is no block of addresses changes no place.
LEMMA DataChange ==
  ASSUME NEW cell, NEW new, NEW nodes,
         \A a \in Tables(nodes) : a # 0 => new[a] = cell[a]
  PROVE  Map(new, nodes) = Map(cell, nodes)
<1>1. ASSUME NEW x \in All
      PROVE  Place(nodes[x[1]], new, x[2]) = Place(nodes[x[1]], cell, x[2])
  <2>1. nodes[x[1]].addrs[NDIRECT] \in Tables(nodes)
    BY AnyPlace DEF Tables
  <2> QED
    BY <2>1 DEF Place
<1> QED
  BY <1>1 DEF Map

\* A new address of an inode; a new block of addresses is full of zeros.
LEMMA NewAddress ==
  ASSUME NEW cell, NEW nodes \in [Inode -> Nodes], NEW ip \in Inode, NEW k \in 0..NDIRECT,
         NEW b \in Blocks, nodes[ip].addrs[k] = 0,
         NEW nodes2, nodes2[ip].addrs = [nodes[ip].addrs EXCEPT ![k] = b],
         \A j \in Inode : j # ip => nodes2[j] = nodes[j],
         NEW new, \A a \in Tables(nodes) : a # 0 => new[a] = cell[a],
         k = NDIRECT => new[b] = Zeros
  PROVE  Map(new, nodes2) = PutAt(Map(cell, nodes), <<ip, k>>, b)
<1>0. nodes[ip].addrs \in [0..NDIRECT -> Blocks \cup {0}] /\ NDIRECT \in Nat
  BY Layout DEF Nodes
<1>1. ASSUME NEW x \in All, x # <<ip, k>>
      PROVE  Place(nodes2[x[1]], new, x[2]) = Place(nodes[x[1]], cell, x[2])
  <2>1. /\ x = <<x[1], x[2]>> /\ x[1] \in Inode /\ x[2] \in 0..MAXFILE
        /\ nodes[x[1]].addrs[NDIRECT] \in Tables(nodes)
    BY AnyPlace DEF Tables, Places
  <2>2. CASE x[1] # ip
    BY <2>1, <2>2 DEF Place
  <2>3. CASE x[1] = ip
    <3>1. x[2] # k
      BY <1>1, <2>1, <2>3
    <3>2. CASE x[2] <= NDIRECT
      <4>1. x[2] \in 0..NDIRECT
        BY <2>1, <3>2, <1>0, Layout
      <4> QED
        BY <1>0, <2>3, <3>1, <3>2, <4>1 DEF Place
    <3>3. CASE ~(x[2] <= NDIRECT) /\ k # NDIRECT
      <4>1. nodes2[ip].addrs[NDIRECT] = nodes[ip].addrs[NDIRECT]
        BY <1>0, <3>3
      <4> QED
        BY <2>1, <2>3, <3>3, <4>1, Zenon DEF Place
    <3>4. CASE ~(x[2] <= NDIRECT) /\ k = NDIRECT
      <4>1. nodes2[ip].addrs[NDIRECT] = b /\ nodes[ip].addrs[NDIRECT] = 0 /\ b # 0
        BY <1>0, <3>4, Layout
      <4>2. x[2] - NDIRECT - 1 \in 0..(BSIZE - 1)
        <5>1. x[2] \in Nat /\ x[2] <= NDIRECT + NINDIRECT /\ x[2] > NDIRECT
          BY <2>1, <3>4, Layout
        <5> QED
          BY <5>1, Layout
      <4>3. new[b][x[2] - NDIRECT - 1] = 0
        BY <3>4, <4>2, Zenon DEF Zeros
      <4> QED
        BY <2>3, <3>4, <4>1, <4>3 DEF Place
    <3> QED
      BY <3>2, <3>3, <3>4
  <2> QED
    BY <2>2, <2>3
<1>2. <<ip, k>> \in All
  BY Layout DEF All, Places
<1>3. Place(nodes2[ip], new, k) = b
  BY <1>0 DEF Place
<1>4. \A x \in All : Map(new, nodes2)[x] = IF x = <<ip, k>> THEN b ELSE Map(cell, nodes)[x]
  BY <1>1, <1>3 DEF Map
<1>5. DOMAIN Map(new, nodes2) = All /\ DOMAIN Map(cell, nodes) = All
  BY DEF Map
<1>6. Map(new, nodes2) = [x \in All |-> Map(new, nodes2)[x]]
  BY DEF Map
<1> QED
  BY <1>2, <1>4, <1>5, <1>6, Zenon DEF PutAt

\* A new entry of the block of addresses.
LEMMA NewEntry ==
  ASSUME NEW cell, NEW nodes \in [Inode -> Nodes], NEW ip \in Inode,
         NEW a, a = nodes[ip].addrs[NDIRECT], a # 0, cell[a] \in Cells,
         \A j \in Inode : j # ip => nodes[j].addrs[NDIRECT] # a,
         NEW bn \in NDIRECT..(MAXFILE - 1), NEW b,
         NEW new, \A c \in Tables(nodes) : c # 0 /\ c # a => new[c] = cell[c],
         new[a] = [cell[a] EXCEPT ![bn - NDIRECT] = b]
  PROVE  Map(new, nodes) = PutAt(Map(cell, nodes), <<ip, Spot(bn)>>, b)
<1>1. bn - NDIRECT \in 0..(BSIZE - 1) /\ Spot(bn) = bn + 1 /\ bn \in Nat /\ NDIRECT \in Nat
  BY Layout DEF Spot
<1>2. ASSUME NEW x \in All, x # <<ip, Spot(bn)>>
      PROVE  Place(nodes[x[1]], new, x[2]) = Place(nodes[x[1]], cell, x[2])
  <2>1. /\ x = <<x[1], x[2]>> /\ x[1] \in Inode /\ x[2] \in 0..MAXFILE
        /\ nodes[x[1]].addrs[NDIRECT] \in Tables(nodes)
    BY AnyPlace DEF Tables, Places
  <2>2. CASE x[1] # ip
    BY <2>1, <2>2 DEF Place
  <2>3. CASE x[1] = ip
    <3>1. x[2] # bn + 1
      BY <1>1, <1>2, <2>1, <2>3
    <3>2. CASE x[2] <= NDIRECT
      BY <2>3, <3>2 DEF Place
    <3>3. CASE ~(x[2] <= NDIRECT)
      <4>1. x[2] - NDIRECT - 1 # bn - NDIRECT
        BY <1>1, <2>1, <3>1
      <4>2. new[a][x[2] - NDIRECT - 1] = cell[a][x[2] - NDIRECT - 1]
        <5>1. x[2] - NDIRECT - 1 \in 0..(BSIZE - 1)
          BY <1>1, <2>1, <3>3, Layout
        <5> QED
          BY <4>1, <5>1 DEF Cells
      <4> QED
        BY <2>3, <3>3, <4>2, Zenon DEF Place
    <3> QED
      BY <3>2, <3>3
  <2> QED
    BY <2>2, <2>3
<1>3. bn \in 0..(MAXFILE - 1)
  BY <1>1
<1>4. <<ip, Spot(bn)>> \in All
  BY <1>3, PlaceTypes, Zenon
<1>5. Place(nodes[ip], new, Spot(bn)) = b
  <2>1. ~(bn + 1 <= NDIRECT) /\ (bn + 1) - NDIRECT - 1 = bn - NDIRECT
    BY <1>1
  <2>2. new[a][bn - NDIRECT] = b
    BY <1>1, Zenon DEF Cells
  <2> QED
    BY <1>1, <2>1, <2>2 DEF Place
<1>6. \A x \in All : Map(new, nodes)[x] = IF x = <<ip, Spot(bn)>> THEN b ELSE Map(cell, nodes)[x]
  BY <1>2, <1>5 DEF Map
<1>7. DOMAIN Map(cell, nodes) = All
  BY DEF Map
<1>8. Map(new, nodes) = [x \in All |-> Map(new, nodes)[x]]
  BY DEF Map
<1> QED
  BY <1>4, <1>6, <1>7, <1>8, Zenon DEF PutAt

(***************************************************************************)
(* balloc and bmap.                                                        *)
(***************************************************************************)

States == [used : SUBSET Blocks, cell : [Blocks -> Cells],
           addrs : [0..NDIRECT -> Blocks \cup {0}], log : SUBSET Items]

LEMMA ZerosCell == Zeros \in Cells
BY DEF Zeros, Cells

\* balloc takes a free block and changes nothing else.
LEMMA TakenFields ==
  ASSUME NEW st \in States, Free(st) # {}
  PROVE  LET b == Min(Free(st))
         IN  /\ b \in Blocks /\ b \notin st.used
             /\ Taken(st) \in States
             /\ Taken(st).used = st.used \cup {b}
             /\ Taken(st).cell = [st.cell EXCEPT ![b] = Zeros]
             /\ Taken(st).addrs = st.addrs
             /\ Taken(st).log = st.log \cup {Data(b), Bitmap(b)}
<1> DEFINE b == Min(Free(st))
<1>1. b \in Blocks /\ b \notin st.used
  <2>1. Free(st) \in SUBSET Nat
    BY Layout, Zenon DEF Free
  <2> QED
    BY <2>1, MinProperties DEF Free
<1> HIDE DEF b
<1>2. Taken(st) = [st EXCEPT !.used = @ \cup {b}, !.cell[b] = Zeros,
                             !.log = @ \cup {Data(b), Bitmap(b)}]
  BY DEF Taken, b
<1>3. /\ Taken(st).used = st.used \cup {b}
      /\ Taken(st).cell = [st.cell EXCEPT ![b] = Zeros]
      /\ Taken(st).addrs = st.addrs
      /\ Taken(st).log = st.log \cup {Data(b), Bitmap(b)}
  BY <1>2 DEF States
<1>4. Taken(st) = [used |-> Taken(st).used, cell |-> Taken(st).cell,
                   addrs |-> Taken(st).addrs, log |-> Taken(st).log]
  BY <1>2, Zenon DEF States
<1>5. /\ st.used \cup {b} \in SUBSET Blocks
      /\ [st.cell EXCEPT ![b] = Zeros] \in [Blocks -> Cells]
      /\ st.log \cup {Data(b), Bitmap(b)} \in SUBSET Items
      /\ st.addrs \in [0..NDIRECT -> Blocks \cup {0}]
  BY <1>1, ZerosCell DEF States, Items
<1>6. Taken(st) \in States
  BY <1>3, <1>4, <1>5 DEF States
<1> QED
  BY <1>1, <1>3, <1>6 DEF b

\* The blocks st.used are those of the inodes, when st has the addresses of ip.
Good(st, nodes, ip, K) ==
  /\ st \in States /\ nodes \in [Inode -> Nodes] /\ ip \in Inode
  /\ nodes[ip].addrs = st.addrs
  /\ K \subseteq All /\ \A j \in Inode : <<j, NDIRECT>> \in K
  /\ Exact(st.used, Map(st.cell, nodes), K)
With(nodes, ip, st) == [nodes EXCEPT ![ip].addrs = st.addrs]

LEMMA WithFields ==
  ASSUME NEW nodes \in [Inode -> Nodes], NEW ip \in Inode, NEW st \in States
  PROVE  /\ With(nodes, ip, st) \in [Inode -> Nodes]
         /\ With(nodes, ip, st)[ip].addrs = st.addrs
         /\ With(nodes, ip, st)[ip].size = nodes[ip].size
         /\ \A j \in Inode : j # ip => With(nodes, ip, st)[j] = nodes[j]
<1>1. [nodes[ip] EXCEPT !.addrs = st.addrs] \in Nodes
  BY DEF Nodes, States
<1>2. /\ [nodes[ip] EXCEPT !.addrs = st.addrs].addrs = st.addrs
      /\ [nodes[ip] EXCEPT !.addrs = st.addrs].size = nodes[ip].size
  BY DEF Nodes
<1>3. With(nodes, ip, st)[ip] = [nodes[ip] EXCEPT !.addrs = st.addrs]
  BY DEF With
<1> QED
  BY <1>1, <1>2, <1>3 DEF With

LEMMA TablesUsed ==
  ASSUME NEW st, NEW nodes, NEW ip, NEW K, Good(st, nodes, ip, K)
  PROVE  /\ \A a \in Tables(nodes) : a # 0 => a \in st.used
         /\ 0 \notin st.used
         /\ \A j, k \in Inode : nodes[j].addrs[NDIRECT] = nodes[k].addrs[NDIRECT]
                                 /\ nodes[j].addrs[NDIRECT] # 0 => j = k
<1> DEFINE at == Map(st.cell, nodes)
<1>1. \A j \in Inode : <<j, NDIRECT>> \in K /\ at[<<j, NDIRECT>>] = nodes[j].addrs[NDIRECT]
  BY PlaceTypes DEF Good
<1>2. Exact(st.used, at, K)
  BY DEF Good
<1> HIDE DEF at
<1>3. \A j \in Inode : nodes[j].addrs[NDIRECT] # 0 => nodes[j].addrs[NDIRECT] \in st.used
  BY <1>1, <1>2, Zenon DEF Exact
<1>4. \A j, k \in Inode : nodes[j].addrs[NDIRECT] = nodes[k].addrs[NDIRECT]
                           /\ nodes[j].addrs[NDIRECT] # 0 => j = k
  <2> SUFFICES ASSUME NEW j \in Inode, NEW k \in Inode,
                      nodes[j].addrs[NDIRECT] = nodes[k].addrs[NDIRECT],
                      nodes[j].addrs[NDIRECT] # 0
               PROVE  j = k
    OBVIOUS
  <2>1. /\ <<j, NDIRECT>> \in K /\ <<k, NDIRECT>> \in K
        /\ at[<<j, NDIRECT>>] = at[<<k, NDIRECT>>] /\ at[<<j, NDIRECT>>] # 0
    BY <1>1
  <2>2. \A x, y \in K : at[x] = at[y] /\ at[x] # 0 => x = y
    BY <1>2 DEF Exact
  <2>3. <<j, NDIRECT>> = <<k, NDIRECT>>
    BY <2>1, <2>2
  <2> QED
    BY <2>3
<1>5. 0 \notin st.used
  BY Layout DEF Good, States
<1> QED
  BY <1>3, <1>4, <1>5 DEF Tables

\* An address of the inode is filled in: a direct one, or that of the table.
Addressed(st, k, b) == [Taken(st) EXCEPT !.addrs[k] = b]

LEMMA AddressEffect ==
  ASSUME NEW st, NEW nodes, NEW ip, NEW K, Good(st, nodes, ip, K),
         NEW k \in 0..NDIRECT, st.addrs[k] = 0, <<ip, k>> \in K, Free(st) # {},
         NEW b, b = Min(Free(st)), NEW st2, st2 = Addressed(st, k, b)
  PROVE  /\ Good(st2, With(nodes, ip, st2), ip, K)
         /\ b \in Blocks
         /\ st2.used = st.used \cup {b}
         /\ st2.log = st.log \cup {Data(b), Bitmap(b)}
         /\ st2.addrs = [st.addrs EXCEPT ![k] = b]
         /\ Map(st2.cell, With(nodes, ip, st2)) = PutAt(Map(st.cell, nodes), <<ip, k>>, b)
<1> DEFINE new == With(nodes, ip, st2)
<1>1. st \in States /\ nodes \in [Inode -> Nodes] /\ ip \in Inode /\ nodes[ip].addrs = st.addrs
  BY DEF Good
<1>2. /\ b \in Blocks /\ b \notin st.used /\ Taken(st) \in States
      /\ Taken(st).used = st.used \cup {b} /\ Taken(st).cell = [st.cell EXCEPT ![b] = Zeros]
      /\ Taken(st).addrs = st.addrs /\ Taken(st).log = st.log \cup {Data(b), Bitmap(b)}
  BY <1>1, TakenFields
<1>3. /\ st2.used = st.used \cup {b} /\ st2.cell = [st.cell EXCEPT ![b] = Zeros]
      /\ st2.addrs = [st.addrs EXCEPT ![k] = b]
      /\ st2.log = st.log \cup {Data(b), Bitmap(b)}
  BY <1>1, <1>2 DEF States, Addressed
<1>4. st2 \in States
  <2>1. [st.addrs EXCEPT ![k] = b] \in [0..NDIRECT -> Blocks \cup {0}]
    BY <1>1, <1>2 DEF States
  <2> QED
    BY <1>2, <2>1, Zenon DEF States, Addressed
<1>5. /\ new \in [Inode -> Nodes] /\ new[ip].addrs = st2.addrs
      /\ \A j \in Inode : j # ip => new[j] = nodes[j]
  BY ONLY <1>1, <1>4, WithFields
<1> HIDE DEF new
<1>6. Map(st2.cell, new) = PutAt(Map(st.cell, nodes), <<ip, k>>, b)
  <2>1. \A a \in Tables(nodes) : a # 0 => st2.cell[a] = st.cell[a]
    <3>1. \A a \in Tables(nodes) : a # 0 => a \in st.used /\ a # b
      BY <1>2, TablesUsed
    <3> QED
      BY <1>1, <1>3, <3>1 DEF States
  <2>2. st2.cell[b] = Zeros
    BY <1>1, <1>2, <1>3 DEF States
  <2> QED
    <3>1. nodes[ip].addrs[k] = 0 /\ new[ip].addrs = [nodes[ip].addrs EXCEPT ![k] = b]
      BY <1>1, <1>3, <1>5
    <3> QED
      BY ONLY <1>1, <1>2, <1>5, <2>1, <2>2, <3>1, NewAddress, k \in 0..NDIRECT
<1>7. Map(st.cell, nodes)[<<ip, k>>] = 0
  <2>1. <<ip, k>> \in All /\ Map(st.cell, nodes)[<<ip, k>>] = Place(nodes[ip], st.cell, k)
    BY DEF Good, Map
  <2>2. k <= NDIRECT
    BY Layout
  <2> QED
    BY <1>1, <2>1, <2>2 DEF Place
<1>8. Exact(st2.used, Map(st2.cell, new), K)
  <2>1. 0 \notin st.used /\ Exact(st.used, Map(st.cell, nodes), K) /\ b # 0
        /\ K \subseteq DOMAIN Map(st.cell, nodes)
    BY <1>2, TablesUsed, Layout, Zenon DEF Good, Map
  <2> QED
    BY <1>2, <1>3, <1>6, <1>7, <2>1, ExactAdd
<1>9. Good(st2, new, ip, K)
  BY <1>1, <1>4, <1>5, <1>8 DEF Good
<1> QED
  BY <1>2, <1>3, <1>6, <1>9 DEF new

LEMMA WithSame ==
  ASSUME NEW nodes \in [Inode -> Nodes], NEW ip \in Inode, NEW st, st.addrs = nodes[ip].addrs
  PROVE  With(nodes, ip, st) = nodes
<1>1. [nodes[ip] EXCEPT !.addrs = st.addrs] = nodes[ip]
  BY DEF Nodes
<1> QED
  BY <1>1 DEF With

\* An entry of the table is filled in.
LEMMA EntryEffect ==
  ASSUME NEW st, NEW nodes, NEW ip, NEW K, Good(st, nodes, ip, K),
         NEW bn \in NDIRECT..(MAXFILE - 1), st.addrs[NDIRECT] # 0,
         <<ip, Spot(bn)>> \in K, Map(st.cell, nodes)[<<ip, Spot(bn)>>] = 0, Free(st) # {},
         NEW b, b = Min(Free(st)), NEW st2, st2 = Entry(st, bn)
  PROVE  /\ Good(st2, nodes, ip, K)
         /\ b \in Blocks /\ st2.addrs = st.addrs
         /\ st2.log = st.log \cup {Data(b), Bitmap(b), Data(st.addrs[NDIRECT])}
         /\ Map(st2.cell, nodes) = PutAt(Map(st.cell, nodes), <<ip, Spot(bn)>>, b)
<1> DEFINE a == st.addrs[NDIRECT]
<1>1. st \in States /\ nodes \in [Inode -> Nodes] /\ ip \in Inode /\ nodes[ip].addrs = st.addrs
  BY DEF Good
<1>2. /\ b \in Blocks /\ b \notin st.used /\ Taken(st) \in States
      /\ Taken(st).used = st.used \cup {b} /\ Taken(st).cell = [st.cell EXCEPT ![b] = Zeros]
      /\ Taken(st).addrs = st.addrs /\ Taken(st).log = st.log \cup {Data(b), Bitmap(b)}
  BY <1>1, TakenFields, Zenon
<1>3. a \in st.used /\ a \in Blocks /\ a # b /\ a = nodes[ip].addrs[NDIRECT]
  <2>1. nodes[ip].addrs[NDIRECT] \in Tables(nodes)
    BY <1>1 DEF Tables
  <2> QED
    BY <1>1, <1>2, <2>1, TablesUsed DEF States
<1>4. st2 = [Taken(st) EXCEPT !.cell[a][bn - NDIRECT] = b, !.log = @ \cup {Data(a)}]
  BY DEF Entry
<1> HIDE DEF a
<1>5. bn - NDIRECT \in 0..(BSIZE - 1)
  BY Layout
<1>6. /\ st2.used = st.used \cup {b}
      /\ st2.cell = [Taken(st).cell EXCEPT ![a] = [@ EXCEPT ![bn - NDIRECT] = b]]
      /\ st2.addrs = st.addrs
      /\ st2.log = st.log \cup {Data(b), Bitmap(b), Data(a)}
  BY <1>1, <1>2, <1>4 DEF States
<1>7. /\ st2.cell[a] = [st.cell[a] EXCEPT ![bn - NDIRECT] = b]
      /\ \A c \in Blocks : c # a /\ c # b => st2.cell[c] = st.cell[c]
      /\ st2.cell \in [Blocks -> Cells]
  <2>1. Taken(st).cell[a] = st.cell[a] /\ st.cell[a] \in Cells /\ Taken(st).cell \in [Blocks -> Cells]
    BY <1>1, <1>2, <1>3 DEF States
  <2>2. [st.cell[a] EXCEPT ![bn - NDIRECT] = b] \in Cells
    BY <1>2, <1>5, <2>1 DEF Cells
  <2>3. \A c \in Blocks : c # b => Taken(st).cell[c] = st.cell[c]
    BY <1>1, <1>2 DEF States
  <2> QED
    BY <1>3, <1>6, <2>1, <2>2, <2>3, SMTT(30)
<1>8. st2 \in States
  <2>1. st2.log \in SUBSET Items /\ st2.used \in SUBSET Blocks
    BY <1>1, <1>2, <1>3, <1>6 DEF States, Items
  <2>2. st2 = [used |-> st2.used, cell |-> st2.cell, addrs |-> st2.addrs, log |-> st2.log]
    BY <1>2, <1>4, Zenon DEF States
  <2> QED
    BY <1>1, <1>6, <1>7, <2>1, <2>2 DEF States
<1>9. Map(st2.cell, nodes) = PutAt(Map(st.cell, nodes), <<ip, Spot(bn)>>, b)
  <2>1. \A c \in Tables(nodes) : c # 0 /\ c # a => st2.cell[c] = st.cell[c]
    <3>1. \A c \in Tables(nodes) : c # 0 => c \in st.used /\ c # b /\ c \in Blocks
      BY <1>1, <1>2, TablesUsed DEF States
    <3> QED
      BY <1>7, <3>1
  <2>2. \A j \in Inode : j # ip => nodes[j].addrs[NDIRECT] # a
    BY <1>1, <1>3, TablesUsed, Layout
  <2>3. a # 0 /\ st.cell[a] \in Cells
    BY <1>1, <1>3, Layout, Zenon DEF States
  <2> QED
    BY <1>1, <1>3, <1>7, <2>1, <2>2, <2>3, NewEntry
<1>10. Exact(st2.used, Map(st2.cell, nodes), K)
  <2>1. 0 \notin st.used /\ Exact(st.used, Map(st.cell, nodes), K) /\ b # 0
        /\ K \subseteq DOMAIN Map(st.cell, nodes)
    BY <1>2, TablesUsed, Layout, Zenon DEF Good, Map
  <2> QED
    BY <1>2, <1>6, <1>9, <2>1, ExactAdd
<1>11. Good(st2, nodes, ip, K)
  BY <1>1, <1>6, <1>8, <1>10 DEF Good
<1> QED
  BY <1>2, <1>6, <1>9, <1>11 DEF a

LEMMA PutAtFields ==
  ASSUME NEW cell, NEW nodes, NEW x \in All, NEW b
  PROVE  LET at == Map(cell, nodes)
         IN  PutAt(at, x, b)[x] = b /\ \A y \in All : y # x => PutAt(at, x, b)[y] = at[y]
BY DEF PutAt, Map

\* What bmap does to the places of an inode: the block is there afterwards; what
\* was there stays.
BmapResult(st, nodes, ip, K, bn) ==
  LET st2    == Bmap(st, bn)
      nodes2 == With(nodes, ip, st2)
      at     == Map(st.cell, nodes)
      at2    == Map(st2.cell, nodes2)
      x      == <<ip, Spot(bn)>>
      t      == <<ip, NDIRECT>>
  IN  /\ Good(st2, nodes2, ip, K)
      /\ at2[x] # 0
      /\ \A y \in All : at[y] # 0 \/ (y # x /\ y # t) => at2[y] = at[y]
      /\ at[x] # 0 => st2 = st
      /\ st2.log \subseteq st.log \cup TableLog(at2[t]) \cup {Data(at2[x])}
                            \cup (IF at[x] = 0 THEN {Bitmap(at2[x])} ELSE {})

LEMMA BmapEffect ==
  ASSUME NEW st, NEW nodes, NEW ip, NEW K, Good(st, nodes, ip, K),
         NEW bn \in 0..(MAXFILE - 1), <<ip, Spot(bn)>> \in K,
         Needed(st, bn) <= Cardinality(Free(st))
  PROVE  BmapResult(st, nodes, ip, K, bn)
<1> USE DEF BmapResult
<1> DEFINE st2    == Bmap(st, bn)
           nodes2 == With(nodes, ip, st2)
           at     == Map(st.cell, nodes)
           at2    == Map(st2.cell, nodes2)
           x      == <<ip, Spot(bn)>>
           t      == <<ip, NDIRECT>>
           b      == Min(Free(st))
<1>1. st \in States /\ nodes \in [Inode -> Nodes] /\ ip \in Inode /\ nodes[ip].addrs = st.addrs
  BY DEF Good
<1>2. x \in All /\ t \in All /\ x # t /\ at[x] = Addr(st.addrs, st.cell, bn)
      /\ at[t] = st.addrs[NDIRECT]
  <2>1. /\ <<ip, NDIRECT>> \in All /\ Map(st.cell, nodes)[<<ip, NDIRECT>>] = nodes[ip].addrs[NDIRECT]
        /\ <<ip, Spot(bn)>> \in All /\ Spot(bn) # NDIRECT
        /\ Map(st.cell, nodes)[<<ip, Spot(bn)>>] = Addr(nodes[ip].addrs, st.cell, bn)
    BY <1>1, PlaceTypes
  <2> QED
    BY <1>1, <2>1
<1>3. bn \in Nat /\ NDIRECT \in Nat /\ IsFiniteSet(Free(st)) /\ Cardinality(Free(st)) \in Nat
  <2>1. IsFiniteSet(Free(st))
    BY Layout, FS_Subset DEF Free
  <2> QED
    BY <2>1, Layout, FS_CardinalityType
<1>4. CASE at[x] # 0
  <2>1. st2 = st /\ nodes2 = nodes
    BY <1>1, <1>2, <1>4, WithSame DEF Bmap
  <2> QED
    BY <1>4, <2>1
<1>5. CASE at[x] = 0 /\ bn < NDIRECT
  <2>1. Free(st) # {}
    BY <1>2, <1>3, <1>5, FS_EmptySet DEF Needed
  <2>2. Spot(bn) = bn /\ bn \in 0..NDIRECT /\ st.addrs[bn] = 0
    BY <1>2, <1>3, <1>5 DEF Spot, Addr
  <2>3. st2 = Addressed(st, bn, b)
    BY <1>2, <1>5 DEF Bmap, Direct, Addressed
  <2> HIDE DEF st2
  <2>4. /\ Good(st2, nodes2, ip, K) /\ b \in Blocks
        /\ st2.log = st.log \cup {Data(b), Bitmap(b)}
        /\ at2 = PutAt(at, x, b)
    <3> DEFINE k == Spot(bn)
    <3>1. <<ip, k>> \in K /\ k \in 0..NDIRECT /\ st.addrs[k] = 0 /\ st2 = Addressed(st, k, b)
      BY <2>2, <2>3
    <3> HIDE DEF k
    <3>2. /\ Good(st2, With(nodes, ip, st2), ip, K) /\ b \in Blocks
          /\ st2.used = st.used \cup {b}
          /\ st2.log = st.log \cup {Data(b), Bitmap(b)}
          /\ st2.addrs = [st.addrs EXCEPT ![k] = b]
          /\ Map(st2.cell, With(nodes, ip, st2)) = PutAt(Map(st.cell, nodes), <<ip, k>>, b)
      BY ONLY Good(st, nodes, ip, K), <2>1, <3>1, AddressEffect
    <3> QED
      BY <3>2 DEF k
  <2>5. at2[x] = b /\ \A y \in All : y # x => at2[y] = at[y]
    BY <1>2, <2>4, PutAtFields
  <2> HIDE DEF at, at2, nodes2, x, t, b
  <2>6. b # 0
    BY <2>4, Layout
  <2> QED
    BY <1>5, <2>4, <2>5, <2>6 DEF at, at2, nodes2, x, t, st2, TableLog
<1>6. CASE at[x] = 0 /\ ~(bn < NDIRECT) /\ at[t] # 0
  <2>1. Free(st) # {}
    BY <1>2, <1>3, <1>6, FS_EmptySet DEF Needed
  <2>2. bn \in NDIRECT..(MAXFILE - 1)
    BY <1>3, <1>6
  <2>3. st2 = Entry(st, bn)
    BY <1>2, <1>6 DEF Bmap, Table
  <2> HIDE DEF st2
  <2>4. /\ Good(st2, nodes, ip, K) /\ b \in Blocks /\ st2.addrs = st.addrs
        /\ st2.log = st.log \cup {Data(b), Bitmap(b), Data(st.addrs[NDIRECT])}
        /\ Map(st2.cell, nodes) = PutAt(at, x, b)
    BY <1>2, <1>6, <2>1, <2>2, <2>3, EntryEffect
  <2>5. nodes2 = nodes
    BY <1>1, <2>4, WithSame
  <2>6. at2[x] = b /\ \A y \in All : y # x => at2[y] = at[y]
    BY <1>2, <2>4, <2>5, PutAtFields
  <2>7. at2[t] = st.addrs[NDIRECT]
    BY <1>2, <2>6
  <2> HIDE DEF at, at2, nodes2, x, t, b
  <2>8. b # 0
    BY <2>4, Layout
  <2>9. Good(st2, nodes2, ip, K)
    BY <2>4, <2>5
  <2> QED
    BY <1>6, <1>2, <2>4, <2>6, <2>7, <2>8, <2>9 DEF at, at2, nodes2, x, t, st2, TableLog
<1>7. CASE at[x] = 0 /\ ~(bn < NDIRECT) /\ at[t] = 0
  <2> DEFINE st1 == Table(st)
             nodes1 == With(nodes, ip, st1)
             at1 == Map(st1.cell, nodes1)
             c == Min(Free(st1))
  <2>1. bn \in NDIRECT..(MAXFILE - 1)
    BY <1>3, <1>7
  <2>2. Cardinality(Free(st)) >= 2
    BY <1>2, <1>3, <1>7 DEF Needed
  <2>3. Free(st) # {}
    BY <1>3, <2>2, FS_EmptySet
  <2>4. st1 = Addressed(st, NDIRECT, b)
    BY <1>2, <1>7 DEF Table, Addressed
  <2>5. st2 = Entry(st1, bn)
    BY <1>2, <1>7 DEF Bmap
  <2> HIDE DEF st1, st2
  <2>6. /\ Good(st1, nodes1, ip, K) /\ b \in Blocks /\ st1.used = st.used \cup {b}
        /\ st1.log = st.log \cup {Data(b), Bitmap(b)}
        /\ st1.addrs = [st.addrs EXCEPT ![NDIRECT] = b]
        /\ at1 = PutAt(at, t, b)
    <3>1. NDIRECT \in 0..NDIRECT /\ st.addrs[NDIRECT] = 0 /\ t \in K
      BY <1>2, <1>3, <1>7 DEF Good
    <3>2. /\ Good(st1, With(nodes, ip, st1), ip, K) /\ b \in Blocks
          /\ st1.used = st.used \cup {b}
          /\ st1.log = st.log \cup {Data(b), Bitmap(b)}
          /\ st1.addrs = [st.addrs EXCEPT ![NDIRECT] = b]
          /\ Map(st1.cell, With(nodes, ip, st1)) = PutAt(Map(st.cell, nodes), <<ip, NDIRECT>>, b)
      BY ONLY Good(st, nodes, ip, K), <2>3, <2>4, <3>1, AddressEffect
    <3> QED
      BY <3>2
  <2>7. at1[t] = b /\ \A y \in All : y # t => at1[y] = at[y]
    BY <1>2, <2>6, PutAtFields
  <2>8. Free(st1) # {}
    <3>1. Free(st1) = Free(st) \ {b}
      BY <2>6 DEF Free
    <3>2. Cardinality(Free(st) \ {b}) >= 1
      <4>1. Cardinality(Free(st) \ {b}) =
              IF b \in Free(st) THEN Cardinality(Free(st)) - 1 ELSE Cardinality(Free(st))
        BY <1>3, FS_RemoveElement, Zenon
      <4> QED
        BY <1>3, <2>2, <4>1
    <3> QED
      BY <3>1, <3>2, FS_EmptySet
  <2>9. st1.addrs[NDIRECT] = b /\ b # 0
    BY <1>1, <1>3, <2>6, Layout DEF States
  <2>10. at1[x] = 0
    BY <1>2, <1>7, <2>7
  <2> HIDE DEF nodes1
  <2>11. /\ Good(st2, nodes1, ip, K) /\ c \in Blocks /\ st2.addrs = st1.addrs
         /\ st2.log = st1.log \cup {Data(c), Bitmap(c), Data(b)}
         /\ Map(st2.cell, nodes1) = PutAt(at1, x, c)
    <3>1. /\ Map(st1.cell, nodes1)[<<ip, Spot(bn)>>] = 0 /\ st1.addrs[NDIRECT] # 0
          /\ <<ip, Spot(bn)>> \in K /\ Good(st1, nodes1, ip, K)
      BY <2>6, <2>9, <2>10
    <3>2. /\ Good(st2, nodes1, ip, K) /\ c \in Blocks /\ st2.addrs = st1.addrs
          /\ st2.log = st1.log \cup {Data(c), Bitmap(c), Data(st1.addrs[NDIRECT])}
          /\ Map(st2.cell, nodes1) = PutAt(Map(st1.cell, nodes1), <<ip, Spot(bn)>>, c)
      BY ONLY <2>1, <2>5, <2>8, <3>1, EntryEffect
    <3> QED
      BY <2>9, <3>2
  <2>12. nodes2 = nodes1
    BY <2>11 DEF With, nodes1
  <2>13. at2[x] = c /\ \A y \in All : y # x => at2[y] = at1[y]
    BY <1>2, <2>11, <2>12, PutAtFields
  <2>14. at2[t] = b /\ \A y \in All : y # x /\ y # t => at2[y] = at[y]
    BY <1>2, <2>7, <2>13
  <2>15. Good(st2, nodes2, ip, K)
    BY <2>11, <2>12
  <2> HIDE DEF at, at1, at2, nodes2, x, t, b, c
  <2>16. c # 0
    BY <2>11, Layout
  <2>17. st2.log = st.log \cup {Data(b), Bitmap(b), Data(c), Bitmap(c)}
    BY <2>6, <2>11
  <2> QED
    BY <1>7, <2>9, <2>13, <2>14, <2>15, <2>16, <2>17 DEF at, at2, nodes2, x, t, st2, TableLog
<1> QED
  BY <1>4, <1>5, <1>6, <1>7

\* bmap writes in the blocks it takes and in the block of addresses, no others.
LEMMA BmapCells ==
  ASSUME NEW st \in States, NEW bn \in 0..(MAXFILE - 1), Needed(st, bn) <= Cardinality(Free(st))
  PROVE  \A d \in st.used : d # st.addrs[NDIRECT] => Bmap(st, bn).cell[d] = st.cell[d]
<1>1. bn \in Nat /\ NDIRECT \in Nat /\ IsFiniteSet(Free(st)) /\ Cardinality(Free(st)) \in Nat
  <2>1. IsFiniteSet(Free(st))
    BY Layout, FS_Subset DEF Free
  <2> QED
    BY <2>1, Layout, FS_CardinalityType
<1> SUFFICES ASSUME NEW d \in st.used, d # st.addrs[NDIRECT]
             PROVE  Bmap(st, bn).cell[d] = st.cell[d]
  OBVIOUS
<1>2. ASSUME NEW s \in States, Free(s) # {}, d \in s.used
      PROVE  Taken(s).cell[d] = s.cell[d] /\ d \in Taken(s).used /\ Taken(s) \in States
  <2> DEFINE m == Min(Free(s))
  <2>1. /\ m \notin s.used /\ Taken(s).cell = [s.cell EXCEPT ![m] = Zeros]
        /\ Taken(s).used = s.used \cup {m} /\ Taken(s) \in States
    BY <1>2, TakenFields, Zenon
  <2> HIDE DEF m
  <2>2. s.cell \in [Blocks -> Cells] /\ s.used \subseteq Blocks
    BY DEF States
  <2>3. d # m /\ d \in Blocks
    BY <1>2, <2>1, <2>2
  <2>4. [s.cell EXCEPT ![m] = Zeros][d] = s.cell[d]
    BY <2>2, <2>3
  <2> QED
    BY <1>2, <2>1, <2>4
<1>3. ASSUME NEW s \in States, Free(s) # {}, d \in s.used, d # s.addrs[NDIRECT]
      PROVE  Entry(s, bn).cell[d] = s.cell[d]
  <2> DEFINE a == s.addrs[NDIRECT]
             m == Min(Free(s))
             u == Taken(s)
  <2>1. Entry(s, bn) = [u EXCEPT !.cell[a][bn - NDIRECT] = m, !.log = @ \cup {Data(a)}]
    BY DEF Entry
  <2>2. u \in States /\ u.cell[d] = s.cell[d] /\ d \in u.used
    BY <1>2, <1>3
  <2>3. d # a
    BY <1>3
  <2> HIDE DEF a, m, u
  <2>4. Entry(s, bn).cell = [u.cell EXCEPT ![a] = [@ EXCEPT ![bn - NDIRECT] = m]]
    BY <2>1, <2>2 DEF States
  <2>5. u.cell \in [Blocks -> Cells] /\ d \in Blocks
    BY <2>2 DEF States
  <2> QED
    BY <2>2, <2>3, <2>4, <2>5
<1>4. CASE Addr(st.addrs, st.cell, bn) # 0
  BY <1>4 DEF Bmap
<1>5. CASE Addr(st.addrs, st.cell, bn) = 0 /\ bn < NDIRECT
  <2>1. Free(st) # {}
    BY <1>1, <1>5, FS_EmptySet DEF Needed
  <2>2. Taken(st).cell[d] = st.cell[d] /\ Taken(st) \in States
    BY <1>2, <2>1
  <2>3. Bmap(st, bn) = [Taken(st) EXCEPT !.addrs[bn] = Min(Free(st))]
    BY <1>5 DEF Bmap, Direct
  <2>4. Bmap(st, bn).cell = Taken(st).cell
    BY <2>2, <2>3 DEF States
  <2> QED
    BY <2>2, <2>4
<1>6. CASE Addr(st.addrs, st.cell, bn) = 0 /\ ~(bn < NDIRECT) /\ st.addrs[NDIRECT] # 0
  <2>1. Free(st) # {}
    BY <1>1, <1>6, FS_EmptySet DEF Needed
  <2>2. Bmap(st, bn) = Entry(st, bn)
    BY <1>6 DEF Bmap, Table
  <2> QED
    BY <1>3, <2>1, <2>2
<1>7. CASE Addr(st.addrs, st.cell, bn) = 0 /\ ~(bn < NDIRECT) /\ st.addrs[NDIRECT] = 0
  <2> DEFINE m == Min(Free(st))
             s1 == Table(st)
  <2>1. Cardinality(Free(st)) >= 2
    BY <1>1, <1>7 DEF Needed
  <2>2. Free(st) # {}
    BY <1>1, <2>1, FS_EmptySet
  <2>3. /\ m \in Blocks /\ m \notin st.used /\ Taken(st) \in States
        /\ Taken(st).used = st.used \cup {m}
        /\ Taken(st).addrs = st.addrs
    BY <2>2, TakenFields, Zenon
  <2>4. Taken(st).cell[d] = st.cell[d] /\ d \in Taken(st).used
    BY <1>2, <2>2
  <2>5. s1 = [Taken(st) EXCEPT !.addrs[NDIRECT] = m] /\ Bmap(st, bn) = Entry(s1, bn)
    BY <1>7 DEF Bmap, Table
  <2>6. d # m
    BY <2>3
  <2> HIDE DEF m, s1
  <2>7. /\ s1.cell = Taken(st).cell /\ s1.used = Taken(st).used
        /\ s1.addrs = [Taken(st).addrs EXCEPT ![NDIRECT] = m]
    BY <2>3, <2>5 DEF States
  <2>8. s1 \in States /\ s1.addrs[NDIRECT] = m
    <3>1. Taken(st).addrs \in [0..NDIRECT -> Blocks \cup {0}] /\ NDIRECT \in 0..NDIRECT
      BY <1>1, <2>3 DEF States
    <3>2. s1.addrs \in [0..NDIRECT -> Blocks \cup {0}] /\ s1.addrs[NDIRECT] = m
      BY <2>3, <2>7, <3>1
    <3>3. [Taken(st).addrs EXCEPT ![NDIRECT] = m] \in [0..NDIRECT -> Blocks \cup {0}]
      BY <2>7, <3>2
    <3>4. s1 \in States
      BY <2>3, <2>5, <3>3, Zenon DEF States
    <3> QED
      BY <3>2, <3>4
  <2>9. Free(s1) # {}
    <3>1. Free(s1) = Free(st) \ {m}
      BY <2>3, <2>7 DEF Free
    <3>2. Cardinality(Free(st) \ {m}) >= 1
      <4>1. Cardinality(Free(st) \ {m}) =
              IF m \in Free(st) THEN Cardinality(Free(st)) - 1 ELSE Cardinality(Free(st))
        BY <1>1, FS_RemoveElement, Zenon
      <4> QED
        BY <1>1, <2>1, <4>1
    <3> QED
      BY <3>1, <3>2, FS_EmptySet
  <2>10. Entry(s1, bn).cell[d] = s1.cell[d]
    BY <1>3, <2>4, <2>6, <2>7, <2>8, <2>9, Zenon
  <2> QED
    BY <2>4, <2>5, <2>7, <2>10
<1> QED
  BY <1>4, <1>5, <1>6, <1>7

(***************************************************************************)
(* Types, and what one process does to the others.                         *)
(***************************************************************************)

LEMMA TypedTypeOK == Typed => TypeOK
BY DEF Typed, TypeOK, Stores, Nodes, Cells

\* A call, its numbers and its inode.
LEMMA CallTypes ==
  ASSUME Typed, NEW p \in Process
  PROVE  /\ call[p] \in CallRecords /\ logged[p] \in SUBSET Items
         /\ call[p].n \in Nat /\ call[p].i \in Nat /\ call[p].tot \in Nat
         /\ call[p].file \in File \cup {None} /\ call[p].ip \in Inode \cup {None}
BY DEF Typed, CallRecords

LEMMA NodeTypes ==
  ASSUME Typed, NEW ip \in Inode
  PROVE  /\ inode[ip] \in Nodes /\ inode[ip].size \in Nat /\ inode[ip].size <= MAXFILE * BSIZE
         /\ inode[ip].addrs \in [0..NDIRECT -> Blocks \cup {0}]
<1>1. inode[ip] \in Nodes
  BY DEF Typed
<1>2. MAXFILE * BSIZE \in Nat
  BY Layout
<1> QED
  BY <1>1, <1>2 DEF Nodes

\* The chunk of a write: its size, and where it is in the file.
LEMMA ChunkTypes ==
  ASSUME Typed, NEW p \in Process, CallOf(p), Writing(p)
  PROVE  /\ call[p].file \in File /\ call[p].ip \in Inode /\ call[p].ip = InodeOf[call[p].file]
         /\ off[call[p].file] \in Nat
         /\ Chunk \in Nat /\ Chunk > 0
         /\ N1(p) \in Nat /\ N1(p) > 0 /\ N1(p) <= Chunk /\ N1(p) <= call[p].n - call[p].i
         /\ call[p].tot \in Nat /\ call[p].tot <= N1(p)
         /\ Position(p) \in Nat /\ Position(p) = off[call[p].file] + call[p].tot
<1>1. call[p].file \in File /\ call[p].ip \in Inode /\ call[p].ip = InodeOf[call[p].file]
  BY CallTypes, Layout DEF CallOf, Writing
<1>2. off[call[p].file] \in Nat
  <2>1. off[call[p].file] \in 0..(MAXFILE * BSIZE) \cup {Closed} /\ off[call[p].file] # Closed
    BY <1>1 DEF Typed, CallOf
  <2> QED
    BY <2>1, Layout
<1>3. Chunk \in Nat /\ Chunk > 0
  <2>1. (MAXOPBLOCKS - 1 - 1 - 2) \div 2 \in Nat /\ (MAXOPBLOCKS - 1 - 1 - 2) \div 2 >= 1
    BY Layout
  <2> DEFINE c == (MAXOPBLOCKS - 1 - 1 - 2) \div 2
  <2>2. \A k \in Nat : k >= 1 => k * BSIZE \in Nat /\ k * BSIZE > 0
    BY Layout
  <2> QED
    BY <2>1, <2>2 DEF Chunk
<1>4. call[p].n \in Nat /\ call[p].i \in Nat /\ call[p].i < call[p].n /\ call[p].tot \in Nat
      /\ call[p].tot <= N1(p)
  BY CallTypes DEF CallOf
<1>5. N1(p) = IF call[p].n - call[p].i < Chunk THEN call[p].n - call[p].i ELSE Chunk
  BY DEF N1, Lesser
<1> QED
  BY <1>1, <1>2, <1>3, <1>4, <1>5 DEF Position

\* Inside writei and itrunc a process has the lock of its inode.
LEMMA Mutex ==
  ASSUME Locks, NEW p \in Process, NEW q \in Process, pc[p] \in Inside, pc[q] \in Inside,
         call[p].ip = call[q].ip
  PROVE  p = q
BY DEF Locks

InsideType(p) == call[p].ip \in Inode /\ lock[call[p].ip] = p
LEMMA InsideTypes ==
  ASSUME Typed, Locks, NEW p \in Process, CallOf(p), pc[p] \in Inside
  PROVE  InsideType(p)
<1>1. call[p].ip \in Inode
  BY ChunkTypes DEF CallOf, Writing, Removing, Inside
<1> QED
  BY <1>1 DEF Locks, InsideType

\* What a process relies on, and another one may change or not.
Undisturbed(q) ==
  /\ pc'[q] = pc[q] /\ call'[q] = call[q] /\ logged'[q] = logged[q]
  /\ Writing(q) => off'[call[q].file] # Closed
  /\ pc[q] = "write" => off'[call[q].file] = off[call[q].file]
  /\ Removing(q) => \A f \in File : InodeOf[f] = call[q].ip => off'[f] = Closed
  /\ pc[q] \in Inside =>
       /\ inode'[call[q].ip].size = inode[call[q].ip].size
       /\ (mem.dinode[call[q].ip] = inode[call[q].ip])
            => mem'.dinode[call[q].ip] = inode'[call[q].ip]
       /\ \A k \in Places : Now'[<<call[q].ip, k>>] = Now[<<call[q].ip, k>>]

LEMMA SpotPlaces ==
  NDIRECT \in Places /\ \A bn \in 0..(MAXFILE - 1) : Spot(bn) \in Places
BY Layout DEF Spot, Places

LEMMA OthersLive ==
  ASSUME Typed, Locks, NEW q \in Process, Live(q), Undisturbed(q)
  PROVE  Live(q)'
<1>1. pc'[q] = pc[q] /\ call'[q] = call[q] /\ logged'[q] = logged[q]
  BY DEF Undisturbed
<1>2. N1(q)' = N1(q)
  BY <1>1 DEF N1
<1>3. Writing(q)' = Writing(q) /\ Removing(q)' = Removing(q)
  BY <1>1 DEF Writing, Removing
<1>4. ASSUME pc[q] = "write"
      PROVE  /\ Position(q)' = Position(q) /\ BadRange(q)' = BadRange(q) /\ End(q)' = End(q)
             /\ Touched(q)' = Touched(q) /\ Fresh(q)' = Fresh(q)
  <2>1. off'[call[q].file] = off[call[q].file]
        /\ inode'[call[q].ip].size = inode[call[q].ip].size
    BY <1>4 DEF Undisturbed, Inside
  <2>2. Position(q)' = Position(q)
    BY <1>1, <2>1 DEF Position
  <2> QED
    BY <1>1, <1>2, <2>1, <2>2 DEF BadRange, End, Touched, Fresh
<1>5. CallOf(q)'
  <2>1. pc[q] = "write" /\ call[q].tot > 0 => ~BadRange(q)'
    BY <1>4 DEF Live, CallOf
  <2> QED
    BY <1>1, <1>2, <1>3, <2>1 DEF Live, CallOf, Undisturbed
<1>6. ASSUME pc[q] \in Inside
      PROVE  /\ \A bn \in 0..(MAXFILE - 1) :
                  Now'[<<call[q].ip, Spot(bn)>>] = Now[<<call[q].ip, Spot(bn)>>]
             /\ Now'[<<call[q].ip, NDIRECT>>] = Now[<<call[q].ip, NDIRECT>>]
  BY <1>6, SpotPlaces DEF Undisturbed
<1>7. CASE pc[q] = "write"
  <2>1. Filled(Now, call[q].ip, 0, End(q))'
    BY <1>1, <1>4, <1>6, <1>7 DEF Live, CallShape, Filled, Inside
  <2>2. (Position(q) <= inode[call[q].ip].size => mem.dinode[call[q].ip] = inode[call[q].ip])'
    BY <1>1, <1>4, <1>7 DEF Live, CallShape, Inside, Undisturbed
  <2>3. CallShape(q)'
    BY <1>1, <1>7, <2>1, <2>2 DEF CallShape
  <2>4. ChunkLog(q)' = ChunkLog(q)
    <3>1. Touched(q) \subseteq 0..(MAXFILE - 1) /\ Fresh(q) \subseteq 0..(MAXFILE - 1)
      BY DEF Touched, Fresh
    <3>2. {Data(Now[<<call[q].ip, Spot(bn)>>]) : bn \in Touched(q)}'
            = {Data(Now[<<call[q].ip, Spot(bn)>>]) : bn \in Touched(q)}
      BY <1>1, <1>4, <1>6, <1>7, <3>1 DEF Inside
    <3>3. {Bitmap(Now[<<call[q].ip, Spot(bn)>>]) : bn \in Fresh(q)}'
            = {Bitmap(Now[<<call[q].ip, Spot(bn)>>]) : bn \in Fresh(q)}
      BY <1>1, <1>4, <1>6, <1>7, <3>1 DEF Inside
    <3>4. TableLog(Now[<<call[q].ip, NDIRECT>>])' = TableLog(Now[<<call[q].ip, NDIRECT>>])
      BY <1>1, <1>6, <1>7 DEF Inside
    <3> QED
      BY <3>2, <3>3, <3>4, Zenon DEF ChunkLog
  <2>5. LogOf(q)'
    BY <1>1, <1>7, <2>4 DEF Live, LogOf
  <2> QED
    BY <1>5, <2>3, <2>5 DEF Live
<1>8. CASE pc[q] = "trunc"
  <2>1. call[q].tot \in Nat /\ inode'[call[q].ip].size = inode[call[q].ip].size
    BY <1>8, CallTypes DEF Undisturbed, Inside
  <2>2. Filled(Now, call[q].ip, call[q].tot, inode[call[q].ip].size)'
    BY <1>1, <1>6, <1>8, <2>1 DEF Live, CallShape, Filled, Inside
  <2>3. CallShape(q)'
    BY <1>1, <1>8, <2>2 DEF CallShape
  <2>4. LogOf(q)'
    BY <1>1, <1>8 DEF Live, LogOf, TruncLog
  <2> QED
    BY <1>5, <2>3, <2>4 DEF Live
<1>9. CASE pc[q] \notin {"write", "trunc"}
  <2>1. CallShape(q)'
    BY <1>1, <1>9 DEF CallShape
  <2>2. LogOf(q)'
    BY <1>1, <1>9 DEF Live, LogOf
  <2> QED
    BY <1>5, <2>1, <2>2 DEF Live
<1> QED
  BY <1>7, <1>8, <1>9

(***************************************************************************)
(* What a transaction passes to log_write is small.                        *)
(***************************************************************************)

\* A set that a function from a finite set covers.
LEMMA Image ==
  ASSUME NEW S, IsFiniteSet(S), NEW f, DOMAIN f = S, NEW T, T = {f[x] : x \in S}
  PROVE  IsFiniteSet(T) /\ Cardinality(T) \in Nat /\ Cardinality(T) <= Cardinality(S)
         /\ Cardinality(S) \in Nat
<1> DEFINE g == [x \in S |-> f[x]]
<1>1. g \in Surjection(S, T)
  BY DEF Surjection
<1> HIDE DEF g
<1>2. IsFiniteSet(T) /\ Cardinality(T) <= Cardinality(S)
  BY <1>1, FS_Surjection
<1> QED
  BY <1>2, FS_CardinalityType

LEMMA SmallInterval ==
  ASSUME NEW a \in Int, NEW n \in Nat, NEW S \in SUBSET (a..(a + n - 1))
  PROVE  IsFiniteSet(S) /\ Cardinality(S) \in Nat /\ Cardinality(S) <= n
<1>1. a + n - 1 \in Int
  OBVIOUS
<1>2. IsFiniteSet(a..(a + n - 1))
      /\ Cardinality(a..(a + n - 1)) = IF a > a + n - 1 THEN 0 ELSE (a + n - 1) - a + 1
  BY <1>1, FS_Interval
<1>3. Cardinality(a..(a + n - 1)) = n
  BY <1>2
<1>4. IsFiniteSet(S) /\ Cardinality(S) <= Cardinality(a..(a + n - 1))
  BY <1>2, FS_Subset, Zenon
<1> QED
  BY <1>3, <1>4, FS_CardinalityType

LEMMA SmallUnion ==
  ASSUME NEW S, NEW T, NEW m \in Nat, NEW n \in Nat,
         IsFiniteSet(S), Cardinality(S) <= m, IsFiniteSet(T), Cardinality(T) <= n
  PROVE  IsFiniteSet(S \cup T) /\ Cardinality(S \cup T) <= m + n
<1>1. /\ IsFiniteSet(S \cup T)
      /\ Cardinality(S \cup T) = Cardinality(S) + Cardinality(T) - Cardinality(S \cap T)
  BY FS_Union
<1>2. IsFiniteSet(S \cap T)
  BY FS_Subset
<1>3. Cardinality(S) \in Nat /\ Cardinality(T) \in Nat /\ Cardinality(S \cap T) \in Nat
  BY <1>2, FS_CardinalityType
<1> QED
  BY <1>1, <1>3

LEMMA SmallSubset ==
  ASSUME NEW T, IsFiniteSet(T), NEW S \in SUBSET T, NEW n \in Nat, Cardinality(T) <= n
  PROVE  IsFiniteSet(S) /\ Cardinality(S) <= n
<1>1. IsFiniteSet(S) /\ Cardinality(S) <= Cardinality(T)
  BY FS_Subset
<1> QED
  BY <1>1, FS_CardinalityType

LEMMA Pair ==
  ASSUME NEW a, NEW b
  PROVE  IsFiniteSet({a, b}) /\ Cardinality({a, b}) <= 2
<1>1. /\ IsFiniteSet({a}) /\ Cardinality({a}) <= 1 /\ IsFiniteSet({b}) /\ Cardinality({b}) <= 1
      /\ 1 \in Nat
  BY FS_Singleton
<1>2. {a, b} = {a} \cup {b}
  OBVIOUS
<1>3. IsFiniteSet({a} \cup {b}) /\ Cardinality({a} \cup {b}) <= 1 + 1
  BY <1>1, SmallUnion, Zenon
<1> QED
  BY <1>2, <1>3

\* The blocks of the bitmap and one block of inodes fit in a transaction.
LEMMA TruncFits == IsFiniteSet(TruncLog) /\ Cardinality(TruncLog) <= MAXOPBLOCKS
<1> DEFINE lo == 1 \div BPB
           hi == NBlocks \div BPB
           B  == {Bitmap(b) : b \in Blocks}
<1>1. IsFiniteSet({DiskInode}) /\ Cardinality({DiskInode}) = 1
  BY FS_Singleton
<1>2. CASE NBlocks = 0
  <2>1. Blocks = {}
    BY <1>2 DEF Blocks
  <2>2. TruncLog = {DiskInode}
    BY <2>1 DEF TruncLog
  <2> QED
    BY <1>1, <2>2, Layout
<1>3. CASE NBlocks # 0
  <2>1. lo \in Nat /\ hi \in Nat
    BY Layout
  <2>2. \A b \in Blocks : b \div BPB \in lo..hi
    <3> SUFFICES ASSUME NEW b \in Blocks
                 PROVE  b \div BPB \in lo..hi
      OBVIOUS
    <3>1. b \in Nat /\ 1 <= b /\ b <= NBlocks
      BY Layout DEF Blocks
    <3> DEFINE q == b \div BPB
    <3>2. /\ q \in Nat /\ b % BPB \in 0..(BPB - 1) /\ b = BPB * q + (b % BPB)
          /\ 1 % BPB \in 0..(BPB - 1) /\ 1 = BPB * lo + (1 % BPB)
          /\ NBlocks % BPB \in 0..(BPB - 1) /\ NBlocks = BPB * hi + (NBlocks % BPB)
      BY <3>1, DivMod, Layout
    <3> HIDE DEF lo, hi, q
    <3>3. \A m, n \in Nat : m < n => BPB * m + BPB <= BPB * n
      <4> SUFFICES ASSUME NEW m \in Nat, NEW n \in Nat, m < n
                   PROVE  BPB * m + BPB <= BPB * n
        OBVIOUS
      <4> DEFINE d == n - m - 1
      <4>1. d \in Nat /\ n = m + 1 + d
        OBVIOUS
      <4> HIDE DEF d
      <4>2. BPB * (m + 1 + d) = BPB * m + BPB + BPB * d
        BY <4>1, Layout
      <4>3. BPB * d \in Nat /\ BPB * m \in Nat
        BY <4>1, Layout
      <4> QED
        BY <4>1, <4>2, <4>3, Layout
    <3>4. \A m \in Nat : BPB * m \in Nat
      BY Layout
    <3>5. ~(q < lo)
      BY <3>1, <3>2, <3>3, <3>4, <2>1, Layout
    <3>6. ~(hi < q)
      BY <3>1, <3>2, <3>3, <3>4, <2>1, Layout
    <3> QED
      BY <3>2, <3>5, <3>6, <2>1 DEF q
  <2>3. lo <= hi
    <3>1. 1 \in Blocks
      BY <1>3, Layout DEF Blocks
    <3> QED
      BY <2>1, <2>2, <3>1
  <2> DEFINE n == hi - lo + 1
             f == [k \in lo..hi |-> <<"bitmap", k>>]
             T == {f[k] : k \in lo..hi}
  <2>4. n \in Nat /\ lo + n - 1 = hi /\ n + 1 <= MAXOPBLOCKS
    BY <2>1, <2>3, LayoutAssumption
  <2>5. B \subseteq T
    BY <2>2 DEF Bitmap
  <2> HIDE DEF lo, hi, n
  <2>6. IsFiniteSet(lo..hi) /\ Cardinality(lo..hi) <= n
    <3>1. lo..hi \in SUBSET (lo..(lo + n - 1)) /\ lo \in Int
      BY <2>1, <2>4
    <3> QED
      BY <2>4, <3>1, SmallInterval, Zenon
  <2>7. DOMAIN f = lo..hi
    OBVIOUS
  <2> HIDE DEF f
  <2>8. IsFiniteSet(T) /\ Cardinality(T) \in Nat /\ Cardinality(T) <= Cardinality(lo..hi)
        /\ Cardinality(lo..hi) \in Nat
    BY <2>6, <2>7, Image, Zenon
  <2>9. IsFiniteSet(B) /\ Cardinality(B) <= n
    BY <2>4, <2>5, <2>6, <2>8, SmallSubset
  <2>10. IsFiniteSet(B \cup {DiskInode}) /\ Cardinality(B \cup {DiskInode}) <= n + 1
    <3>1. 1 \in Nat /\ Cardinality({DiskInode}) <= 1
      BY <1>1
    <3> HIDE DEF B
    <3> QED
      BY ONLY <1>1, <2>4, <2>9, <3>1, SmallUnion, Zenon
  <2>11. Cardinality(B \cup {DiskInode}) \in Nat
    BY <2>10, FS_CardinalityType
  <2> QED
    BY <2>4, <2>10, <2>11, Layout DEF TruncLog
<1> QED
  BY <1>2, <1>3

Slots == (MAXOPBLOCKS - 1 - 1 - 2) \div 2

LEMMA SlotsChunk ==
  Slots \in Nat /\ Slots >= 1 /\ Chunk = Slots * BSIZE /\ 2 * Slots + 4 <= MAXOPBLOCKS
<1>1. Slots \in Nat /\ Slots >= 1 /\ 2 * Slots <= MAXOPBLOCKS - 1 - 1 - 2
  BY Layout DEF Slots
<1> QED
  BY <1>1, Layout DEF Chunk, Slots

LEMMA Sums ==
  \A m, n \in Nat : (m + n) * BSIZE = m * BSIZE + n * BSIZE
BY Layout

\* The blocks that a chunk covers, and those that begin inside it.
LEMMA Spans ==
  ASSUME NEW o \in Nat, NEW e \in Nat, NEW c \in Nat, e <= o + c * BSIZE,
         NEW S \in SUBSET {bn \in 0..(MAXFILE - 1) : o < (bn + 1) * BSIZE /\ bn * BSIZE < e},
         NEW T \in SUBSET {bn \in 0..(MAXFILE - 1) : o <= bn * BSIZE /\ bn * BSIZE < e}
  PROVE  /\ IsFiniteSet(S) /\ Cardinality(S) \in Nat /\ Cardinality(S) <= c + 1
         /\ IsFiniteSet(T) /\ Cardinality(T) \in Nat /\ Cardinality(T) <= c
<1> DEFINE k == o \div BSIZE
           j == IF o % BSIZE = 0 THEN k ELSE k + 1
<1>1. k \in Nat /\ o % BSIZE \in 0..(BSIZE - 1) /\ o = BSIZE * k + (o % BSIZE)
  BY DivMod, Layout
<1>2. j \in Nat
  BY <1>1
<1>3. BSIZE * k = k * BSIZE /\ k * BSIZE \in Nat /\ c * BSIZE \in Nat /\ j * BSIZE \in Nat
  BY <1>1, <1>2, Layout
<1>4. k * BSIZE <= o /\ o < k * BSIZE + BSIZE
  BY <1>1, <1>3, Layout
<1>5. o <= j * BSIZE /\ j * BSIZE < o + BSIZE
  <2>1. CASE o % BSIZE = 0
    BY <1>1, <1>3, <2>1, Layout
  <2>2. CASE o % BSIZE # 0
    <3>1. (k + 1) * BSIZE = k * BSIZE + BSIZE
      BY <1>1, Apart
    <3> QED
      BY <1>1, <1>3, <2>2, <3>1, Layout
  <2> QED
    BY <2>1, <2>2
<1> HIDE DEF k, j
<1>6. \A bn \in S : bn \in k..(k + (c + 1) - 1)
  <2> SUFFICES ASSUME NEW bn \in S
               PROVE  bn \in k..(k + (c + 1) - 1)
    OBVIOUS
  <2>1. bn \in Nat /\ o < (bn + 1) * BSIZE /\ bn * BSIZE < e
    BY Layout
  <2>2. k * BSIZE < (bn + 1) * BSIZE
    <3>1. (bn + 1) * BSIZE \in Nat
      BY <2>1, Layout
    <3> QED
      BY <1>3, <1>4, <2>1, <3>1
  <2>3. k < bn + 1
    <3>1. bn + 1 \in Nat
      BY <2>1
    <3> QED
      BY <1>1, <2>2, <3>1, Apart
  <2>4. bn * BSIZE < (k + 1 + c) * BSIZE
    <3>1. /\ (k + 1) * BSIZE = k * BSIZE + BSIZE /\ k + 1 \in Nat
          /\ (k + 1 + c) * BSIZE = (k + 1) * BSIZE + c * BSIZE
      BY <1>1, Apart, Sums
    <3>2. bn * BSIZE \in Nat /\ BSIZE \in Nat
      BY <2>1, Layout
    <3> QED
      BY <1>3, <1>4, <2>1, <3>1, <3>2
  <2>5. bn < k + 1 + c
    <3>1. k + 1 + c \in Nat
      BY <1>1
    <3> QED
      BY <2>1, <2>4, <3>1, Apart
  <2> QED
    BY <1>1, <2>1, <2>3, <2>5
<1>7. \A bn \in T : bn \in j..(j + c - 1)
  <2> SUFFICES ASSUME NEW bn \in T
               PROVE  bn \in j..(j + c - 1)
    OBVIOUS
  <2>1. bn \in Nat /\ o <= bn * BSIZE /\ bn * BSIZE < e
    BY Layout
  <2>2. j * BSIZE < (bn + 1) * BSIZE
    <3>1. (bn + 1) * BSIZE = bn * BSIZE + BSIZE /\ bn * BSIZE \in Nat
      BY <2>1, Apart
    <3> QED
      BY <1>3, <1>5, <2>1, <3>1, Layout
  <2>3. j < bn + 1
    <3>1. bn + 1 \in Nat
      BY <2>1
    <3> QED
      BY <1>2, <2>2, <3>1, Apart
  <2>4. bn * BSIZE < (j + c) * BSIZE
    <3>1. (j + c) * BSIZE = j * BSIZE + c * BSIZE
      BY <1>2, Sums
    <3>2. bn * BSIZE \in Nat
      BY <2>1, Layout
    <3> QED
      BY <1>3, <1>5, <2>1, <3>1, <3>2
  <2>5. bn < j + c
    <3>1. j + c \in Nat
      BY <1>2
    <3> QED
      BY <2>1, <2>4, <3>1, Apart
  <2> QED
    BY <1>2, <2>1, <2>3, <2>5
<1>8. S \in SUBSET (k..(k + (c + 1) - 1)) /\ T \in SUBSET (j..(j + c - 1))
      /\ c + 1 \in Nat /\ k \in Int /\ j \in Int
  BY <1>1, <1>2, <1>6, <1>7
<1>9. IsFiniteSet(S) /\ Cardinality(S) \in Nat /\ Cardinality(S) <= c + 1
  <2> DEFINE n == c + 1
  <2>1. n \in Nat /\ S \in SUBSET (k..(k + n - 1)) /\ k \in Int
    BY <1>8
  <2> HIDE DEF n
  <2>2. IsFiniteSet(S) /\ Cardinality(S) \in Nat /\ Cardinality(S) <= n
    BY <2>1, SmallInterval, Zenon
  <2> QED
    BY <2>2 DEF n
<1>10. IsFiniteSet(T) /\ Cardinality(T) \in Nat /\ Cardinality(T) <= c
  BY <1>8, SmallInterval, Zenon
<1> QED
  BY <1>9, <1>10

\* Data, bitmap and addresses of a chunk leave room for the inode.
Fits ==
  \A q \in Process :
    Typed /\ CallOf(q) /\ Writing(q)
      => IsFiniteSet(ChunkLog(q)) /\ Cardinality(ChunkLog(q)) <= MAXOPBLOCKS - 1

LEMMA ChunkFits == Fits
<1> SUFFICES ASSUME NEW p \in Process, Typed, CallOf(p), Writing(p)
             PROVE  IsFiniteSet(ChunkLog(p)) /\ Cardinality(ChunkLog(p)) <= MAXOPBLOCKS - 1
  BY DEF Fits
<1> DEFINE o == off[call[p].file]
           e == Position(p)
           c == Slots
           S == Touched(p)
           T == Fresh(p)
           f == [bn \in S |-> Data(Now[<<call[p].ip, Spot(bn)>>])]
           g == [bn \in T |-> Bitmap(Now[<<call[p].ip, Spot(bn)>>])]
           A == TableLog(Now[<<call[p].ip, NDIRECT>>])
           D == {f[bn] : bn \in S}
           G == {g[bn] : bn \in T}
<1>1. o \in Nat /\ e \in Nat /\ c \in Nat /\ e <= o + c * BSIZE
  <2>1. c \in Nat /\ Chunk = c * BSIZE
    BY SlotsChunk
  <2>2. o \in Nat /\ e \in Nat /\ e = o + call[p].tot /\ call[p].tot \in Nat /\ N1(p) \in Nat
        /\ Chunk \in Nat /\ call[p].tot <= N1(p) /\ N1(p) <= Chunk
    BY ChunkTypes
  <2> HIDE DEF o, e, c
  <2> QED
    BY <2>1, <2>2
<1>2. /\ S \in SUBSET {bn \in 0..(MAXFILE - 1) : o < (bn + 1) * BSIZE /\ bn * BSIZE < e}
      /\ T \in SUBSET {bn \in 0..(MAXFILE - 1) : o <= bn * BSIZE /\ bn * BSIZE < e}
  BY DEF Touched, Fresh
<1> HIDE DEF o, e, c, S, T
<1>3. /\ IsFiniteSet(S) /\ Cardinality(S) \in Nat /\ Cardinality(S) <= c + 1
      /\ IsFiniteSet(T) /\ Cardinality(T) \in Nat /\ Cardinality(T) <= c
  BY <1>1, <1>2, Spans
<1>4. DOMAIN f = S /\ DOMAIN g = T
  OBVIOUS
<1>5. ChunkLog(p) = (A \cup D) \cup G
  BY DEF ChunkLog, S, T
<1> HIDE DEF f, g
<1>6. IsFiniteSet(D) /\ Cardinality(D) \in Nat /\ Cardinality(D) <= Cardinality(S)
  BY <1>3, <1>4, Image
<1>7. IsFiniteSet(G) /\ Cardinality(G) \in Nat /\ Cardinality(G) <= Cardinality(T)
  BY <1>3, <1>4, Image
<1>8. IsFiniteSet(A) /\ Cardinality(A) <= 2
  <2>1. CASE Now[<<call[p].ip, NDIRECT>>] = 0
    <3>1. A = {}
      BY <2>1 DEF TableLog
    <3> QED
      BY <3>1, FS_EmptySet
  <2>2. CASE Now[<<call[p].ip, NDIRECT>>] # 0
    <3>1. A = {Data(Now[<<call[p].ip, NDIRECT>>]), Bitmap(Now[<<call[p].ip, NDIRECT>>])}
      BY <2>2 DEF TableLog
    <3> QED
      BY <3>1, Pair
  <2> QED
    BY <2>1, <2>2
<1> HIDE DEF A, D, G
<1>9. c + 1 \in Nat /\ Cardinality(D) <= c + 1 /\ Cardinality(G) <= c /\ 2 \in Nat
  BY <1>1, <1>3, <1>6, <1>7
<1>10. IsFiniteSet(A \cup D) /\ Cardinality(A \cup D) <= 2 + (c + 1)
  <2> DEFINE n == c + 1
             m == 2
  <2>1. n \in Nat /\ Cardinality(D) <= n /\ m \in Nat /\ Cardinality(A) <= m
    BY <1>8, <1>9
  <2> HIDE DEF n, m
  <2>2. IsFiniteSet(A \cup D) /\ Cardinality(A \cup D) <= m + n
    BY ONLY <1>6, <1>8, <2>1, SmallUnion, Zenon
  <2> QED
    BY <2>2 DEF m, n
<1>11. IsFiniteSet((A \cup D) \cup G) /\ Cardinality((A \cup D) \cup G) <= 2 + (c + 1) + c
  <2> DEFINE n == 2 + (c + 1)
             E == A \cup D
  <2>1. n \in Nat /\ IsFiniteSet(E) /\ Cardinality(E) <= n
    BY <1>1, <1>10
  <2> HIDE DEF n, E
  <2>2. IsFiniteSet(E \cup G) /\ Cardinality(E \cup G) <= n + c
    BY ONLY <1>1, <1>7, <1>9, <2>1, SmallUnion, Zenon
  <2> QED
    BY <2>2 DEF n, E
<1>12. Cardinality((A \cup D) \cup G) \in Nat
  BY <1>11, FS_CardinalityType
<1>13. 2 * c + 4 <= MAXOPBLOCKS
  BY SlotsChunk DEF c
<1>14. 2 + (c + 1) + c <= MAXOPBLOCKS - 1
  BY <1>1, <1>13, Layout
<1> QED
  BY <1>1, <1>5, <1>11, <1>12, <1>14, Layout

(***************************************************************************)
(* A round of writei.                                                      *)
(***************************************************************************)

LEMMA WriteIsWriting ==
  ASSUME Typed, NEW p \in Process, CallOf(p), pc[p] = "write"
  PROVE  Writing(p)
BY DEF CallOf, Writing, Removing

\* A round stays in a block of the file, and in the chunk.
LEMMA RoundFacts ==
  ASSUME Typed, NEW p \in Process, CallOf(p), pc[p] = "write", ~BadRange(p),
         call[p].tot < N1(p), NEW bn, bn = Position(p) \div BSIZE
  PROVE  /\ bn \in 0..(MAXFILE - 1) /\ bn * BSIZE \in Nat
         /\ bn * BSIZE <= Position(p)
         /\ Round(p) \in Nat /\ Round(p) >= 1
         /\ Position(p) + Round(p) <= bn * BSIZE + BSIZE
         /\ call[p].tot + Round(p) <= N1(p)
         /\ Position(p) % BSIZE \in 0..(BSIZE - 1)
<1> DEFINE P == Position(p)
<1>1. /\ off[call[p].file] \in Nat /\ N1(p) \in Nat /\ call[p].tot \in Nat
      /\ P \in Nat /\ P = off[call[p].file] + call[p].tot
  BY ChunkTypes, WriteIsWriting
<1>2. bn \in Nat /\ P % BSIZE \in 0..(BSIZE - 1) /\ P = BSIZE * bn + (P % BSIZE)
  BY <1>1, DivMod, Layout
<1>3. bn * BSIZE = BSIZE * bn /\ bn * BSIZE \in Nat
  BY <1>2, Layout, SMTT(30)
<1>4. off[call[p].file] + N1(p) <= MAXFILE * BSIZE /\ MAXFILE * BSIZE \in Nat
  BY <1>1, Layout DEF BadRange
<1>5. bn < MAXFILE
  <2>1. bn * BSIZE < MAXFILE * BSIZE
    BY <1>1, <1>2, <1>3, <1>4
  <2> QED
    BY <1>2, <2>1, Apart, Layout
<1>6. Round(p) = IF N1(p) - call[p].tot < BSIZE - (P % BSIZE)
                 THEN N1(p) - call[p].tot ELSE BSIZE - (P % BSIZE)
  BY DEF Round, Lesser
<1> HIDE DEF P
<1>7. /\ Round(p) \in Nat /\ Round(p) >= 1 /\ call[p].tot + Round(p) <= N1(p)
      /\ (P % BSIZE) + Round(p) <= BSIZE
  BY <1>1, <1>2, <1>6, Layout
<1>8. bn \in 0..(MAXFILE - 1)
  BY <1>2, <1>5, Layout
<1>9. P + Round(p) <= bn * BSIZE + BSIZE /\ bn * BSIZE <= P
  BY <1>1, <1>2, <1>3, <1>7, Layout
<1> QED
  BY <1>2, <1>3, <1>7, <1>8, <1>9 DEF P

\* The bytes that memmove copies are those of the call.
LEMMA SourceBytes ==
  ASSUME Typed, NEW p \in Process, CallOf(p), pc[p] = "write", ~BadRange(p),
         call[p].tot < N1(p), NEW at, at = Position(p) % BSIZE,
         NEW k \in at..(at + Round(p) - 1)
  PROVE  Source[p][(call[p].i + call[p].tot) + (k - at) + 1] \in Byte
<1> DEFINE j == (call[p].i + call[p].tot) + (k - at) + 1
           n == call[p].n
<1>1. /\ Round(p) \in Nat /\ call[p].tot + Round(p) <= N1(p) /\ at \in Nat
  BY RoundFacts, Layout
<1>2. N1(p) \in Nat /\ N1(p) <= n - call[p].i /\ call[p].tot \in Nat
  BY ChunkTypes, WriteIsWriting
<1>3. n \in Nat /\ call[p].i \in Nat /\ n \in Lengths
  BY CallTypes, WriteIsWriting DEF CallOf
<1>4. j \in 1..n
  BY <1>1, <1>2, <1>3
<1>5. j \in UNION {1..m : m \in Lengths}
  BY <1>3, <1>4
<1> QED
  BY <1>5 DEF Byte

LEMMA MapMem ==
  \A ip \in Inode, bn \in 0..(MAXFILE - 1) :
    /\ <<ip, Spot(bn)>> \in All
    /\ Now[<<ip, Spot(bn)>>] = Addr(inode[ip].addrs, mem.cell, bn)
    /\ Stable[<<ip, Spot(bn)>>] = Addr(disk.dinode[ip].addrs, disk.cell, bn)
BY PlaceTypes DEF Now, Stable

\* What nobody truncates is kept.
LEMMA KeptPlaces ==
  ASSUME Typed, Locks, NEW p \in Process, pc[p] \in Inside
  PROVE  /\ Kept \subseteq All
         /\ \A j \in Inode : <<j, NDIRECT>> \in Kept
         /\ \A bn \in 0..(MAXFILE - 1) :
              call[p].ip \in Inode /\ (pc[p] = "write" \/ bn >= call[p].tot)
                => <<call[p].ip, Spot(bn)>> \in Kept
<1>0. /\ \A j \in Inode : <<j, NDIRECT>> \in All
      /\ \A j \in Inode, bn \in 0..(MAXFILE - 1) : <<j, Spot(bn)>> \in All /\ Spot(bn) # NDIRECT
  BY PlaceTypes
<1>1. \A q \in Process : call[q].tot \in Nat
  BY CallTypes
<1>2. \A m \in Nat : Spot(m) # NDIRECT
  BY Layout DEF Spot
<1>3. \A j \in Inode : ~Cleared(<<j, NDIRECT>>)
  BY <1>1, <1>2 DEF Cleared
<1>4. ASSUME NEW bn \in 0..(MAXFILE - 1), pc[p] = "write" \/ bn >= call[p].tot,
             Cleared(<<call[p].ip, Spot(bn)>>)
      PROVE  FALSE
  <2>1. PICK q \in Process : /\ pc[q] = "trunc" /\ call[q].ip = call[p].ip
                             /\ \E m \in 0..(call[q].tot - 1) : Spot(bn) = Spot(m)
    BY <1>4 DEF Cleared
  <2>2. q = p
    BY <2>1, Mutex DEF Inside
  <2>3. PICK m \in 0..(call[p].tot - 1) : Spot(bn) = Spot(m)
    BY <2>1, <2>2
  <2>4. m \in Nat /\ bn \in Nat /\ m < call[p].tot /\ bn >= call[p].tot
    BY <1>1, <1>4, <2>1, <2>2
  <2>5. call[p].tot \in Nat /\ m # bn
    BY <1>1, <2>4
  <2>6. m \in 0..(MAXFILE - 1)
    BY <2>4, <2>5, Layout
  <2> QED
    BY <2>3, <2>5, <2>6, SpotsDiffer
<1> QED
  BY <1>0, <1>3, <1>4 DEF Kept

LEMMA StateGood ==
  ASSUME IInv, NEW p \in Process, pc[p] = "write"
  PROVE  Good(State(p), inode, call[p].ip, Kept)
<1>1. Typed /\ Locks /\ CallOf(p) /\ Exact(mem.used, Now, Kept)
  BY DEF IInv, Live
<1>2. call[p].ip \in Inode
  BY <1>1, ChunkTypes, WriteIsWriting
<1>3. State(p) = [used |-> mem.used, cell |-> mem.cell, addrs |-> inode[call[p].ip].addrs,
                  log |-> logged[p]]
  BY DEF State
<1>4. State(p) \in States
  <2>1. mem.used \in SUBSET Blocks /\ mem.cell \in [Blocks -> Cells]
    BY <1>1 DEF Typed, Stores
  <2>2. inode[call[p].ip].addrs \in [0..NDIRECT -> Blocks \cup {0}] /\ logged[p] \in SUBSET Items
    BY <1>1, <1>2, NodeTypes, CallTypes
  <2> QED
    BY <1>3, <2>1, <2>2 DEF States
<1>5. inode \in [Inode -> Nodes]
  BY <1>1 DEF Typed
<1>6. Kept \subseteq All /\ \A j \in Inode : <<j, NDIRECT>> \in Kept
  BY <1>1, KeptPlaces DEF Inside
<1>7. State(p).used = mem.used /\ State(p).cell = mem.cell
      /\ State(p).addrs = inode[call[p].ip].addrs
  BY <1>3
<1> QED
  BY <1>1, <1>2, <1>4, <1>5, <1>6, <1>7 DEF Good, Now

(***************************************************************************)
(* A step of one process, seen by the others.                              *)
(***************************************************************************)

\* The places that itrunc has freed.
Freed(q) ==
  IF pc[q] = "trunc" THEN {<<call[q].ip, Spot(bn)>> : bn \in 0..(call[q].tot - 1)} ELSE {}

LEMMA FreedCleared ==
  \A x \in All : Cleared(x) <=> \E q \in Process : x \in Freed(q)
<1> SUFFICES ASSUME NEW x \in All
             PROVE  Cleared(x) <=> \E q \in Process : x \in Freed(q)
  OBVIOUS
<1>1. x = <<x[1], x[2]>>
  BY AnyPlace
<1>2. ASSUME NEW q \in Process
      PROVE  (/\ pc[q] = "trunc" /\ call[q].ip = x[1]
              /\ \E bn \in 0..(call[q].tot - 1) : x[2] = Spot(bn)) <=> x \in Freed(q)
  BY <1>1 DEF Freed
<1> QED
  BY <1>2 DEF Cleared

LEMMA KeptFreed == Kept = {x \in All : \A q \in Process : x \notin Freed(q)}
BY FreedCleared DEF Kept

LEMMA KeptSame ==
  ASSUME \A q \in Process : Freed(q)' = Freed(q)
  PROVE  Kept' = Kept
<1>1. (Kept = {x \in All : \A q \in Process : x \notin Freed(q)})'
  BY KeptFreed, PTL
<1>2. All' = All
  BY DEF All, Places
<1> QED
  BY <1>1, <1>2, KeptFreed

OutsideStep(p) == lock' = lock /\ pc[p] \notin Inside /\ pc'[p] \notin Inside
LockStep(p) ==
  /\ pc[p] \notin Inside /\ pc'[p] \in Inside /\ call'[p].ip \in Inode
  /\ lock[call'[p].ip] = None /\ lock' = [lock EXCEPT ![call'[p].ip] = p]
UnlockStep(p) ==
  pc[p] \in Inside /\ pc'[p] \notin Inside /\ lock' = [lock EXCEPT ![call[p].ip] = None]
InsideStep(p) ==
  lock' = lock /\ pc[p] \in Inside /\ pc'[p] \in Inside /\ call'[p].ip = call[p].ip

LEMMA LocksStep ==
  ASSUME Typed, Typed', Locks, NEW p \in Process,
         \A q \in Process : q # p => pc'[q] = pc[q] /\ call'[q] = call[q],
         OutsideStep(p) \/ LockStep(p) \/ UnlockStep(p) \/ InsideStep(p),
         outstanding' = IF pc'[p] \in Inside \cup {"lock", "end"}
                        THEN outstanding \cup {p} ELSE outstanding \ {p}
  PROVE  Locks'
<1>0. /\ None \notin Process /\ None \notin Inode
      /\ lock \in [Inode -> Process \cup {None}] /\ lock' \in [Inode -> Process \cup {None}]
  BY Layout DEF Typed
<1>1. outstanding' = {q \in Process : pc'[q] \in Inside \cup {"lock", "end"}}
  BY DEF Locks
<1>2. CASE OutsideStep(p)
  <2>1. ASSUME NEW ip \in Inode, lock'[ip] # None
        PROVE  pc'[lock'[ip]] \in Inside /\ call'[lock'[ip]].ip = ip
    BY <1>0, <1>2, <2>1 DEF Locks, OutsideStep
  <2>2. ASSUME NEW q \in Process, pc'[q] \in Inside
        PROVE  lock'[call'[q].ip] = q
    BY <1>2, <2>2 DEF Locks, OutsideStep
  <2> QED
    BY <1>1, <2>1, <2>2 DEF Locks
<1>3. CASE LockStep(p)
  <2>1. ASSUME NEW ip \in Inode, lock'[ip] # None
        PROVE  pc'[lock'[ip]] \in Inside /\ call'[lock'[ip]].ip = ip
    <3>1. CASE ip = call'[p].ip
      BY <1>0, <1>3, <3>1 DEF LockStep
    <3>2. CASE ip # call'[p].ip
      BY <1>0, <1>3, <2>1, <3>2 DEF Locks, LockStep
    <3> QED
      BY <3>1, <3>2
  <2>2. ASSUME NEW q \in Process, pc'[q] \in Inside
        PROVE  lock'[call'[q].ip] = q
    <3>1. CASE q = p
      BY <1>0, <1>3, <3>1 DEF LockStep
    <3>2. CASE q # p
      <4>1. lock[call[q].ip] = q /\ call'[q] = call[q]
        BY <2>2, <3>2 DEF Locks
      <4>2. call[q].ip # call'[p].ip
        BY <1>0, <1>3, <4>1 DEF LockStep
      <4> QED
        BY <1>0, <1>3, <4>1, <4>2 DEF LockStep
    <3> QED
      BY <3>1, <3>2
  <2> QED
    BY <1>1, <2>1, <2>2 DEF Locks
<1>4. CASE UnlockStep(p)
  <2>1. ASSUME NEW ip \in Inode, lock'[ip] # None
        PROVE  pc'[lock'[ip]] \in Inside /\ call'[lock'[ip]].ip = ip
    <3>1. ip # call[p].ip /\ lock'[ip] = lock[ip]
      BY <1>0, <1>4, <2>1 DEF UnlockStep
    <3>2. lock[ip] # p /\ lock[ip] \in Process
      BY <1>0, <1>4, <2>1, <3>1 DEF Locks, UnlockStep
    <3> QED
      BY <2>1, <3>1, <3>2 DEF Locks
  <2>2. ASSUME NEW q \in Process, pc'[q] \in Inside
        PROVE  lock'[call'[q].ip] = q
    <3>1. q # p
      BY <1>4, <2>2 DEF UnlockStep
    <3>2. lock[call[q].ip] = q /\ call'[q] = call[q] /\ pc[q] \in Inside
      BY <2>2, <3>1 DEF Locks
    <3>3. call[q].ip # call[p].ip
      BY <1>4, <3>1, <3>2, Mutex DEF UnlockStep
    <3> QED
      BY <1>0, <1>4, <3>2, <3>3 DEF UnlockStep
  <2> QED
    BY <1>1, <2>1, <2>2 DEF Locks
<1>5. CASE InsideStep(p)
  <2>1. ASSUME NEW ip \in Inode, lock'[ip] # None
        PROVE  pc'[lock'[ip]] \in Inside /\ call'[lock'[ip]].ip = ip
    BY <1>0, <1>5, <2>1 DEF Locks, InsideStep
  <2>2. ASSUME NEW q \in Process, pc'[q] \in Inside
        PROVE  lock'[call'[q].ip] = q
    BY <1>5, <2>2 DEF Locks, InsideStep
  <2> QED
    BY <1>1, <2>1, <2>2 DEF Locks
<1> QED
  BY <1>2, <1>3, <1>4, <1>5

\* What is left to show of a step of p.
LEMMA StepInv ==
  ASSUME IInv, NEW p \in Process, \A q \in Process : q # p => Undisturbed(q),
         Live(p)', Typed', Locks', Exact(disk.used, Stable, All)',
         Exact(mem.used, Now, Kept)', Shape'
  PROVE  IInv'
<1>1. ASSUME NEW q \in Process, q # p
      PROVE  Live(q)'
  <2>1. Typed /\ Locks /\ Live(q) /\ Undisturbed(q)
    BY <1>1 DEF IInv
  <2> QED
    BY <2>1, OthersLive
<1>2. \A q \in Process : Live(q)'
  BY <1>1
<1> QED
  BY <1>2 DEF IInv

LEMMA FreedSame ==
  ASSUME NEW q, pc'[q] = pc[q], call'[q] = call[q]
  PROVE  Freed(q)' = Freed(q)
BY DEF Freed, Spot

\* Steps that leave inodes, blocks and offsets alone.
LEMMA QuietOther ==
  ASSUME IInv, NEW q \in Process, UNCHANGED <<store, inode, off>>,
         pc'[q] = pc[q], call'[q] = call[q], logged'[q] = logged[q]
  PROVE  Undisturbed(q)
<1>1. CallOf(q)
  BY DEF IInv, Live
<1>2. mem' = mem /\ inode' = inode /\ off' = off
  BY DEF store
<1>3. Now' = Now
  BY <1>2 DEF Now, Map, Place, All, Places
<1> QED
  BY <1>1, <1>2, <1>3 DEF Undisturbed, CallOf

LEMMA QuietStep ==
  ASSUME IInv, NEW p \in Process, UNCHANGED <<store, inode, off>>,
         \A q \in Process : q # p =>
           pc'[q] = pc[q] /\ call'[q] = call[q] /\ logged'[q] = logged[q],
         Live(p)', Typed', Locks', Freed(p)' = Freed(p),
         \A ip \in Inode : lock'[ip] = None =>
           Filled(Now, ip, 0, inode[ip].size) /\ mem.dinode[ip] = inode[ip]
  PROVE  IInv'
<1>1. mem' = mem /\ disk' = disk /\ inode' = inode /\ off' = off
  BY DEF store
<1>2. Now' = Now /\ Stable' = Stable
  BY <1>1 DEF Now, Stable, Map, Place, All, Places
<1>3. \A q \in Process : q # p => Undisturbed(q)
  BY QuietOther
<1>4. \A q \in Process : Freed(q)' = Freed(q)
  BY FreedSame
<1>5. Kept' = Kept
  BY <1>4, KeptSame
<1>6. Exact(disk.used, Stable, All)'
  BY <1>1, <1>2 DEF IInv, Exact, All, Places
<1>7. Exact(mem.used, Now, Kept)'
  BY <1>1, <1>2, <1>5 DEF IInv, Exact
<1>8. Shape'
  <2>1. \A ip \in Inode : Filled(Stable, ip, 0, disk.dinode[ip].size)'
    BY <1>1, <1>2 DEF IInv, Shape, Filled, Spot
  <2>2. \A ip \in Inode : lock'[ip] = None =>
          Filled(Now, ip, 0, inode[ip].size)' /\ mem'.dinode[ip] = inode'[ip]
    BY <1>1, <1>2 DEF Filled, Spot
  <2>3. \A f \in File : off'[f] <= inode'[InodeOf[f]].size
    BY <1>1 DEF IInv, Shape
  <2> QED
    BY <2>1, <2>2, <2>3 DEF Shape
<1> QED
  BY <1>3, <1>6, <1>7, <1>8, StepInv

(***************************************************************************)
(* The beginning of a call.                                                *)
(***************************************************************************)

LEMMA EmptyLog == Cardinality({}) <= MAXOPBLOCKS
<1>1. Cardinality({}) = 0
  BY FS_EmptySet
<1> QED
  BY <1>1, Layout

LEMMA NoCallRecord == NoCall \in CallRecords
BY DEF NoCall, CallRecords

LEMMA Idle ==
  ASSUME IInv, NEW p \in Process, pc[p] \notin Inside
  PROVE  /\ p \notin {lock[ip] : ip \in Inode}
         /\ \A ip \in Inode : lock[ip] = None =>
              Filled(Now, ip, 0, inode[ip].size) /\ mem.dinode[ip] = inode[ip]
<1>1. ASSUME NEW ip \in Inode, lock[ip] = p
      PROVE  FALSE
  BY <1>1, Layout DEF IInv, Locks
<1> QED
  BY <1>1 DEF IInv, Shape

LEMMA WriteStep ==
  ASSUME IInv, NEW p \in Process, NEW f \in File, Write(p, f)
  PROVE  IInv'
<1>1. PICK n \in Lengths :
        call' = [call EXCEPT ![p] = [NoCall EXCEPT !.file = f, !.ip = InodeOf[f], !.n = n]]
  BY Zenon DEF Write
<1>2. /\ pc[p] = "user" /\ off[f] # Closed /\ pc' = [pc EXCEPT ![p] = "begin"]
      /\ UNCHANGED <<store, inode, lock, outstanding, off, logged, panicked, crashes>>
  BY DEF Write, User, Goto
<1>3. Typed /\ Locks /\ Live(p)
  BY DEF IInv
<1>4. call \in [Process -> CallRecords] /\ pc \in [Process -> Points]
      /\ logged \in [Process -> SUBSET Items]
  BY <1>3 DEF Typed
<1>5. n \in Nat /\ n > 0 /\ InodeOf[f] \in Inode /\ f # None
  BY Layout
<1>6. /\ call'[p] = [file |-> f, ip |-> InodeOf[f], n |-> n, i |-> 0, tot |-> 0]
      /\ call'[p] \in CallRecords
  BY <1>1, <1>4, <1>5, Zenon DEF NoCall, CallRecords
<1>7. /\ pc'[p] = "begin"
      /\ \A q \in Process : q # p =>
           pc'[q] = pc[q] /\ call'[q] = call[q] /\ logged'[q] = logged[q]
  BY <1>1, <1>2, <1>4
<1>8. Typed'
  <2>1. call' \in [Process -> CallRecords]
    BY <1>1, <1>4, <1>6
  <2>2. pc' \in [Process -> Points]
    BY <1>2, <1>4 DEF Points
  <2> QED
    BY <1>2, <1>3, <2>1, <2>2 DEF Typed, store
<1>9. Locks'
  <2>1. OutsideStep(p)
    BY <1>2, <1>7 DEF OutsideStep, Inside
  <2>2. outstanding' = outstanding \ {p}
    BY <1>2, <1>3 DEF Locks, Inside
  <2> QED
    BY <1>3, <1>7, <1>8, <2>1, <2>2, LocksStep DEF Inside
<1>10. Live(p)'
  <2>1. N1(p)' \in Nat
    <3>1. Writing(p)'
      BY <1>5, <1>6, <1>7 DEF Writing
    <3>2. N1(p)' = IF n - 0 < Chunk THEN n - 0 ELSE Chunk
      BY <1>6 DEF N1, Lesser
    <3>3. Chunk \in Nat
      BY SlotsChunk, Layout
    <3> QED
      BY <1>5, <3>2, <3>3
  <2>2. CallOf(p)'
    BY <1>2, <1>5, <1>6, <1>7, <2>1 DEF CallOf, Writing, Removing
  <2>3. CallShape(p)'
    BY <1>7 DEF CallShape
  <2>4. logged'[p] = {}
    BY <1>2, <1>3 DEF Live, LogOf
  <2>5. LogOf(p)'
    BY <1>7, <2>4, EmptyLog DEF LogOf
  <2> QED
    BY <2>2, <2>3, <2>5 DEF Live
<1>11. Freed(p)' = Freed(p)
  BY <1>2, <1>7 DEF Freed
<1>12. \A ip \in Inode : lock'[ip] = None =>
         Filled(Now, ip, 0, inode[ip].size) /\ mem.dinode[ip] = inode[ip]
  BY <1>2 DEF IInv, Shape
<1> QED
  BY <1>2, <1>7, <1>8, <1>9, <1>10, <1>11, <1>12, QuietStep

LEMMA RemoveStep ==
  ASSUME IInv, NEW p \in Process, NEW ip \in Inode, Remove(p, ip)
  PROVE  IInv'
<1>1. call' = [call EXCEPT ![p] = [NoCall EXCEPT !.ip = ip]]
  BY DEF Remove
<1>2. /\ pc[p] = "user" /\ pc' = [pc EXCEPT ![p] = "begin"]
      /\ \A f \in File : InodeOf[f] = ip => off[f] = Closed
      /\ UNCHANGED <<store, inode, lock, outstanding, off, logged, panicked, crashes>>
  BY DEF Remove, User, Goto
<1>3. Typed /\ Locks /\ Live(p)
  BY DEF IInv
<1>4. call \in [Process -> CallRecords] /\ pc \in [Process -> Points]
      /\ logged \in [Process -> SUBSET Items]
  BY <1>3 DEF Typed
<1>5. /\ call'[p] = [file |-> None, ip |-> ip, n |-> 0, i |-> 0, tot |-> 0]
      /\ call'[p] \in CallRecords
  BY <1>1, <1>4 DEF NoCall, CallRecords
<1>6. /\ pc'[p] = "begin"
      /\ \A q \in Process : q # p =>
           pc'[q] = pc[q] /\ call'[q] = call[q] /\ logged'[q] = logged[q]
  BY <1>1, <1>2, <1>4
<1>7. Typed'
  <2>1. call' \in [Process -> CallRecords]
    BY <1>1, <1>4, <1>5
  <2>2. pc' \in [Process -> Points]
    BY <1>2, <1>4 DEF Points
  <2> QED
    BY <1>2, <1>3, <2>1, <2>2 DEF Typed, store
<1>8. Locks'
  <2>1. OutsideStep(p)
    BY <1>2, <1>6 DEF OutsideStep, Inside
  <2>2. outstanding' = outstanding \ {p}
    BY <1>2, <1>3 DEF Locks, Inside
  <2> QED
    BY <1>3, <1>6, <1>7, <2>1, <2>2, LocksStep DEF Inside
<1>9. Live(p)'
  <2>1. CallOf(p)'
    BY <1>2, <1>5, <1>6, Layout DEF CallOf, Writing, Removing
  <2>2. CallShape(p)'
    BY <1>6 DEF CallShape
  <2>3. logged'[p] = {}
    BY <1>2, <1>3 DEF Live, LogOf
  <2>4. LogOf(p)'
    BY <1>6, <2>3, EmptyLog DEF LogOf
  <2> QED
    BY <2>1, <2>2, <2>4 DEF Live
<1>10. Freed(p)' = Freed(p)
  BY <1>2, <1>6 DEF Freed
<1>11. \A j \in Inode : lock'[j] = None =>
         Filled(Now, j, 0, inode[j].size) /\ mem.dinode[j] = inode[j]
  BY <1>2 DEF IInv, Shape
<1> QED
  BY <1>2, <1>6, <1>7, <1>8, <1>9, <1>10, <1>11, QuietStep

LEMMA BeginOpStep ==
  ASSUME IInv, NEW p \in Process, BeginOp(p)
  PROVE  IInv'
<1>1. /\ pc[p] = "begin" /\ pc' = [pc EXCEPT ![p] = "lock"]
      /\ outstanding' = outstanding \cup {p}
      /\ UNCHANGED <<store, inode, lock, off, call, logged, panicked, counters>>
  BY DEF BeginOp, Goto
<1>2. Typed /\ Locks /\ Live(p)
  BY DEF IInv
<1>3. pc \in [Process -> Points]
  BY <1>2 DEF Typed
<1>4. /\ pc'[p] = "lock"
      /\ \A q \in Process : q # p =>
           pc'[q] = pc[q] /\ call'[q] = call[q] /\ logged'[q] = logged[q]
  BY <1>1, <1>3
<1>5. Typed'
  <2>1. pc' \in [Process -> Points]
    BY <1>1, <1>3 DEF Points
  <2>2. outstanding' \subseteq Process
    BY <1>1, <1>2 DEF Typed
  <2> QED
    BY <1>1, <1>2, <2>1, <2>2 DEF Typed, store
<1>6. Locks'
  <2>1. OutsideStep(p)
    BY <1>1, <1>4 DEF OutsideStep, Inside
  <2> QED
    BY <1>1, <1>2, <1>4, <1>5, <2>1, LocksStep DEF Inside
<1>7. Live(p)'
  <2>1. N1(p)' = N1(p)
    BY <1>1 DEF N1
  <2>2. CallOf(p)'
    BY <1>1, <1>2, <1>4, <2>1 DEF Live, CallOf, Writing, Removing
  <2>3. CallShape(p)'
    BY <1>4 DEF CallShape
  <2>4. LogOf(p)'
    BY <1>1, <1>2, <1>4 DEF Live, LogOf
  <2> QED
    BY <2>2, <2>3, <2>4 DEF Live
<1>8. Freed(p)' = Freed(p)
  BY <1>1, <1>4 DEF Freed
<1>9. \A ip \in Inode : lock'[ip] = None =>
         Filled(Now, ip, 0, inode[ip].size) /\ mem.dinode[ip] = inode[ip]
  BY <1>1 DEF IInv, Shape
<1> QED
  BY <1>1, <1>4, <1>5, <1>6, <1>7, <1>8, <1>9, QuietStep

LEMMA IlockStep ==
  ASSUME IInv, NEW p \in Process, Ilock(p)
  PROVE  IInv'
<1> DEFINE ip == call[p].ip
           l  == IF call[p].file = None THEN "trunc" ELSE "write"
<1>1. /\ pc[p] = "lock" /\ pc' = [pc EXCEPT ![p] = l] /\ lock[ip] = None
      /\ lock' = [lock EXCEPT ![ip] = p]
      /\ UNCHANGED <<store, inode, outstanding, off, call, logged, panicked, counters>>
  BY DEF Ilock, Goto
<1>2. Typed /\ Locks /\ Live(p) /\ CallOf(p)
  BY DEF IInv, Live
<1>3. pc \in [Process -> Points] /\ lock \in [Inode -> Process \cup {None}]
  BY <1>2 DEF Typed
<1>4. /\ pc'[p] = l /\ call' = call /\ logged' = logged
      /\ \A q \in Process : q # p =>
           pc'[q] = pc[q] /\ call'[q] = call[q] /\ logged'[q] = logged[q]
  BY <1>1, <1>3
<1>5. ip \in Inode /\ call[p].tot = 0
  <2>1. CASE call[p].file # None
    BY <1>1, <1>2, <2>1, ChunkTypes DEF Writing, CallOf
  <2>2. CASE call[p].file = None
    BY <1>1, <1>2, <2>2 DEF CallOf, Removing
  <2> QED
    BY <2>1, <2>2
<1>6. Typed'
  <2>1. pc' \in [Process -> Points]
    BY <1>1, <1>3 DEF Points
  <2>2. lock' \in [Inode -> Process \cup {None}]
    BY <1>1, <1>3, Zenon
  <2> QED
    BY <1>1, <1>2, <2>1, <2>2 DEF Typed, store
<1>7. Locks'
  <2>1. LockStep(p)
    BY <1>1, <1>4, <1>5 DEF LockStep, Inside
  <2>2. outstanding' = outstanding \cup {p}
    BY <1>1, <1>2 DEF Locks
  <2> QED
    BY <1>2, <1>4, <1>6, <2>1, <2>2, LocksStep DEF Inside
<1>8. Filled(Now, ip, 0, inode[ip].size) /\ mem.dinode[ip] = inode[ip]
  BY <1>1, <1>5 DEF IInv, Shape
<1>9. mem' = mem /\ inode' = inode /\ Now' = Now
  BY <1>1 DEF store, Now, Map, Place, All, Places
<1>10. Live(p)'
  <2>1. N1(p)' = N1(p)
    BY <1>4 DEF N1
  <2>2. CallOf(p)'
    BY <1>1, <1>2, <1>4, <1>5, <2>1 DEF CallOf, Writing, Removing
  <2>3. ASSUME call[p].file # None
        PROVE  End(p)' = inode[ip].size
    <3>1. off[call[p].file] \in Nat /\ call[p].file \in File /\ ip = InodeOf[call[p].file]
      BY <1>1, <1>2, <2>3, ChunkTypes DEF Writing
    <3>2. off[call[p].file] <= inode[ip].size
      BY <3>1 DEF IInv, Shape
    <3>3. Position(p)' = off[call[p].file]
      BY <1>1, <1>4, <1>5, <3>1 DEF Position
    <3> QED
      BY <1>2, <1>4, <1>5, <1>9, <3>1, <3>2, <3>3, NodeTypes DEF End
  <2>4. CallShape(p)'
    <3>1. CASE call[p].file # None
      <4>1. pc'[p] = "write" /\ call'[p].ip = ip
        BY <1>4, <3>1
      <4> QED
        BY <1>8, <1>9, <2>3, <3>1, <4>1 DEF CallShape, Filled, Spot
    <3>2. CASE call[p].file = None
      <4>1. pc'[p] = "trunc" /\ call'[p].ip = ip /\ call'[p].tot = 0
        BY <1>4, <1>5, <3>2
      <4> QED
        BY <1>8, <1>9, <4>1 DEF CallShape, Filled, Spot
    <3> QED
      BY <3>1, <3>2
  <2>5. logged'[p] = {}
    BY <1>1, <1>2, <1>4 DEF Live, LogOf
  <2>6. LogOf(p)'
    BY <2>5, EmptyLog DEF LogOf
  <2> QED
    BY <2>2, <2>4, <2>6 DEF Live
<1>11. Freed(p)' = Freed(p)
  BY <1>1, <1>4, <1>5 DEF Freed
<1>12. \A j \in Inode : lock'[j] = None =>
         Filled(Now, j, 0, inode[j].size) /\ mem.dinode[j] = inode[j]
  BY <1>1, <1>3, <1>5, Layout DEF IInv, Shape
<1> QED
  BY <1>1, <1>4, <1>6, <1>7, <1>10, <1>11, <1>12, QuietStep

LEMMA PanicStep ==
  ASSUME IInv, NEW p \in Process, BallocPanic(p)
  PROVE  IInv'
<1>1. /\ panicked' = TRUE
      /\ UNCHANGED <<store, inode, lock, outstanding, off, procs, counters>>
  BY DEF BallocPanic
<1>2. UNCHANGED <<pc, call, logged>>
  BY <1>1 DEF procs
<1>3. Typed /\ Locks /\ Live(p)
  BY DEF IInv
<1>4. Typed'
  BY <1>1, <1>2, <1>3 DEF Typed, store
<1>5. Locks'
  BY <1>1, <1>2, <1>3 DEF Locks
<1>6. Undisturbed(p)
  BY <1>1, <1>2, QuietOther
<1>7. Live(p)'
  BY <1>3, <1>6, OthersLive
<1>8. Freed(p)' = Freed(p)
  BY <1>2, FreedSame
<1>9. \A ip \in Inode : lock'[ip] = None =>
         Filled(Now, ip, 0, inode[ip].size) /\ mem.dinode[ip] = inode[ip]
  BY <1>1 DEF IInv, Shape
<1> QED
  BY <1>1, <1>2, <1>4, <1>5, <1>7, <1>8, <1>9, QuietStep

\* writei refuses the range: it has written nothing of this chunk.
LEMMA WriteBadStep ==
  ASSUME IInv, NEW p \in Process, WriteBad(p)
  PROVE  IInv'
<1> DEFINE ip == call[p].ip
<1>1. /\ pc[p] = "write" /\ BadRange(p) /\ pc' = [pc EXCEPT ![p] = "end"]
      /\ lock' = [lock EXCEPT ![ip] = None]
      /\ UNCHANGED <<store, inode, outstanding, off, call, logged, panicked, counters>>
  BY DEF WriteBad, Goto
<1>2. Typed /\ Locks /\ Live(p) /\ CallOf(p) /\ CallShape(p) /\ LogOf(p)
  BY DEF IInv, Live
<1>3. pc \in [Process -> Points] /\ lock \in [Inode -> Process \cup {None}]
  BY <1>2 DEF Typed
<1>4. /\ pc'[p] = "end" /\ call' = call /\ logged' = logged
      /\ \A q \in Process : q # p =>
           pc'[q] = pc[q] /\ call'[q] = call[q] /\ logged'[q] = logged[q]
  BY <1>1, <1>3
<1>5. Writing(p)
  BY <1>1, <1>2, WriteIsWriting
<1>6. /\ ip \in Inode /\ off[call[p].file] \in Nat /\ Position(p) = off[call[p].file] + call[p].tot
      /\ call[p].tot \in Nat /\ call[p].file \in File /\ ip = InodeOf[call[p].file]
  BY <1>2, <1>5, ChunkTypes
<1>7. call[p].tot = 0
  BY <1>1, <1>2, <1>6 DEF CallOf
<1>8. Position(p) <= inode[ip].size /\ End(p) = inode[ip].size
  <2>1. off[call[p].file] <= inode[ip].size
    BY <1>6 DEF IInv, Shape
  <2>2. Position(p) = off[call[p].file]
    BY <1>6, <1>7
  <2>3. inode[ip].size \in Nat
    BY <1>2, <1>6, NodeTypes
  <2> QED
    BY <1>6, <2>1, <2>2, <2>3 DEF End
<1>9. Filled(Now, ip, 0, inode[ip].size) /\ mem.dinode[ip] = inode[ip]
  BY <1>1, <1>2, <1>8 DEF CallShape
<1>10. Typed'
  <2>1. pc' \in [Process -> Points]
    BY <1>1, <1>3 DEF Points
  <2>2. lock' \in [Inode -> Process \cup {None}]
    BY <1>1, <1>3, Zenon
  <2> QED
    BY <1>1, <1>2, <2>1, <2>2 DEF Typed, store
<1>11. Locks'
  <2>1. UnlockStep(p)
    BY <1>1, <1>4 DEF UnlockStep, Inside
  <2>2. outstanding' = outstanding \cup {p}
    BY <1>1, <1>2 DEF Locks, Inside
  <2> QED
    BY <1>2, <1>4, <1>10, <2>1, <2>2, LocksStep DEF Inside
<1>12. Live(p)'
  <2>1. N1(p)' = N1(p)
    BY <1>4 DEF N1
  <2>2. CallOf(p)'
    BY <1>1, <1>2, <1>4, <1>5, <2>1 DEF CallOf, Writing, Removing
  <2>3. CallShape(p)'
    BY <1>4 DEF CallShape
  <2>4. LogOf(p)'
    BY <1>2, <1>4 DEF LogOf
  <2> QED
    BY <2>2, <2>3, <2>4 DEF Live
<1>13. Freed(p)' = Freed(p)
  BY <1>1, <1>4 DEF Freed
<1>14. \A j \in Inode : lock'[j] = None =>
         Filled(Now, j, 0, inode[j].size) /\ mem.dinode[j] = inode[j]
  BY <1>1, <1>3, <1>9 DEF IInv, Shape
<1> QED
  BY <1>1, <1>4, <1>10, <1>11, <1>12, <1>13, <1>14, QuietStep

(***************************************************************************)
(* Steps that move an offset.                                              *)
(***************************************************************************)

LEMMA OffStep ==
  ASSUME IInv, UNCHANGED <<store, inode, lock, outstanding, procs, panicked>>, Typed',
         \A q \in Process : Undisturbed(q),
         \A f \in File : off'[f] <= inode[InodeOf[f]].size
  PROVE  IInv'
<1>1. /\ mem' = mem /\ disk' = disk /\ inode' = inode /\ lock' = lock
      /\ outstanding' = outstanding /\ pc' = pc /\ call' = call /\ logged' = logged
  BY DEF store, procs
<1>2. Now' = Now /\ Stable' = Stable
  BY <1>1 DEF Now, Stable, Map, Place, All, Places
<1>3. \A q \in Process : Freed(q)' = Freed(q)
  BY <1>1, FreedSame
<1>4. Kept' = Kept
  BY <1>3, KeptSame
<1>5. Exact(disk.used, Stable, All)'
  BY <1>1, <1>2 DEF IInv, Exact, All, Places
<1>6. Exact(mem.used, Now, Kept)'
  BY <1>1, <1>2, <1>4 DEF IInv, Exact
<1>7. Shape'
  <2>1. \A ip \in Inode : Filled(Stable, ip, 0, disk.dinode[ip].size)'
    BY <1>1, <1>2 DEF IInv, Shape, Filled, Spot
  <2>2. \A ip \in Inode : lock'[ip] = None =>
          Filled(Now, ip, 0, inode[ip].size)' /\ mem'.dinode[ip] = inode'[ip]
    BY <1>1, <1>2 DEF IInv, Shape, Filled, Spot
  <2>3. \A f \in File : off'[f] <= inode'[InodeOf[f]].size
    BY <1>1
  <2> QED
    BY <2>1, <2>2, <2>3 DEF Shape
<1>8. Locks'
  BY <1>1 DEF IInv, Locks
<1>9. \A q \in Process : Live(q)'
  BY OthersLive DEF IInv
<1> QED
  BY <1>5, <1>6, <1>7, <1>8, <1>9 DEF IInv

\* The part of Undisturbed that is not about offsets.
LEMMA OffOther ==
  ASSUME IInv, NEW q \in Process, UNCHANGED <<store, inode, procs>>,
         Writing(q) => off'[call[q].file] # Closed,
         pc[q] = "write" => off'[call[q].file] = off[call[q].file],
         Removing(q) => \A f \in File : InodeOf[f] = call[q].ip => off'[f] = Closed
  PROVE  Undisturbed(q)
<1>1. mem' = mem /\ inode' = inode /\ pc' = pc /\ call' = call /\ logged' = logged
  BY DEF store, procs
<1>2. Now' = Now
  BY <1>1 DEF Now, Map, Place, All, Places
<1> QED
  BY <1>1, <1>2 DEF Undisturbed

LEMMA OpenStep ==
  ASSUME IInv, NEW f \in File, Open(f)
  PROVE  IInv'
<1>1. /\ off[f] = Closed /\ off' = [off EXCEPT ![f] = 0]
      /\ \A p \in Process : call[p].ip # InodeOf[f] \/ call[p].file # None
      /\ UNCHANGED <<store, inode, lock, outstanding, procs, panicked, counters>>
  BY DEF Open
<1>2. Typed /\ InodeOf[f] \in Inode /\ 0 \in 0..(MAXFILE * BSIZE)
  BY Layout DEF IInv
<1>3. off \in [File -> 0..(MAXFILE * BSIZE) \cup {Closed}]
  BY <1>2 DEF Typed
<1>4. Typed'
  <2>1. off' \in [File -> 0..(MAXFILE * BSIZE) \cup {Closed}]
    BY <1>1, <1>2, <1>3
  <2> QED
    BY <1>1, <1>2, <2>1 DEF Typed, store, procs
<1>5. ASSUME NEW q \in Process
      PROVE  Undisturbed(q)
  <2>1. CallOf(q)
    BY DEF IInv, Live
  <2>2. Writing(q) => off'[call[q].file] = off[call[q].file] /\ off[call[q].file] # Closed
    BY <1>1, <1>3, <2>1 DEF CallOf
  <2>3. Removing(q) => \A g \in File : InodeOf[g] = call[q].ip => off'[g] = Closed
    BY <1>1, <1>3, <2>1 DEF CallOf, Removing
  <2>4. pc[q] = "write" => Writing(q)
    BY <1>2, <2>1, WriteIsWriting
  <2> QED
    BY <1>1, <2>2, <2>3, <2>4, OffOther
<1>6. \A g \in File : off'[g] <= inode[InodeOf[g]].size
  <2>1. inode[InodeOf[f]].size \in Nat
    BY <1>2, NodeTypes
  <2> QED
    BY <1>1, <1>3, <2>1 DEF IInv, Shape
<1> QED
  BY <1>1, <1>4, <1>5, <1>6, OffStep

LEMMA CloseStep ==
  ASSUME IInv, NEW f \in File, Close(f)
  PROVE  IInv'
<1>1. /\ off[f] # Closed /\ off' = [off EXCEPT ![f] = Closed]
      /\ \A p \in Process : call[p].file # f
      /\ UNCHANGED <<store, inode, lock, outstanding, procs, panicked, counters>>
  BY DEF Close, Unused
<1>2. Typed /\ InodeOf[f] \in Inode
  BY Layout DEF IInv
<1>3. off \in [File -> 0..(MAXFILE * BSIZE) \cup {Closed}]
  BY <1>2 DEF Typed
<1>4. Typed'
  <2>1. off' \in [File -> 0..(MAXFILE * BSIZE) \cup {Closed}]
    BY <1>1, <1>3
  <2> QED
    BY <1>1, <1>2, <2>1 DEF Typed, store, procs
<1>5. ASSUME NEW q \in Process
      PROVE  Undisturbed(q)
  <2>1. CallOf(q)
    BY DEF IInv, Live
  <2>2. Writing(q) => off'[call[q].file] = off[call[q].file] /\ off[call[q].file] # Closed
    BY <1>1, <1>3, <2>1 DEF CallOf
  <2>3. Removing(q) => \A g \in File : InodeOf[g] = call[q].ip => off'[g] = Closed
    BY <1>1, <1>3, <2>1 DEF CallOf
  <2>4. pc[q] = "write" => Writing(q)
    BY <1>2, <2>1, WriteIsWriting
  <2> QED
    BY <1>1, <2>2, <2>3, <2>4, OffOther
<1>6. \A g \in File : off'[g] <= inode[InodeOf[g]].size
  <2>1. inode[InodeOf[f]].size \in Nat
    BY <1>2, NodeTypes
  <2>2. off'[f] <= inode[InodeOf[f]].size
    BY <1>1, <1>3, <2>1 DEF Closed
  <2> QED
    BY <1>1, <1>3, <2>2 DEF IInv, Shape
<1> QED
  BY <1>1, <1>4, <1>5, <1>6, OffStep

LEMMA ReadStep ==
  ASSUME IInv, NEW p \in Process, NEW f \in File, Read(p, f)
  PROVE  IInv'
<1> DEFINE size == inode[InodeOf[f]].size
<1>1. /\ off[f] # Closed /\ lock[InodeOf[f]] = None /\ off[f] <= size
      /\ UNCHANGED <<store, inode, lock, outstanding, procs, panicked, counters>>
  BY DEF Read
<1>2. PICK n \in Lengths : off' = [off EXCEPT ![f] = Lesser(off[f] + n, size)]
  BY Zenon DEF Read
<1>3. Typed /\ Locks /\ InodeOf[f] \in Inode
  BY Layout DEF IInv
<1>4. off \in [File -> 0..(MAXFILE * BSIZE) \cup {Closed}]
  BY <1>3 DEF Typed
<1>5. n \in Nat /\ size \in Nat /\ size <= MAXFILE * BSIZE /\ MAXFILE * BSIZE \in Nat
  BY <1>3, NodeTypes, Layout
<1>6. off[f] \in Nat
  BY <1>1, <1>4, <1>5
<1> DEFINE new == Lesser(off[f] + n, size)
<1>7. new \in Nat /\ new <= size
  BY <1>5, <1>6 DEF Lesser
<1>8. off'[f] = new /\ \A g \in File : g # f => off'[g] = off[g]
  BY <1>2, <1>4
<1> HIDE DEF new, size
<1>9. Typed'
  <2>1. off' \in [File -> 0..(MAXFILE * BSIZE) \cup {Closed}]
    BY <1>2, <1>4, <1>5, <1>7 DEF new
  <2> QED
    BY <1>1, <1>3, <2>1 DEF Typed, store, procs
<1>10. ASSUME NEW q \in Process
       PROVE  Undisturbed(q)
  <2>1. CallOf(q)
    BY DEF IInv, Live
  <2>2. Writing(q) => off'[call[q].file] # Closed
    <3>1. new # Closed
      BY <1>7 DEF Closed
    <3>2. Writing(q) => call[q].file \in File /\ off[call[q].file] # Closed
      BY <1>3, <2>1, ChunkTypes DEF CallOf
    <3> QED
      BY <1>8, <3>1, <3>2
  <2>3. pc[q] = "write" => off'[call[q].file] = off[call[q].file]
    <3> SUFFICES ASSUME pc[q] = "write"
                 PROVE  off'[call[q].file] = off[call[q].file]
      OBVIOUS
    <3>1. Writing(q)
      BY <1>3, <2>1, WriteIsWriting
    <3>2. call[q].file \in File /\ call[q].ip = InodeOf[call[q].file]
      BY <1>3, <2>1, <3>1, ChunkTypes
    <3>3. lock[call[q].ip] = q /\ q # None
      BY <1>3, Layout DEF Locks, Inside
    <3>4. call[q].file # f
      BY <1>1, <3>2, <3>3
    <3> QED
      BY <1>8, <3>2, <3>4
  <2>4. Removing(q) => \A g \in File : InodeOf[g] = call[q].ip => off'[g] = Closed
    <3>1. Removing(q) => \A g \in File : InodeOf[g] = call[q].ip => off[g] = Closed
      BY <2>1 DEF CallOf
    <3> QED
      BY <1>1, <1>8, <3>1
  <2> QED
    BY <1>1, <2>2, <2>3, <2>4, OffOther
<1>11. \A g \in File : off'[g] <= inode[InodeOf[g]].size
  BY <1>7, <1>8 DEF IInv, Shape, size
<1> QED
  BY <1>1, <1>9, <1>10, <1>11, OffStep

(***************************************************************************)
(* The end of a chunk, and of a transaction.                               *)
(***************************************************************************)

\* Only the size of an inode changes: every place stays.
LEMMA SizeChange ==
  ASSUME NEW cell, NEW nodes \in [Inode -> Nodes], NEW nodes2,
         \A ip \in Inode : nodes2[ip].addrs = nodes[ip].addrs
  PROVE  Map(cell, nodes2) = Map(cell, nodes)
BY DEF Map, Place, All

LEMMA WriteDoneStep ==
  ASSUME IInv, NEW p \in Process, WriteDone(p)
  PROVE  IInv'
<1> DEFINE ip == call[p].ip
           f  == call[p].file
           end == Position(p)
           grow == end > inode[ip].size
           node == [inode[ip] EXCEPT !.size = end]
<1>1. /\ pc[p] = "write" /\ ~BadRange(p) /\ call[p].tot = N1(p)
      /\ pc' = [pc EXCEPT ![p] = "end"]
      /\ off' = [off EXCEPT ![f] = end]
      /\ lock' = [lock EXCEPT ![ip] = None]
      /\ disk' = disk /\ outstanding' = outstanding /\ call' = call /\ panicked' = panicked
  BY DEF WriteDone, Goto
<1>2. /\ grow => /\ inode' = [inode EXCEPT ![ip] = node]
                 /\ mem' = [mem EXCEPT !.dinode[ip] = node]
                 /\ logged' = [logged EXCEPT ![p] = @ \cup {DiskInode}]
      /\ ~grow => inode' = inode /\ mem' = mem /\ logged' = logged
  BY DEF WriteDone
<1>3. Typed /\ Locks /\ Live(p) /\ CallOf(p) /\ CallShape(p) /\ LogOf(p) /\ Shape
  BY DEF IInv, Live
<1>4. Writing(p)
  BY <1>1, <1>3, WriteIsWriting
<1>5. /\ ip \in Inode /\ off[f] \in Nat /\ f \in File /\ ip = InodeOf[f]
      /\ end \in Nat /\ end = off[f] + N1(p) /\ N1(p) \in Nat /\ N1(p) > 0
  BY <1>1, <1>3, <1>4, ChunkTypes
<1>6. /\ inode[ip] \in Nodes /\ inode[ip].size \in Nat
      /\ end <= MAXFILE * BSIZE /\ MAXFILE * BSIZE \in Nat
  BY <1>1, <1>3, <1>5, NodeTypes, Layout DEF BadRange
<1> HIDE DEF end
<1>7. node \in Nodes /\ node.size = end /\ node.addrs = inode[ip].addrs
  BY <1>5, <1>6 DEF Nodes
<1> HIDE DEF node
<1>8. /\ pc \in [Process -> Points] /\ lock \in [Inode -> Process \cup {None}]
      /\ logged \in [Process -> SUBSET Items] /\ inode \in [Inode -> Nodes]
      /\ off \in [File -> 0..(MAXFILE * BSIZE) \cup {Closed}] /\ mem \in Stores
  BY <1>3 DEF Typed
<1>9. /\ mem'.used = mem.used /\ mem'.cell = mem.cell /\ mem' \in Stores
      /\ mem'.dinode[ip] = IF grow THEN node ELSE mem.dinode[ip]
      /\ \A j \in Inode : j # ip => mem'.dinode[j] = mem.dinode[j]
  <2>1. CASE grow
    BY <1>2, <1>5, <1>7, <1>8, <2>1 DEF Stores
  <2>2. CASE ~grow
    BY <1>2, <1>8, <2>2
  <2> QED
    BY <2>1, <2>2
<1>10. /\ inode' \in [Inode -> Nodes]
       /\ inode'[ip] = IF grow THEN node ELSE inode[ip]
       /\ \A j \in Inode : j # ip => inode'[j] = inode[j]
       /\ \A j \in Inode : inode'[j].addrs = inode[j].addrs
  <2>1. CASE grow
    BY <1>2, <1>5, <1>7, <1>8, <2>1
  <2>2. CASE ~grow
    BY <1>2, <1>8, <2>2
  <2> QED
    BY <2>1, <2>2
<1>11. Now' = Now /\ Stable' = Stable
  <2>1. Now' = Map(mem.cell, inode')
    BY <1>9 DEF Now, Map, Place, All, Places
  <2>2. Map(mem.cell, inode') = Map(mem.cell, inode)
    BY <1>8, <1>10, SizeChange
  <2> QED
    BY <1>1, <2>1, <2>2 DEF Now, Stable, Map, Place, All, Places
<1>12. /\ pc'[p] = "end"
       /\ \A q \in Process : q # p =>
            pc'[q] = pc[q] /\ call'[q] = call[q] /\ logged'[q] = logged[q]
  BY <1>1, <1>2, <1>8
<1>13. logged' \in [Process -> SUBSET Items]
       /\ logged'[p] \subseteq logged[p] \cup {DiskInode}
  <2>1. DiskInode \in Items
    BY DEF Items
  <2> QED
    BY <1>2, <1>8, <2>1
<1>14. Typed'
  <2>1. pc' \in [Process -> Points]
    BY <1>1, <1>8 DEF Points
  <2>2. lock' \in [Inode -> Process \cup {None}]
    BY <1>1, <1>8, Zenon
  <2>3. off' \in [File -> 0..(MAXFILE * BSIZE) \cup {Closed}]
    BY <1>1, <1>5, <1>6, <1>8
  <2> QED
    BY <1>1, <1>3, <1>9, <1>10, <1>13, <2>1, <2>2, <2>3 DEF Typed
<1>15. Locks'
  <2>1. UnlockStep(p)
    BY <1>1, <1>12 DEF UnlockStep, Inside
  <2>2. outstanding' = outstanding \cup {p}
    BY <1>1, <1>3 DEF Locks, Inside
  <2>3. \A q \in Process : q # p => pc'[q] = pc[q] /\ call'[q] = call[q]
    BY <1>12
  <2> QED
    BY <1>3, <1>12, <1>14, <2>1, <2>2, <2>3, LocksStep DEF Inside
<1>16. off'[f] = end /\ \A g \in File : g # f => off'[g] = off[g]
  BY <1>1, <1>5, <1>8
<1>17. Live(p)'
  <2>1. N1(p)' = N1(p)
    BY <1>1 DEF N1
  <2>2. CallOf(p)'
    <3>1. off'[f] # Closed
      BY <1>5, <1>16 DEF Closed
    <3> QED
      BY <1>1, <1>3, <1>4, <1>12, <2>1, <3>1 DEF CallOf, Writing, Removing
  <2>3. CallShape(p)'
    BY <1>12 DEF CallShape
  <2>4. Cardinality(logged'[p]) <= MAXOPBLOCKS
    <3>1. logged[p] \subseteq ChunkLog(p)
      BY <1>1, <1>3 DEF LogOf
    <3>2. IsFiniteSet(ChunkLog(p)) /\ Cardinality(ChunkLog(p)) <= MAXOPBLOCKS - 1
      BY <1>3, <1>4, ChunkFits DEF Fits
    <3>3. IsFiniteSet({DiskInode}) /\ Cardinality({DiskInode}) = 1
      BY FS_Singleton, Zenon
    <3> DEFINE n == MAXOPBLOCKS - 1
               m == 1
               C == ChunkLog(p)
               D == {DiskInode}
    <3>4. n \in Nat /\ Cardinality(C) <= n /\ m \in Nat /\ Cardinality(D) <= m
          /\ n + m \in Nat /\ n + m = MAXOPBLOCKS
      BY <3>2, <3>3, Layout
    <3>5. IsFiniteSet(C) /\ IsFiniteSet(D) /\ logged'[p] \in SUBSET (C \cup D)
      BY <1>13, <3>1, <3>2, <3>3
    <3> HIDE DEF n, m, C, D
    <3>6. IsFiniteSet(C \cup D) /\ Cardinality(C \cup D) <= n + m
      BY ONLY <3>4, <3>5, SmallUnion, Zenon
    <3> DEFINE E == C \cup D
               k == n + m
    <3>7. IsFiniteSet(E) /\ logged'[p] \in SUBSET E /\ k \in Nat /\ Cardinality(E) <= k
      BY <3>4, <3>5, <3>6
    <3> HIDE DEF E, k
    <3>8. Cardinality(logged'[p]) <= k
      BY ONLY <3>7, SmallSubset
    <3> QED
      BY <3>4, <3>8 DEF k
  <2>5. LogOf(p)'
    BY <1>12, <2>4 DEF LogOf
  <2> QED
    BY <2>2, <2>3, <2>5 DEF Live
<1>18. ASSUME NEW q \in Process, q # p
       PROVE  Undisturbed(q)
  <2>1. CallOf(q) /\ pc'[q] = pc[q] /\ call'[q] = call[q] /\ logged'[q] = logged[q]
    BY <1>12, <1>18 DEF IInv, Live
  <2>2. Writing(q) => off'[call[q].file] # Closed
    <3>1. end # Closed
      BY <1>5 DEF Closed
    <3>2. Writing(q) => call[q].file \in File /\ off[call[q].file] # Closed
      BY <1>3, <2>1, ChunkTypes DEF CallOf
    <3> QED
      BY <1>16, <3>1, <3>2
  <2>3. pc[q] \in Inside => call[q].ip # ip /\ call[q].ip \in Inode
    <3>1. pc[q] \in Inside => call[q].ip # ip
      BY <1>1, <1>3, <1>18, Mutex DEF Inside
    <3>2. pc[q] \in Inside => call[q].ip \in Inode
      BY <1>3, <2>1, InsideTypes DEF InsideType
    <3> QED
      BY <3>1, <3>2
  <2>4. pc[q] = "write" => off'[call[q].file] = off[call[q].file]
    <3> SUFFICES ASSUME pc[q] = "write"
                 PROVE  off'[call[q].file] = off[call[q].file]
      OBVIOUS
    <3>1. Writing(q)
      BY <1>3, <2>1, WriteIsWriting
    <3>2. call[q].file \in File /\ call[q].ip = InodeOf[call[q].file]
      BY <1>3, <2>1, <3>1, ChunkTypes
    <3>3. call[q].file # f
      BY <1>5, <2>3, <3>2 DEF Inside
    <3> QED
      BY <1>16, <3>2, <3>3
  <2>5. Removing(q) => \A g \in File : InodeOf[g] = call[q].ip => off'[g] = Closed
    <3>1. Removing(q) => \A g \in File : InodeOf[g] = call[q].ip => off[g] = Closed
      BY <2>1 DEF CallOf
    <3>2. off[f] # Closed
      BY <1>5 DEF Closed
    <3> QED
      BY <1>16, <3>1, <3>2
  <2>6. pc[q] \in Inside => inode'[call[q].ip] = inode[call[q].ip]
                            /\ mem'.dinode[call[q].ip] = mem.dinode[call[q].ip]
    BY <1>9, <1>10, <2>3
  <2> QED
    BY <1>11, <2>1, <2>2, <2>4, <2>5, <2>6 DEF Undisturbed
<1>19. Kept' = Kept
  <2>1. Freed(p)' = Freed(p)
    BY <1>1, <1>12 DEF Freed
  <2>2. \A q \in Process : q # p => Freed(q)' = Freed(q)
    BY <1>12, FreedSame
  <2> QED
    BY <2>1, <2>2, KeptSame
<1>20. Exact(disk.used, Stable, All)'
  BY <1>1, <1>11 DEF IInv, Exact, All, Places
<1>21. Exact(mem.used, Now, Kept)'
  BY <1>9, <1>11, <1>19 DEF IInv, Exact
<1>22. Shape'
  <2>1. \A j \in Inode : Filled(Stable, j, 0, disk.dinode[j].size)'
    BY <1>1, <1>3, <1>11 DEF Shape, Filled, Spot
  <2>2. Filled(Now, ip, 0, inode[ip].size)' /\ mem'.dinode[ip] = inode'[ip]
    <3>1. Filled(Now, ip, 0, End(p))
      BY <1>1, <1>3 DEF CallShape
    <3>2. End(p) = inode'[ip].size
      BY <1>7, <1>10 DEF End, end
    <3>3. Filled(Now, ip, 0, inode[ip].size)'
      BY <1>1, <1>11, <3>1, <3>2 DEF Filled, Spot
    <3>4. ~grow => mem.dinode[ip] = inode[ip]
      <4>1. ~grow => end <= inode[ip].size
        BY <1>5, <1>6
      <4> QED
        BY <1>1, <1>3, <4>1 DEF CallShape, end
    <3> QED
      BY <1>9, <1>10, <3>3, <3>4
  <2>3. ASSUME NEW j \in Inode, j # ip, lock'[j] = None
        PROVE  Filled(Now, j, 0, inode[j].size)' /\ mem'.dinode[j] = inode'[j]
    <3>1. lock[j] = None
      BY <1>1, <1>8, <2>3
    <3>2. Filled(Now, j, 0, inode[j].size) /\ mem.dinode[j] = inode[j]
      BY <1>3, <3>1 DEF Shape
    <3>3. mem'.dinode[j] = mem.dinode[j] /\ inode'[j] = inode[j]
      BY <1>9, <1>10, <2>3
    <3> QED
      BY <1>11, <3>2, <3>3 DEF Filled, Spot
  <2>4. ASSUME NEW g \in File
        PROVE  off'[g] <= inode'[InodeOf[g]].size
    <3>1. InodeOf[g] \in Inode /\ off[g] <= inode[InodeOf[g]].size
      BY <1>3, Layout DEF Shape
    <3>2. off[g] \in Int /\ inode[InodeOf[g]].size \in Nat
      BY <1>3, <1>6, <1>8, <3>1, NodeTypes DEF Closed
    <3>3. inode[InodeOf[g]].size <= inode'[InodeOf[g]].size /\ inode'[InodeOf[g]].size \in Nat
      BY <1>5, <1>7, <1>10, <3>1, <3>2
    <3>4. CASE g = f
      <4>1. end <= inode'[ip].size
        BY <1>5, <1>6, <1>7, <1>10
      <4> QED
        BY <1>5, <1>16, <3>4, <4>1
    <3>5. CASE g # f
      BY <1>16, <3>1, <3>2, <3>3, <3>5
    <3> QED
      BY <3>4, <3>5
  <2>5. \A j \in Inode : lock'[j] = None =>
          Filled(Now, j, 0, inode[j].size)' /\ mem'.dinode[j] = inode'[j]
    <3>1. call'[p].ip = call[p].ip
      BY <1>1
    <3> QED
      BY <2>2, <2>3, <3>1
  <2>6. \A g \in File : off'[g] <= inode'[InodeOf[g]].size
    BY <2>4
  <2> QED
    BY ONLY <2>1, <2>5, <2>6 DEF Shape
<1> QED
  BY <1>14, <1>15, <1>17, <1>18, <1>20, <1>21, <1>22, StepInv

\* When the last call of a transaction ends nobody is inside writei or itrunc.
LEMMA LastEnds ==
  ASSUME IInv, NEW p \in Process, pc[p] = "end", outstanding = {p}
  PROVE  /\ mem.dinode = inode /\ Kept = All
         /\ \A ip \in Inode : Filled(Now, ip, 0, inode[ip].size)
<1>1. Typed /\ Locks /\ Shape
  BY DEF IInv
<1>2. \A q \in Process : pc[q] \notin Inside
  BY <1>1 DEF Locks, Inside
<1>3. \A ip \in Inode : lock[ip] = None
  <2>1. \A ip \in Inode : lock[ip] \in Process \cup {None}
    BY <1>1 DEF Typed
  <2> QED
    BY <1>1, <1>2, <2>1 DEF Locks
<1>4. \A ip \in Inode : Filled(Now, ip, 0, inode[ip].size) /\ mem.dinode[ip] = inode[ip]
  BY <1>1, <1>3 DEF Shape
<1>5. mem.dinode = inode
  <2>1. mem.dinode \in [Inode -> Nodes] /\ inode \in [Inode -> Nodes]
    BY <1>1 DEF Typed, Stores
  <2> QED
    BY <1>4, <2>1
<1>6. Kept = All
  <2>1. \A q \in Process : Freed(q) = {}
    BY <1>2 DEF Freed, Inside
  <2> QED
    BY <2>1, KeptFreed
<1> QED
  BY <1>4, <1>5, <1>6

LEMMA EndOpStep ==
  ASSUME IInv, NEW p \in Process, EndOp(p)
  PROVE  IInv'
<1> DEFINE c == call[p]
           i == c.i + c.tot
           more == c.tot > 0 /\ i < c.n
           l == IF more THEN "begin" ELSE "user"
           d == IF more THEN [c EXCEPT !.i = i, !.tot = 0] ELSE NoCall
<1>1. /\ pc[p] = "end" /\ outstanding' = outstanding \ {p}
      /\ disk' = IF outstanding = {p} THEN mem ELSE disk
      /\ logged' = [logged EXCEPT ![p] = {}]
      /\ call' = [call EXCEPT ![p] = d]
      /\ pc' = [pc EXCEPT ![p] = l]
      /\ UNCHANGED <<mem, inode, lock, off, panicked, counters>>
  BY DEF EndOp, Goto
<1>2. Typed /\ Locks /\ Live(p) /\ CallOf(p) /\ Shape
  BY DEF IInv, Live
<1>3. /\ pc \in [Process -> Points] /\ call \in [Process -> CallRecords]
      /\ logged \in [Process -> SUBSET Items]
  BY <1>2 DEF Typed
<1>4. c \in CallRecords /\ c.n \in Nat /\ c.i \in Nat /\ c.tot \in Nat
  BY <1>2, CallTypes
<1>5. more => Writing(p)
  BY <1>1, <1>2, <1>4 DEF CallOf, Writing, Removing
<1>6. /\ d \in CallRecords /\ d.tot = 0
      /\ more => d.file = c.file /\ d.ip = c.ip /\ d.n = c.n /\ d.i = i
  <2>1. CASE more
    <3>1. d = [c EXCEPT !.i = i, !.tot = 0]
      BY <2>1
    <3>2. i \in Nat /\ 0 \in Nat
      BY <1>4
    <3> HIDE DEF d, i, c, more
    <3> QED
      BY <1>4, <3>1, <3>2, Zenon DEF CallRecords
  <2>2. CASE ~more
    BY <2>2, NoCallRecord DEF NoCall
  <2> QED
    BY <2>1, <2>2
<1> HIDE DEF d
<1>7. /\ pc'[p] = l /\ call'[p] = d /\ logged'[p] = {}
      /\ \A q \in Process : q # p =>
           pc'[q] = pc[q] /\ call'[q] = call[q] /\ logged'[q] = logged[q]
  BY <1>1, <1>3
<1>8. Typed'
  <2>1. pc' \in [Process -> Points]
    BY <1>1, <1>3 DEF Points
  <2>2. call' \in [Process -> CallRecords]
    BY <1>1, <1>3, <1>6
  <2>3. logged' \in [Process -> SUBSET Items]
    BY <1>1, <1>3
  <2>4. disk' \in Stores
    BY <1>1, <1>2 DEF Typed
  <2> QED
    BY <1>1, <1>2, <2>1, <2>2, <2>3, <2>4 DEF Typed
<1>9. Locks'
  <2>1. OutsideStep(p)
    BY <1>1, <1>7 DEF OutsideStep, Inside
  <2>2. \A q \in Process : q # p => pc'[q] = pc[q] /\ call'[q] = call[q]
    BY <1>7
  <2>3. outstanding' = IF pc'[p] \in Inside \cup {"lock", "end"}
                       THEN outstanding \cup {p} ELSE outstanding \ {p}
    BY <1>1, <1>7 DEF Inside
  <2> QED
    BY <1>2, <1>8, <2>1, <2>2, <2>3, LocksStep, Zenon
<1>10. Live(p)'
  <2>1. CASE more
    <3>1. Writing(p) /\ Writing(p)' /\ ~Removing(p)'
      BY <1>5, <1>6, <1>7, <2>1 DEF Writing, Removing
    <3>2. N1(p)' \in Nat
      <4>1. Chunk \in Nat
        BY SlotsChunk, Layout
      <4>2. N1(p)' = IF c.n - i < Chunk THEN c.n - i ELSE Chunk
        BY <1>6, <1>7, <2>1 DEF N1, Lesser
      <4> QED
        BY <1>4, <2>1, <4>1, <4>2
    <3>3. /\ call[p].ip = InodeOf[call[p].file] /\ off[call[p].file] # Closed
          /\ call[p].n \in Lengths
      BY <1>2, <3>1 DEF CallOf
    <3>4. CallOf(p)'
      BY <1>1, <1>6, <1>7, <2>1, <3>1, <3>2, <3>3 DEF CallOf
    <3>5. CallShape(p)'
      BY <1>7, <2>1 DEF CallShape
    <3>6. LogOf(p)'
      BY <1>7, <2>1, EmptyLog DEF LogOf
    <3> QED
      BY <3>4, <3>5, <3>6 DEF Live
  <2>2. CASE ~more
    <3>1. pc'[p] = "user" /\ call'[p] = NoCall
      BY <1>7, <2>2 DEF d
    <3>2. CallOf(p)'
      BY <3>1 DEF CallOf, Writing, Removing
    <3>3. CallShape(p)'
      BY <3>1 DEF CallShape
    <3>4. LogOf(p)'
      BY <1>7, <3>1, EmptyLog DEF LogOf
    <3> QED
      BY <3>2, <3>3, <3>4 DEF Live
  <2> QED
    BY <2>1, <2>2
<1>11. Now' = Now
  BY <1>1 DEF Now, Map, Place, All, Places
<1>12. \A q \in Process : q # p => Undisturbed(q)
  <2> SUFFICES ASSUME NEW q \in Process, q # p
               PROVE  Undisturbed(q)
    OBVIOUS
  <2>1. CallOf(q)
    BY DEF IInv, Live
  <2> QED
    BY <1>1, <1>7, <1>11, <2>1 DEF Undisturbed, CallOf
<1>13. Kept' = Kept
  <2>1. Freed(p)' = Freed(p)
    BY <1>1, <1>7 DEF Freed
  <2>2. \A q \in Process : q # p => Freed(q)' = Freed(q)
    BY <1>7, FreedSame
  <2> QED
    BY <2>1, <2>2, KeptSame
<1>14. Exact(mem.used, Now, Kept)'
  BY <1>1, <1>11, <1>13 DEF IInv, Exact
<1>15. Exact(disk.used, Stable, All)' /\ \A j \in Inode : Filled(Stable, j, 0, disk.dinode[j].size)'
  <2>1. CASE outstanding = {p}
    <3>1. /\ mem.dinode = inode /\ Kept = All
          /\ \A ip \in Inode : Filled(Now, ip, 0, inode[ip].size)
      BY <1>1, <2>1, LastEnds
    <3>2. disk' = mem /\ Stable' = Now
      BY <1>1, <2>1, <3>1 DEF Now, Stable, Map, Place, All, Places
    <3>3. Exact(disk.used, Stable, All)'
      BY <3>1, <3>2 DEF IInv, Exact, All, Places
    <3>4. \A j \in Inode : Filled(Stable, j, 0, disk.dinode[j].size)'
      BY <3>1, <3>2 DEF Filled, Spot
    <3> QED
      BY <3>3, <3>4
  <2>2. CASE outstanding # {p}
    <3>1. disk' = disk /\ Stable' = Stable
      BY <1>1, <2>2 DEF Stable, Map, Place, All, Places
    <3>2. Exact(disk.used, Stable, All)'
      BY <3>1 DEF IInv, Exact, All, Places
    <3>3. \A j \in Inode : Filled(Stable, j, 0, disk.dinode[j].size)'
      BY <1>2, <3>1 DEF Shape, Filled, Spot
    <3> QED
      BY <3>2, <3>3
  <2> QED
    BY <2>1, <2>2
<1>16. Shape'
  <2>1. \A j \in Inode : lock'[j] = None =>
          Filled(Now, j, 0, inode[j].size)' /\ mem'.dinode[j] = inode'[j]
    BY <1>1, <1>2, <1>11 DEF Shape, Filled, Spot
  <2>2. \A g \in File : off'[g] <= inode'[InodeOf[g]].size
    BY <1>1, <1>2 DEF Shape
  <2> QED
    BY <1>15, <2>1, <2>2 DEF Shape
<1> QED
  BY <1>8, <1>9, <1>10, <1>12, <1>14, <1>15, <1>16, StepInv

(***************************************************************************)
(* A crash: what is on the disk is in memory again.                        *)
(***************************************************************************)

LEMMA CrashStep ==
  ASSUME IInv, Crash
  PROVE  IInv'
<1>1. /\ mem' = disk /\ inode' = disk.dinode /\ disk' = disk
      /\ lock' = [ip \in Inode |-> None] /\ outstanding' = {}
      /\ off' = [f \in File |-> Closed]
      /\ pc' = [p \in Process |-> "user"]
      /\ call' = [p \in Process |-> NoCall]
      /\ logged' = [p \in Process |-> {}] /\ panicked' = FALSE
  BY DEF Crash
<1>2. Typed /\ Shape /\ Exact(disk.used, Stable, All)
  BY DEF IInv
<1>3. Typed'
  <2>1. disk \in Stores /\ disk.dinode \in [Inode -> Nodes]
    BY <1>2 DEF Typed, Stores
  <2>2. pc' \in [Process -> Points] /\ call' \in [Process -> CallRecords]
        /\ logged' \in [Process -> SUBSET Items]
    BY <1>1, NoCallRecord DEF Points
  <2> QED
    BY <1>1, <2>1, <2>2, Zenon DEF Typed
<1>4. ASSUME NEW p \in Process
      PROVE  Live(p)'
  <2>1. pc'[p] = "user" /\ call'[p] = NoCall /\ logged'[p] = {}
    BY <1>1
  <2>2. CallOf(p)'
    BY <2>1 DEF CallOf, Writing, Removing
  <2>3. CallShape(p)'
    BY <2>1 DEF CallShape
  <2>4. LogOf(p)'
    BY <2>1, EmptyLog DEF LogOf
  <2> QED
    BY <2>2, <2>3, <2>4 DEF Live
<1>5. Locks'
  BY <1>1 DEF Locks, Inside
<1>6. Now' = Stable /\ Stable' = Stable
  BY <1>1 DEF Now, Stable, Map, Place, All, Places
<1>7. (Kept = All)'
  <2>1. \A q \in Process : Freed(q)' = {}
    BY <1>1 DEF Freed
  <2>2. (Kept = {x \in All : \A q \in Process : x \notin Freed(q)})'
    BY KeptFreed, PTL
  <2> QED
    BY <2>1, <2>2
<1>8. Exact(disk.used, Stable, All)'
  BY <1>1, <1>2, <1>6 DEF Exact, All, Places
<1>9. Exact(mem.used, Now, Kept)'
  BY <1>1, <1>2, <1>6, <1>7 DEF Exact, All, Places
<1>10. Shape'
  <2>1. \A j \in Inode : Filled(Stable, j, 0, disk.dinode[j].size)'
    BY <1>1, <1>2, <1>6 DEF Shape, Filled, Spot
  <2>2. \A j \in Inode : Filled(Now, j, 0, inode[j].size)' /\ mem'.dinode[j] = inode'[j]
    BY <1>1, <1>2, <1>6 DEF Shape, Filled, Spot
  <2>3. \A g \in File : off'[g] <= inode'[InodeOf[g]].size
    <3> SUFFICES ASSUME NEW g \in File
                 PROVE  off'[g] <= inode'[InodeOf[g]].size
      OBVIOUS
    <3>1. InodeOf[g] \in Inode
      BY Layout
    <3>2. disk.dinode[InodeOf[g]].size \in Nat
      <4>1. disk.dinode[InodeOf[g]] \in Nodes /\ MAXFILE * BSIZE \in Nat
        BY <1>2, <3>1, Layout DEF Typed, Stores
      <4> QED
        BY <4>1 DEF Nodes
    <3> QED
      BY <1>1, <3>2 DEF Closed
  <2> QED
    BY <2>1, <2>2, <2>3 DEF Shape
<1>11. \A p \in Process : Live(p)'
  BY <1>4
<1> QED
  BY <1>3, <1>5, <1>8, <1>9, <1>10, <1>11 DEF IInv

(***************************************************************************)
(* itrunc.                                                                 *)
(***************************************************************************)

\* A direct address is cleared.
WithoutAddress(nodes, ip, k) == [nodes EXCEPT ![ip].addrs[k] = 0]

LEMMA ClearAddress ==
  ASSUME NEW cell, NEW nodes \in [Inode -> Nodes], NEW ip \in Inode,
         NEW k \in 0..NDIRECT, k < NDIRECT,
         NEW nodes2, nodes2 = WithoutAddress(nodes, ip, k)
  PROVE  /\ nodes2 \in [Inode -> Nodes]
         /\ nodes2[ip].size = nodes[ip].size
         /\ \A j \in Inode : j # ip => nodes2[j] = nodes[j]
         /\ \A x \in All : Map(cell, nodes2)[x] =
                             IF x = <<ip, k>> THEN 0 ELSE Map(cell, nodes)[x]
<1>1. nodes[ip] \in Nodes /\ nodes[ip].addrs \in [0..NDIRECT -> Blocks \cup {0}] /\ NDIRECT \in Nat
  BY Layout DEF Nodes
<1>2. [nodes[ip].addrs EXCEPT ![k] = 0] \in [0..NDIRECT -> Blocks \cup {0}]
  BY <1>1
<1>3. nodes2 = [nodes EXCEPT ![ip] = [nodes[ip] EXCEPT !.addrs = [nodes[ip].addrs EXCEPT ![k] = 0]]]
  BY DEF WithoutAddress
<1> DEFINE node == [nodes[ip] EXCEPT !.addrs = [nodes[ip].addrs EXCEPT ![k] = 0]]
<1>4. node \in Nodes /\ node.size = nodes[ip].size /\ node.addrs = [nodes[ip].addrs EXCEPT ![k] = 0]
  BY <1>1, <1>2, Zenon DEF Nodes
<1> HIDE DEF node
<1>5. nodes2 \in [Inode -> Nodes] /\ nodes2[ip] = node /\ \A j \in Inode : j # ip => nodes2[j] = nodes[j]
  BY <1>3, <1>4 DEF node
<1>6. ASSUME NEW x \in All
      PROVE  Place(nodes2[x[1]], cell, x[2]) =
               IF x = <<ip, k>> THEN 0 ELSE Place(nodes[x[1]], cell, x[2])
  <2>1. x = <<x[1], x[2]>> /\ x[1] \in Inode /\ x[2] \in 0..MAXFILE
    BY AnyPlace DEF Places
  <2>2. CASE x[1] # ip
    BY <1>5, <2>1, <2>2 DEF Place
  <2>3. CASE x[1] = ip /\ x[2] = k
    BY <1>1, <1>4, <1>5, <2>1, <2>3 DEF Place
  <2>4. CASE x[1] = ip /\ x[2] # k
    <3>1. node.addrs[NDIRECT] = nodes[ip].addrs[NDIRECT]
      BY <1>1, <1>4
    <3>2. x[2] <= NDIRECT => node.addrs[x[2]] = nodes[ip].addrs[x[2]]
      <4>1. x[2] <= NDIRECT => x[2] \in 0..NDIRECT
        BY <1>1, <2>1, Layout
      <4> QED
        BY <1>1, <1>4, <2>4, <4>1
    <3>3. x # <<ip, k>>
      BY <2>1, <2>4
    <3> QED
      BY <1>5, <2>4, <3>1, <3>2, <3>3 DEF Place
  <2> QED
    BY <2>2, <2>3, <2>4
<1>7. \A x \in All : Map(cell, nodes2)[x] = Place(nodes2[x[1]], cell, x[2])
                     /\ Map(cell, nodes)[x] = Place(nodes[x[1]], cell, x[2])
  BY DEF Map
<1>8. \A x \in All : Map(cell, nodes2)[x] = IF x = <<ip, k>> THEN 0 ELSE Map(cell, nodes)[x]
  BY ONLY <1>6, <1>7
<1>9. nodes2[ip].size = nodes[ip].size
  BY ONLY <1>4, <1>5
<1> QED
  BY ONLY <1>5, <1>8, <1>9

\* What another call relies on is about its own inode.
LEMMA TruncOther ==
  ASSUME IInv, NEW p \in Process, pc[p] \in Inside, NEW q \in Process, q # p,
         off' = off, pc'[q] = pc[q], call'[q] = call[q], logged'[q] = logged[q],
         \A j \in Inode : j # call[p].ip =>
           /\ inode'[j] = inode[j] /\ mem'.dinode[j] = mem.dinode[j]
           /\ \A k \in Places : Now'[<<j, k>>] = Now[<<j, k>>]
  PROVE  Undisturbed(q)
<1>1. Typed /\ Locks /\ CallOf(q)
  BY DEF IInv, Live
<1>2. pc[q] \in Inside => call[q].ip \in Inode /\ call[q].ip # call[p].ip
  <2>1. pc[q] \in Inside => call[q].ip # call[p].ip
    BY <1>1, Mutex
  <2>2. pc[q] \in Inside => call[q].ip \in Inode
    BY <1>1, InsideTypes DEF InsideType
  <2> QED
    BY <2>1, <2>2
<1>3. pc[q] \in Inside =>
        /\ inode'[call[q].ip] = inode[call[q].ip]
        /\ mem'.dinode[call[q].ip] = mem.dinode[call[q].ip]
        /\ \A k \in Places : Now'[<<call[q].ip, k>>] = Now[<<call[q].ip, k>>]
  BY <1>2
<1> QED
  BY <1>1, <1>3 DEF Undisturbed, CallOf

LEMMA LogTrunc ==
  ASSUME NEW S \in SUBSET TruncLog
  PROVE  Cardinality(S) <= MAXOPBLOCKS
BY TruncFits, SmallSubset, Layout

\* Where itrunc is: nothing before it, and a block of the file at the place.
LEMMA LeftFacts ==
  ASSUME IInv, NEW p \in Process, pc[p] = "trunc", Left(p) # {},
         NEW bn, bn = Min(Left(p)), NEW x, x = <<call[p].ip, Spot(bn)>>
  PROVE  /\ bn \in 0..(MAXFILE - 1) /\ bn >= call[p].tot
         /\ x \in Kept /\ Now[x] \in mem.used /\ Now[x] # 0
         /\ Now[x] = Addr(inode[call[p].ip].addrs, mem.cell, bn)
         /\ \A m \in 0..(MAXFILE - 1) :
              call[p].tot <= m /\ m < bn => Now[<<call[p].ip, Spot(m)>>] = 0
<1>1. Typed /\ Locks /\ CallOf(p) /\ Exact(mem.used, Now, Kept)
  BY DEF IInv, Live
<1>2. call[p].ip \in Inode /\ call[p].tot \in Nat
  BY <1>1, InsideTypes, CallTypes DEF Inside, InsideType
<1>3. Left(p) = {m \in call[p].tot..(MAXFILE - 1) : Addr(inode[call[p].ip].addrs, mem.cell, m) # 0}
  BY DEF Left
<1>4. Left(p) \in SUBSET Nat
  BY <1>2, <1>3, Layout
<1>5. bn \in Left(p) /\ \A m \in Left(p) : bn <= m
  BY <1>4, MinProperties
<1>6. bn \in 0..(MAXFILE - 1) /\ bn >= call[p].tot /\ Addr(inode[call[p].ip].addrs, mem.cell, bn) # 0
  BY <1>2, <1>3, <1>5, Layout, SMTT(30)
<1>7. Now[x] = Addr(inode[call[p].ip].addrs, mem.cell, bn) /\ Now[x] # 0
  BY <1>2, <1>6, MapMem
<1>8. x \in Kept
  BY <1>1, <1>2, <1>6, KeptPlaces DEF Inside
<1>9. ASSUME NEW m \in 0..(MAXFILE - 1), call[p].tot <= m, m < bn
      PROVE  Now[<<call[p].ip, Spot(m)>>] = 0
  <2>1. m \in call[p].tot..(MAXFILE - 1) /\ ~(bn <= m)
    BY <1>2, <1>6, <1>9
  <2>2. m \notin Left(p)
    BY <1>5, <2>1
  <2> QED
    BY <1>2, <1>3, <2>1, <2>2, MapMem
<1> QED
  BY <1>1, <1>6, <1>7, <1>8, <1>9 DEF Exact

LEMMA UsedBlocks ==
  ASSUME Typed
  PROVE  0 \notin mem.used /\ mem.used \subseteq Blocks /\ mem.used \ {0} = mem.used
BY Layout DEF Typed, Stores

\* What TruncBlock frees is then outside what is kept.
LEMMA KeptShrinks ==
  ASSUME IInv, NEW p \in Process, pc[p] = "trunc", NEW bn \in 0..(MAXFILE - 1),
         bn >= call[p].tot,
         pc' = pc, call'[p].ip = call[p].ip, call'[p].tot = bn + 1,
         \A q \in Process : q # p => call'[q] = call[q]
  PROVE  Kept' = {x \in Kept : \A m \in 0..(MAXFILE - 1) :
                    call[p].tot <= m /\ m <= bn => x # <<call[p].ip, Spot(m)>>}
<1>1. Typed
  BY DEF IInv
<1>2. call[p].tot \in Nat
  BY <1>1, CallTypes
<1>3. \A q \in Process : q # p => Freed(q)' = Freed(q)
  BY FreedSame
<1> DEFINE T == {<<call[p].ip, Spot(m)>> : m \in call[p].tot..bn}
<1>4. Freed(p)' = Freed(p) \cup T
  <2>1. Freed(p)' = {<<call[p].ip, Spot(m)>> : m \in 0..((bn + 1) - 1)}
    BY DEF Freed, Spot
  <2>2. Freed(p) = {<<call[p].ip, Spot(m)>> : m \in 0..(call[p].tot - 1)}
    BY DEF Freed
  <2>3. 0..((bn + 1) - 1) = (0..(call[p].tot - 1)) \cup (call[p].tot..bn)
    BY <1>2
  <2> HIDE DEF Spot
  <2> QED
    BY <2>1, <2>2, <2>3
<1>5. (Kept = {x \in All : \A q \in Process : x \notin Freed(q)})'
  BY KeptFreed, PTL
<1>6. All' = All
  BY DEF All, Places
<1>7. \A x \in All : (\A q \in Process : x \notin Freed(q)')
                       <=> (\A q \in Process : x \notin Freed(q)) /\ x \notin T
  <2> HIDE DEF T
  <2> QED
    BY <1>3, <1>4
<1>8. Kept' = {x \in Kept : x \notin T}
  <2> HIDE DEF T
  <2> QED
    BY <1>5, <1>6, <1>7, KeptFreed
<1>9. \A x : x \notin T <=> \A m \in 0..(MAXFILE - 1) :
                    call[p].tot <= m /\ m <= bn => x # <<call[p].ip, Spot(m)>>
  <2>1. \A m : m \in call[p].tot..bn <=>
               m \in 0..(MAXFILE - 1) /\ call[p].tot <= m /\ m <= bn
    BY <1>2, Layout
  <2> QED
    BY <2>1
<1> HIDE DEF T
<1> QED
  BY <1>8, <1>9

LEMMA TruncBlockStep ==
  ASSUME IInv, NEW p \in Process, TruncBlock(p)
  PROVE  IInv'
<1> DEFINE ip == call[p].ip
           bn == Min(Left(p))
           b  == Addr(inode[ip].addrs, mem.cell, bn)
           x  == <<ip, Spot(bn)>>
<1>1. /\ pc[p] = "trunc" /\ Left(p) # {} /\ panicked' = (b \notin mem.used)
      /\ mem' = [mem EXCEPT !.used = @ \ {b}]
      /\ inode' = IF bn < NDIRECT THEN [inode EXCEPT ![ip].addrs[bn] = 0] ELSE inode
      /\ logged' = [logged EXCEPT ![p] = @ \cup {Bitmap(b)}]
      /\ call' = [call EXCEPT ![p].tot = bn + 1]
      /\ UNCHANGED <<disk, lock, outstanding, off, pc, counters>>
  BY DEF TruncBlock
<1>2. Typed /\ Locks /\ Live(p) /\ CallOf(p) /\ CallShape(p) /\ LogOf(p) /\ Shape
      /\ Exact(mem.used, Now, Kept)
  BY DEF IInv, Live
<1>3. /\ bn \in 0..(MAXFILE - 1) /\ bn >= call[p].tot
      /\ x \in Kept /\ Now[x] \in mem.used /\ Now[x] # 0 /\ Now[x] = b
      /\ \A m \in 0..(MAXFILE - 1) :
           call[p].tot <= m /\ m < bn => Now[<<ip, Spot(m)>>] = 0
  BY <1>1, LeftFacts
<1> HIDE DEF bn, b
<1>4. ip \in Inode /\ lock[ip] = p /\ call[p].tot \in Nat /\ call[p] \in CallRecords
  BY <1>1, <1>2, InsideTypes, CallTypes DEF Inside, InsideType
<1>5. /\ inode \in [Inode -> Nodes] /\ mem \in Stores /\ call \in [Process -> CallRecords]
      /\ logged \in [Process -> SUBSET Items] /\ pc \in [Process -> Points]
  BY <1>2 DEF Typed
<1>6. b \in Blocks /\ panicked' = FALSE
  BY <1>1, <1>2, <1>3, UsedBlocks, Zenon
<1>7. mem'.used = mem.used \ {b} /\ mem'.cell = mem.cell /\ mem'.dinode = mem.dinode
      /\ mem' \in Stores
  BY <1>1, <1>5 DEF Stores
<1>8. bn \in Nat /\ bn < MAXFILE /\ NDIRECT \in Nat /\ MAXFILE \in Nat
  BY <1>3, Layout
<1>9. /\ inode' \in [Inode -> Nodes] /\ inode'[ip].size = inode[ip].size
      /\ \A j \in Inode : j # ip => inode'[j] = inode[j]
      /\ \A y \in All : y # x => Now'[y] = Now[y]
  <2>1. \A y \in All : Now'[y] = Map(mem.cell, inode')[y]
    BY <1>7 DEF Now, Map, Place, All, Places
  <2>2. CASE bn < NDIRECT
    <3>1. inode' = WithoutAddress(inode, ip, bn) /\ bn \in 0..NDIRECT /\ Spot(bn) = bn
      BY <1>1, <1>8, <2>2 DEF Spot, WithoutAddress
    <3>2. /\ inode' \in [Inode -> Nodes]
          /\ inode'[ip].size = inode[ip].size
          /\ \A j \in Inode : j # ip => inode'[j] = inode[j]
          /\ \A y \in All : Map(mem.cell, inode')[y] =
                              IF y = <<ip, bn>> THEN 0 ELSE Map(mem.cell, inode)[y]
      <4> DEFINE j == ip
                 new == inode'
                 cell == mem.cell
      <4>1. j \in Inode /\ bn < NDIRECT /\ bn \in 0..NDIRECT /\ new = WithoutAddress(inode, j, bn)
            /\ inode \in [Inode -> Nodes]
        BY <1>4, <1>5, <2>2, <3>1
      <4> HIDE DEF j, new, cell
      <4>2. /\ new \in [Inode -> Nodes]
            /\ new[j].size = inode[j].size
            /\ \A i \in Inode : i # j => new[i] = inode[i]
            /\ \A y \in All : Map(cell, new)[y] =
                                IF y = <<j, bn>> THEN 0 ELSE Map(cell, inode)[y]
        BY ONLY <4>1, ClearAddress
      <4> QED
        BY <4>2 DEF j, new, cell
    <3>3. x = <<ip, bn>>
      BY <3>1
    <3>4. \A y \in All : y # x => Now'[y] = Now[y]
      BY <2>1, <3>2, <3>3 DEF Now
    <3> QED
      BY <3>2, <3>4
  <2>3. CASE ~(bn < NDIRECT)
    <3>1. inode' = inode
      BY <1>1, <2>3
    <3> QED
      BY <1>5, <2>1, <3>1 DEF Now
  <2> QED
    BY <2>2, <2>3
<1>10. /\ call'[p].tot = bn + 1 /\ call'[p].ip = ip /\ call'[p].file = call[p].file
       /\ call'[p].n = call[p].n /\ call'[p].i = call[p].i /\ call' \in [Process -> CallRecords]
       /\ \A q \in Process : q # p => call'[q] = call[q] /\ logged'[q] = logged[q]
  <2>1. [call[p] EXCEPT !.tot = bn + 1] \in CallRecords
    BY <1>4, <1>8 DEF CallRecords
  <2>2. call'[p] = [call[p] EXCEPT !.tot = bn + 1]
    BY <1>1, <1>5
  <2>3. /\ call'[p].tot = bn + 1 /\ call'[p].ip = call[p].ip /\ call'[p].file = call[p].file
        /\ call'[p].n = call[p].n /\ call'[p].i = call[p].i
    BY <1>4, <2>2 DEF CallRecords
  <2>4. call' \in [Process -> CallRecords] /\ \A q \in Process : q # p => call'[q] = call[q]
    BY <1>1, <1>5, <2>1
  <2> QED
    BY <1>1, <1>5, <2>3, <2>4
<1>11. logged' \in [Process -> SUBSET Items] /\ logged'[p] = logged[p] \cup {Bitmap(b)}
  <2>1. Bitmap(b) \in Items
    BY <1>6 DEF Items
  <2> QED
    BY <1>1, <1>5, <2>1
<1>12. Typed'
  BY <1>1, <1>2, <1>6, <1>7, <1>9, <1>10, <1>11 DEF Typed
<1>13. Locks'
  <2>1. InsideStep(p)
    BY <1>1, <1>10 DEF InsideStep, Inside
  <2>2. outstanding' = outstanding \cup {p}
    BY <1>1, <1>2 DEF Locks, Inside
  <2>3. \A q \in Process : q # p => pc'[q] = pc[q] /\ call'[q] = call[q]
    BY <1>1, <1>10
  <2>4. pc'[p] \in Inside \cup {"lock", "end"}
    BY <1>1 DEF Inside
  <2> QED
    BY <1>2, <1>12, <2>1, <2>2, <2>3, <2>4, LocksStep
<1>14. Live(p)'
  <2>1. Removing(p) /\ Removing(p)' /\ ~Writing(p)'
    BY <1>1, <1>2, <1>10 DEF CallOf, Writing, Removing
  <2>2. CallOf(p)'
    <3>1. call'[p].tot <= MAXFILE
      BY <1>8, <1>10
    <3> QED
      BY <1>1, <1>2, <1>4, <1>10, <2>1, <3>1 DEF CallOf
  <2>3. CallShape(p)'
    <3>1. Filled(Now, ip, call[p].tot, inode[ip].size)
      BY <1>1, <1>2 DEF CallShape
    <3>2. \A m \in (bn + 1)..(MAXFILE - 1) :
            /\ m \in call[p].tot..(MAXFILE - 1)
            /\ Now'[<<ip, Spot(m)>>] = Now[<<ip, Spot(m)>>]
      <4> SUFFICES ASSUME NEW m \in (bn + 1)..(MAXFILE - 1)
                   PROVE  /\ m \in call[p].tot..(MAXFILE - 1)
                          /\ Now'[<<ip, Spot(m)>>] = Now[<<ip, Spot(m)>>]
        OBVIOUS
      <4>1. m \in call[p].tot..(MAXFILE - 1) /\ m \in 0..(MAXFILE - 1) /\ m # bn
        BY <1>3, <1>4, <1>8
      <4>2. <<ip, Spot(m)>> \in All /\ Spot(m) # Spot(bn)
        BY <1>3, <1>4, <4>1, MapMem, SpotsDiffer
      <4> QED
        BY <1>9, <4>1, <4>2
    <3>3. Filled(Now, ip, call[p].tot, inode[ip].size)'
      BY <1>9, <1>10, <3>1, <3>2 DEF Filled, Spot
    <3> QED
      BY <1>1, <1>10, <3>3 DEF CallShape
  <2>4. LogOf(p)'
    <3>1. logged'[p] \subseteq TruncLog
      BY <1>1, <1>2, <1>6, <1>11 DEF LogOf, TruncLog
    <3>2. Cardinality(logged'[p]) <= MAXOPBLOCKS
      BY <3>1, LogTrunc
    <3> QED
      BY <1>1, <3>1, <3>2, Zenon DEF LogOf, TruncLog
  <2> QED
    BY <2>2, <2>3, <2>4 DEF Live
<1>15. \A q \in Process : q # p => Undisturbed(q)
  <2> SUFFICES ASSUME NEW q \in Process, q # p
               PROVE  Undisturbed(q)
    OBVIOUS
  <2>1. ASSUME NEW j \in Inode, j # ip, NEW k \in Places
        PROVE  Now'[<<j, k>>] = Now[<<j, k>>]
    BY <1>9, <2>1 DEF All
  <2> QED
    BY <1>1, <1>7, <1>9, <1>10, <2>1, TruncOther DEF Inside
<1>16. Kept' = {y \in Kept : \A m \in 0..(MAXFILE - 1) :
                  call[p].tot <= m /\ m <= bn => y # <<ip, Spot(m)>>}
  BY <1>1, <1>3, <1>10, KeptShrinks
<1>17. Exact(mem.used, Now, Kept)'
  <2> DEFINE L == Kept \ {x}
             M == Kept'
             u == mem.used \ {b}
             at == Now
             new == Now'
  <2>1. Exact(u, at, L)
    BY <1>2, <1>3, ExactDrop
  <2>2. 0 \notin u
    BY <1>2, UsedBlocks
  <2>3. M \subseteq L /\ L \subseteq All
    <3>1. x \notin M
      <4>1. bn <= bn
        BY <1>8
      <4> QED
        BY <1>3, <1>16, <4>1
    <3>2. Kept \subseteq All
      BY DEF Kept
    <3> QED
      BY <1>16, <3>1, <3>2
  <2>4. \A y \in M : new[y] = at[y]
    BY <1>9, <2>3
  <2>5. \A y \in L : y \notin M => at[y] = 0
    <3> SUFFICES ASSUME NEW y \in L, y \notin M
                 PROVE  at[y] = 0
      OBVIOUS
    <3>1. PICK m \in 0..(MAXFILE - 1) : call[p].tot <= m /\ m <= bn /\ y = <<ip, Spot(m)>>
      BY <1>16
    <3>2. m # bn
      BY <3>1
    <3>3. m < bn
      BY <1>8, <3>1, <3>2
    <3> QED
      BY <1>3, <3>1, <3>3
  <2> HIDE DEF L, M, u, at, new
  <2>6. Exact(u, new, M)
    BY <2>1, <2>2, <2>3, <2>4, <2>5, ExactSame
  <2> QED
    BY <1>7, <2>6 DEF Exact, u, new, M
<1>18. disk' = disk /\ Stable' = Stable
  BY <1>1 DEF Stable, Map, Place, All, Places
<1>19. Exact(disk.used, Stable, All)'
  BY <1>18 DEF IInv, Exact, All, Places
<1>20. Shape'
  <2>1. \A j \in Inode : Filled(Stable, j, 0, disk.dinode[j].size)'
    BY <1>2, <1>18 DEF Shape, Filled, Spot
  <2>2. ASSUME NEW j \in Inode, lock'[j] = None
        PROVE  Filled(Now, j, 0, inode[j].size)' /\ mem'.dinode[j] = inode'[j]
    <3>1. j # ip /\ lock[j] = None
      BY <1>1, <1>4, <2>2, Layout
    <3>2. Filled(Now, j, 0, inode[j].size) /\ mem.dinode[j] = inode[j]
      BY <1>2, <3>1 DEF Shape
    <3>3. \A m \in 0..(MAXFILE - 1) : Now'[<<j, Spot(m)>>] = Now[<<j, Spot(m)>>]
      <4>1. \A m \in 0..(MAXFILE - 1) : <<j, Spot(m)>> \in All
        BY MapMem
      <4> QED
        BY <1>9, <3>1, <4>1
    <3>4. Filled(Now, j, 0, inode[j].size)'
      BY <1>9, <3>1, <3>2, <3>3 DEF Filled, Spot
    <3> QED
      BY <1>7, <1>9, <3>1, <3>2, <3>4
  <2>3. ASSUME NEW g \in File
        PROVE  off'[g] <= inode'[InodeOf[g]].size
    <3>1. InodeOf[g] \in Inode /\ off'[g] = off[g]
      BY <1>1, Layout
    <3>2. inode'[InodeOf[g]].size = inode[InodeOf[g]].size
      BY <1>9, <3>1
    <3> QED
      BY <1>2, <3>1, <3>2 DEF Shape
  <2>4. \A j \in Inode : lock'[j] = None =>
          Filled(Now, j, 0, inode[j].size)' /\ mem'.dinode[j] = inode'[j]
    BY <2>2
  <2>5. \A g \in File : off'[g] <= inode'[InodeOf[g]].size
    BY <2>3
  <2> QED
    BY ONLY <2>1, <2>4, <2>5 DEF Shape
<1> QED
  BY <1>12, <1>13, <1>14, <1>15, <1>17, <1>19, <1>20, StepInv

\* An inode without addresses.
LEMMA EmptyNode ==
  /\ Empty \in Nodes /\ Empty.size = 0
  /\ \A cell, k : k \in Places => Place(Empty, cell, k) = 0
<1>1. MAXFILE * BSIZE \in Nat /\ NDIRECT \in Nat /\ MAXFILE \in Nat
  BY Layout
<1>2. Empty \in Nodes /\ Empty.size = 0 /\ Empty.addrs = [k \in 0..NDIRECT |-> 0]
  BY <1>1 DEF Empty, Nodes
<1>3. Empty.addrs[NDIRECT] = 0 /\ \A k \in Places : k <= NDIRECT => Empty.addrs[k] = 0
  BY <1>1, <1>2 DEF Places
<1>4. \A cell, k : k \in Places => Place(Empty, cell, k) = 0
  BY <1>3 DEF Place
<1> QED
  BY <1>2, <1>4

LEMMA TruncDoneStep ==
  ASSUME IInv, NEW p \in Process, TruncDone(p)
  PROVE  IInv'
<1> DEFINE ip == call[p].ip
           b  == inode[ip].addrs[NDIRECT]
           t  == <<ip, NDIRECT>>
           new == {DiskInode} \cup IF b = 0 THEN {} ELSE {Bitmap(b)}
<1>1. /\ pc[p] = "trunc" /\ Left(p) = {} /\ panicked' = (b # 0 /\ b \notin mem.used)
      /\ mem' = [mem EXCEPT !.used = @ \ {b}, !.dinode[ip] = Empty]
      /\ inode' = [inode EXCEPT ![ip] = Empty]
      /\ logged' = [logged EXCEPT ![p] = @ \cup {DiskInode} \cup IF b = 0 THEN {} ELSE {Bitmap(b)}]
      /\ lock' = [lock EXCEPT ![ip] = None]
      /\ pc' = [pc EXCEPT ![p] = "end"]
      /\ UNCHANGED <<disk, outstanding, off, call, counters>>
  BY DEF TruncDone, Goto
<1>2. Typed /\ Locks /\ Live(p) /\ CallOf(p) /\ CallShape(p) /\ LogOf(p) /\ Shape
      /\ Exact(mem.used, Now, Kept)
  BY DEF IInv, Live
<1>3. ip \in Inode /\ lock[ip] = p /\ call[p].tot \in Nat
  BY <1>1, <1>2, InsideTypes, CallTypes DEF Inside, InsideType
<1>4. /\ inode \in [Inode -> Nodes] /\ mem \in Stores
      /\ logged \in [Process -> SUBSET Items] /\ pc \in [Process -> Points]
      /\ lock \in [Inode -> Process \cup {None}]
  BY <1>2 DEF Typed
<1>5. Now[t] = b /\ t \in Kept /\ Kept \subseteq All
  <2>1. t \in Kept /\ Kept \subseteq All
    BY <1>1, <1>2, <1>3, KeptPlaces DEF Inside
  <2> QED
    BY <1>3, <2>1, PlaceTypes DEF Now
<1>6. b \in Blocks \cup {0} /\ (b # 0 => b \in mem.used) /\ panicked' = FALSE
  <2>1. b \in Blocks \cup {0}
    <3>1. inode[ip].addrs \in [0..NDIRECT -> Blocks \cup {0}] /\ NDIRECT \in 0..NDIRECT
      BY <1>2, <1>3, NodeTypes, Layout
    <3> QED
      BY <3>1
  <2>2. b # 0 => b \in mem.used
    BY <1>2, <1>5 DEF Exact
  <2> QED
    BY <1>1, <2>1, <2>2, Zenon
<1> HIDE DEF b
<1>7. /\ mem'.used = mem.used \ {b} /\ mem'.cell = mem.cell /\ mem' \in Stores
      /\ mem'.dinode = [mem.dinode EXCEPT ![ip] = Empty]
  <2>1. [mem.dinode EXCEPT ![ip] = Empty] \in [Inode -> Nodes]
    BY <1>4, EmptyNode, Zenon DEF Stores
  <2> QED
    BY <1>1, <1>4, <2>1, Zenon DEF Stores
<1>8. /\ mem'.dinode[ip] = Empty /\ inode'[ip] = Empty /\ inode' \in [Inode -> Nodes]
      /\ \A j \in Inode : j # ip => inode'[j] = inode[j] /\ mem'.dinode[j] = mem.dinode[j]
  BY <1>1, <1>3, <1>4, <1>7, EmptyNode DEF Stores
<1>9. \A y \in All : Now'[y] = IF y[1] = ip THEN 0 ELSE Now[y]
  <2> SUFFICES ASSUME NEW y \in All
               PROVE  Now'[y] = IF y[1] = ip THEN 0 ELSE Now[y]
    OBVIOUS
  <2>1. y[1] \in Inode /\ y[2] \in Places
    BY AnyPlace
  <2>2. Now'[y] = Place(inode'[y[1]], mem.cell, y[2]) /\ Now[y] = Place(inode[y[1]], mem.cell, y[2])
    BY <1>7 DEF Now, Map, Place, All, Places
  <2>3. CASE y[1] = ip
    BY <1>8, <2>1, <2>2, <2>3, EmptyNode
  <2>4. CASE y[1] # ip
    BY <1>8, <2>1, <2>2, <2>4
  <2> QED
    BY <2>3, <2>4
<1>10. /\ pc'[p] = "end" /\ call' = call
       /\ \A q \in Process : q # p =>
            pc'[q] = pc[q] /\ call'[q] = call[q] /\ logged'[q] = logged[q]
  BY <1>1, <1>4
<1>11. logged' \in [Process -> SUBSET Items] /\ logged'[p] = logged[p] \cup new /\ new \subseteq TruncLog
  <2>1. new \subseteq Items /\ new \subseteq TruncLog
    BY <1>6 DEF Items, TruncLog
  <2>2. logged' = [logged EXCEPT ![p] = logged[p] \cup new]
    BY <1>1, Zenon
  <2> HIDE DEF new
  <2> QED
    BY <1>4, <2>1, <2>2
<1>12. Typed'
  <2>1. pc' \in [Process -> Points]
    BY <1>1, <1>4 DEF Points
  <2>2. lock' \in [Inode -> Process \cup {None}]
    BY <1>1, <1>4, Zenon
  <2> QED
    BY <1>1, <1>2, <1>6, <1>7, <1>8, <1>11, <2>1, <2>2 DEF Typed
<1>13. Locks'
  <2>1. UnlockStep(p)
    BY <1>1, <1>10 DEF UnlockStep, Inside
  <2>2. outstanding' = outstanding \cup {p}
    BY <1>1, <1>2 DEF Locks, Inside
  <2>3. \A q \in Process : q # p => pc'[q] = pc[q] /\ call'[q] = call[q]
    BY <1>10
  <2>4. pc'[p] \in Inside \cup {"lock", "end"}
    BY <1>10
  <2> QED
    BY <1>2, <1>12, <2>1, <2>2, <2>3, <2>4, LocksStep
<1>14. Live(p)'
  <2>1. Removing(p) /\ Removing(p)' /\ ~Writing(p)'
    BY <1>1, <1>2, <1>10 DEF CallOf, Writing, Removing
  <2>2. CallOf(p)'
    BY <1>1, <1>2, <1>10, <2>1 DEF CallOf
  <2>3. CallShape(p)'
    BY <1>10 DEF CallShape
  <2>4. LogOf(p)'
    <3>1. logged'[p] \subseteq TruncLog
      BY <1>1, <1>2, <1>11 DEF LogOf
    <3>2. Cardinality(logged'[p]) <= MAXOPBLOCKS
      BY <3>1, LogTrunc
    <3> QED
      BY <1>10, <3>2 DEF LogOf
  <2> QED
    BY <2>2, <2>3, <2>4 DEF Live
<1>15. \A q \in Process : q # p => Undisturbed(q)
  <2> SUFFICES ASSUME NEW q \in Process, q # p
               PROVE  Undisturbed(q)
    OBVIOUS
  <2>1. ASSUME NEW j \in Inode, j # ip, NEW k \in Places
        PROVE  Now'[<<j, k>>] = Now[<<j, k>>]
    BY <1>9, <2>1 DEF All
  <2> QED
    BY <1>1, <1>8, <1>10, <2>1, TruncOther DEF Inside
<1>16. ASSUME NEW y \in All
       PROVE  /\ y \in Kept' => y \in Kept \/ y[1] = ip
              /\ y \in Kept => y \in Kept'
  <2>1. (Kept = {x \in All : \A q \in Process : x \notin Freed(q)})'
    BY KeptFreed, PTL
  <2>2. Freed(p)' = {} /\ \A q \in Process : q # p => Freed(q)' = Freed(q)
    <3>1. Freed(p)' = {}
      BY <1>10 DEF Freed
    <3> QED
      BY <1>10, <3>1, FreedSame
  <2>3. y[1] # ip => y \notin Freed(p)
    BY DEF Freed
  <2>4. All' = All
    BY DEF All, Places
  <2> QED
    BY <2>1, <2>2, <2>3, <2>4, KeptFreed
<1>17. Exact(mem.used, Now, Kept)'
  <2> DEFINE L == Kept \ {t}
             M == {y \in L : y[1] # ip}
             u == mem.used \ {b}
             at == Now
             now == Now'
             K == Kept'
  <2>1. Exact(u, at, L)
    BY <1>2, <1>5, ExactDrop
  <2>2. 0 \notin u
    BY <1>2, UsedBlocks
  <2>3. M \subseteq L /\ \A y \in M : now[y] = at[y]
    BY <1>5, <1>9
  <2>4. \A y \in L : y \notin M => at[y] = 0
    <3> SUFFICES ASSUME NEW y \in L, y[1] = ip
                 PROVE  at[y] = 0
      OBVIOUS
    <3>1. y \in All /\ y # t /\ y = <<y[1], y[2]>>
      BY <1>5, AnyPlace
    <3>2. PICK m \in 0..(MAXFILE - 1) : y[2] = Spot(m)
      BY <3>1, AnyPlace
    <3>3. y = <<ip, Spot(m)>>
      BY <3>1, <3>2
    <3>4. m >= call[p].tot
      <4>1. y \notin Freed(p)
        BY <3>1, KeptFreed
      <4>2. ~(m < call[p].tot)
        <5>1. m < call[p].tot => m \in 0..(call[p].tot - 1)
          BY <1>3
        <5> QED
          BY <1>1, <3>3, <4>1, <5>1 DEF Freed
      <4> QED
        BY <1>3, <4>2
    <3>5. m \in call[p].tot..(MAXFILE - 1)
      BY <1>3, <3>4
    <3>6. Addr(inode[ip].addrs, mem.cell, m) = 0
      BY <1>1, <3>5 DEF Left
    <3> QED
      BY <1>3, <3>3, <3>6, MapMem
  <2>5. Exact(u, now, M)
    <3> HIDE DEF L, M, u, at, now, K
    <3> QED
      BY <2>1, <2>2, <2>3, <2>4, ExactSame
  <2>6. M \subseteq K
    BY <1>5, <1>16
  <2>7. \A y \in K : y \notin M => now[y] = 0
    <3>1. K \subseteq All
      BY DEF Kept, All, Places
    <3>2. \A y \in K : y \notin M => y[1] = ip
      BY <1>16, <3>1
    <3> QED
      BY <1>9, <3>1, <3>2
  <2>8. Exact(u, now, K)
    <3> HIDE DEF L, M, u, at, now, K
    <3> QED
      BY <2>2, <2>5, <2>6, <2>7, ExactMore
  <2> QED
    BY <1>7, <2>8 DEF Exact
<1>18. disk' = disk /\ Stable' = Stable
  BY <1>1 DEF Stable, Map, Place, All, Places
<1>19. Exact(disk.used, Stable, All)'
  BY <1>18 DEF IInv, Exact, All, Places
<1>20. Shape'
  <2>1. \A j \in Inode : Filled(Stable, j, 0, disk.dinode[j].size)'
    BY <1>2, <1>18 DEF Shape, Filled, Spot
  <2>2. ASSUME NEW j \in Inode, lock'[j] = None
        PROVE  Filled(Now, j, 0, inode[j].size)' /\ mem'.dinode[j] = inode'[j]
    <3>1. \A m \in 0..(MAXFILE - 1) : <<j, Spot(m)>> \in All
      BY MapMem
    <3>2. CASE j = ip
      <4>1. \A m \in 0..(MAXFILE - 1) : Now'[<<j, Spot(m)>>] = 0
        BY <1>9, <3>1, <3>2
      <4>2. \A m \in 0..(MAXFILE - 1) : ~(m * BSIZE < 0)
        BY Layout
      <4>3. inode'[j].size = 0
        BY <1>8, <3>2, EmptyNode
      <4>4. Filled(Now, j, 0, inode[j].size)'
        BY <4>1, <4>2, <4>3 DEF Filled, Spot
      <4> QED
        BY <1>8, <3>2, <4>4
    <3>3. CASE j # ip
      <4>1. lock[j] = None
        BY <1>1, <1>4, <2>2, <3>3
      <4>2. Filled(Now, j, 0, inode[j].size) /\ mem.dinode[j] = inode[j]
        BY <1>2, <4>1 DEF Shape
      <4>3. \A m \in 0..(MAXFILE - 1) : Now'[<<j, Spot(m)>>] = Now[<<j, Spot(m)>>]
        BY <1>9, <3>1, <3>3
      <4>4. Filled(Now, j, 0, inode[j].size)'
        BY <1>8, <3>3, <4>2, <4>3 DEF Filled, Spot
      <4> QED
        BY <1>8, <3>3, <4>2, <4>4
    <3> QED
      BY <3>2, <3>3
  <2>3. ASSUME NEW g \in File
        PROVE  off'[g] <= inode'[InodeOf[g]].size
    <3>1. InodeOf[g] \in Inode /\ off'[g] = off[g]
      BY <1>1, Layout
    <3>2. CASE InodeOf[g] = ip
      <4>1. off[g] = Closed
        BY <1>1, <1>2, <3>2 DEF CallOf, Writing, Removing
      <4>2. inode'[InodeOf[g]].size = 0
        BY <1>8, <3>2, EmptyNode
      <4> QED
        BY <3>1, <4>1, <4>2 DEF Closed
    <3>3. CASE InodeOf[g] # ip
      BY <1>2, <1>8, <3>1, <3>3 DEF Shape
    <3> QED
      BY <3>2, <3>3
  <2>4. \A j \in Inode : lock'[j] = None =>
          Filled(Now, j, 0, inode[j].size)' /\ mem'.dinode[j] = inode'[j]
    BY <2>2
  <2>5. \A g \in File : off'[g] <= inode'[InodeOf[g]].size
    BY <2>3
  <2> QED
    BY ONLY <2>1, <2>4, <2>5 DEF Shape
<1> QED
  BY <1>12, <1>13, <1>14, <1>15, <1>17, <1>19, <1>20, StepInv

(***************************************************************************)
(* A round of writei.                                                      *)
(***************************************************************************)

\* What a round leaves in the blocks: its bytes in one, and the others as they were.
CopiedCells(p, st, x, t, at2) ==
  LET at == Position(p) % BSIZE
      written == at..(at + Round(p) - 1)
  IN  /\ \A y \in Kept : Now[y] # 0 /\ y # x /\ y # t => st.cell[Now[y]] = mem.cell[Now[y]]
      /\ \A k \in 0..(BSIZE - 1) :
           /\ k \in written =>
                st.cell[at2[x]][k] = Source[p][(call[p].i + call[p].tot) + (k - at) + 1]
           /\ k \notin written /\ Now[x] # 0 => st.cell[at2[x]][k] = mem.cell[Now[x]][k]

\* memmove into a block that is no block of addresses, and log_write of it.
LEMMA CopiedEffect ==
  ASSUME IInv, NEW p \in Process, pc[p] = "write", ~BadRange(p), call[p].tot < N1(p),
         NEW bn, bn = Position(p) \div BSIZE,
         Needed(State(p), bn) <= Cardinality(Free(State(p))),
         NEW st, st = Copied(p),
         NEW ip, ip = call[p].ip, NEW x, x = <<ip, Spot(bn)>>, NEW t, t = <<ip, NDIRECT>>,
         NEW at2, at2 = Map(st.cell, With(inode, ip, st))
  PROVE  /\ st \in States
         /\ Exact(st.used, at2, Kept)
         /\ at2[x] # 0
         /\ \A y \in All : Now[y] # 0 \/ (y # x /\ y # t) => at2[y] = Now[y]
         /\ Now[x] # 0 => st.addrs = inode[ip].addrs
         /\ st.log \subseteq logged[p] \cup TableLog(at2[t]) \cup {Data(at2[x])}
                              \cup (IF Now[x] = 0 THEN {Bitmap(at2[x])} ELSE {})
         /\ CopiedCells(p, st, x, t, at2)
<1>1. Typed /\ Locks /\ CallOf(p)
  BY DEF IInv, Live
<1>2. /\ bn \in 0..(MAXFILE - 1)
      /\ Position(p) % BSIZE \in 0..(BSIZE - 1)
  BY <1>1, RoundFacts
<1>3. ip \in Inode
  BY <1>1, ChunkTypes, WriteIsWriting
<1>4. Good(State(p), inode, ip, Kept)
  BY StateGood
<1>5. x \in Kept
  BY <1>1, <1>2, <1>3, KeptPlaces DEF Inside
<1> DEFINE s0 == State(p)
           s2 == Bmap(s0, bn)
           nodes2 == With(inode, ip, s2)
           at == Map(s0.cell, inode)
           aa == Map(s2.cell, nodes2)
           b  == Addr(s2.addrs, s2.cell, bn)
           off0 == Position(p) % BSIZE
           bytes == [k \in 0..(BSIZE - 1) |->
                       IF k \in off0..(off0 + Round(p) - 1)
                       THEN Source[p][(call[p].i + call[p].tot) + (k - off0) + 1]
                       ELSE s2.cell[b][k]]
<1>6. /\ Good(s2, nodes2, ip, Kept)
      /\ aa[x] # 0
      /\ \A y \in All : at[y] # 0 \/ (y # x /\ y # t) => aa[y] = at[y]
      /\ at[x] # 0 => s2 = s0
      /\ s2.log \subseteq s0.log \cup TableLog(aa[t]) \cup {Data(aa[x])}
                            \cup (IF at[x] = 0 THEN {Bitmap(aa[x])} ELSE {})
  <2>1. /\ Good(s0, inode, ip, Kept) /\ <<ip, Spot(bn)>> \in Kept /\ bn \in 0..(MAXFILE - 1)
        /\ Needed(s0, bn) <= Cardinality(Free(s0))
    BY <1>2, <1>4, <1>5
  <2> HIDE DEF s0
  <2>2. BmapResult(s0, inode, ip, Kept, bn)
    BY ONLY <2>1, BmapEffect
  <2> QED
    BY <2>2, SMTT(30) DEF BmapResult
<1>7. s0.cell = mem.cell /\ s0.log = logged[p] /\ s0.addrs = inode[ip].addrs /\ at = Now
  BY DEF State, Now
<1>8. /\ s2 \in States /\ nodes2 \in [Inode -> Nodes] /\ nodes2[ip].addrs = s2.addrs
      /\ Exact(s2.used, aa, Kept) /\ \A j \in Inode : <<j, NDIRECT>> \in Kept
  BY <1>6 DEF Good
<1>9. aa[x] = b
  <2>1. aa[x] = Addr(nodes2[ip].addrs, s2.cell, bn)
    BY <1>2, <1>3, PlaceTypes
  <2> QED
    BY <1>8, <2>1
<1>10. st = [s2 EXCEPT !.cell[b] = bytes, !.log = @ \cup {Data(b)}]
  BY Zenon DEF Copied
<1> HIDE DEF s0, s2, nodes2, at, aa, b, bytes
<1>11. b \in s2.used /\ b \in Blocks /\ b # 0
  BY <1>5, <1>6, <1>8, <1>9 DEF Exact, States
<1>12. bytes \in Cells
  <2>1. s2.cell[b] \in Cells
    BY <1>8, <1>11 DEF States
  <2>2. ASSUME NEW k \in 0..(BSIZE - 1)
        PROVE  /\ k \in off0..(off0 + Round(p) - 1) =>
                    Source[p][(call[p].i + call[p].tot) + (k - off0) + 1] \in Byte
               /\ s2.cell[b][k] \in Byte \cup Blocks \cup {0}
    BY <1>1, <2>1, SourceBytes, Zenon DEF Cells
  <2> HIDE DEF off0
  <2> QED
    BY <2>2 DEF bytes, Cells
<1>13. /\ st.cell = [s2.cell EXCEPT ![b] = bytes] /\ st.used = s2.used
       /\ st.addrs = s2.addrs /\ st.log = s2.log \cup {Data(b)}
       /\ st \in States
  <2>1. /\ st.cell = [s2.cell EXCEPT ![b] = bytes] /\ st.used = s2.used
        /\ st.addrs = s2.addrs /\ st.log = s2.log \cup {Data(b)}
        /\ st = [used |-> st.used, cell |-> st.cell, addrs |-> st.addrs, log |-> st.log]
    BY <1>8, <1>10, Zenon DEF States
  <2>2. /\ [s2.cell EXCEPT ![b] = bytes] \in [Blocks -> Cells]
        /\ s2.log \cup {Data(b)} \in SUBSET Items /\ s2.used \in SUBSET Blocks
        /\ s2.addrs \in [0..NDIRECT -> Blocks \cup {0}]
    BY <1>8, <1>11, <1>12 DEF States, Items
  <2>3. st \in States
    BY <2>1, <2>2 DEF States
  <2> QED
    BY <2>1, <2>3
<1>14. at2 = aa
  <2>1. With(inode, ip, st) = nodes2
    BY <1>13 DEF With, nodes2
  <2>2. \A a \in Tables(nodes2) : a # 0 => st.cell[a] = s2.cell[a]
    <3> SUFFICES ASSUME NEW j \in Inode, nodes2[j].addrs[NDIRECT] # 0
                 PROVE  st.cell[nodes2[j].addrs[NDIRECT]] = s2.cell[nodes2[j].addrs[NDIRECT]]
      BY DEF Tables
    <3>1. aa[<<j, NDIRECT>>] = nodes2[j].addrs[NDIRECT] /\ <<j, NDIRECT>> \in Kept
          /\ <<j, NDIRECT>> # x
      BY <1>2, <1>8, PlaceTypes DEF aa
    <3>2. nodes2[j].addrs[NDIRECT] # b
      BY <1>5, <1>6, <1>8, <1>9, <3>1 DEF Exact
    <3>3. nodes2[j].addrs[NDIRECT] \in Blocks
      BY <1>8, <3>1 DEF Exact, States
    <3> QED
      BY <1>8, <1>11, <1>13, <3>2, <3>3 DEF States
  <2>3. Map(st.cell, nodes2) = Map(s2.cell, nodes2)
    BY <2>2, DataChange
  <2> QED
    BY <2>1, <2>3 DEF aa
<1>15. at2[x] = b /\ st.log = s2.log \cup {Data(at2[x])}
  BY <1>9, <1>13, <1>14
<1>16. Now[x] # 0 => st.addrs = inode[ip].addrs
  BY <1>6, <1>7, <1>13
<1>17. st.log \subseteq logged[p] \cup TableLog(at2[t]) \cup {Data(at2[x])}
                              \cup (IF Now[x] = 0 THEN {Bitmap(at2[x])} ELSE {})
  BY <1>6, <1>7, <1>14, <1>15
<1>18. \A y \in All : Now[y] # 0 \/ (y # x /\ y # t) => at2[y] = Now[y]
  BY <1>6, <1>7, <1>14
<1>19. Exact(st.used, at2, Kept) /\ at2[x] # 0
  BY <1>6, <1>8, <1>13, <1>14
<1>20. CopiedCells(p, st, x, t, at2)
  <2>1. /\ s0 \in States /\ s0.used = mem.used /\ Now[t] = s0.addrs[NDIRECT]
        /\ Exact(mem.used, Now, Kept) /\ t \in Kept /\ Kept \subseteq All
        /\ Needed(s0, bn) <= Cardinality(Free(s0))
    <3>1. Now[<<ip, NDIRECT>>] = inode[ip].addrs[NDIRECT]
      BY <1>3, PlaceTypes DEF Now
    <3> QED
      BY <1>4, <1>7, <1>8, <3>1 DEF s0, State, Good, IInv
  <2>2. \A d \in mem.used : d # Now[t] => s2.cell[d] = mem.cell[d]
    BY <1>2, <1>7, <2>1, BmapCells DEF s2
  <2>3. \A y \in Kept : y # t /\ Now[y] # 0 => s2.cell[Now[y]] = mem.cell[Now[y]]
    <3> SUFFICES ASSUME NEW y \in Kept, y # t, Now[y] # 0
                 PROVE  s2.cell[Now[y]] = mem.cell[Now[y]]
      OBVIOUS
    <3>1. Now[y] \in mem.used
      BY <2>1 DEF Exact
    <3>2. Now[y] # Now[t]
      BY <2>1 DEF Exact
    <3> QED
      BY <2>2, <3>1, <3>2
  <2>4. \A y \in Kept : Now[y] # 0 /\ y # x /\ y # t => st.cell[Now[y]] = mem.cell[Now[y]]
    <3> SUFFICES ASSUME NEW y \in Kept, Now[y] # 0, y # x, y # t
                 PROVE  st.cell[Now[y]] = mem.cell[Now[y]]
      OBVIOUS
    <3>1. at2[y] = Now[y]
      BY <1>18, <2>1
    <3>2. Now[y] # b /\ Now[y] \in Blocks
      BY <1>5, <1>13, <1>15, <1>19, <3>1 DEF Exact, States
    <3>3. st.cell[Now[y]] = s2.cell[Now[y]]
      BY <1>8, <1>13, <3>2 DEF States
    <3> QED
      BY <2>3, <3>3
  <2>5. st.cell[at2[x]] = bytes
    BY <1>8, <1>11, <1>13, <1>15 DEF States
  <2>6. \A k \in 0..(BSIZE - 1) :
          bytes[k] = IF k \in off0..(off0 + Round(p) - 1)
                     THEN Source[p][(call[p].i + call[p].tot) + (k - off0) + 1]
                     ELSE s2.cell[b][k]
    BY DEF bytes
  <2>7. Now[x] # 0 => s2.cell[b] = mem.cell[Now[x]]
    <3>1. x \in All /\ x # t
      BY <1>2, <1>3, PlaceTypes
    <3> QED
      BY <1>5, <1>15, <1>18, <2>3, <3>1
  <2>8. \A k \in 0..(BSIZE - 1) :
          /\ k \in off0..(off0 + Round(p) - 1) =>
               st.cell[at2[x]][k] = Source[p][(call[p].i + call[p].tot) + (k - off0) + 1]
          /\ k \notin off0..(off0 + Round(p) - 1) /\ Now[x] # 0 =>
               st.cell[at2[x]][k] = mem.cell[Now[x]][k]
    <3> HIDE DEF off0
    <3> QED
      BY <2>5, <2>6, <2>7, Zenon
  <2> QED
    BY <2>4, <2>8, Zenon DEF CopiedCells
<1> QED
  BY <1>13, <1>16, <1>17, <1>18, <1>19, <1>20

\* The block of a round is filled up to the new position, and no other changes.
LEMMA FilledGrows ==
  ASSUME NEW at, NEW new, NEW ip, NEW pos \in Nat, NEW r \in Nat, NEW size \in Nat,
         NEW e, e = (IF pos > size THEN pos ELSE size),
         NEW e2, e2 = (IF pos + r > size THEN pos + r ELSE size),
         NEW bn \in 0..(MAXFILE - 1), bn * BSIZE <= pos, r >= 1, pos + r <= bn * BSIZE + BSIZE,
         new[<<ip, Spot(bn)>>] # 0,
         \A m \in 0..(MAXFILE - 1) : m # bn => new[<<ip, Spot(m)>>] = at[<<ip, Spot(m)>>],
         Filled(at, ip, 0, e)
  PROVE  Filled(new, ip, 0, e2)
<1> SUFFICES ASSUME NEW m \in 0..(MAXFILE - 1)
             PROVE  m * BSIZE < e2 <=> new[<<ip, Spot(m)>>] # 0
  BY DEF Filled
<1>1. m \in Nat /\ bn \in Nat /\ m * BSIZE \in Nat /\ bn * BSIZE \in Nat
  BY Layout
<1>2. CASE m = bn
  BY <1>1, <1>2
<1>3. CASE m # bn
  <2>1. m * BSIZE < e <=> new[<<ip, Spot(m)>>] # 0
    BY <1>3 DEF Filled
  <2>2. m * BSIZE < e => m * BSIZE < e2
    BY <1>1
  <2>3. m * BSIZE < e2 => m * BSIZE < e
    <3>1. m < bn => m * BSIZE + BSIZE <= bn * BSIZE
      BY <1>1, Apart
    <3>2. m > bn => bn * BSIZE + BSIZE <= m * BSIZE
      BY <1>1, Apart
    <3>3. BSIZE \in Nat /\ BSIZE > 0
      BY Layout
    <3>4. CASE m < bn
      BY <1>1, <3>1, <3>3, <3>4
    <3>5. CASE m > bn
      BY <1>1, <3>2, <3>3, <3>5
    <3> QED
      BY <1>1, <1>3, <3>4, <3>5
  <2> QED
    BY <2>1, <2>2, <2>3
<1> QED
  BY <1>2, <1>3

LEMMA WriteBlockStep ==
  ASSUME IInv, NEW p \in Process, WriteBlock(p)
  PROVE  IInv'
<1> DEFINE ip == call[p].ip
           bn == Position(p) \div BSIZE
           st == Copied(p)
           x  == <<ip, Spot(bn)>>
           t  == <<ip, NDIRECT>>
           o  == off[call[p].file]
           size == inode[ip].size
           pos == Position(p)
           r == Round(p)
           at2 == Map(st.cell, With(inode, ip, st))
<1>1. /\ pc[p] = "write" /\ ~BadRange(p) /\ call[p].tot < N1(p)
      /\ Needed(State(p), bn) <= Cardinality(Free(State(p)))
      /\ mem' = [mem EXCEPT !.used = st.used, !.cell = st.cell]
      /\ inode' = [inode EXCEPT ![ip].addrs = st.addrs]
      /\ logged' = [logged EXCEPT ![p] = st.log]
      /\ call' = [call EXCEPT ![p].tot = @ + r]
      /\ UNCHANGED <<disk, lock, outstanding, off, pc, panicked, counters>>
  BY DEF WriteBlock
<1>2. Typed /\ Locks /\ Live(p) /\ CallOf(p) /\ CallShape(p) /\ LogOf(p) /\ Shape
      /\ Exact(mem.used, Now, Kept)
  BY DEF IInv, Live
<1>3. Writing(p)
  BY <1>1, <1>2, WriteIsWriting
<1>4. /\ ip \in Inode /\ o \in Nat /\ call[p].file \in File /\ ip = InodeOf[call[p].file]
      /\ pos \in Nat /\ pos = o + call[p].tot /\ call[p].tot \in Nat /\ N1(p) \in Nat
  BY <1>2, <1>3, ChunkTypes
<1>5. /\ bn \in 0..(MAXFILE - 1) /\ bn * BSIZE \in Nat /\ bn * BSIZE <= pos
      /\ r \in Nat /\ r >= 1 /\ pos + r <= bn * BSIZE + BSIZE /\ call[p].tot + r <= N1(p)
  BY <1>1, <1>2, RoundFacts
<1>6. /\ st \in States
      /\ Exact(st.used, at2, Kept)
      /\ at2[x] # 0
      /\ \A y \in All : Now[y] # 0 \/ (y # x /\ y # t) => at2[y] = Now[y]
      /\ Now[x] # 0 => st.addrs = inode[ip].addrs
      /\ st.log \subseteq logged[p] \cup TableLog(at2[t]) \cup {Data(at2[x])}
                           \cup (IF Now[x] = 0 THEN {Bitmap(at2[x])} ELSE {})
  <2> HIDE DEF ip, bn, st, x, t, at2
  <2> QED
    BY <1>1, CopiedEffect DEF ip, bn, st, x, t, at2
<1>7. /\ inode \in [Inode -> Nodes] /\ mem \in Stores /\ call \in [Process -> CallRecords]
      /\ logged \in [Process -> SUBSET Items] /\ call[p] \in CallRecords
  BY <1>2 DEF Typed
<1>8. inode' = With(inode, ip, st)
  BY <1>1 DEF With
<1> HIDE DEF st, bn, pos, r, at2
<1>9. /\ mem'.used = st.used /\ mem'.cell = st.cell /\ mem'.dinode = mem.dinode
      /\ mem' \in Stores
  BY <1>1, <1>6, <1>7, Zenon DEF Stores, States
<1>10. /\ inode' \in [Inode -> Nodes] /\ inode'[ip].addrs = st.addrs
       /\ inode'[ip].size = size /\ \A j \in Inode : j # ip => inode'[j] = inode[j]
  BY <1>4, <1>6, <1>7, <1>8, WithFields
<1>11. \A y \in All : Now'[y] = at2[y]
  BY <1>8, <1>9 DEF Now, Map, Place, All, Places, at2
<1>12. /\ x \in All /\ t \in All /\ x # t
       /\ \A m \in 0..(MAXFILE - 1) : <<ip, Spot(m)>> \in All /\ <<ip, Spot(m)>> # t
       /\ \A m \in 0..(MAXFILE - 1) : m # bn => <<ip, Spot(m)>> # x
  BY <1>4, <1>5, PlaceTypes, SpotsDiffer
<1>13. /\ Now'[x] # 0
       /\ \A y \in All : Now[y] # 0 \/ (y # x /\ y # t) => Now'[y] = Now[y]
       /\ \A m \in 0..(MAXFILE - 1) : m # bn => Now'[<<ip, Spot(m)>>] = Now[<<ip, Spot(m)>>]
  BY <1>6, <1>11, <1>12
<1>14. /\ call'[p].tot = call[p].tot + r /\ call'[p].ip = ip /\ call'[p].file = call[p].file
       /\ call'[p].n = call[p].n /\ call'[p].i = call[p].i /\ call' \in [Process -> CallRecords]
       /\ \A q \in Process : q # p => call'[q] = call[q] /\ logged'[q] = logged[q]
  <2>1. [call[p] EXCEPT !.tot = @ + r] \in CallRecords
    BY <1>4, <1>5, <1>7 DEF CallRecords
  <2>2. call'[p] = [call[p] EXCEPT !.tot = @ + r]
    BY <1>1, <1>7
  <2>3. /\ call'[p].tot = call[p].tot + r /\ call'[p].ip = call[p].ip
        /\ call'[p].file = call[p].file
        /\ call'[p].n = call[p].n /\ call'[p].i = call[p].i
    BY <1>7, <2>2 DEF CallRecords
  <2>4. call' \in [Process -> CallRecords] /\ \A q \in Process : q # p => call'[q] = call[q]
    BY <1>1, <1>7, <2>1
  <2> QED
    BY <1>1, <1>7, <2>3, <2>4
<1>15. logged' \in [Process -> SUBSET Items] /\ logged'[p] = st.log
  BY <1>1, <1>6, <1>7 DEF States
<1>16. Typed'
  <2>1. pc' = pc /\ disk' = disk /\ lock' = lock /\ outstanding' = outstanding /\ off' = off
        /\ panicked' = panicked
    BY <1>1
  <2> QED
    BY <1>2, <1>9, <1>10, <1>14, <1>15, <2>1 DEF Typed
<1>17. Locks'
  <2>1. InsideStep(p)
    BY <1>1, <1>14 DEF InsideStep, Inside
  <2>2. outstanding' = outstanding \cup {p}
    BY <1>1, <1>2 DEF Locks, Inside
  <2>3. \A q \in Process : q # p => pc'[q] = pc[q] /\ call'[q] = call[q]
    BY <1>1, <1>14
  <2>4. pc'[p] \in Inside \cup {"lock", "end"}
    BY <1>1 DEF Inside
  <2> QED
    BY <1>2, <1>16, <2>1, <2>2, <2>3, <2>4, LocksStep
<1>18. pc' = pc /\ off' = off
  BY <1>1
<1>19. Position(p)' = pos + r /\ N1(p)' = N1(p) /\ BadRange(p)' = BadRange(p)
  <2>1. Position(p)' = o + (call[p].tot + r)
    BY <1>14, <1>18 DEF Position
  <2>2. N1(p)' = N1(p)
    BY <1>14 DEF N1
  <2>3. BadRange(p)' = BadRange(p)
    BY <1>10, <1>14, <1>18, <2>2 DEF BadRange
  <2> QED
    BY <1>4, <1>5, <2>1, <2>2, <2>3
<1>20. size \in Nat /\ o <= size
  BY <1>1, <1>2, <1>4, NodeTypes DEF Shape
<1>21. Filled(Now, ip, 0, End(p)) /\ (pos <= size => mem.dinode[ip] = inode[ip])
       /\ End(p) = IF pos > size THEN pos ELSE size
  BY <1>1, <1>2 DEF CallShape, End, pos
<1>22. CallOf(p)'
  <2>1. Writing(p)' /\ ~Removing(p)'
    BY <1>3, <1>14, <1>18 DEF Writing, Removing
  <2>2. call'[p].tot <= N1(p)'
    BY <1>5, <1>14, <1>19
  <2> QED
    BY <1>1, <1>2, <1>3, <1>14, <1>18, <1>19, <2>1, <2>2 DEF CallOf
<1>23. CallShape(p)'
  <2>1. End(p)' = IF pos + r > size THEN pos + r ELSE size
    BY <1>10, <1>14, <1>19 DEF End
  <2> DEFINE e == End(p)
             e2 == End(p)'
             at == Now
             new == Now'
             k == ip
  <2>2. /\ pos \in Nat /\ r \in Nat /\ size \in Nat
        /\ e = (IF pos > size THEN pos ELSE size)
        /\ e2 = (IF pos + r > size THEN pos + r ELSE size)
        /\ bn \in 0..(MAXFILE - 1) /\ bn * BSIZE <= pos /\ r >= 1
        /\ pos + r <= bn * BSIZE + BSIZE
        /\ new[<<k, Spot(bn)>>] # 0
        /\ \A m \in 0..(MAXFILE - 1) : m # bn => new[<<k, Spot(m)>>] = at[<<k, Spot(m)>>]
        /\ Filled(at, k, 0, e)
    BY <1>4, <1>5, <1>13, <1>20, <1>21, <2>1, Zenon
  <2> HIDE DEF e, e2, at, new, k, size
  <2>3. Filled(new, k, 0, e2)
    BY ONLY <2>2, FilledGrows, Zenon
  <2>4. Filled(Now, call[p].ip, 0, End(p))'
    BY <1>14, <2>3 DEF Filled, Spot, e2, new, k
  <2>5. Position(p)' <= inode'[ip].size => mem'.dinode[ip] = inode'[ip]
    <3> SUFFICES ASSUME pos + r <= size
                 PROVE  mem'.dinode[ip] = inode'[ip]
      BY <1>10, <1>19 DEF size
    <3>1. pos < size
      BY <1>4, <1>5, <1>20
    <3>2. bn * BSIZE < End(p)
      BY <1>4, <1>5, <1>20, <1>21, <3>1
    <3>3. Now[x] # 0
      BY <1>5, <1>21, <3>2 DEF Filled
    <3>4. inode'[ip] = inode[ip]
      <4>1. inode'[ip] \in Nodes /\ inode[ip] \in Nodes
        BY <1>4, <1>7, <1>10
      <4> QED
        <5>1. inode'[ip].addrs = inode[ip].addrs /\ inode'[ip].size = inode[ip].size
          BY <1>6, <1>10, <3>3 DEF size
        <5> HIDE DEF ip
        <5> QED
          BY ONLY <4>1, <5>1 DEF Nodes
    <3> QED
      BY <1>4, <1>9, <1>20, <1>21, <3>1, <3>4
  <2> QED
    BY <1>1, <1>14, <1>18, <2>4, <2>5 DEF CallShape
<1>24. LogOf(p)'
  <2>1. logged[p] \subseteq ChunkLog(p)
    BY <1>1, <1>2 DEF LogOf
  <2>2. \A m \in 0..(MAXFILE - 1) : m * BSIZE < pos => Now[<<ip, Spot(m)>>] # 0
    <3> SUFFICES ASSUME NEW m \in 0..(MAXFILE - 1), m * BSIZE < pos
                 PROVE  Now[<<ip, Spot(m)>>] # 0
      OBVIOUS
    <3>1. m * BSIZE \in Nat
      BY Layout
    <3>2. m * BSIZE < End(p)
      BY <1>4, <1>20, <1>21, <3>1, SMTT(30)
    <3> QED
      BY <1>21, <3>2 DEF Filled
  <2>3. /\ \A m \in Touched(p) : m \in 0..(MAXFILE - 1) /\ m * BSIZE < pos /\ m \in Touched(p)'
        /\ \A m \in Fresh(p) : m \in 0..(MAXFILE - 1) /\ m * BSIZE < pos /\ m \in Fresh(p)'
    <3>1. \A m \in 0..(MAXFILE - 1) : m * BSIZE < pos => m * BSIZE < pos + r
      <4>1. \A m \in 0..(MAXFILE - 1) : m * BSIZE \in Nat
        BY Layout
      <4> QED
        BY <1>4, <1>5, <4>1
    <3> QED
      BY <1>14, <1>18, <1>19, <3>1 DEF Touched, Fresh, pos
  <2>4. \A m \in 0..(MAXFILE - 1) : m * BSIZE < pos =>
          Now'[<<ip, Spot(m)>>] = Now[<<ip, Spot(m)>>]
    BY <1>12, <1>13, <2>2
  <2>5. ChunkLog(p) \subseteq ChunkLog(p)'
    <3>1. TableLog(Now[t]) \subseteq TableLog(Now'[t])
      <4>1. CASE Now[t] = 0
        BY <4>1 DEF TableLog
      <4>2. CASE Now[t] # 0
        <5>1. Now'[t] = Now[t]
          BY <1>12, <1>13, <4>2
        <5> QED
          BY <5>1
      <4> QED
        BY <4>1, <4>2
    <3>2. {Data(Now[<<ip, Spot(m)>>]) : m \in Touched(p)}
            \subseteq {Data(Now'[<<ip, Spot(m)>>]) : m \in Touched(p)'}
      BY <2>3, <2>4
    <3>3. {Bitmap(Now[<<ip, Spot(m)>>]) : m \in Fresh(p)}
            \subseteq {Bitmap(Now'[<<ip, Spot(m)>>]) : m \in Fresh(p)'}
      BY <2>3, <2>4
    <3>4. ChunkLog(p)' = TableLog(Now'[t])
             \cup {Data(Now'[<<ip, Spot(m)>>]) : m \in Touched(p)'}
             \cup {Bitmap(Now'[<<ip, Spot(m)>>]) : m \in Fresh(p)'}
      BY <1>14 DEF ChunkLog, TableLog, Data, Bitmap, Spot
    <3>5. ChunkLog(p) = TableLog(Now[t])
             \cup {Data(Now[<<ip, Spot(m)>>]) : m \in Touched(p)}
             \cup {Bitmap(Now[<<ip, Spot(m)>>]) : m \in Fresh(p)}
      BY DEF ChunkLog
    <3> QED
      BY <3>1, <3>2, <3>3, <3>4, <3>5, Zenon
  <2>6. /\ TableLog(Now'[t]) \subseteq ChunkLog(p)' /\ Data(Now'[x]) \in ChunkLog(p)'
        /\ Now[x] = 0 => Bitmap(Now'[x]) \in ChunkLog(p)'
    <3>1. ChunkLog(p)' = TableLog(Now'[t])
             \cup {Data(Now'[<<ip, Spot(m)>>]) : m \in Touched(p)'}
             \cup {Bitmap(Now'[<<ip, Spot(m)>>]) : m \in Fresh(p)'}
      BY <1>14 DEF ChunkLog, TableLog, Data, Bitmap, Spot
    <3>2. bn \in Touched(p)'
      <4>1. o < (bn + 1) * BSIZE /\ bn * BSIZE < pos + r
        <5>1. (bn + 1) * BSIZE = bn * BSIZE + BSIZE
          BY <1>5, Apart
        <5> QED
          BY <1>4, <1>5, <5>1, Layout
      <4> QED
        BY <1>5, <1>14, <1>18, <1>19, <4>1 DEF Touched
    <3>3. Now[x] = 0 => bn \in Fresh(p)'
      <4> SUFFICES ASSUME Now[x] = 0
                   PROVE  bn \in Fresh(p)'
        OBVIOUS
      <4>1. ~(bn * BSIZE < End(p))
        BY <1>5, <1>21 DEF Filled
      <4>2. o <= bn * BSIZE
        BY <1>4, <1>5, <1>20, <1>21, <4>1, SMTT(30)
      <4>3. bn * BSIZE < pos + r
        BY <1>4, <1>5
      <4> QED
        BY <1>5, <1>14, <1>18, <1>19, <4>2, <4>3 DEF Fresh
    <3> QED
      BY <3>1, <3>2, <3>3
  <2>7. logged'[p] \subseteq ChunkLog(p)'
    <3>1. at2[t] = Now'[t] /\ at2[x] = Now'[x]
      BY <1>11, <1>12
    <3> QED
      BY <1>6, <1>15, <2>1, <2>5, <2>6, <3>1
  <2>8. Cardinality(logged'[p]) <= MAXOPBLOCKS
    <3>1. (Typed /\ CallOf(p) /\ Writing(p)
            => IsFiniteSet(ChunkLog(p)) /\ Cardinality(ChunkLog(p)) <= MAXOPBLOCKS - 1)'
      <4>1. Fits'
        BY ChunkFits, PTL
      <4> QED
        BY <4>1 DEF Fits
    <3>2. Writing(p)'
      BY <1>3, <1>14, <1>18 DEF Writing
    <3>3. IsFiniteSet(ChunkLog(p)') /\ Cardinality(ChunkLog(p)') <= MAXOPBLOCKS - 1
      BY <1>16, <1>22, <3>1, <3>2
    <3> DEFINE C == ChunkLog(p)'
               n == MAXOPBLOCKS - 1
    <3>4. IsFiniteSet(C) /\ Cardinality(C) <= n /\ n \in Nat /\ logged'[p] \in SUBSET C
      BY <2>7, <3>3, Layout
    <3> HIDE DEF C, n
    <3>5. IsFiniteSet(logged'[p]) /\ Cardinality(logged'[p]) <= n
      BY ONLY <3>4, SmallSubset
    <3>6. Cardinality(logged'[p]) \in Nat
      BY <3>5, FS_CardinalityType
    <3> QED
      BY <3>5, <3>6, Layout DEF n
  <2> QED
    BY <1>1, <1>18, <2>7, <2>8 DEF LogOf
<1>25. Live(p)'
  BY <1>22, <1>23, <1>24 DEF Live
<1>26. \A q \in Process : q # p => Undisturbed(q)
  <2> SUFFICES ASSUME NEW q \in Process, q # p
               PROVE  Undisturbed(q)
    OBVIOUS
  <2>1. ASSUME NEW j \in Inode, j # ip, NEW k \in Places
        PROVE  Now'[<<j, k>>] = Now[<<j, k>>]
    BY <1>13, <2>1 DEF All
  <2> QED
    BY <1>1, <1>9, <1>10, <1>14, <1>18, <2>1, TruncOther DEF Inside
<1>27. Kept' = Kept
  <2>1. Freed(p)' = Freed(p)
    BY <1>1, <1>18 DEF Freed
  <2>2. \A q \in Process : q # p => Freed(q)' = Freed(q)
    BY <1>14, <1>18, FreedSame
  <2> QED
    BY <2>1, <2>2, KeptSame
<1>28. Exact(mem.used, Now, Kept)'
  <2>1. Kept \subseteq All
    BY DEF Kept
  <2> QED
    BY <1>6, <1>9, <1>11, <1>27, <2>1 DEF Exact
<1>29. disk' = disk /\ Stable' = Stable
  BY <1>1 DEF Stable, Map, Place, All, Places
<1>30. Exact(disk.used, Stable, All)'
  BY <1>29 DEF IInv, Exact, All, Places
<1>31. Shape'
  <2>1. \A j \in Inode : Filled(Stable, j, 0, disk.dinode[j].size)'
    BY <1>2, <1>29 DEF Shape, Filled, Spot
  <2>2. ASSUME NEW j \in Inode, lock'[j] = None
        PROVE  Filled(Now, j, 0, inode[j].size)' /\ mem'.dinode[j] = inode'[j]
    <3>1. j # ip /\ lock[j] = None
      BY <1>1, <1>2, <2>2, Layout DEF Locks, Inside
    <3>2. Filled(Now, j, 0, inode[j].size) /\ mem.dinode[j] = inode[j]
      BY <1>2, <3>1 DEF Shape
    <3>3. \A m \in 0..(MAXFILE - 1) : Now'[<<j, Spot(m)>>] = Now[<<j, Spot(m)>>]
      <4>1. \A m \in 0..(MAXFILE - 1) : <<j, Spot(m)>> \in All
        BY MapMem
      <4> QED
        BY <1>13, <3>1, <4>1
    <3>4. Filled(Now, j, 0, inode[j].size)'
      BY <1>10, <3>1, <3>2, <3>3 DEF Filled, Spot
    <3> QED
      BY <1>9, <1>10, <3>1, <3>2, <3>4
  <2>3. ASSUME NEW g \in File
        PROVE  off'[g] <= inode'[InodeOf[g]].size
    <3>1. InodeOf[g] \in Inode /\ off'[g] = off[g]
      BY <1>18, Layout
    <3>2. inode'[InodeOf[g]].size = inode[InodeOf[g]].size
      BY <1>10, <3>1
    <3> QED
      BY <1>2, <3>1, <3>2 DEF Shape
  <2>4. \A j \in Inode : lock'[j] = None =>
          Filled(Now, j, 0, inode[j].size)' /\ mem'.dinode[j] = inode'[j]
    BY <2>2
  <2>5. \A g \in File : off'[g] <= inode'[InodeOf[g]].size
    BY <2>3
  <2> QED
    BY ONLY <2>1, <2>4, <2>5 DEF Shape
<1> QED
  BY <1>16, <1>17, <1>25, <1>26, <1>28, <1>30, <1>31, StepInv

(***************************************************************************)
(* The invariant, and what follows from it.                                *)
(***************************************************************************)

LEMMA InitInv == Init => IInv
<1> SUFFICES ASSUME Init
             PROVE  IInv
  OBVIOUS
<1>1. /\ mem = [used |-> {}, cell |-> [b \in Blocks |-> Zeros],
                dinode |-> [ip \in Inode |-> Empty]]
      /\ disk = mem /\ inode = mem.dinode
      /\ lock = [ip \in Inode |-> None] /\ outstanding = {}
      /\ off = [f \in File |-> Closed]
      /\ pc = [p \in Process |-> "user"] /\ call = [p \in Process |-> NoCall]
      /\ logged = [p \in Process |-> {}] /\ panicked = FALSE
  BY DEF Init
<1>2. mem \in Stores /\ inode = [ip \in Inode |-> Empty] /\ inode \in [Inode -> Nodes]
  BY <1>1, ZerosCell, EmptyNode DEF Stores
<1>3. Typed
  BY <1>1, <1>2, NoCallRecord, Zenon DEF Typed, Points
<1>4. ASSUME NEW p \in Process
      PROVE  Live(p)
  <2>1. pc[p] = "user" /\ call[p] = NoCall /\ logged[p] = {}
    BY <1>1
  <2>2. CallOf(p)
    BY <2>1 DEF CallOf, Writing, Removing
  <2>3. CallShape(p)
    BY <2>1 DEF CallShape
  <2>4. LogOf(p)
    BY <2>1, EmptyLog DEF LogOf
  <2> QED
    BY <2>2, <2>3, <2>4 DEF Live
<1>5. Locks
  BY <1>1 DEF Locks, Inside
<1>6. \A x \in All : Now[x] = 0 /\ Stable[x] = 0
  <2> SUFFICES ASSUME NEW x \in All
               PROVE  Now[x] = 0 /\ Stable[x] = 0
    OBVIOUS
  <2>1. x[1] \in Inode /\ x[2] \in Places
    BY AnyPlace
  <2>2. inode[x[1]] = Empty /\ disk.dinode[x[1]] = Empty
    BY <1>1, <1>2, <2>1
  <2> QED
    BY <2>1, <2>2, EmptyNode DEF Now, Stable, Map
<1>7. mem.used = {} /\ disk.used = {}
  BY <1>1
<1>8. Exact(disk.used, Stable, All)
  BY <1>6, <1>7 DEF Exact
<1>9. Exact(mem.used, Now, Kept)
  BY <1>6, <1>7 DEF Exact, Kept
<1>10. Shape
  <2>1. \A ip \in Inode : inode[ip].size = 0 /\ disk.dinode[ip].size = 0
                          /\ mem.dinode[ip] = inode[ip]
    BY <1>1, <1>2, EmptyNode
  <2>2. \A m \in 0..(MAXFILE - 1) : ~(m * BSIZE < 0)
    BY Layout
  <2>3. \A ip \in Inode, m \in 0..(MAXFILE - 1) : <<ip, Spot(m)>> \in All
    BY MapMem
  <2>4. \A ip \in Inode : Filled(Now, ip, 0, inode[ip].size)
                          /\ Filled(Stable, ip, 0, disk.dinode[ip].size)
    BY <1>6, <2>1, <2>2, <2>3 DEF Filled
  <2>5. \A f \in File : off[f] <= inode[InodeOf[f]].size
    <3>1. \A f \in File : InodeOf[f] \in Inode /\ off[f] = Closed
      BY <1>1, Layout
    <3>2. Closed <= 0
      BY DEF Closed
    <3> QED
      BY <2>1, <3>1, <3>2
  <2> QED
    BY <2>1, <2>4, <2>5 DEF Shape
<1>11. \A p \in Process : Live(p)
  BY <1>4
<1> QED
  BY <1>3, <1>5, <1>8, <1>9, <1>10, <1>11 DEF IInv

LEMMA StutterStep ==
  ASSUME IInv, UNCHANGED vars
  PROVE  IInv'
<1>1. /\ UNCHANGED <<store, inode, lock, outstanding, procs, panicked>>
      /\ off' = off
  BY DEF vars
<1>2. Typed'
  BY <1>1 DEF IInv, Typed, store, procs
<1>3. UNCHANGED <<store, inode, off>> /\ UNCHANGED <<pc, call, logged>>
  BY <1>1 DEF procs
<1>4. \A q \in Process : Undisturbed(q)
  BY <1>3, QuietOther
<1>5. \A f \in File : off'[f] <= inode[InodeOf[f]].size
  BY <1>1 DEF IInv, Shape
<1> QED
  BY <1>1, <1>2, <1>4, <1>5, OffStep

LEMMA NextInv == IInv /\ [Next]_vars => IInv'
<1> SUFFICES ASSUME IInv, [Next]_vars
             PROVE  IInv'
  OBVIOUS
<1>1. CASE UNCHANGED vars
  BY <1>1, StutterStep
<1>2. CASE Crash
  BY <1>2, CrashStep
<1>3. ASSUME NEW f \in File, Open(f) \/ Close(f)
      PROVE  IInv'
  BY <1>3, OpenStep, CloseStep
<1>4. ASSUME NEW p \in Process, BeginOp(p) \/ Ilock(p) \/ EndOp(p)
      PROVE  IInv'
  BY <1>4, BeginOpStep, IlockStep, EndOpStep
<1>5. ASSUME NEW p \in Process,
             WriteBlock(p) \/ BallocPanic(p) \/ WriteDone(p) \/ WriteBad(p)
      PROVE  IInv'
  BY <1>5, WriteBlockStep, PanicStep, WriteDoneStep, WriteBadStep
<1>6. ASSUME NEW p \in Process, TruncBlock(p) \/ TruncDone(p)
      PROVE  IInv'
  BY <1>6, TruncBlockStep, TruncDoneStep
<1>7. ASSUME NEW p \in Process, NEW f \in File, Write(p, f) \/ Read(p, f)
      PROVE  IInv'
  BY <1>7, WriteStep, ReadStep
<1>8. ASSUME NEW p \in Process, NEW ip \in Inode, Remove(p, ip)
      PROVE  IInv'
  BY <1>8, RemoveStep
<1> QED
  BY <1>1, <1>2, <1>3, <1>4, <1>5, <1>6, <1>7, <1>8 DEF Next

LEMMA Invariance == Spec => []IInv
BY InitInv, NextInv, PTL DEF Spec

\* No block is lost, shared or both free and in a file: on the disk always, so
\* after every crash; in memory whenever nobody is inside writei or itrunc
\* (balloc, bfree, bmap, itrunc, iupdate).
THEOREM BlocksAreOwned == Spec => []BlocksOwned
<1>1. IInv => BlocksOwned
  <2> SUFFICES ASSUME IInv
               PROVE  BlocksOwned
    OBVIOUS
  <2>1. Typed /\ Locks /\ Shape
    BY DEF IInv
  <2>2. Owned(disk, disk.dinode)
    <3>1. disk \in Stores /\ disk.dinode \in [Inode -> Nodes]
      BY <2>1 DEF Typed, Stores
    <3>2. Exact(disk.used, Map(disk.cell, disk.dinode), All)
      BY DEF IInv, Stable
    <3> QED
      BY <3>1, <3>2, ExactOwned
  <2>3. ASSUME \A ip \in Inode : lock[ip] = None
        PROVE  Owned(mem, inode) /\ mem.dinode = inode
    <3>1. \A q \in Process : pc[q] \notin Inside
      <4>1. ASSUME NEW q \in Process, pc[q] \in Inside
            PROVE  FALSE
        <5>1. Live(q) /\ CallOf(q)
          BY DEF IInv, Live
        <5>2. call[q].ip \in Inode /\ lock[call[q].ip] = q
          BY <2>1, <4>1, <5>1, InsideTypes DEF InsideType
        <5> QED
          BY <2>3, <5>2, Layout
      <4> QED
        BY <4>1
    <3>2. Kept = All
      <4>1. \A q \in Process : Freed(q) = {}
        BY <3>1 DEF Freed, Inside
      <4> QED
        BY <4>1, KeptFreed
    <3>3. mem \in Stores /\ inode \in [Inode -> Nodes]
      BY <2>1 DEF Typed
    <3>4. Owned(mem, inode)
      <4>1. Exact(mem.used, Map(mem.cell, inode), All)
        BY <3>2 DEF IInv, Now
      <4> QED
        BY <3>3, <4>1, ExactOwned
    <3>5. mem.dinode = inode
      <4>1. mem.dinode \in [Inode -> Nodes]
        BY <3>3 DEF Stores
      <4>2. \A ip \in Inode : mem.dinode[ip] = inode[ip]
        BY <2>1, <2>3 DEF Shape
      <4> QED
        BY <3>3, <4>1, <4>2
    <3> QED
      BY <3>4, <3>5
  <2> QED
    BY <2>1, <2>2, <2>3, TypedTypeOK DEF BlocksOwned
<1> QED
  BY <1>1, Invariance, PTL

\* Every file has its blocks up to its size and no others, and no offset is
\* beyond it: bmap finds the block that readi asks for (writei, readi, itrunc).
THEOREM FilesHaveNoHoles == Spec => []NoHoles
<1>1. IInv => NoHoles
  <2> SUFFICES ASSUME IInv
               PROVE  NoHoles
    OBVIOUS
  <2>1. Shape
    BY DEF IInv
  <2>2. \A ip \in Inode : Whole(disk.dinode[ip], disk.cell)
    BY <2>1, MapMem, Zenon DEF Shape, Filled, Whole
  <2>3. \A ip \in Inode : lock[ip] = None => Whole(inode[ip], mem.cell)
    BY <2>1, MapMem, Zenon DEF Shape, Filled, Whole
  <2>4. \A ip \in Inode, f \in File : InodeOf[f] = ip => off[f] <= inode[ip].size
    BY <2>1 DEF Shape
  <2> QED
    BY <2>2, <2>3, <2>4 DEF NoHoles
<1> QED
  BY <1>1, Invariance, PTL

\* A transaction of filewrite or iput passes at most MAXOPBLOCKS blocks to
\* log_write, which is what begin_op has reserved for it.
THEOREM TransactionsFit == Spec => []TxnFits
<1>1. IInv => TxnFits
  BY DEF IInv, Live, LogOf, TxnFits
<1> QED
  BY <1>1, Invariance, PTL

(***************************************************************************)
(* The refinement: what the files of bytes see.                            *)
(***************************************************************************)

LEMMA SeqOf ==
  ASSUME NEW n \in Nat, NEW s, DOMAIN s = 1..n, s = [i \in 1..n |-> s[i]]
  PROVE  Len(s) = n
<1> DEFINE S == {s[i] : i \in 1..n}
<1>1. s \in [1..n -> S]
  BY Zenon
<1> HIDE DEF S
<1>2. s \in Seq(S)
  BY <1>1, SeqDef
<1>3. Len(s) \in Nat /\ 1..Len(s) = 1..n
  BY <1>2, LenProperties
<1> QED
  BY <1>3

\* The values of the variables of ByteFile.
Text(ip) == Content(inode[ip], mem.cell, Extent(ip))
Saved(ip) == Content(disk.dinode[ip], disk.cell, disk.dinode[ip].size)
Busy(ip) ==
  IF Holds(ip, "write") = {}
  THEN [who |-> "none", file |-> "none", done |-> 0]
  ELSE LET p == CHOOSE q \in Holds(ip, "write") : TRUE
       IN  [who |-> p, file |-> call[p].file, done |-> call[p].tot]
Sent(p) == IF call[p].file = None THEN 0 ELSE call[p].i + call[p].tot
NotBusy == [who |-> "none", file |-> "none", done |-> 0]

\* Who looks at an inode sees it free, in the middle of a chunk, or empty.
ViewOf(ip) ==
  /\ lock[ip] = None => Extent(ip) = inode[ip].size /\ Busy(ip) = NotBusy
  /\ \A p \in Process :
       /\ pc[p] = "write" /\ call[p].ip = ip =>
            /\ Extent(ip) = End(p)
            /\ Busy(ip) = [who |-> p, file |-> call[p].file, done |-> call[p].tot]
       /\ pc[p] = "trunc" /\ call[p].ip = ip => Extent(ip) = 0 /\ Busy(ip) = NotBusy
  /\ lock[ip] = None \/ \E p \in Process : pc[p] \in Inside /\ call[p].ip = ip
View == \A ip \in Inode : ViewOf(ip)

LEMMA Views == IInv => View
<1> SUFFICES ASSUME IInv, NEW ip \in Inode
             PROVE  ViewOf(ip)
  BY DEF View
<1>1. Locks /\ Typed
  BY DEF IInv
<1>2. CASE lock[ip] = None
  <2>1. \A p \in Process : p # None
    BY Layout
  <2>2. \A p \in Process : ~(pc[p] \in Inside /\ call[p].ip = ip)
    BY <1>1, <1>2, <2>1 DEF Locks
  <2>3. Holds(ip, "write") = {} /\ Holds(ip, "trunc") = {}
    BY <1>2, <2>1 DEF Holds
  <2>4. Extent(ip) = inode[ip].size /\ Busy(ip) = NotBusy
    BY <2>3 DEF Extent, Busy, NotBusy
  <2> QED
    BY <1>2, <2>2, <2>4 DEF Inside, ViewOf
<1>3. CASE lock[ip] # None
  <2> DEFINE q == lock[ip]
  <2>1. q \in Process /\ pc[q] \in Inside /\ call[q].ip = ip
    BY <1>1, <1>3 DEF Locks, Typed
  <2>2. \A p \in Process : pc[p] \in Inside /\ call[p].ip = ip => p = q
    BY <1>1, <2>1, Mutex
  <2>3. \A l : Holds(ip, l) = IF pc[q] = l THEN {q} ELSE {}
    BY <2>1 DEF Holds
  <2> HIDE DEF q
  <2>4. CASE pc[q] = "write"
    <3>1. Holds(ip, "write") = {q} /\ Holds(ip, "trunc") = {}
      BY <2>3, <2>4
    <3>2. (CHOOSE p \in Holds(ip, "write") : TRUE) = q
      BY <3>1
    <3>3. Busy(ip) = [who |-> q, file |-> call[q].file, done |-> call[q].tot]
      BY <3>1, <3>2 DEF Busy
    <3>4. Extent(ip) = End(q)
      BY <2>1, <3>1, <3>2 DEF Extent, End
    <3> QED
      BY <1>3, <2>1, <2>2, <2>4, <3>3, <3>4 DEF Inside, ViewOf
  <2>5. CASE pc[q] = "trunc"
    <3>1. Holds(ip, "write") = {} /\ Holds(ip, "trunc") = {q}
      BY <2>3, <2>5
    <3>2. Busy(ip) = NotBusy /\ Extent(ip) = 0
      BY <3>1 DEF Extent, Busy, NotBusy
    <3> QED
      BY <1>3, <2>1, <2>2, <2>5, <3>2 DEF Inside, ViewOf
  <2> QED
    BY <2>1, <2>4, <2>5 DEF Inside, ViewOf
<1> QED
  BY <1>2, <1>3

\* An inode whose lock, size and holder do not change.
LEMMA Seen ==
  ASSUME View, View', NEW ip \in Inode,
         lock'[ip] = lock[ip], inode'[ip].size = inode[ip].size,
         \A q \in Process : pc[q] \in Inside /\ call[q].ip = ip =>
           /\ pc'[q] = pc[q] /\ call'[q] = call[q]
           /\ pc[q] = "write" => off'[call[q].file] = off[call[q].file]
  PROVE  Extent(ip)' = Extent(ip) /\ Busy(ip)' = Busy(ip)
<1>1. CASE lock[ip] = None
  BY <1>1 DEF View, ViewOf, NotBusy
<1>2. CASE lock[ip] # None
  <2>1. PICK q \in Process : pc[q] \in Inside /\ call[q].ip = ip
    BY <1>2 DEF View, ViewOf
  <2>2. /\ pc'[q] = pc[q] /\ call'[q] = call[q]
        /\ pc[q] = "write" => off'[call[q].file] = off[call[q].file]
    BY <2>1
  <2>3. pc[q] = "write" => End(q)' = End(q)
    BY <2>1, <2>2 DEF End, Position
  <2>4. CASE pc[q] = "write"
    BY <2>1, <2>2, <2>3, <2>4 DEF View, ViewOf
  <2>5. CASE pc[q] = "trunc"
    BY <2>1, <2>2, <2>5 DEF View, ViewOf, NotBusy
  <2> QED
    BY <2>1, <2>4, <2>5 DEF Inside, ViewOf
<1> QED
  BY <1>1, <1>2

\* The block and the place in it of a byte.
LEMMA BytePlace ==
  \A e \in Nat : \A i \in 1..e :
    e <= MAXFILE * BSIZE =>
      /\ (i - 1) \div BSIZE \in 0..(MAXFILE - 1) /\ (i - 1) % BSIZE \in 0..(BSIZE - 1)
      /\ ((i - 1) \div BSIZE) * BSIZE \in Nat
      /\ i - 1 = ((i - 1) \div BSIZE) * BSIZE + ((i - 1) % BSIZE)
<1> SUFFICES ASSUME NEW e \in Nat, NEW i \in 1..e, e <= MAXFILE * BSIZE
             PROVE  /\ (i - 1) \div BSIZE \in 0..(MAXFILE - 1)
                    /\ (i - 1) % BSIZE \in 0..(BSIZE - 1)
                    /\ ((i - 1) \div BSIZE) * BSIZE \in Nat
                    /\ i - 1 = ((i - 1) \div BSIZE) * BSIZE + ((i - 1) % BSIZE)
  OBVIOUS
<1> DEFINE x == i - 1
           m == x \div BSIZE
           k == x % BSIZE
<1>1. x \in Nat /\ x < e
  OBVIOUS
<1>2. m \in Nat /\ k \in 0..(BSIZE - 1) /\ x = BSIZE * m + k
  BY <1>1, DivMod, Layout
<1> HIDE DEF x, m, k
<1>3. m * BSIZE \in Nat /\ m * BSIZE = BSIZE * m
  BY <1>2, Layout
<1>4. MAXFILE \in Nat /\ MAXFILE * BSIZE \in Nat /\ BSIZE \in Nat
  BY Layout
<1>5. m * BSIZE < MAXFILE * BSIZE
  BY <1>1, <1>2, <1>3, <1>4
<1>6. m < MAXFILE
  BY <1>2, <1>4, <1>5, Apart
<1>7. /\ m \in 0..(MAXFILE - 1) /\ k \in 0..(BSIZE - 1)
      /\ m * BSIZE \in Nat /\ x = m * BSIZE + k
  BY <1>2, <1>3, <1>4, <1>6
<1> QED
  BY ONLY <1>7, Zenon DEF x, m, k

LEMMA OnePlace ==
  ASSUME NEW m \in Nat, NEW n \in Nat, NEW k \in 0..(BSIZE - 1), NEW l \in 0..(BSIZE - 1),
         m * BSIZE + k = n * BSIZE + l
  PROVE  m = n /\ k = l
<1> DEFINE a == m * BSIZE
           b == n * BSIZE
<1>1. /\ a \in Nat /\ b \in Nat /\ BSIZE \in Nat
      /\ m < n => a + BSIZE <= b
      /\ n < m => b + BSIZE <= a
  BY Apart, Layout
<1>2. a + k = b + l
  OBVIOUS
<1> HIDE DEF a, b
<1>3. m = n
  BY <1>1, <1>2
<1>4. a = b
  BY <1>3 DEF a, b
<1> QED
  BY <1>1, <1>2, <1>3, <1>4

\* A file that has its blocks: the bytes are in the blocks of its places.
LEMMA ContentAt ==
  ASSUME NEW node, NEW cell, NEW size \in Nat, size <= MAXFILE * BSIZE
  PROVE  LET c == Content(node, cell, size)
         IN  /\ DOMAIN c = 1..size /\ Len(c) = size /\ c = [i \in 1..size |-> c[i]]
             /\ \A i \in 1..size, m \in 0..(MAXFILE - 1), k \in 0..(BSIZE - 1) :
                  i - 1 = m * BSIZE + k => c[i] = cell[Addr(node.addrs, cell, m)][k]
<1> DEFINE c == Content(node, cell, size)
<1>1. c = [i \in 1..size |-> cell[Addr(node.addrs, cell, (i - 1) \div BSIZE)][(i - 1) % BSIZE]]
  BY DEF Content
<1>2. \A i \in 1..size : c[i] = cell[Addr(node.addrs, cell, (i - 1) \div BSIZE)][(i - 1) % BSIZE]
  BY <1>1
<1>3. DOMAIN c = 1..size /\ c = [i \in 1..size |-> c[i]]
  BY <1>1
<1> HIDE DEF c
<1>4. Len(c) = size
  BY <1>3, SeqOf
<1>5. ASSUME NEW i \in 1..size, NEW m \in 0..(MAXFILE - 1), NEW k \in 0..(BSIZE - 1),
             i - 1 = m * BSIZE + k
      PROVE  c[i] = cell[Addr(node.addrs, cell, m)][k]
  <2> DEFINE n == (i - 1) \div BSIZE
             l == (i - 1) % BSIZE
  <2>1. n \in 0..(MAXFILE - 1) /\ l \in 0..(BSIZE - 1) /\ i - 1 = n * BSIZE + l
    BY BytePlace, Zenon
  <2>2. c[i] = cell[Addr(node.addrs, cell, n)][l]
    BY <1>2
  <2> HIDE DEF n, l
  <2>3. m \in Nat /\ n \in Nat /\ m * BSIZE + k = n * BSIZE + l
    BY <1>5, <2>1
  <2>4. m = n /\ k = l
    BY ONLY <2>1, <2>3, k \in 0..(BSIZE - 1), OnePlace
  <2> QED
    BY <2>2, <2>4
<1> QED
  BY <1>3, <1>4, <1>5 DEF c

\* The bytes of an inode, and the places that they are at.
TextAt(ip, e) ==
  /\ Extent(ip) = e /\ e \in Nat /\ e <= MAXFILE * BSIZE
  /\ DOMAIN Text(ip) = 1..e /\ Len(Text(ip)) = e /\ Text(ip) = [i \in 1..e |-> Text(ip)[i]]
  /\ e = 0 \/ Filled(Now, ip, 0, e)
  /\ \A i \in 1..e, m \in 0..(MAXFILE - 1), k \in 0..(BSIZE - 1) :
       i - 1 = m * BSIZE + k =>
         /\ Text(ip)[i] = mem.cell[Now[<<ip, Spot(m)>>]][k]
         /\ Now[<<ip, Spot(m)>>] # 0 /\ <<ip, Spot(m)>> \in Kept
TextView == \A ip \in Inode : TextAt(ip, Extent(ip))

\* A chunk stays below the largest file.
LEMMA EndInFile ==
  ASSUME IInv, NEW p \in Process, pc[p] = "write"
  PROVE  End(p) \in Nat /\ End(p) <= MAXFILE * BSIZE
<1> DEFINE f == call[p].file
           ip == call[p].ip
<1>1. Typed /\ CallOf(p) /\ Shape /\ Writing(p)
  BY WriteIsWriting DEF IInv, Live
<1>2. /\ f \in File /\ ip \in Inode /\ ip = InodeOf[f] /\ off[f] \in Nat /\ N1(p) \in Nat
      /\ call[p].tot \in Nat /\ call[p].tot <= N1(p) /\ Position(p) = off[f] + call[p].tot
  BY <1>1, ChunkTypes
<1>3. inode[ip].size \in Nat /\ inode[ip].size <= MAXFILE * BSIZE /\ off[f] <= inode[ip].size
  BY <1>1, <1>2, NodeTypes DEF Shape
<1>4. call[p].tot > 0 => ~(off[f] + N1(p) > MAXFILE * BSIZE)
  BY <1>1 DEF CallOf, BadRange
<1>5. MAXFILE * BSIZE \in Nat
  BY Layout
<1> HIDE DEF f, ip
<1> QED
  BY <1>2, <1>3, <1>4, <1>5 DEF End, f, ip

LEMMA TextViews == IInv => TextView
<1> SUFFICES ASSUME IInv, NEW ip \in Inode
             PROVE  TextAt(ip, Extent(ip))
  BY DEF TextView
<1> DEFINE e == Extent(ip)
<1>1. Typed /\ Locks /\ Shape /\ View /\ \A p \in Process : Live(p)
  BY Views DEF IInv
<1>2. /\ e \in Nat /\ e <= MAXFILE * BSIZE
      /\ e = 0 \/ (Filled(Now, ip, 0, e) /\ ~\E q \in Process : pc[q] = "trunc" /\ call[q].ip = ip)
  <2>1. CASE lock[ip] = None
    <3>1. e = inode[ip].size /\ Filled(Now, ip, 0, e)
      BY <1>1, <2>1 DEF View, ViewOf, Shape
    <3>2. ~\E q \in Process : pc[q] = "trunc" /\ call[q].ip = ip
      BY <1>1, <2>1, Layout DEF Locks, Inside
    <3> QED
      BY <1>1, <3>1, <3>2, NodeTypes
  <2>2. CASE lock[ip] # None
    <3>1. PICK p \in Process : pc[p] \in Inside /\ call[p].ip = ip
      BY <1>1, <2>2 DEF View, ViewOf
    <3>2. CASE pc[p] = "write"
      <4>1. e = End(p) /\ Filled(Now, ip, 0, e)
        BY <1>1, <3>1, <3>2 DEF View, ViewOf, Live, CallShape
      <4>2. \A q \in Process : ~(pc[q] = "trunc" /\ call[q].ip = ip)
        BY <1>1, <3>1, <3>2, Mutex DEF Inside
      <4> QED
        BY <3>2, <4>1, <4>2, EndInFile
    <3>3. CASE pc[p] = "trunc"
      <4>1. e = 0
        BY <1>1, <3>1, <3>3 DEF View, ViewOf
      <4> QED
        BY <4>1, Layout
    <3> QED
      BY <3>1, <3>2, <3>3 DEF Inside
  <2> QED
    BY <2>1, <2>2
<1> HIDE DEF e
<1>3. Text(ip) = Content(inode[ip], mem.cell, e)
  BY DEF Text, e
<1>4. /\ DOMAIN Text(ip) = 1..e /\ Len(Text(ip)) = e /\ Text(ip) = [i \in 1..e |-> Text(ip)[i]]
      /\ \A i \in 1..e, m \in 0..(MAXFILE - 1), k \in 0..(BSIZE - 1) :
           i - 1 = m * BSIZE + k => Text(ip)[i] = mem.cell[Addr(inode[ip].addrs, mem.cell, m)][k]
  BY <1>2, <1>3, ContentAt
<1>5. ASSUME NEW i \in 1..e, NEW m \in 0..(MAXFILE - 1), NEW k \in 0..(BSIZE - 1),
             i - 1 = m * BSIZE + k
      PROVE  /\ Text(ip)[i] = mem.cell[Now[<<ip, Spot(m)>>]][k]
             /\ Now[<<ip, Spot(m)>>] # 0 /\ <<ip, Spot(m)>> \in Kept
  <2>1. /\ <<ip, Spot(m)>> \in All
        /\ Now[<<ip, Spot(m)>>] = Addr(inode[ip].addrs, mem.cell, m)
    BY MapMem
  <2>2. m * BSIZE < e
    <3>1. m * BSIZE \in Nat
      BY Layout
    <3> QED
      BY <1>2, <1>5, <3>1
  <2>3. e # 0
    BY <1>2, <1>5
  <2>4. Now[<<ip, Spot(m)>>] # 0
    BY <1>2, <2>2, <2>3 DEF Filled
  <2>5. ~Cleared(<<ip, Spot(m)>>)
    BY <1>2, <2>3 DEF Cleared
  <2> QED
    BY <1>4, <1>5, <2>1, <2>4, <2>5 DEF Kept
<1>6. e = 0 \/ Filled(Now, ip, 0, e)
  BY <1>2
<1> QED
  BY <1>2, <1>4, <1>5, <1>6 DEF TextAt, e

\* A file whose size and blocks do not change has the same bytes.
LEMMA SameText ==
  ASSUME TextView, TextView', NEW j \in Inode, Extent(j)' = Extent(j),
         \A m \in 0..(MAXFILE - 1) :
           Now[<<j, Spot(m)>>] # 0 /\ <<j, Spot(m)>> \in Kept =>
             /\ Now'[<<j, Spot(m)>>] = Now[<<j, Spot(m)>>]
             /\ mem'.cell[Now[<<j, Spot(m)>>]] = mem.cell[Now[<<j, Spot(m)>>]]
  PROVE  Text(j)' = Text(j)
<1> DEFINE e == Extent(j)
           a == Text(j)
           b == Text(j)'
<1>1. /\ e \in Nat /\ e <= MAXFILE * BSIZE
      /\ a = [i \in 1..e |-> a[i]]
      /\ \A i \in 1..e, m \in 0..(MAXFILE - 1), k \in 0..(BSIZE - 1) :
           i - 1 = m * BSIZE + k =>
             /\ a[i] = mem.cell[Now[<<j, Spot(m)>>]][k]
             /\ Now[<<j, Spot(m)>>] # 0 /\ <<j, Spot(m)>> \in Kept
  BY DEF TextView, TextAt
<1>2. /\ b = [i \in 1..e |-> b[i]]
      /\ \A i \in 1..e, m \in 0..(MAXFILE - 1), k \in 0..(BSIZE - 1) :
           i - 1 = m * BSIZE + k => b[i] = mem'.cell[Now'[<<j, Spot(m)>>]][k]
  BY DEF TextView, TextAt, Spot
<1> HIDE DEF e, a, b
<1>3. ASSUME NEW i \in 1..e
      PROVE  a[i] = b[i]
  <2>1. PICK m \in 0..(MAXFILE - 1), k \in 0..(BSIZE - 1) : i - 1 = m * BSIZE + k
    BY <1>1, BytePlace, Zenon
  <2>2. /\ a[i] = mem.cell[Now[<<j, Spot(m)>>]][k]
        /\ Now[<<j, Spot(m)>>] # 0 /\ <<j, Spot(m)>> \in Kept
        /\ b[i] = mem'.cell[Now'[<<j, Spot(m)>>]][k]
    BY <1>1, <1>2, <2>1, Zenon
  <2>3. /\ Now'[<<j, Spot(m)>>] = Now[<<j, Spot(m)>>]
        /\ mem'.cell[Now[<<j, Spot(m)>>]] = mem.cell[Now[<<j, Spot(m)>>]]
    BY <2>2
  <2> QED
    BY <2>2, <2>3
<1>4. a = b
  BY <1>1, <1>2, <1>3, Zenon
<1> QED
  BY <1>4 DEF a, b

\* The variables of ByteFile change with the five operators.
LEMMA Unseen ==
  ASSUME \A ip \in Inode : /\ Text(ip)' = Text(ip) /\ Saved(ip)' = Saved(ip)
                           /\ Busy(ip)' = Busy(ip),
         \A p \in Process : Sent(p)' = Sent(p), off' = off
  PROVE  UNCHANGED Files!vars
<1>1. [ip \in Inode |-> Text(ip)]' = [ip \in Inode |-> Text(ip)]
  BY Zenon
<1>2. [ip \in Inode |-> Saved(ip)]' = [ip \in Inode |-> Saved(ip)]
  BY Zenon
<1>3. [ip \in Inode |-> Busy(ip)]' = [ip \in Inode |-> Busy(ip)]
  BY Zenon
<1>4. [p \in Process |-> Sent(p)]' = [p \in Process |-> Sent(p)]
  BY Zenon
<1> QED
  BY <1>1, <1>2, <1>3, <1>4, Zenon DEF Files!vars, Text, Saved, Busy, Sent

\* Steps that leave the blocks, the sizes and the locks alone.
LEMMA SameView ==
  ASSUME IInv, IInv', mem'.cell = mem.cell, inode' = inode, lock' = lock, disk' = disk,
         \A q \in Process : pc[q] \in Inside =>
           /\ pc'[q] = pc[q] /\ call'[q] = call[q]
           /\ pc[q] = "write" => off'[call[q].file] = off[call[q].file]
  PROVE  \A ip \in Inode : /\ Text(ip)' = Text(ip) /\ Saved(ip)' = Saved(ip)
                           /\ Busy(ip)' = Busy(ip)
<1>1. View /\ TextView
  BY Views, TextViews
<1>2. View'
  BY Views, PTL
<1>3. TextView'
  BY TextViews, PTL
<1> SUFFICES ASSUME NEW ip \in Inode
             PROVE  /\ Text(ip)' = Text(ip) /\ Saved(ip)' = Saved(ip)
                    /\ Busy(ip)' = Busy(ip)
  OBVIOUS
<1>4. Extent(ip)' = Extent(ip) /\ Busy(ip)' = Busy(ip)
  BY <1>1, <1>2, Seen
<1>5. \A x \in All : Now'[x] = Now[x]
  BY DEF Now, Map, Place, All, Places
<1>6. \A m \in 0..(MAXFILE - 1) : <<ip, Spot(m)>> \in All
  BY MapMem
<1>7. Text(ip)' = Text(ip)
  BY <1>1, <1>3, <1>4, <1>5, <1>6, SameText
<1>8. Saved(ip)' = Saved(ip)
  BY DEF Saved, Content, Addr
<1> QED
  BY <1>4, <1>7, <1>8

LEMMA SentSame ==
  ASSUME NEW p \in Process, call'[p] = call[p]
  PROVE  Sent(p)' = Sent(p)
BY DEF Sent

\* The variables of ByteFile that are expressions here.
AContent == [ip \in Inode |-> Text(ip)]
AStable == [ip \in Inode |-> Saved(ip)]
ABusy == [ip \in Inode |-> Busy(ip)]
ASent == [p \in Process |-> Sent(p)]

LEMMA Frame ==
  /\ (\A ip \in Inode : Text(ip)' = Text(ip)) => AContent' = AContent
  /\ (\A ip \in Inode : Saved(ip)' = Saved(ip)) => AStable' = AStable
  /\ (\A ip \in Inode : Busy(ip)' = Busy(ip)) => ABusy' = ABusy
  /\ (\A p \in Process : Sent(p)' = Sent(p)) => ASent' = ASent
BY Zenon DEF AContent, AStable, ABusy, ASent

\* Steps that a file of bytes does not see.
LEMMA QuietRefines ==
  ASSUME IInv, IInv', NEW p \in Process,
         \/ BallocPanic(p) \/ BeginOp(p) \/ UNCHANGED vars
         \/ (\E f \in File : Write(p, f)) \/ (\E ip \in Inode : Remove(p, ip))
  PROVE  UNCHANGED Files!vars
<1>1. Typed /\ CallOf(p)
  BY DEF IInv, Live
<1>2. /\ mem' = mem /\ disk' = disk /\ inode' = inode /\ lock' = lock /\ off' = off
      /\ pc[p] \notin Inside \/ pc' = pc
      /\ \A q \in Process : q # p => pc'[q] = pc[q] /\ call'[q] = call[q]
      /\ call' = call \/ pc[p] = "user"
  BY <1>1, Zenon DEF BallocPanic, BeginOp, Write, Remove, User, Goto, vars, store, procs, Typed, Inside
<1>3. Sent(p)' = Sent(p)
  <2>1. CASE call' = call
    BY <2>1, SentSame
  <2>2. CASE call' # call
    <3>1. pc[p] = "user" /\ call[p] = NoCall
      BY <1>1, <1>2, <2>2 DEF CallOf
    <3>2. Sent(p) = 0
      BY <3>1 DEF Sent, NoCall
    <3>3. \/ \E f \in File, n \in Lengths :
               call'[p] = [NoCall EXCEPT !.file = f, !.ip = InodeOf[f], !.n = n]
          \/ \E ip \in Inode : call'[p] = [NoCall EXCEPT !.ip = ip]
      BY <1>1, <2>2, Zenon DEF BallocPanic, BeginOp, Write, Remove, vars, procs, Typed
    <3>4. call'[p].file = None \/ (call'[p].i = 0 /\ call'[p].tot = 0)
      BY <3>3, Zenon DEF NoCall
    <3> QED
      BY <3>2, <3>4 DEF Sent
  <2> QED
    BY <2>1, <2>2
<1>4. \A q \in Process : Sent(q)' = Sent(q)
  BY <1>2, <1>3, SentSame
<1>5. \A q \in Process : pc[q] \in Inside =>
        /\ pc'[q] = pc[q] /\ call'[q] = call[q]
        /\ pc[q] = "write" => off'[call[q].file] = off[call[q].file]
  BY <1>2 DEF Inside
<1>6. \A ip \in Inode : /\ Text(ip)' = Text(ip) /\ Saved(ip)' = Saved(ip)
                        /\ Busy(ip)' = Busy(ip)
  BY <1>2, <1>5, SameView
<1> QED
  BY <1>2, <1>4, <1>6, Unseen

\* open, the last close, read: the offset of a file that nobody writes.
LEMMA OffRefines ==
  ASSUME IInv, IInv', NEW f \in File,
         Open(f) \/ Close(f) \/ \E p \in Process : Read(p, f)
  PROVE  /\ AContent' = AContent /\ AStable' = AStable /\ ABusy' = ABusy /\ ASent' = ASent
<1>1. Typed /\ Locks /\ \A p \in Process : CallOf(p)
  BY DEF IInv, Live
<1>2. /\ mem' = mem /\ disk' = disk /\ inode' = inode /\ lock' = lock
      /\ pc' = pc /\ call' = call
      /\ \E v : off' = [off EXCEPT ![f] = v]
  BY DEF Open, Close, Read, store, procs
<1>3. ASSUME NEW q \in Process, pc[q] = "write"
      PROVE  call[q].file # f
  <2>1. Writing(q)
    BY <1>1, <1>3, WriteIsWriting
  <2>2. /\ call[q].file \in File /\ off[call[q].file] # Closed
        /\ call[q].ip = InodeOf[call[q].file] /\ lock[call[q].ip] = q
    BY <1>1, <1>3, <2>1, ChunkTypes DEF CallOf, Locks, Inside
  <2>3. q # None
    BY Layout
  <2> QED
    BY <2>2, <2>3 DEF Open, Close, Read, Unused
<1>4. \A q \in Process : pc[q] = "write" => off'[call[q].file] = off[call[q].file]
  <2>1. off \in [File -> 0..(MAXFILE * BSIZE) \cup {Closed}]
    BY <1>1 DEF Typed
  <2>2. \A q \in Process : pc[q] = "write" => call[q].file \in File
    BY <1>1, ChunkTypes, WriteIsWriting
  <2> QED
    BY <1>2, <1>3, <2>1, <2>2
<1>5. \A ip \in Inode : /\ Text(ip)' = Text(ip) /\ Saved(ip)' = Saved(ip)
                        /\ Busy(ip)' = Busy(ip)
  BY <1>2, <1>4, SameView
<1>6. \A q \in Process : Sent(q)' = Sent(q)
  BY <1>2, SentSame
<1> QED
  BY <1>5, <1>6, Frame

LEMMA OpenRefines ==
  ASSUME IInv, IInv', NEW f \in File, Open(f)
  PROVE  Files!Open(f)
<1>1. off[f] = Closed /\ off' = [off EXCEPT ![f] = 0]
  BY DEF Open
<1>2. /\ AContent' = AContent /\ AStable' = AStable /\ ABusy' = ABusy /\ ASent' = ASent
  BY OffRefines
<1> QED
  BY <1>1, <1>2, Zenon DEF Files!Open, Files!Closed, Closed, AContent, AStable, ABusy, ASent,
    Text, Saved, Busy, Sent

LEMMA CloseRefines ==
  ASSUME IInv, IInv', NEW f \in File, Close(f)
  PROVE  Files!Close(f)
<1>1. off[f] # Closed /\ off' = [off EXCEPT ![f] = Closed]
  BY DEF Close
<1>2. /\ AContent' = AContent /\ AStable' = AStable /\ ABusy' = ABusy /\ ASent' = ASent
  BY OffRefines
<1> QED
  BY <1>1, <1>2, Zenon DEF Files!Close, Files!Closed, Closed, AContent, AStable, ABusy, ASent,
    Text, Saved, Busy, Sent

LEMMA ReadRefines ==
  ASSUME IInv, IInv', NEW f \in File, NEW p \in Process, Read(p, f)
  PROVE  Files!Read(f)
<1> DEFINE ip == InodeOf[f]
           size == Len(AContent[ip])
<1>1. /\ off[f] # Closed /\ lock[ip] = None
      /\ \E n \in Lengths : off' = [off EXCEPT ![f] = Lesser(@ + n, inode[ip].size)]
  BY Zenon DEF Read
<1>2. /\ AContent' = AContent /\ AStable' = AStable /\ ABusy' = ABusy /\ ASent' = ASent
  BY OffRefines
<1>3. ip \in Inode
  BY Layout
<1>4. View /\ TextView
  BY Views, TextViews
<1>5. ABusy[ip] = NotBusy /\ size = inode[ip].size
  BY <1>1, <1>3, <1>4 DEF View, ViewOf, TextView, TextAt, ABusy, AContent
<1>6. \E n \in Lengths :
        off' = [off EXCEPT ![f] = IF @ + n < size THEN @ + n ELSE size]
  BY <1>1, <1>5, Zenon DEF Lesser
<1>7. /\ off[f] # Files!Closed /\ ABusy[ip] = Files!Idle
      /\ \E n \in Lengths : off' = [off EXCEPT ![f] = IF @ + n < size THEN @ + n ELSE size]
  BY <1>1, <1>5, <1>6, Zenon DEF Closed, Files!Closed, Files!Idle, NotBusy
<1> QED
  BY <1>2, <1>7, Zenon DEF Files!Read, AContent, AStable, ABusy, ASent,
    Text, Saved, Busy, Sent

\* Files that a step on another inode leaves alone.
LEMMA OtherText ==
  ASSUME IInv, IInv', NEW j \in Inode, lock'[j] = lock[j], inode'[j] = inode[j],
         mem'.cell = mem.cell,
         \A q \in Process : pc[q] \in Inside /\ call[q].ip = j =>
           /\ pc'[q] = pc[q] /\ call'[q] = call[q]
           /\ pc[q] = "write" => off'[call[q].file] = off[call[q].file]
  PROVE  Text(j)' = Text(j) /\ Busy(j)' = Busy(j)
<1>1. View /\ TextView
  BY Views, TextViews
<1>2. View'
  BY Views, PTL
<1>3. TextView'
  BY TextViews, PTL
<1>4. Extent(j)' = Extent(j) /\ Busy(j)' = Busy(j)
  BY <1>1, <1>2, Seen
<1>5. \A m \in 0..(MAXFILE - 1) :
        Now'[<<j, Spot(m)>>] = Now[<<j, Spot(m)>>]
  <2>1. \A m \in 0..(MAXFILE - 1) : <<j, Spot(m)>> \in All
    BY MapMem
  <2> QED
    BY <2>1, Zenon DEF Now, Map, Place, All, Places
<1> QED
  BY <1>1, <1>3, <1>4, <1>5, SameText

\* One inode changes hands; the others do not.
LEMMA OneChanges ==
  ASSUME NEW ip \in Inode, NEW text, NEW busy,
         \A j \in Inode : j # ip => Text(j)' = Text(j) /\ Busy(j)' = Busy(j),
         Text(ip)' = text, Busy(ip)' = busy
  PROVE  /\ AContent' = [AContent EXCEPT ![ip] = text]
         /\ ABusy' = [ABusy EXCEPT ![ip] = busy]
<1>1. AContent' = [j \in Inode |-> Text(j)'] /\ ABusy' = [j \in Inode |-> Busy(j)']
  BY DEF AContent, ABusy
<1>2. AContent = [j \in Inode |-> Text(j)] /\ ABusy = [j \in Inode |-> Busy(j)]
  BY DEF AContent, ABusy
<1>3. /\ [j \in Inode |-> Text(j)'] = [[j \in Inode |-> Text(j)] EXCEPT ![ip] = text]
      /\ [j \in Inode |-> Busy(j)'] = [[j \in Inode |-> Busy(j)] EXCEPT ![ip] = busy]
  OBVIOUS
<1> QED
  BY <1>1, <1>2, <1>3, Zenon

\* ilock: a chunk begins, or the file is gone.
LEMMA IlockRefines ==
  ASSUME IInv, IInv', NEW p \in Process, Ilock(p),
         NEW ip \in Inode, ip = call[p].ip, NEW f, f = call[p].file
  PROVE  Files!Next
<1>1. /\ pc[p] = "lock" /\ lock[ip] = None /\ lock' = [lock EXCEPT ![ip] = p]
      /\ pc' = [pc EXCEPT ![p] = IF f = None THEN "trunc" ELSE "write"]
      /\ mem' = mem /\ disk' = disk /\ inode' = inode /\ off' = off /\ call' = call
  BY DEF Ilock, Goto, store
<1>2. Typed /\ Locks /\ CallOf(p) /\ Shape
  BY DEF IInv, Live
<1>3. /\ pc \in [Process -> Points] /\ lock \in [Inode -> Process \cup {None}]
  BY <1>2 DEF Typed
<1>4. View /\ TextView
  BY Views, TextViews
<1>5. View'
  BY Views, PTL
<1>6. TextView'
  BY TextViews, PTL
<1>7. ip \in Inode /\ call[p].tot = 0 /\ call[p].ip = ip
  BY <1>1, <1>2 DEF CallOf
<1>8. \A j \in Inode : j # ip => Text(j)' = Text(j) /\ Busy(j)' = Busy(j)
  <2> SUFFICES ASSUME NEW j \in Inode, j # ip
               PROVE  Text(j)' = Text(j) /\ Busy(j)' = Busy(j)
    OBVIOUS
  <2>1. /\ lock'[j] = lock[j] /\ inode'[j] = inode[j] /\ mem'.cell = mem.cell
        /\ \A q \in Process : pc[q] \in Inside /\ call[q].ip = j =>
             /\ pc'[q] = pc[q] /\ call'[q] = call[q]
             /\ pc[q] = "write" => off'[call[q].file] = off[call[q].file]
    BY <1>1, <1>3, <1>7 DEF Inside
  <2> QED
    BY <2>1, OtherText
<1>9. /\ AStable' = AStable /\ ASent' = ASent
  <2>1. \A j \in Inode : Saved(j)' = Saved(j)
    BY <1>1 DEF Saved, Content, Addr
  <2>2. \A q \in Process : Sent(q)' = Sent(q)
    BY <1>1, SentSame
  <2> QED
    BY <2>1, <2>2, Frame
<1>10. ABusy[ip] = Files!Idle /\ AContent[ip] = Text(ip)
  BY <1>1, <1>4, <1>7 DEF View, ViewOf, ABusy, AContent, NotBusy, Files!Idle
<1>11. CASE f = None
  <2>1. pc'[p] = "trunc" /\ call'[p].ip = ip
    BY <1>1, <1>3, <1>11
  <2>2. Extent(ip)' = 0 /\ Busy(ip)' = NotBusy
    BY <1>5, <1>7, <2>1 DEF View, ViewOf, NotBusy
  <2>3. Text(ip)' = <<>>
    <3>1. DOMAIN Text(ip)' = 1..0 /\ Text(ip)' = [i \in 1..0 |-> Text(ip)'[i]]
      BY <1>6, <1>7, <2>2 DEF TextView, TextAt
    <3> QED
      BY <3>1
  <2>4. AContent' = [AContent EXCEPT ![ip] = <<>>] /\ ABusy' = [ABusy EXCEPT ![ip] = NotBusy]
    BY <1>7, <1>8, <2>2, <2>3, OneChanges
  <2>5. ABusy' = ABusy
    BY <1>10, <2>4 DEF ABusy, Files!Idle, NotBusy
  <2>6. \A g \in File : InodeOf[g] = ip => off[g] = Files!Closed
    BY <1>1, <1>2, <1>11 DEF CallOf, Removing, Closed, Files!Closed
  <2>7. Files!Remove(ip)
    BY <1>1, <1>9, <1>10, <2>4, <2>5, <2>6, Zenon DEF Files!Remove, AContent, AStable, ABusy, ASent,
      Text, Saved, Busy, Sent
  <2> QED
    BY <1>7, <2>7 DEF Files!Next
<1>12. CASE f # None
  <2>1. pc'[p] = "write" /\ call'[p].ip = ip /\ call'[p].file = f /\ call'[p].tot = 0
    BY <1>1, <1>3, <1>7, <1>12
  <2>2. /\ f \in File /\ ip = InodeOf[f] /\ off[f] # Files!Closed
        /\ off[f] \in Nat /\ off[f] <= inode[ip].size /\ inode[ip].size \in Nat
    <3>1. Writing(p)
      BY <1>1, <1>12 DEF Writing
    <3> QED
      BY <1>2, <1>7, <3>1, ChunkTypes, NodeTypes, Zenon DEF CallOf, Closed, Files!Closed, Shape
  <2>3. Extent(ip)' = End(p)' /\ Busy(ip)' = [who |-> p, file |-> f, done |-> 0]
    BY <1>5, <1>7, <2>1 DEF View, ViewOf
  <2>4. End(p)' = inode[ip].size
    BY <1>1, <1>7, <2>1, <2>2 DEF End, Position
  <2>5. Extent(ip) = inode[ip].size
    BY <1>1, <1>4, <1>7 DEF View, ViewOf
  <2>6. Text(ip)' = Text(ip)
    <3>1. \A m \in 0..(MAXFILE - 1) : Now'[<<ip, Spot(m)>>] = Now[<<ip, Spot(m)>>]
      <4>1. \A m \in 0..(MAXFILE - 1) : <<ip, Spot(m)>> \in All
        BY <1>7, MapMem
      <4> QED
        BY <1>1, <4>1 DEF Now, Map, Place, All, Places
    <3> QED
      BY <1>1, <1>4, <1>6, <1>7, <2>3, <2>4, <2>5, <3>1, SameText
  <2>7. /\ AContent' = [AContent EXCEPT ![ip] = Text(ip)]
        /\ ABusy' = [ABusy EXCEPT ![ip] = [who |-> p, file |-> f, done |-> 0]]
    BY <1>7, <1>8, <2>3, <2>6, OneChanges
  <2>8. AContent' = AContent
    BY <1>10, <2>7 DEF AContent
  <2>9. Files!Begin(p, f)
    BY <1>1, <1>9, <1>10, <2>2, <2>7, <2>8, Zenon DEF Files!Begin, AContent, AStable, ABusy, ASent,
      Text, Saved, Busy, Sent
  <2> QED
    BY <2>2, <2>9 DEF Files!Next
<1> QED
  BY <1>11, <1>12

LEMMA EmptyText ==
  ASSUME TextView, NEW ip \in Inode, Extent(ip) = 0
  PROVE  Text(ip) = <<>>
<1>1. Text(ip) = [i \in 1..0 |-> Text(ip)[i]]
  BY DEF TextView, TextAt
<1> QED
  BY <1>1

\* The end of writei: the size covers what the chunk has put.
LEMMA EndRefines ==
  ASSUME IInv, IInv', NEW p \in Process, pc[p] = "write",
         NEW ip \in Inode, ip = call[p].ip, NEW f, f = call[p].file,
         pc' = [pc EXCEPT ![p] = "end"], lock' = [lock EXCEPT ![ip] = None],
         mem'.cell = mem.cell, disk' = disk, call' = call,
         inode'[ip].addrs = inode[ip].addrs, inode'[ip].size = End(p),
         \A j \in Inode : j # ip => inode'[j] = inode[j],
         off' = [off EXCEPT ![f] = @ + call[p].tot]
  PROVE  Files!End(f)
<1>1. Typed /\ Locks /\ \A q \in Process : CallOf(q)
  BY DEF IInv, Live
<1>2. /\ pc \in [Process -> Points] /\ lock \in [Inode -> Process \cup {None}]
      /\ off \in [File -> 0..(MAXFILE * BSIZE) \cup {Closed}]
  BY <1>1 DEF Typed
<1>3. View /\ TextView
  BY Views, TextViews
<1>4. View'
  BY Views, PTL
<1>5. TextView'
  BY TextViews, PTL
<1>6. f \in File /\ InodeOf[f] = ip
  BY <1>1, ChunkTypes, WriteIsWriting
<1>7. \A j \in Inode : j # ip => Text(j)' = Text(j) /\ Busy(j)' = Busy(j)
  <2> SUFFICES ASSUME NEW j \in Inode, j # ip
               PROVE  Text(j)' = Text(j) /\ Busy(j)' = Busy(j)
    OBVIOUS
  <2>1. ASSUME NEW q \in Process, pc[q] \in Inside, call[q].ip = j
        PROVE  /\ pc'[q] = pc[q] /\ call'[q] = call[q]
               /\ pc[q] = "write" => off'[call[q].file] = off[call[q].file]
    <3>1. q # p
      BY <2>1
    <3>2. pc[q] = "write" => call[q].file \in File /\ InodeOf[call[q].file] = j
      BY <1>1, <2>1, ChunkTypes, WriteIsWriting
    <3> QED
      BY <1>2, <1>6, <3>1, <3>2
  <2>2. lock'[j] = lock[j] /\ inode'[j] = inode[j]
    BY <1>2
  <2> QED
    BY <2>1, <2>2, OtherText
<1>8. AStable' = AStable /\ ASent' = ASent
  <2>1. \A j \in Inode : Saved(j)' = Saved(j)
    BY DEF Saved, Content, Addr
  <2>2. \A q \in Process : Sent(q)' = Sent(q)
    BY SentSame
  <2> QED
    BY <2>1, <2>2, Frame
<1>9. /\ ABusy[ip] = [who |-> p, file |-> f, done |-> call[p].tot]
      /\ Extent(ip) = End(p) /\ AContent[ip] = Text(ip)
  BY <1>3 DEF View, ViewOf, ABusy, AContent
<1>10. Extent(ip)' = End(p) /\ Busy(ip)' = NotBusy
  <2>1. lock'[ip] = None
    BY <1>2
  <2> QED
    BY <1>4, <2>1 DEF View, ViewOf, NotBusy
<1>11. Text(ip)' = Text(ip)
  <2>1. \A m \in 0..(MAXFILE - 1) : Now'[<<ip, Spot(m)>>] = Now[<<ip, Spot(m)>>]
    <3>1. \A m \in 0..(MAXFILE - 1) : <<ip, Spot(m)>> \in All
      BY MapMem
    <3> QED
      BY <3>1, Zenon DEF Now, Map, Place, All, Places
  <2> QED
    BY <1>3, <1>5, <1>9, <1>10, <2>1, SameText
<1>12. AContent' = [AContent EXCEPT ![ip] = Text(ip)] /\ ABusy' = [ABusy EXCEPT ![ip] = NotBusy]
  BY <1>7, <1>10, <1>11, OneChanges
<1>13. AContent' = AContent
  BY <1>9, <1>12 DEF AContent
<1>14. /\ ABusy[InodeOf[f]].file = f
       /\ off' = [off EXCEPT ![f] = @ + ABusy[InodeOf[f]].done]
       /\ ABusy' = [ABusy EXCEPT ![InodeOf[f]] = Files!Idle]
  BY <1>6, <1>9, <1>12 DEF Files!Idle, NotBusy
<1> QED
  BY <1>8, <1>13, <1>14, Zenon DEF Files!End, AContent, AStable, ABusy, ASent,
    Text, Saved, Busy, Sent

LEMMA WriteDoneRefines ==
  ASSUME IInv, IInv', NEW p \in Process, WriteDone(p),
         NEW ip \in Inode, ip = call[p].ip, NEW f, f = call[p].file
  PROVE  Files!End(f)
<1> DEFINE end == Position(p)
           node == [inode[ip] EXCEPT !.size = end]
<1>1. /\ pc[p] = "write" /\ pc' = [pc EXCEPT ![p] = "end"] /\ lock' = [lock EXCEPT ![ip] = None]
      /\ disk' = disk /\ call' = call
      /\ IF end > inode[ip].size
         THEN /\ inode' = [inode EXCEPT ![ip] = node]
              /\ mem' = [mem EXCEPT !.dinode[ip] = node]
         ELSE UNCHANGED <<inode, mem>>
      /\ off' = [off EXCEPT ![f] = end]
  BY DEF WriteDone, Goto
<1>2. Typed /\ CallOf(p)
  BY DEF IInv, Live
<1>3. inode \in [Inode -> Nodes] /\ mem \in Stores
  BY <1>2 DEF Typed
<1>4. end = off[f] + call[p].tot
  BY DEF Position
<1>5. End(p) = IF end > inode[ip].size THEN end ELSE inode[ip].size
  BY DEF End
<1>6. off' = [off EXCEPT ![f] = @ + call[p].tot]
  BY <1>1, <1>4
<1> HIDE DEF end
<1>7. /\ mem'.cell = mem.cell
      /\ inode'[ip].addrs = inode[ip].addrs /\ inode'[ip].size = End(p)
      /\ \A j \in Inode : j # ip => inode'[j] = inode[j]
  <2>1. CASE end > inode[ip].size
    <3>1. inode' = [inode EXCEPT ![ip] = node] /\ mem' = [mem EXCEPT !.dinode[ip] = node]
      BY <1>1, <2>1
    <3>2. node.addrs = inode[ip].addrs /\ node.size = end
      BY <1>3 DEF Nodes
    <3>3. mem'.cell = mem.cell
      BY <1>3, <3>1 DEF Stores
    <3> HIDE DEF node
    <3> QED
      BY <1>3, <1>5, <2>1, <3>1, <3>2, <3>3
  <2>2. CASE ~(end > inode[ip].size)
    BY <1>1, <1>5, <2>2
  <2> QED
    BY <2>1, <2>2
<1> QED
  BY <1>1, <1>6, <1>7, EndRefines, Zenon

\* A chunk that writei refuses.
LEMMA WriteBadRefines ==
  ASSUME IInv, IInv', NEW p \in Process, WriteBad(p),
         NEW ip \in Inode, ip = call[p].ip, NEW f, f = call[p].file
  PROVE  Files!End(f)
<1>1. /\ pc[p] = "write" /\ pc' = [pc EXCEPT ![p] = "end"] /\ lock' = [lock EXCEPT ![ip] = None]
      /\ mem' = mem /\ disk' = disk /\ inode' = inode /\ off' = off /\ call' = call
      /\ BadRange(p)
  BY DEF WriteBad, Goto, store
<1>2. Typed /\ CallOf(p) /\ Shape
  BY DEF IInv, Live
<1>3. off \in [File -> 0..(MAXFILE * BSIZE) \cup {Closed}]
  BY <1>2 DEF Typed
<1>4. f \in File /\ InodeOf[f] = ip /\ off[f] \in Nat /\ call[p].tot \in Nat
  BY <1>1, <1>2, ChunkTypes, WriteIsWriting
<1>5. call[p].tot = 0
  BY <1>1, <1>2, <1>4 DEF CallOf
<1>6. off' = [off EXCEPT ![f] = @ + call[p].tot]
  BY <1>1, <1>3, <1>4, <1>5
<1>7. End(p) = inode[ip].size
  BY <1>2, <1>4, <1>5, NodeTypes DEF End, Position, Shape
<1> QED
  BY <1>1, <1>6, <1>7, EndRefines, Zenon


\* Who is in no chunk.
LEMMA NotWho ==
  ASSUME View, NEW p \in Process, pc[p] # "write", NEW ip \in Inode
  PROVE  Busy(ip).who # p
<1>1. NotBusy.who # p
  BY Layout DEF NotBusy, None
<1>2. CASE lock[ip] = None
  BY <1>1, <1>2 DEF View, ViewOf
<1>3. CASE lock[ip] # None
  <2>1. PICK q \in Process : pc[q] \in Inside /\ call[q].ip = ip
    BY <1>3 DEF View, ViewOf
  <2>2. CASE pc[q] = "write"
    <3>1. Busy(ip) = [who |-> q, file |-> call[q].file, done |-> call[q].tot]
      BY <2>1, <2>2 DEF View, ViewOf
    <3> QED
      BY <2>2, <3>1
  <2>3. CASE pc[q] = "trunc"
    BY <1>1, <2>1, <2>3 DEF View, ViewOf
  <2> QED
    BY <2>1, <2>2, <2>3 DEF Inside
<1> QED
  BY <1>2, <1>3

\* end_op: the last call of a transaction commits what the files are.
LEMMA EndOpRefines ==
  ASSUME IInv, IInv', NEW p \in Process, EndOp(p)
  PROVE  Files!EndTxn(p)
<1> DEFINE c == call[p]
           i == c.i + c.tot
           more == c.tot > 0 /\ i < c.n
           d == IF more THEN [c EXCEPT !.i = i, !.tot = 0] ELSE NoCall
<1>1. /\ pc[p] = "end"
      /\ disk' = IF outstanding = {p} THEN mem ELSE disk
      /\ call' = [call EXCEPT ![p] = d]
      /\ pc' = [pc EXCEPT ![p] = IF more THEN "begin" ELSE "user"]
      /\ mem' = mem /\ inode' = inode /\ lock' = lock /\ off' = off
  BY DEF EndOp, Goto
<1>2. Typed /\ Locks /\ Shape
  BY DEF IInv
<1>3. View /\ TextView
  BY Views, TextViews
<1>4. c \in CallRecords /\ c.i \in Nat /\ c.tot \in Nat
  BY <1>2, CallTypes
<1> HIDE DEF d
<1>5. call'[p] = d /\ \A q \in Process : q # p => pc'[q] = pc[q] /\ call'[q] = call[q]
  BY <1>1, <1>2 DEF Typed
<1>6. \A j \in Inode : Text(j)' = Text(j) /\ Busy(j)' = Busy(j)
  <2> SUFFICES ASSUME NEW j \in Inode
               PROVE  Text(j)' = Text(j) /\ Busy(j)' = Busy(j)
    OBVIOUS
  <2>1. /\ lock'[j] = lock[j] /\ inode'[j] = inode[j] /\ mem'.cell = mem.cell
        /\ \A q \in Process : pc[q] \in Inside /\ call[q].ip = j =>
             /\ pc'[q] = pc[q] /\ call'[q] = call[q]
             /\ pc[q] = "write" => off'[call[q].file] = off[call[q].file]
    BY <1>1, <1>5 DEF Inside
  <2> QED
    BY <2>1, OtherText
<1>7. AContent' = AContent /\ ABusy' = ABusy
  BY <1>6, Frame
<1>8. ASent' \in {ASent, [ASent EXCEPT ![p] = 0]}
  <2>1. \A q \in Process : q # p => Sent(q)' = Sent(q)
    BY <1>5, SentSame
  <2>2. Sent(p)' = Sent(p) \/ Sent(p)' = 0
    <3>1. CASE more
      <4>1. d = [c EXCEPT !.i = i, !.tot = 0]
        BY <3>1 DEF d
      <4>2. d.file = c.file /\ d.i = i /\ d.tot = 0
        BY <1>4, <4>1 DEF CallRecords
      <4>3. i + 0 = i /\ i \in Nat
        BY <1>4
      <4> QED
        BY <1>5, <4>2, <4>3 DEF Sent
    <3>2. CASE ~more
      <4>1. call'[p] = NoCall
        BY <1>5, <3>2 DEF d
      <4> QED
        BY <4>1 DEF Sent, NoCall
    <3> QED
      BY <3>1, <3>2
  <2>3. ASent' = [q \in Process |-> Sent(q)']
    BY DEF ASent
  <2>4. CASE Sent(p)' = Sent(p)
    <3>1. ASent' = ASent
      BY <2>1, <2>4, Frame
    <3> QED
      BY <3>1
  <2>5. CASE Sent(p)' = 0
    <3>1. [q \in Process |-> Sent(q)'] = [[q \in Process |-> Sent(q)] EXCEPT ![p] = 0]
      BY <2>1, <2>5, Zenon
    <3>2. ASent' = [ASent EXCEPT ![p] = 0]
      BY <2>3, <3>1 DEF ASent
    <3> QED
      BY <3>2
  <2> QED
    BY <2>2, <2>4, <2>5
<1>9. AStable' = AStable \/ ((\A ip \in Inode : ABusy[ip] = NotBusy) /\ AStable' = AContent)
  <2>1. CASE outstanding # {p}
    <3>1. \A j \in Inode : Saved(j)' = Saved(j)
      BY <1>1, <2>1 DEF Saved, Content, Addr
    <3> QED
      BY <3>1, Frame
  <2>2. CASE outstanding = {p}
    <3>1. \A q \in Process : pc[q] \notin Inside
      BY <1>1, <1>2, <2>2 DEF Locks, Inside
    <3>2. \A ip \in Inode : lock[ip] = None
      BY <1>3, <3>1 DEF View, ViewOf
    <3>3. \A ip \in Inode : Extent(ip) = inode[ip].size /\ Busy(ip) = NotBusy
      BY <1>3, <3>2 DEF View, ViewOf
    <3>4. mem.dinode = inode
      BY <1>1, <2>2, LastEnds
    <3>5. disk' = mem
      BY <1>1, <2>2
    <3>6. \A ip \in Inode : Saved(ip)' = Text(ip)
      <4> SUFFICES ASSUME NEW ip \in Inode
                   PROVE  Saved(ip)' = Text(ip)
        OBVIOUS
      <4>1. Saved(ip)' = Content(disk'.dinode[ip], disk'.cell, disk'.dinode[ip].size)
        BY DEF Saved, Content, Addr
      <4>2. Saved(ip)' = Content(inode[ip], mem.cell, inode[ip].size)
        BY <3>4, <3>5, <4>1
      <4>3. Text(ip) = Content(inode[ip], mem.cell, inode[ip].size)
        BY <3>3 DEF Text
      <4> QED
        BY <4>2, <4>3
    <3>7. AStable' = AContent
      <4>1. AStable' = [ip \in Inode |-> Saved(ip)']
        BY DEF AStable
      <4> QED
        BY <3>6, <4>1, Zenon DEF AContent
    <3> QED
      BY <3>3, <3>7 DEF ABusy
  <2> QED
    BY <2>1, <2>2
<1>10. AStable' = AStable \/ ((\A ip \in Inode : ABusy[ip] = Files!Idle) /\ AStable' = AContent)
  BY <1>9 DEF Files!Idle, NotBusy
<1>11. \A ip \in Inode : ABusy[ip].who # p
  BY <1>1, <1>3, NotWho DEF ABusy
<1>12. off' = off
  BY <1>1
<1> QED
  BY <1>7, <1>8, <1>10, <1>11, <1>12, Zenon DEF Files!EndTxn, Files!Quiet,
    AContent, AStable, ABusy, ASent, Text, Saved, Busy, Sent

\* The rounds of itrunc: the file is empty already.
LEMMA TruncRefines ==
  ASSUME IInv, IInv', NEW p \in Process, TruncBlock(p) \/ TruncDone(p),
         NEW ip \in Inode, ip = call[p].ip
  PROVE  UNCHANGED Files!vars
<1>1. /\ pc[p] = "trunc" /\ mem'.cell = mem.cell /\ disk' = disk /\ off' = off
      /\ \A j \in Inode : j # ip => inode'[j] = inode[j] /\ lock'[j] = lock[j]
  <2>1. Typed
    BY DEF IInv
  <2>2. inode \in [Inode -> Nodes] /\ mem \in Stores
    BY <2>1 DEF Typed
  <2>3. CASE TruncBlock(p)
    BY <2>2, <2>3 DEF TruncBlock, Stores
  <2>4. CASE TruncDone(p)
    BY <2>2, <2>4 DEF TruncDone, Stores
  <2> QED
    BY <2>3, <2>4
<1>2. Typed /\ CallOf(p) /\ Locks
  BY DEF IInv, Live
<1>3. View /\ TextView
  BY Views, TextViews
<1>4. View'
  BY Views, PTL
<1>5. TextView'
  BY TextViews, PTL
<1>6. \A q \in Process : q # p => pc'[q] = pc[q] /\ call'[q] = call[q]
  BY <1>2 DEF TruncBlock, TruncDone, Goto, Typed
<1>7. call[p].file = None /\ call'[p].file = None /\ call'[p].ip = ip
  <2>1. call[p].file = None
    BY <1>1, <1>2 DEF CallOf, Writing
  <2>2. call[p] \in CallRecords /\ call \in [Process -> CallRecords]
    BY <1>2 DEF Typed
  <2>3. call' = call \/ \E v : call' = [call EXCEPT ![p].tot = v]
    BY Zenon DEF TruncBlock, TruncDone
  <2> QED
    BY <2>1, <2>2, <2>3 DEF CallRecords
<1>8. \A q \in Process : Sent(q)' = Sent(q)
  BY <1>6, <1>7, SentSame DEF Sent
<1>9. \A j \in Inode : Saved(j)' = Saved(j)
  BY <1>1 DEF Saved, Content, Addr
<1>10. Extent(ip) = 0 /\ Busy(ip) = NotBusy
  BY <1>1, <1>3 DEF View, ViewOf
<1>11. Extent(ip)' = 0 /\ Busy(ip)' = NotBusy
  <2>1. CASE TruncBlock(p)
    <3>1. pc'[p] = "trunc"
      BY <1>1, <2>1 DEF TruncBlock
    <3> QED
      BY <1>4, <1>7, <3>1 DEF View, ViewOf, NotBusy
  <2>2. CASE TruncDone(p)
    <3>1. lock'[ip] = None
      BY <1>2, <2>2 DEF TruncDone, Typed
    <3>2. inode'[ip].size = 0
      BY <1>2, <2>2 DEF TruncDone, Typed, Empty
    <3> QED
      BY <1>4, <3>1, <3>2 DEF View, ViewOf, NotBusy
  <2> QED
    BY <2>1, <2>2
<1>12. Text(ip)' = Text(ip)
  <2>1. Text(ip) = <<>>
    BY <1>3, <1>10, EmptyText
  <2>2. Text(ip)' = [k \in 1..0 |-> Text(ip)'[k]]
    BY <1>5, <1>11 DEF TextView, TextAt
  <2> QED
    BY <2>1, <2>2
<1>13. \A j \in Inode : j # ip => Text(j)' = Text(j) /\ Busy(j)' = Busy(j)
  <2> SUFFICES ASSUME NEW j \in Inode, j # ip
               PROVE  Text(j)' = Text(j) /\ Busy(j)' = Busy(j)
    OBVIOUS
  <2>1. /\ lock'[j] = lock[j] /\ inode'[j] = inode[j] /\ mem'.cell = mem.cell
        /\ \A q \in Process : pc[q] \in Inside /\ call[q].ip = j =>
             /\ pc'[q] = pc[q] /\ call'[q] = call[q]
             /\ pc[q] = "write" => off'[call[q].file] = off[call[q].file]
    BY <1>1, <1>6
  <2> QED
    BY <2>1, OtherText
<1> QED
  BY <1>1, <1>8, <1>9, <1>10, <1>11, <1>12, <1>13, Unseen

\* A crash: every file is what the disk has.
LEMMA CrashRefines ==
  ASSUME IInv, IInv', Crash
  PROVE  Files!Crash
<1>1. /\ mem' = disk /\ inode' = disk.dinode /\ disk' = disk
      /\ lock' = [ip \in Inode |-> None]
      /\ off' = [f \in File |-> Closed]
      /\ call' = [p \in Process |-> NoCall]
  BY DEF Crash
<1>2. View'
  BY Views, PTL
<1>3. \A ip \in Inode : Extent(ip)' = disk.dinode[ip].size /\ Busy(ip)' = NotBusy
  BY <1>1, <1>2 DEF View, ViewOf, NotBusy
<1>4. \A ip \in Inode : Saved(ip)' = Saved(ip)
  BY <1>1 DEF Saved, Content, Addr
<1>5. \A ip \in Inode : Text(ip)' = Saved(ip)
  <2> SUFFICES ASSUME NEW ip \in Inode
               PROVE  Text(ip)' = Saved(ip)
    OBVIOUS
  <2>1. Text(ip)' = Content(inode'[ip], mem'.cell, Extent(ip)')
    BY DEF Text, Content, Addr
  <2> QED
    BY <1>1, <1>3, <2>1 DEF Saved
<1>6. AStable' = AStable
  BY <1>4, Frame
<1>7. AContent' = AStable
  <2>1. AContent' = [ip \in Inode |-> Text(ip)']
    BY DEF AContent
  <2> QED
    BY <1>5, <2>1, Zenon DEF AStable
<1>8. ABusy' = [ip \in Inode |-> Files!Idle]
  <2>1. ABusy' = [ip \in Inode |-> Busy(ip)']
    BY DEF ABusy
  <2> QED
    BY <1>3, <2>1 DEF Files!Idle, NotBusy
<1>9. ASent' = [p \in Process |-> 0]
  <2>1. ASent' = [p \in Process |-> Sent(p)']
    BY DEF ASent
  <2>2. \A p \in Process : Sent(p)' = 0
    BY <1>1 DEF Sent, NoCall
  <2> QED
    BY <2>1, <2>2
<1>10. off' = [f \in File |-> Files!Closed]
  BY <1>1 DEF Closed, Files!Closed
<1> QED
  BY <1>6, <1>7, <1>8, <1>9, <1>10, Zenon DEF Files!Crash, AContent, AStable, ABusy, ASent,
    Text, Saved, Busy, Sent

(***************************************************************************)
(* A round of writei puts its bytes at the position.                       *)
(***************************************************************************)

\* What bmap and memmove change, place by place.
LEMMA RoundPlaces ==
  ASSUME IInv, NEW p \in Process, WriteBlock(p),
         NEW ip, ip = call[p].ip, NEW bn, bn = Position(p) \div BSIZE,
         NEW x, x = <<ip, Spot(bn)>>, NEW at, at = Position(p) % BSIZE
  PROVE  /\ \A m \in 0..(MAXFILE - 1) :
              m # bn /\ Now[<<ip, Spot(m)>>] # 0 =>
                /\ Now'[<<ip, Spot(m)>>] = Now[<<ip, Spot(m)>>]
                /\ mem'.cell[Now[<<ip, Spot(m)>>]] = mem.cell[Now[<<ip, Spot(m)>>]]
         /\ \A j \in Inode, m \in 0..(MAXFILE - 1) :
              j # ip /\ Now[<<j, Spot(m)>>] # 0 /\ <<j, Spot(m)>> \in Kept =>
                /\ Now'[<<j, Spot(m)>>] = Now[<<j, Spot(m)>>]
                /\ mem'.cell[Now[<<j, Spot(m)>>]] = mem.cell[Now[<<j, Spot(m)>>]]
         /\ \A k \in 0..(BSIZE - 1) :
              /\ k \in at..(at + Round(p) - 1) =>
                   mem'.cell[Now'[x]][k] = Source[p][(call[p].i + call[p].tot) + (k - at) + 1]
              /\ k \notin at..(at + Round(p) - 1) /\ Now[x] # 0 =>
                   mem'.cell[Now'[x]][k] = mem.cell[Now[x]][k]
<1> DEFINE st == Copied(p)
           t  == <<ip, NDIRECT>>
           at2 == Map(st.cell, With(inode, ip, st))
<1>1. /\ pc[p] = "write" /\ ~BadRange(p) /\ call[p].tot < N1(p)
      /\ Needed(State(p), bn) <= Cardinality(Free(State(p)))
      /\ mem' = [mem EXCEPT !.used = st.used, !.cell = st.cell]
      /\ inode' = [inode EXCEPT ![ip].addrs = st.addrs]
  BY DEF WriteBlock
<1>2. Typed /\ Locks /\ CallOf(p)
  BY DEF IInv, Live
<1>3. ip \in Inode /\ bn \in 0..(MAXFILE - 1)
  BY <1>1, <1>2, ChunkTypes, WriteIsWriting, RoundFacts
<1>4. /\ \A y \in All : Now[y] # 0 \/ (y # x /\ y # t) => at2[y] = Now[y]
      /\ CopiedCells(p, st, x, t, at2)
  <2> HIDE DEF st, at2
  <2> QED
    BY <1>1, CopiedEffect DEF st, t, at2
<1>5. inode' = With(inode, ip, st)
  BY <1>1 DEF With
<1>6. mem \in Stores
  BY <1>2 DEF Typed
<1> HIDE DEF st, at2
<1>7. mem'.cell = st.cell
  BY <1>1, <1>6 DEF Stores
<1>8. \A y \in All : Now'[y] = at2[y]
  BY <1>5, <1>7 DEF Now, Map, Place, All, Places, at2
<1>9. /\ x \in All /\ x # t
      /\ \A j \in Inode, m \in 0..(MAXFILE - 1) :
           /\ <<j, Spot(m)>> \in All /\ <<j, Spot(m)>> # t
           /\ j # ip \/ m # bn => <<j, Spot(m)>> # x
      /\ \A m \in 0..(MAXFILE - 1) : <<ip, Spot(m)>> \in Kept
  BY <1>1, <1>2, <1>3, PlaceTypes, SpotsDiffer, KeptPlaces DEF Inside
<1>10. /\ \A y \in Kept : Now[y] # 0 /\ y # x /\ y # t => st.cell[Now[y]] = mem.cell[Now[y]]
       /\ \A k \in 0..(BSIZE - 1) :
            /\ k \in at..(at + Round(p) - 1) =>
                 st.cell[at2[x]][k] = Source[p][(call[p].i + call[p].tot) + (k - at) + 1]
            /\ k \notin at..(at + Round(p) - 1) /\ Now[x] # 0 =>
                 st.cell[at2[x]][k] = mem.cell[Now[x]][k]
  BY <1>4, Zenon DEF CopiedCells
<1> HIDE DEF t
<1>11. \A j \in Inode, m \in 0..(MAXFILE - 1) :
         (j # ip \/ m # bn) /\ Now[<<j, Spot(m)>>] # 0 /\ <<j, Spot(m)>> \in Kept =>
           /\ Now'[<<j, Spot(m)>>] = Now[<<j, Spot(m)>>]
           /\ mem'.cell[Now[<<j, Spot(m)>>]] = mem.cell[Now[<<j, Spot(m)>>]]
  <2> SUFFICES ASSUME NEW j \in Inode, NEW m \in 0..(MAXFILE - 1), j # ip \/ m # bn,
                      NEW y, y = <<j, Spot(m)>>, Now[y] # 0, y \in Kept
               PROVE  Now'[y] = Now[y] /\ mem'.cell[Now[y]] = mem.cell[Now[y]]
    BY Zenon
  <2>1. y \in All /\ y # x /\ y # t
    BY <1>9, Zenon
  <2>2. Now'[y] = Now[y]
    BY <1>4, <1>8, <2>1
  <2>3. mem'.cell[Now[y]] = mem.cell[Now[y]]
    BY <1>7, <1>10, <2>1
  <2> QED
    BY <2>2, <2>3
<1>12. mem'.cell[Now'[x]] = st.cell[at2[x]]
  BY <1>7, <1>8, <1>9
<1> QED
  <2>1. \A m \in 0..(MAXFILE - 1) :
          m # bn /\ Now[<<ip, Spot(m)>>] # 0 =>
            /\ Now'[<<ip, Spot(m)>>] = Now[<<ip, Spot(m)>>]
            /\ mem'.cell[Now[<<ip, Spot(m)>>]] = mem.cell[Now[<<ip, Spot(m)>>]]
    BY <1>3, <1>9, <1>11, Zenon
  <2>2. \A k \in 0..(BSIZE - 1) :
          /\ k \in at..(at + Round(p) - 1) =>
               mem'.cell[Now'[x]][k] = Source[p][(call[p].i + call[p].tot) + (k - at) + 1]
          /\ k \notin at..(at + Round(p) - 1) /\ Now[x] # 0 =>
               mem'.cell[Now'[x]][k] = mem.cell[Now[x]][k]
    <3> DEFINE c == mem'.cell[Now'[x]]
               b == st.cell[at2[x]]
    <3>1. c = b
      BY <1>12
    <3>2. \A k \in 0..(BSIZE - 1) :
            /\ k \in at..(at + Round(p) - 1) =>
                 b[k] = Source[p][(call[p].i + call[p].tot) + (k - at) + 1]
            /\ k \notin at..(at + Round(p) - 1) /\ Now[x] # 0 => b[k] = mem.cell[Now[x]][k]
      BY <1>10
    <3> HIDE DEF b
    <3>3. \A k \in 0..(BSIZE - 1) :
            /\ k \in at..(at + Round(p) - 1) =>
                 c[k] = Source[p][(call[p].i + call[p].tot) + (k - at) + 1]
            /\ k \notin at..(at + Round(p) - 1) /\ Now[x] # 0 => c[k] = mem.cell[Now[x]][k]
      BY ONLY <3>1, <3>2
    <3> QED
      BY <3>3
  <2> QED
    BY <1>11, <2>1, <2>2, Zenon

\* The bytes of a chunk are bytes of the call.
Slice(p, i, r) == SubSeq(Source[p], i + 1, i + r)

LEMMA SourceSlice ==
  ASSUME NEW p \in Process, NEW n \in Lengths, NEW i \in Nat, NEW r \in Nat, i + r <= n
  PROVE  /\ i + r <= Len(Source[p]) /\ Len(Slice(p, i, r)) = r
         /\ \A k \in 1..r : Slice(p, i, r)[k] = Source[p][i + k]
<1>1. Source[p] \in Seq(Nat) /\ n <= Len(Source[p]) /\ n \in Nat
  BY SourceAssumption, Layout
<1>2. Len(Source[p]) \in Nat
  BY <1>1, LenProperties
<1>3. i + r <= Len(Source[p]) /\ i + 1 \in Int /\ i + r \in Int
  BY <1>1, <1>2
<1>4. \A k \in (i + 1)..(i + r) : Source[p][k] \in Nat
  BY <1>1, <1>2, <1>3, ElementOfSeq
<1> DEFINE a == i + 1
           b == i + r
           s == SubSeq(Source[p], a, b)
<1>5. a \in Int /\ b \in Int /\ \A k \in a..b : Source[p][k] \in Nat
  BY <1>3, <1>4
<1> HIDE DEF a, b
<1>6. /\ Len(s) = IF a <= b THEN b - a + 1 ELSE 0
      /\ \A k \in 1..(b - a + 1) : s[k] = Source[p][a + k - 1]
  BY <1>5, SubSeqProperties
<1> HIDE DEF s
<1>7. b - a + 1 = r /\ (a <= b <=> r >= 1)
  BY DEF a, b
<1>8. Len(s) = r
  BY <1>6, <1>7
<1>9. \A k \in 1..r : a + k - 1 = i + k
  BY DEF a
<1>10. \A k \in 1..r : s[k] = Source[p][i + k]
  BY <1>6, <1>7, <1>9
<1> QED
  BY <1>3, <1>8, <1>10 DEF s, a, b, Slice

\* What the round changes besides the blocks.
LEMMA RoundFrame ==
  ASSUME IInv, NEW p \in Process, WriteBlock(p),
         NEW ip, ip = call[p].ip, NEW f, f = call[p].file
  PROVE  /\ pc[p] = "write" /\ pc' = pc /\ lock' = lock /\ off' = off /\ disk' = disk
         /\ ip \in Inode /\ f \in File /\ ip = InodeOf[f] /\ off[f] \in Nat
         /\ call[p].n \in Lengths /\ call[p].i \in Nat /\ call[p].tot \in Nat
         /\ Position(p) \in Nat /\ Position(p) = off[f] + call[p].tot
         /\ Round(p) \in Nat /\ Round(p) >= 1
         /\ call[p].i + call[p].tot + Round(p) <= call[p].n
         /\ call'[p].tot = call[p].tot + Round(p) /\ call'[p].i = call[p].i
         /\ call'[p].file = f /\ call'[p].ip = ip
         /\ \A q \in Process : q # p => call'[q] = call[q]
         /\ inode'[ip].size = inode[ip].size /\ inode[ip].size \in Nat
         /\ \A j \in Inode : j # ip => inode'[j] = inode[j]
<1> DEFINE r == Round(p)
           bn == Position(p) \div BSIZE
<1>1. /\ pc[p] = "write" /\ ~BadRange(p) /\ call[p].tot < N1(p)
      /\ call' = [call EXCEPT ![p].tot = @ + r]
      /\ inode' = [inode EXCEPT ![ip].addrs = Copied(p).addrs]
      /\ pc' = pc /\ lock' = lock /\ off' = off /\ disk' = disk
  BY DEF WriteBlock
<1>2. Typed /\ CallOf(p) /\ Writing(p)
  BY <1>1, WriteIsWriting DEF IInv, Live
<1>3. /\ ip \in Inode /\ f \in File /\ ip = InodeOf[f] /\ off[f] \in Nat
      /\ N1(p) \in Nat /\ N1(p) <= call[p].n - call[p].i
      /\ call[p].tot \in Nat
      /\ Position(p) \in Nat /\ Position(p) = off[f] + call[p].tot
  BY <1>2, ChunkTypes
<1>4. r \in Nat /\ r >= 1 /\ call[p].tot + r <= N1(p)
  BY <1>1, <1>2, RoundFacts
<1>5. call[p].n \in Lengths /\ call[p].n \in Nat /\ call[p].i \in Nat
  BY <1>2, CallTypes DEF CallOf
<1> HIDE DEF r
<1>6. call[p].i + call[p].tot + r <= call[p].n
  BY <1>3, <1>4, <1>5
<1>7. /\ call'[p].tot = call[p].tot + r /\ call'[p].i = call[p].i
      /\ call'[p].file = f /\ call'[p].ip = ip
      /\ \A q \in Process : q # p => call'[q] = call[q]
  BY <1>1, <1>2 DEF Typed, CallRecords
<1>8. /\ inode'[ip].size = inode[ip].size /\ inode[ip].size \in Nat
      /\ \A j \in Inode : j # ip => inode'[j] = inode[j]
  <2>1. inode \in [Inode -> Nodes] /\ inode[ip].size \in Nat
    BY <1>2, <1>3, NodeTypes DEF Typed
  <2> QED
    BY <1>1, <1>3, <2>1 DEF Nodes
<1> QED
  BY <1>1, <1>3, <1>4, <1>5, <1>6, <1>7, <1>8 DEF r

\* The byte i of the file is in the block of the round just when the block has it.
LEMMA InBlock ==
  ASSUME NEW bn \in Nat, NEW at \in 0..(BSIZE - 1), NEW pos \in Nat, pos = bn * BSIZE + at,
         NEW r \in Nat, pos + r <= bn * BSIZE + BSIZE,
         NEW m \in Nat, NEW k \in 0..(BSIZE - 1), NEW i \in Nat, i - 1 = m * BSIZE + k
  PROVE  /\ i \in (pos + 1)..(pos + r) => m = bn
         /\ m = bn => (i \in (pos + 1)..(pos + r) <=> k \in at..(at + r - 1))
         /\ m = bn => k - at = i - pos - 1
<1> DEFINE a == m * BSIZE
           b == bn * BSIZE
<1>1. /\ a \in Nat /\ b \in Nat /\ BSIZE \in Nat
      /\ m < bn => a + BSIZE <= b
      /\ bn < m => b + BSIZE <= a
  BY Apart, Layout
<1>2. i - 1 = a + k /\ pos = b + at /\ pos + r <= b + BSIZE
  OBVIOUS
<1>3. m = bn => a = b
  OBVIOUS
<1> HIDE DEF a, b
<1>4. i \in (pos + 1)..(pos + r) => m = bn
  BY <1>1, <1>2
<1> QED
  BY <1>1, <1>2, <1>3, <1>4

LEMMA RoundText ==
  ASSUME IInv, IInv', NEW p \in Process, WriteBlock(p),
         NEW ip, ip = call[p].ip, NEW f, f = call[p].file,
         NEW pos, pos = Position(p), NEW r, r = Round(p),
         NEW sent, sent = call[p].i + call[p].tot,
         NEW s, s = Slice(p, sent, r)
  PROVE  /\ sent + r <= Len(Source[p]) /\ pos <= Len(Text(ip))
         /\ Text(ip)' = Files!Overlay(Text(ip), pos, s)
<1> DEFINE bn == pos \div BSIZE
           at == pos % BSIZE
           x == <<ip, Spot(bn)>>
           e == Extent(ip)
           e2 == Extent(ip)'
           c == Text(ip)
           d == Text(ip)'
           old == mem.cell[Now[x]]
           new == mem'.cell[Now'[x]]
<1>1. /\ pc[p] = "write" /\ pc' = pc /\ off' = off
      /\ ip \in Inode /\ off[f] \in Nat
      /\ call[p].n \in Lengths /\ call[p].i \in Nat /\ call[p].tot \in Nat
      /\ pos \in Nat /\ pos = off[f] + call[p].tot
      /\ r \in Nat /\ r >= 1 /\ call[p].i + call[p].tot + r <= call[p].n
      /\ call'[p].tot = call[p].tot + r /\ call'[p].file = f /\ call'[p].ip = ip
      /\ inode'[ip].size = inode[ip].size /\ inode[ip].size \in Nat
  BY RoundFrame
<1>2. Typed /\ CallOf(p) /\ View /\ TextView
  BY Views, TextViews DEF IInv, Live
<1>3. View'
  BY Views, PTL
<1>4. TextView'
  BY TextViews, PTL
<1>5. /\ bn \in 0..(MAXFILE - 1) /\ at \in 0..(BSIZE - 1)
      /\ pos + r <= bn * BSIZE + BSIZE /\ pos = bn * BSIZE + at
  <2>1. /\ ~BadRange(p) /\ call[p].tot < N1(p)
    BY DEF WriteBlock
  <2>2. bn \in 0..(MAXFILE - 1) /\ at \in 0..(BSIZE - 1) /\ pos + r <= bn * BSIZE + BSIZE
    BY <1>1, <1>2, <2>1, RoundFacts, Zenon
  <2>3. pos = BSIZE * bn + at
    BY <1>1, DivMod, Layout
  <2>4. BSIZE * bn = bn * BSIZE
    BY <2>2, Layout
  <2> QED
    BY <2>2, <2>3, <2>4
<1>6. /\ \A m \in 0..(MAXFILE - 1) :
           m # bn /\ Now[<<ip, Spot(m)>>] # 0 =>
             /\ Now'[<<ip, Spot(m)>>] = Now[<<ip, Spot(m)>>]
             /\ mem'.cell[Now[<<ip, Spot(m)>>]] = mem.cell[Now[<<ip, Spot(m)>>]]
      /\ \A k \in 0..(BSIZE - 1) :
           /\ k \in at..(at + r - 1) => new[k] = Source[p][sent + (k - at) + 1]
           /\ k \notin at..(at + r - 1) /\ Now[x] # 0 => new[k] = old[k]
  BY RoundPlaces
<1>7. e = IF pos > inode[ip].size THEN pos ELSE inode[ip].size
  BY <1>1, <1>2, Zenon DEF View, ViewOf, End
<1>8. e2 = IF pos + r > inode[ip].size THEN pos + r ELSE inode[ip].size
  <2>1. pc'[p] = "write" /\ Position(p)' = pos + r
    BY <1>1 DEF Position
  <2>2. e2 = End(p)'
    BY <1>1, <1>3, <2>1 DEF View, ViewOf
  <2> QED
    BY <1>1, <2>1, <2>2 DEF End
<1>9. /\ e \in Nat /\ e <= MAXFILE * BSIZE /\ Len(c) = e
      /\ \A i \in 1..e, m \in 0..(MAXFILE - 1), k \in 0..(BSIZE - 1) :
           i - 1 = m * BSIZE + k => c[i] = mem.cell[Now[<<ip, Spot(m)>>]][k]
                                     /\ Now[<<ip, Spot(m)>>] # 0
  BY <1>1, <1>2, Zenon DEF TextView, TextAt
<1>10. /\ e2 \in Nat /\ e2 <= MAXFILE * BSIZE /\ d = [i \in 1..e2 |-> d[i]]
       /\ \A i \in 1..e2, m \in 0..(MAXFILE - 1), k \in 0..(BSIZE - 1) :
            i - 1 = m * BSIZE + k => d[i] = mem'.cell[Now'[<<ip, Spot(m)>>]][k]
  BY <1>1, <1>4, Zenon DEF TextView, TextAt, Spot
<1>11. sent \in Nat /\ sent + r <= Len(Source[p]) /\ Len(s) = r
  <2>1. sent \in Nat /\ r \in Nat /\ call[p].n \in Lengths /\ sent + r <= call[p].n
    BY <1>1
  <2> QED
    BY <2>1, SourceSlice, Zenon
<1>12. \A k \in 1..r : s[k] = Source[p][sent + k]
  <2>1. sent \in Nat /\ r \in Nat /\ call[p].n \in Lengths /\ sent + r <= call[p].n
    BY <1>1
  <2> QED
    BY <2>1, SourceSlice, Zenon
<1> HIDE DEF bn, at, e, e2, c, d, old, new
<1>13. e2 = IF pos + r > e THEN pos + r ELSE e
  BY <1>1, <1>7, <1>8
<1>14. pos <= e
  BY <1>1, <1>7
<1>15. ASSUME NEW i \in 1..e2
       PROVE  d[i] = IF i \in (pos + 1)..(pos + r) THEN s[i - pos] ELSE c[i]
  <2>1. PICK m \in 0..(MAXFILE - 1), k \in 0..(BSIZE - 1) : i - 1 = m * BSIZE + k
    BY <1>10, BytePlace, Zenon
  <2>2. d[i] = mem'.cell[Now'[<<ip, Spot(m)>>]][k]
    BY <1>10, <2>1, Zenon
  <2>3. /\ i \in (pos + 1)..(pos + r) => m = bn
        /\ m = bn => (i \in (pos + 1)..(pos + r) <=> k \in at..(at + r - 1))
        /\ m = bn => k - at = i - pos - 1
    <3>1. m \in Nat /\ bn \in Nat /\ i \in Nat /\ k \in 0..(BSIZE - 1)
      BY <1>5, <1>10
    <3> QED
      BY ONLY <1>1, <1>5, <2>1, <3>1, InBlock
  <2>4. CASE i \in (pos + 1)..(pos + r)
    <3>1. m = bn /\ k \in at..(at + r - 1) /\ k - at = i - pos - 1
      BY <2>3, <2>4
    <3>2. d[i] = new[k]
      BY <2>2, <3>1 DEF new
    <3>3. new[k] = Source[p][sent + (k - at) + 1]
      BY <1>6, <3>1
    <3>4. sent + (k - at) + 1 = sent + (i - pos)
      BY <1>1, <1>5, <3>1
    <3>5. i - pos \in 1..r
      BY <1>1, <2>4
    <3>6. s[i - pos] = Source[p][sent + (i - pos)]
      BY <1>12, <3>5, Zenon
    <3> QED
      BY <2>4, <3>2, <3>3, <3>4, <3>6, Zenon
  <2>5. CASE ~(i \in (pos + 1)..(pos + r))
    <3>1. i \in 1..e
      BY <1>1, <1>9, <1>13, <1>14, <2>5
    <3>2. c[i] = mem.cell[Now[<<ip, Spot(m)>>]][k] /\ Now[<<ip, Spot(m)>>] # 0
      BY <1>9, <2>1, <3>1, Zenon
    <3>3. CASE m = bn
      <4>1. k \notin at..(at + r - 1)
        BY <2>3, <2>5, <3>3
      <4>2. new[k] = old[k]
        BY <1>6, <3>2, <3>3, <4>1
      <4>3. d[i] = new[k] /\ c[i] = old[k]
        BY <2>2, <3>2, <3>3 DEF new, old
      <4> QED
        BY <2>5, <4>2, <4>3
    <3>4. CASE m # bn
      BY <1>6, <2>2, <2>5, <3>2, <3>4
    <3> QED
      BY <3>3, <3>4
  <2> QED
    BY <2>4, <2>5
<1>16. \A i \in 1..e2 : d[i] = IF i \in (pos + 1)..(pos + r) THEN s[i - pos] ELSE c[i]
  BY <1>15
<1>17. d = Files!Overlay(c, pos, s)
  <2>1. /\ e \in Nat /\ e2 \in Nat /\ pos \in Nat /\ r \in Nat
        /\ d = [i \in 1..e2 |-> d[i]]
    BY <1>1, <1>9, <1>10
  <2>2. Len(c) = e /\ Len(s) = r
    BY <1>9, <1>11
  <2>3. Files!Overlay(c, pos, s) =
          [i \in 1..e2 |-> IF i \in (pos + 1)..(pos + r) THEN s[i - pos] ELSE c[i]]
    BY ONLY <1>13, <2>2 DEF Files!Overlay
  <2> QED
    BY ONLY <1>16, <2>1, <2>3, Zenon
<1> QED
  BY <1>9, <1>11, <1>14, <1>17 DEF c, d

LEMMA WriteBlockRefines ==
  ASSUME IInv, IInv', NEW p \in Process, WriteBlock(p),
         NEW ip \in Inode, ip = call[p].ip, NEW f, f = call[p].file
  PROVE  Files!Put(p, f)
<1> DEFINE pos == Position(p)
           r == Round(p)
           sent == call[p].i + call[p].tot
           tot == call[p].tot
<1>1. /\ pc[p] = "write" /\ pc' = pc /\ lock' = lock /\ off' = off /\ disk' = disk
      /\ f \in File /\ ip = InodeOf[f]
      /\ call[p].i \in Nat /\ tot \in Nat
      /\ pos \in Nat /\ pos = off[f] + tot /\ r \in Nat /\ r >= 1
      /\ call'[p].tot = tot + r /\ call'[p].i = call[p].i /\ call'[p].file = f /\ call'[p].ip = ip
      /\ \A q \in Process : q # p => call'[q] = call[q]
      /\ inode'[ip].size = inode[ip].size
      /\ \A j \in Inode : j # ip => inode'[j] = inode[j]
  BY RoundFrame
<1>2. Typed /\ CallOf(p) /\ View /\ TextView
  BY Views, TextViews DEF IInv, Live
<1>3. View'
  BY Views, PTL
<1>4. TextView'
  BY TextViews, PTL
<1>5. r \in 1..BSIZE
  <2>1. ~BadRange(p) /\ call[p].tot < N1(p)
    BY DEF WriteBlock
  <2> DEFINE b == (pos \div BSIZE) * BSIZE
  <2>2. b \in Nat /\ b <= pos /\ pos + r <= b + BSIZE
    BY <1>1, <1>2, <2>1, RoundFacts
  <2> HIDE DEF b, pos, r
  <2> QED
    BY <1>1, <2>2, Layout
<1>6. /\ sent + r <= Len(Source[p]) /\ pos <= Len(Text(ip))
      /\ Text(ip)' = Files!Overlay(Text(ip), pos, Slice(p, sent, r))
  BY RoundText
<1>7. \A j \in Inode, m \in 0..(MAXFILE - 1) :
         j # ip /\ Now[<<j, Spot(m)>>] # 0 /\ <<j, Spot(m)>> \in Kept =>
           /\ Now'[<<j, Spot(m)>>] = Now[<<j, Spot(m)>>]
           /\ mem'.cell[Now[<<j, Spot(m)>>]] = mem.cell[Now[<<j, Spot(m)>>]]
  <2> DEFINE bn == Position(p) \div BSIZE
             at == Position(p) % BSIZE
             x == <<ip, Spot(bn)>>
  <2>1. bn = Position(p) \div BSIZE /\ at = Position(p) % BSIZE /\ x = <<ip, Spot(bn)>>
    OBVIOUS
  <2> HIDE DEF bn, at, x
  <2> QED
    BY <2>1, RoundPlaces
<1>8. ASSUME NEW j \in Inode, j # ip
      PROVE  Text(j)' = Text(j) /\ Busy(j)' = Busy(j)
  <2>1. \A q \in Process : pc[q] \in Inside /\ call[q].ip = j =>
          /\ pc'[q] = pc[q] /\ call'[q] = call[q]
          /\ pc[q] = "write" => off'[call[q].file] = off[call[q].file]
    BY <1>1, <1>8, Zenon
  <2>2. lock'[j] = lock[j] /\ inode'[j].size = inode[j].size
    BY <1>1, <1>8
  <2>3. Extent(j)' = Extent(j) /\ Busy(j)' = Busy(j)
    BY <1>2, <1>3, <2>1, <2>2, Seen
  <2>4. \A m \in 0..(MAXFILE - 1) :
          Now[<<j, Spot(m)>>] # 0 /\ <<j, Spot(m)>> \in Kept =>
            /\ Now'[<<j, Spot(m)>>] = Now[<<j, Spot(m)>>]
            /\ mem'.cell[Now[<<j, Spot(m)>>]] = mem.cell[Now[<<j, Spot(m)>>]]
    BY <1>8, <1>7
  <2>5. Text(j)' = Text(j)
    BY <1>2, <1>4, <2>3, <2>4, SameText
  <2> QED
    BY <2>3, <2>5
<1> HIDE DEF pos, r, sent, tot
<1>9. Busy(ip) = [who |-> p, file |-> f, done |-> tot]
  <2>1. Busy(ip) = [who |-> p, file |-> call[p].file, done |-> call[p].tot]
    BY <1>1, <1>2, Zenon DEF View, ViewOf
  <2> QED
    BY <2>1 DEF tot
<1>10. Busy(ip)' = [who |-> p, file |-> f, done |-> tot + r]
  <2>1. pc'[p] = "write"
    BY <1>1
  <2> QED
    BY <1>1, <1>3, <2>1 DEF View, ViewOf
<1>11. AContent[ip] = Text(ip) /\ ABusy[ip] = [who |-> p, file |-> f, done |-> tot]
  BY <1>9 DEF AContent, ABusy
<1>12. /\ AContent' = [AContent EXCEPT ![ip] = Files!Overlay(Text(ip), pos, Slice(p, sent, r))]
       /\ ABusy' = [ABusy EXCEPT ![ip] = [who |-> p, file |-> f, done |-> tot + r]]
  <2>1. \A j \in Inode : j # ip => Text(j)' = Text(j) /\ Busy(j)' = Busy(j)
    BY <1>8
  <2> QED
    BY <1>6, <1>10, <2>1, OneChanges
<1>13. ABusy' = [ABusy EXCEPT ![ip].done = @ + r]
  <2>1. [ABusy[ip] EXCEPT !.done = @ + r] = [who |-> p, file |-> f, done |-> tot + r]
    BY <1>11
  <2>2. [ABusy EXCEPT ![ip].done = @ + r] = [ABusy EXCEPT ![ip] = [ABusy[ip] EXCEPT !.done = @ + r]]
    OBVIOUS
  <2> QED
    BY <1>12, <2>1, <2>2, Zenon
<1>14. ASent[p] = sent /\ ASent' = [ASent EXCEPT ![p] = @ + r]
  <2>1. f # None
    BY <1>1, Layout
  <2>2. Sent(p) = sent /\ Sent(p)' = sent + r
    BY <1>1, <2>1 DEF Sent, sent, tot
  <2>3. \A q \in Process : q # p => Sent(q)' = Sent(q)
    BY <1>1, SentSame
  <2>4. ASent' = [q \in Process |-> Sent(q)']
    BY DEF ASent
  <2>5. ASent[p] = sent
    BY <2>2 DEF ASent
  <2>6. [q \in Process |-> Sent(q)'] = [[q \in Process |-> Sent(q)] EXCEPT ![p] = @ + r]
    BY <2>2, <2>3, Zenon
  <2> QED
    BY <2>4, <2>5, <2>6 DEF ASent
<1>15. AStable' = AStable
  <2>1. \A j \in Inode : Saved(j)' = Saved(j)
    BY <1>1 DEF Saved, Content, Addr
  <2> QED
    BY <2>1, Frame
<1>16. off[f] + ABusy[ip].done = pos
  BY <1>1, <1>11
<1>17. AContent' = [AContent EXCEPT ![ip] =
          Files!Overlay(@, off[f] + ABusy[ip].done,
                        SubSeq(Source[p], ASent[p] + 1, ASent[p] + r))]
  BY <1>11, <1>12, <1>14, <1>16, Zenon DEF Slice
<1>18. /\ ABusy[InodeOf[f]].who = p /\ ABusy[InodeOf[f]].file = f
       /\ off[f] + ABusy[InodeOf[f]].done <= Len(AContent[InodeOf[f]])
       /\ \E n \in 1..BSIZE :
            /\ ASent[p] + n <= Len(Source[p])
            /\ AContent' = [AContent EXCEPT ![InodeOf[f]] =
                 Files!Overlay(@, off[f] + ABusy[InodeOf[f]].done,
                               SubSeq(Source[p], ASent[p] + 1, ASent[p] + n))]
            /\ ABusy' = [ABusy EXCEPT ![InodeOf[f]].done = @ + n]
            /\ ASent' = [ASent EXCEPT ![p] = @ + n]
  <2>1. /\ ABusy[ip].who = p /\ ABusy[ip].file = f
        /\ off[f] + ABusy[ip].done <= Len(AContent[ip])
    BY <1>6, <1>11, <1>16
  <2>2. ASent[p] + r <= Len(Source[p])
    BY <1>6, <1>14
  <2> QED
    BY <1>1, <1>5, <1>13, <1>14, <1>17, <2>1, <2>2, Zenon
<1>19. off' = off
  BY <1>1
<1> QED
  BY <1>15, <1>18, <1>19, Zenon DEF Files!Put, AContent, AStable, ABusy, ASent,
    Text, Saved, Busy, Sent

(***************************************************************************)
(* FileData implements ByteFile.                                           *)
(***************************************************************************)

LEMMA InitRefines == Init => Files!Init
<1> SUFFICES ASSUME Init
             PROVE  Files!Init
  OBVIOUS
<1>1. /\ mem = [used |-> {}, cell |-> [b \in Blocks |-> Zeros],
                dinode |-> [ip \in Inode |-> Empty]]
      /\ disk = mem /\ inode = mem.dinode
      /\ lock = [ip \in Inode |-> None] /\ off = [f \in File |-> Closed]
      /\ call = [p \in Process |-> NoCall]
  BY DEF Init
<1>2. View
  BY InitInv, Views
<1>3. \A ip \in Inode : inode[ip] = Empty /\ disk.dinode[ip] = Empty /\ Empty.size = 0
  BY <1>1 DEF Empty
<1>4. \A ip \in Inode : Extent(ip) = 0 /\ Busy(ip) = NotBusy
  BY <1>1, <1>2, <1>3 DEF View, ViewOf
<1>5. \A node, cell : Content(node, cell, 0) = <<>>
  BY DEF Content
<1>6. \A ip \in Inode : Text(ip) = <<>> /\ Saved(ip) = <<>>
  BY <1>3, <1>4, <1>5 DEF Text, Saved
<1>7. AContent = [ip \in Inode |-> <<>>] /\ AStable = AContent
  BY <1>6, Zenon DEF AContent, AStable
<1>8. ABusy = [ip \in Inode |-> Files!Idle]
  BY <1>4 DEF ABusy, Files!Idle, NotBusy
<1>9. ASent = [p \in Process |-> 0]
  <2>1. \A p \in Process : Sent(p) = 0
    BY <1>1 DEF Sent, NoCall
  <2> QED
    BY <2>1 DEF ASent
<1>10. off = [f \in File |-> Files!Closed]
  BY <1>1 DEF Closed, Files!Closed
<1> QED
  BY <1>7, <1>8, <1>9, <1>10, Zenon DEF Files!Init, AContent, AStable, ABusy, ASent,
    Text, Saved, Busy, Sent

LEMMA StepRefines ==
  ASSUME IInv, IInv', [Next]_vars
  PROVE  [Files!Next]_(Files!vars)
<1>1. CASE Crash
  <2>1. Files!Crash
    BY <1>1, CrashRefines
  <2> QED
    BY <2>1 DEF Files!Next
<1>2. ASSUME NEW f \in File, Open(f) \/ Close(f)
      PROVE  Files!Next
  <2>1. Files!Open(f) \/ Files!Close(f)
    BY <1>2, OpenRefines, CloseRefines
  <2> QED
    BY <2>1 DEF Files!Next
<1>3. ASSUME NEW p \in Process,
             \/ BallocPanic(p) \/ BeginOp(p)
             \/ (\E f \in File : Write(p, f)) \/ (\E ip \in Inode : Remove(p, ip))
      PROVE  UNCHANGED Files!vars
  BY <1>3, QuietRefines
<1>4. ASSUME NEW p \in Process, EndOp(p)
      PROVE  Files!Next
  <2>1. Files!EndTxn(p)
    BY <1>4, EndOpRefines
  <2> QED
    BY <2>1 DEF Files!Next
<1>5. ASSUME NEW p \in Process, NEW f \in File, Read(p, f)
      PROVE  Files!Next
  <2>1. Files!Read(f)
    BY <1>5, ReadRefines
  <2> QED
    BY <2>1 DEF Files!Next
<1>6. ASSUME NEW p \in Process, Ilock(p)
      PROVE  Files!Next
  <2>1. CallOf(p) /\ Typed /\ pc[p] = "lock"
    BY <1>6 DEF IInv, Live, Ilock
  <2>2. call[p].ip \in Inode
    BY <2>1, ChunkTypes DEF CallOf, Writing, Removing
  <2> QED
    BY <1>6, <2>2, IlockRefines
<1>7. ASSUME NEW p \in Process, NEW ip \in Inode, ip = call[p].ip,
              NEW f \in File, f = call[p].file,
              WriteBlock(p) \/ WriteDone(p) \/ WriteBad(p)
       PROVE  Files!Next
  <2>1. CASE WriteBlock(p)
    <3>1. Files!Put(p, f)
      BY <1>7, <2>1, WriteBlockRefines
    <3> QED
      BY <3>1 DEF Files!Next
  <2>2. CASE WriteDone(p) \/ WriteBad(p)
    <3>1. Files!End(f)
      BY <1>7, <2>2, WriteDoneRefines, WriteBadRefines
    <3> QED
      BY <3>1 DEF Files!Next
  <2> QED
    BY <1>7, <2>1, <2>2
<1>8. ASSUME NEW p \in Process, WriteBlock(p) \/ WriteDone(p) \/ WriteBad(p)
      PROVE  Files!Next
  <2>1. CallOf(p) /\ Typed /\ pc[p] = "write"
    BY <1>8 DEF IInv, Live, WriteBlock, WriteDone, WriteBad
  <2>2. call[p].ip \in Inode /\ call[p].file \in File
    BY <2>1, ChunkTypes, WriteIsWriting
  <2> QED
    BY <1>8, <1>7, <2>2
<1>9. ASSUME NEW p \in Process, TruncBlock(p) \/ TruncDone(p)
      PROVE  UNCHANGED Files!vars
  <2>1. CallOf(p) /\ Typed /\ Locks /\ pc[p] = "trunc"
    BY <1>9 DEF IInv, Live, TruncBlock, TruncDone
  <2>2. call[p].ip \in Inode
    BY <2>1, InsideTypes DEF Inside, InsideType
  <2> QED
    BY <1>9, <2>2, TruncRefines
<1>10. CASE UNCHANGED vars
  <2>1. CASE Process # {}
    BY <1>10, <2>1, QuietRefines
  <2>2. CASE Process = {}
    <3>1. \A ip \in Inode : Text(ip)' = Text(ip) /\ Saved(ip)' = Saved(ip) /\ Busy(ip)' = Busy(ip)
      BY <1>10, SameView, <2>2 DEF vars, store, procs
    <3> QED
      BY <1>10, <2>2, <3>1, Unseen DEF vars
  <2> QED
    BY <2>1, <2>2
<1> QED
  BY <1>1, <1>2, <1>3, <1>4, <1>5, <1>6, <1>8, <1>9, <1>10 DEF Next

\* Files of bytes: a write puts its bytes, each once and in order, at the offset
\* of the open file, transaction after transaction, whatever blocks balloc finds
\* and whoever else writes; nobody reads in the middle of a chunk; and a crash
\* takes all files back to one moment when no transaction was under way.
THEOREM FilesAreBytes == Spec => FileSpec
<1>1. Init /\ [][Next]_vars /\ []IInv => Files!Init /\ [][Files!Next]_(Files!vars)
  BY InitRefines, StepRefines, PTL
<1> QED
  BY <1>1, Invariance, PTL DEF Spec, FileSpec, Files!Spec

=============================================================================
