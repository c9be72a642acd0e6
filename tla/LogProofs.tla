----------------------------- MODULE LogProofs ------------------------------
(***************************************************************************)
(* Theorems about module Log: the log implements the transactional store,  *)
(* for any blocks, processes and sizes and any crashes, as long as no      *)
(* commit writes behind the log region, and none does where a call stays   *)
(* below the share that begin_op reserves for it.                          *)
(***************************************************************************)
EXTENDS Log, FiniteSetTheorems, SequenceTheorems, TLAPS

(***************************************************************************)
(* The inductive invariant.                                                *)
(***************************************************************************)

CommitPoints == {"write_log", "stuck", "write_head", "install", "erase", "done"}
Somebody(L) == \E p \in Process : pc[p] \in L

Injective(s) == \A i, j \in DOMAIN s : s[i] = s[j] => i = j

\* Who runs: one process commits when no call is open, one process recovers when
\* no other runs, and outstanding counts the open calls.
Runners ==
  /\ \A p \in Process : pc[p] \in CommitPoints =>
       /\ committing
       /\ \A q \in Process \ {p} : pc[q] \in {"user", "begin", "asleep"}
  /\ committing => Somebody(CommitPoints)
  /\ \A p \in Process : pc[p] = "recover" => \A q \in Process \ {p} : pc[q] = "off"
  /\ \A p \in Process : pc[p] = "off" => Recovering
  /\ outstanding = Cardinality(Open)

\* A call has a buffer locked from its change to log_write, and no two have the
\* same; what it may still log is within its share.
Calls ==
  /\ \A p \in Process : pc[p] \in {"logging", "panic", "stuck"} <=> held[p] # Uncached
  /\ \A p, q \in Process : held[p] = held[q] /\ held[p] # Uncached => p = q
  /\ \A p \in Process : Claim(p) <= OpBlocks
  /\ \A p \in Process : Claim(p) > 0 => p \in Open

\* The header: on the disk from the commit point to its erasure, in memory
\* as long as calls or a commit need it; a block is in it once.
Header ==
  /\ Injective(lh) /\ Injective(head)
  /\ head # <<>> => Recovering \/ Somebody({"install", "erase"})
  /\ Somebody({"install"}) => head = lh
  /\ Somebody({"erase", "done"}) => lh = <<>>
  /\ Recovering => lh \in {<<>>, head}
  /\ lh # <<>> => Recovering \/ committing \/ outstanding > 0
  /\ IF Somebody({"write_log", "stuck", "install"}) THEN tail < Len(lh)
     ELSE IF Recovering THEN tail <= Len(lh)
     ELSE tail = 0
  /\ Somebody({"write_head"}) => lh # <<>>

\* A block is dirty from its log_write to its installation, and cached then; a
\* buffer that differs from the disk is dirty or locked.
Buffers ==
  /\ dirty = IF Recovering THEN {}
             ELSE {lh[i] : i \in (IF Somebody({"install"}) THEN tail + 1 ELSE 1)..Len(lh)}
  /\ \A b \in dirty : cache[b] # Uncached
  /\ \A p \in Process : held[p] # Uncached => cache[held[p]] # Uncached
  /\ \A b \in Block : cache[b] \notin {Uncached, home[b]} =>
       b \in dirty \/ \E p \in Process : held[p] = b

\* The log region: it holds the blocks of the header; what write_log has copied,
\* and what install_trans still has to copy, or has copied.
Region ==
  /\ Somebody({"write_head"}) => Len(lh) < LogBlocks
  /\ head # <<>> => Len(head) < LogBlocks
  /\ Somebody({"write_log"}) => \A i \in 1..tail : logdata[i] = cache[lh[i]]
  /\ Somebody({"write_head"}) => \A i \in 1..Len(lh) : logdata[i] = cache[lh[i]]
  /\ Somebody({"install"}) => \A i \in (tail + 1)..Len(lh) : logdata[i] = cache[lh[i]]
  /\ Somebody({"install", "recover"}) => \A i \in 1..tail : logdata[i] = home[lh[i]]
  /\ Somebody({"erase"}) => \A i \in 1..Len(head) : logdata[i] = home[head[i]]

\* What holds in every state, and what holds until a commit writes behind the
\* log region.
Structure == TypeOK /\ Runners /\ Calls /\ Reserved /\ Header /\ InRegion
Contents == Buffers /\ Region
IInv == Structure /\ (~overrun => Contents)

(***************************************************************************)
(* Sets of calls and of claims are finite.                                 *)
(***************************************************************************)

LEMMA CallsAreFinite ==
  ASSUME NEW S \in SUBSET Process
  PROVE  IsFiniteSet(S) /\ Cardinality(S) \in 0..Cardinality(Process)
BY SizeAssumption, FS_Subset, FS_CardinalityType

LEMMA ClaimsAreFinite ==
  ASSUME NEW S \in SUBSET Process, NEW C \in SUBSET (S \X (1..OpBlocks))
  PROVE  /\ IsFiniteSet(C) /\ Cardinality(C) \in Nat
         /\ Cardinality(C) <= Cardinality(S) * OpBlocks
<1> DEFINE T == 1..OpBlocks
<1>1. IsFiniteSet(S) /\ Cardinality(S) \in Nat
  BY CallsAreFinite, SizeAssumption, FS_CardinalityType
<1>2. OpBlocks \in Nat
  BY SizeAssumption
<1>3. IsFiniteSet(T) /\ Cardinality(T) = OpBlocks
  BY <1>2, FS_Interval
<1>4. IsFiniteSet(S \X T) /\ Cardinality(S \X T) = Cardinality(S) * OpBlocks
  BY <1>1, <1>3, FS_Product
<1>5. IsFiniteSet(C) /\ Cardinality(C) <= Cardinality(S \X T)
  BY <1>4, FS_Subset
<1> QED  BY <1>4, <1>5, FS_CardinalityType

\* The claims of fewer calls, or smaller ones, are fewer.
LEMMA FewerClaims ==
  ASSUME NEW S \in SUBSET Process, NEW C \in SUBSET (S \X (1..OpBlocks)),
         NEW D \in SUBSET C
  PROVE  Cardinality(D) \in Nat /\ Cardinality(D) <= Cardinality(C)
BY ClaimsAreFinite, FS_Subset, FS_CardinalityType

LEMMA RoomIs == Room \in Nat /\ Room <= LOGSIZE /\ LOGSIZE \in Nat \ {0}
BY SizeAssumption DEF Room

(***************************************************************************)
(* What the invariant says of the process that takes a step.               *)
(***************************************************************************)

LEMMA InCall ==
  ASSUME Structure, NEW p \in Process, pc[p] \in {"op", "logging", "panic"}
  PROVE  /\ ~Recovering /\ ~Somebody(CommitPoints) /\ ~committing
         /\ \A q \in Process : pc[q] \notin CommitPoints \cup {"recover", "off"}
         /\ head = <<>> /\ tail = 0 /\ ~Somebody({"install"})
<1>1. \A q \in Process : pc[q] \notin CommitPoints
  BY DEF Structure, Runners, CommitPoints
<1>2. \A q \in Process : pc[q] # "recover"
  BY DEF Structure, Runners
<1>3. ~Recovering /\ ~Somebody(CommitPoints) /\ ~committing
  BY <1>1, <1>2 DEF Structure, Runners, Recovering, Somebody
<1>4. \A q \in Process : pc[q] # "off"
  BY <1>3 DEF Structure, Runners
<1>5. ~Somebody({"install", "erase"}) /\ ~Somebody({"install"}) /\ ~Somebody({"write_log", "stuck", "install"})
  BY <1>1 DEF Somebody, CommitPoints
<1>6. head = <<>> /\ tail = 0
  BY <1>3, <1>5 DEF Structure, Header
<1> QED  BY <1>1, <1>2, <1>3, <1>4, <1>5, <1>6

LEMMA CallBuffers ==
  ASSUME Structure, Contents, NEW p \in Process, pc[p] \in {"op", "logging", "panic"}
  PROVE  dirty = {lh[i] : i \in 1..Len(lh)}
BY InCall DEF Contents, Buffers

LEMMA InCommit ==
  ASSUME Structure, NEW p \in Process, pc[p] \in CommitPoints
  PROVE  /\ ~Recovering /\ committing /\ Open = {} /\ outstanding = 0
         /\ pc[p] # "stuck" => \A q \in Process : held[q] = Uncached
         /\ \A q \in Process \ {p} : pc[q] \in {"user", "begin", "asleep"}
         /\ \A L \in SUBSET CommitPoints : Somebody(L) <=> pc[p] \in L
<1>1. committing /\ \A q \in Process \ {p} : pc[q] \in {"user", "begin", "asleep"}
  BY DEF Structure, Runners
<1>2. ~Recovering /\ Open = {}
  BY <1>1 DEF Recovering, Open, CommitPoints
<1>3. outstanding = 0
  BY <1>2, FS_EmptySet DEF Structure, Runners
<1>4. pc[p] # "stuck" => \A q \in Process : held[q] = Uncached
  BY <1>1 DEF Structure, Calls, CommitPoints
<1>5. \A L \in SUBSET CommitPoints : Somebody(L) <=> pc[p] \in L
  BY <1>1 DEF Somebody, CommitPoints
<1> QED  BY <1>1, <1>2, <1>3, <1>4, <1>5

LEMMA InRecovery ==
  ASSUME Structure, NEW p \in Process, pc[p] = "recover"
  PROVE  /\ Recovering /\ ~committing /\ Open = {} /\ outstanding = 0
         /\ \A L \in SUBSET CommitPoints : ~Somebody(L)
         /\ \A q \in Process : held[q] = Uncached
         /\ \A q \in Process \ {p} : pc[q] = "off"
         /\ lh \in {<<>>, head} /\ tail <= Len(lh)
<1>1. Recovering /\ \A q \in Process \ {p} : pc[q] = "off"
  BY DEF Structure, Runners, Recovering
<1>2. Open = {}
  BY <1>1 DEF Open
<1>3. outstanding = 0
  BY <1>2, FS_EmptySet DEF Structure, Runners
<1>4. \A L \in SUBSET CommitPoints : ~Somebody(L)
  BY <1>1 DEF Somebody, CommitPoints
<1>5. ~committing
  BY <1>4 DEF Structure, Runners
<1>6. \A q \in Process : held[q] = Uncached
  BY <1>1 DEF Structure, Calls
<1>7. lh \in {<<>>, head} /\ tail <= Len(lh)
  BY <1>1, <1>4 DEF Structure, Header, CommitPoints
<1> QED  BY <1>1, <1>2, <1>3, <1>4, <1>5, <1>6, <1>7

LEMMA RecoveryBuffers ==
  ASSUME Structure, Contents, NEW p \in Process, pc[p] = "recover"
  PROVE  /\ dirty = {}
         /\ \A b \in Block : cache[b] \in {Uncached, home[b]}
         /\ \A i \in 1..tail : logdata[i] = home[lh[i]]
         /\ Len(lh) < LogBlocks \/ lh = <<>>
<1>1. Recovering /\ \A q \in Process : held[q] = Uncached
  BY InRecovery
<1>2. dirty = {}
  BY <1>1 DEF Contents, Buffers
<1>3. \A b \in Block : cache[b] \in {Uncached, home[b]}
  BY <1>1, <1>2, SizeAssumption DEF Contents, Buffers, Structure, TypeOK
<1>4. \A i \in 1..tail : logdata[i] = home[lh[i]]
  BY DEF Contents, Region, Somebody
<1>5. Len(lh) < LogBlocks \/ lh = <<>>
  BY InRecovery DEF Contents, Region
<1> QED  BY <1>2, <1>3, <1>4, <1>5

(***************************************************************************)
(* Initially.                                                              *)
(***************************************************************************)

LEMMA InitInv == Init => Structure /\ Contents
<1> SUFFICES ASSUME Init PROVE Structure /\ Contents
  OBVIOUS
<1> USE SizeAssumption DEF Init
<1>1. Open = {} /\ ~Recovering /\ \A L \in SUBSET CommitPoints : ~Somebody(L)
  BY DEF Open, Recovering, Somebody, CommitPoints
<1>2. Claims = {}
  BY <1>1 DEF Claims
<1>3. TypeOK
  <2>1. Cardinality(Process) \in Nat
    BY FS_CardinalityType
  <2>2. logdata \in [1..(LogBlocks - 1) -> Value] /\ overrun \in BOOLEAN
    OBVIOUS
  <2>3. <<>> \in Seq(Block) /\ Len(<<>>) = 0
    BY EmptySeq
  <2>4. OpBlocks \in Nat
    OBVIOUS
  <2>5. pc \in [Process -> Points]
    BY DEF Points
  <2>6. /\ home \in [Block -> Value] /\ cache \in [Block -> Value \cup {Uncached}]
        /\ held \in [Process -> Block \cup {Uncached}] /\ quota \in [Process -> 0..OpBlocks]
    BY <2>4
  <2>7. head \in Seq(Block) /\ Len(head) <= LOGSIZE /\ lh \in Seq(Block) /\ Len(lh) <= LOGSIZE
    BY <2>3
  <2>8. /\ outstanding \in 0..Cardinality(Process) /\ tail \in 0..LOGSIZE
    BY <2>1
  <2>9. committing \in BOOLEAN /\ dirty \in SUBSET Block
    OBVIOUS
  <2> QED  BY <2>2, <2>5, <2>6, <2>7, <2>8, <2>9 DEF TypeOK
<1>4. Runners
  BY <1>1, FS_EmptySet DEF Runners, CommitPoints
<1>5. Calls
  BY DEF Calls, Claim
<1>6. Reserved /\ InRegion
  BY <1>2, FS_EmptySet, RoomIs DEF Reserved, InRegion
<1>7. Header
  BY <1>1 DEF Header, Injective, CommitPoints
<1>8. Buffers
  BY <1>1 DEF Buffers, CommitPoints
<1>9. Region
  BY <1>1 DEF Region, Somebody
<1> QED  BY <1>3, <1>4, <1>5, <1>6, <1>7, <1>8, <1>9 DEF Structure, Contents

(***************************************************************************)
(* Steps of calls.                                                         *)
(***************************************************************************)

\* Processes that are in no call move between waiting and running.
LEMMA WaitingInv ==
  ASSUME Structure, pc' \in [Process -> Points],
         \A q \in Process : pc'[q] = pc[q] \/ {pc[q], pc'[q]} \subseteq {"user", "begin", "asleep"},
         UNCHANGED <<disk, bufs, mem, held, quota, tail, overrun>>
  PROVE  Structure' /\ (Contents => Contents')
<1> USE DEF disk, bufs, mem
<1>1. \A L : L \cap {"user", "begin", "asleep"} = {} =>
        \A q \in Process : pc'[q] \in L <=> pc[q] \in L
  OBVIOUS
<1>2. \A L : L \cap {"user", "begin", "asleep"} = {} => (Somebody(L)' <=> Somebody(L))
  BY <1>1 DEF Somebody
<1>3. \A q \in Process : /\ (pc'[q] = "recover" <=> pc[q] = "recover")
                         /\ (pc'[q] = "logging" <=> pc[q] = "logging")
                         /\ (pc'[q] = "off" <=> pc[q] = "off")
  OBVIOUS
<1>4. Recovering' = Recovering /\ Open' = Open
  BY <1>3 DEF Recovering, Open
<1>5. \A q \in Process : Claim(q)' = Claim(q)
  BY <1>3 DEF Claim
<1>6. Claims' = Claims
  BY <1>4, <1>5 DEF Claims, Open
<1>7. TypeOK'
  BY DEF Structure, TypeOK
<1>8. Runners'
  <2>1. (committing => Somebody(CommitPoints))'
    BY <1>2 DEF Structure, Runners, CommitPoints
  <2>2. (outstanding = Cardinality(Open))'
    BY <1>4 DEF Structure, Runners
  <2> QED  BY <2>1, <2>2, <1>3, <1>4 DEF Structure, Runners, CommitPoints
<1>9. Calls'
  BY <1>4, <1>5 DEF Structure, Calls
<1>10. Reserved'
  BY <1>4, <1>6 DEF Structure, Reserved
<1>11. Header'
  BY <1>2, <1>4 DEF Structure, Header
<1>12. Buffers => Buffers'
  BY <1>2, <1>4 DEF Buffers
<1>13. Region => Region'
  BY <1>2, <1>4 DEF Region
<1>14. InRegion'
  BY DEF Structure, InRegion
<1> QED  BY <1>7, <1>8, <1>9, <1>10, <1>11, <1>12, <1>13, <1>14 DEF Structure, Contents

LEMMA BeginOpInv ==
  ASSUME Structure, NEW p \in Process, BeginOp(p)
  PROVE  Structure' /\ (Contents => Contents')
<1> USE DEF BeginOp, Goto, disk, bufs
<1>1. \A q \in Process : pc[q] \notin CommitPoints \cup {"recover", "off"}
  <2>1. \A q \in Process : pc[q] \notin CommitPoints
    BY DEF Structure, Runners
  <2>2. \A q \in Process : pc[q] # "recover"
    BY DEF Structure, Runners
  <2> QED  BY <2>1, <2>2 DEF Structure, Runners, Recovering
<1>2. pc' = [pc EXCEPT ![p] = "op"] /\ pc \in [Process -> Points] /\ pc[p] = "begin"
  BY DEF Structure, TypeOK
<1>3. \A q \in Process : pc'[q] \notin CommitPoints \cup {"recover", "off"}
  BY <1>1, <1>2 DEF CommitPoints
<1>4. ~Recovering /\ ~Recovering' /\ \A L \in SUBSET CommitPoints : ~Somebody(L) /\ ~Somebody(L)'
  BY <1>1, <1>3 DEF Recovering, Somebody
<1>5. p \notin Open /\ Open' = Open \cup {p}
  BY <1>2 DEF Open
<1>6. outstanding = Cardinality(Open) /\ Cardinality(Open) \in Nat /\ outstanding' = outstanding + 1
  BY CallsAreFinite, FS_CardinalityType DEF Structure, Runners, Open
<1>7. Cardinality(Open') = outstanding + 1
  BY <1>5, <1>6, CallsAreFinite, FS_AddElement DEF Open
<1>8. quota' = [quota EXCEPT ![p] = OpBlocks] /\ quota \in [Process -> 0..OpBlocks]
  BY DEF Structure, TypeOK
<1>9. /\ Claim(p)' = OpBlocks
      /\ \A q \in Process \ {p} : Claim(q)' = Claim(q)
  BY <1>2, <1>8, SizeAssumption DEF Claim
<1>10. TypeOK'
  <2>1. outstanding' \in 0..Cardinality(Process)
    BY <1>6, <1>7, CallsAreFinite DEF Open
  <2>2. pc' \in [Process -> Points]
    BY <1>2 DEF Points
  <2>3. quota' \in [Process -> 0..OpBlocks]
    BY <1>8, SizeAssumption
  <2> QED  BY <2>1, <2>2, <2>3 DEF Structure, TypeOK
<1>11. Runners'
  <2>1. ~committing'
    OBVIOUS
  <2> QED  BY <2>1, <1>3, <1>6, <1>7 DEF Runners
<1>12. Calls'
  <2>1. \A q \in Process : (pc[q] \in {"logging", "panic", "stuck"} <=> held[q] # Uncached)'
    BY <1>2 DEF Structure, Calls
  <2>2. \A q \in Process : (Claim(q) <= OpBlocks)'
    BY <1>9, SizeAssumption DEF Structure, Calls
  <2>3. \A q \in Process : (Claim(q) > 0 => q \in Open)'
    BY <1>9, <1>5 DEF Structure, Calls
  <2> QED  BY <2>1, <2>2, <2>3 DEF Structure, Calls
<1>13. Reserved'
  <2>1. Claims' \in SUBSET (Open' \X (1..OpBlocks)) /\ Open' \in SUBSET Process
    BY DEF Claims, Open
  <2>2. Cardinality(Claims') \in Nat /\ Cardinality(Claims') <= (outstanding + 1) * OpBlocks
    BY <2>1, <1>7, ClaimsAreFinite
  <2> DEFINE a == (outstanding + 1) * OpBlocks
             b == (outstanding + 1) * MAXOPBLOCKS
  <2>3. a \in Nat /\ b \in Nat /\ a <= b /\ (OpBlocks < MAXOPBLOCKS => a + 1 <= b)
    <3>1. \A x, y, z \in Nat : y <= z => x * y <= x * z
      OBVIOUS
    <3>2. \A x, y, z \in Nat : y < z => (x + 1) * y + 1 <= (x + 1) * z
      <4>1. \A x, y \in Nat : (x + 1) * (y + 1) = (x + 1) * y + x + 1
        OBVIOUS
      <4>2. \A x, y, z \in Nat : y < z => (x + 1) * (y + 1) <= (x + 1) * z
        BY <3>1
      <4> QED  BY <4>1, <4>2
    <3> QED  BY <3>1, <3>2, <1>6, SizeAssumption
  <2>4. Len(lh) \in Nat /\ Len(lh) + b <= LOGSIZE
    <3>1. Len(lh) \in Nat
      BY DEF Structure, TypeOK
    <3> QED  BY <3>1, <1>6, SizeAssumption DEF NoSpace
  <2>5. Cardinality(Claims') <= a
    BY <2>2
  <2> HIDE DEF a, b
  <2>6. Len(lh) + Cardinality(Claims') <= Room
    BY <2>2, <2>3, <2>4, <2>5, SizeAssumption DEF Room
  <2> QED  BY <2>6 DEF Reserved
<1>14. Header'
  <2>1. tail = 0 /\ head = <<>>
    BY <1>4 DEF Structure, Header, CommitPoints
  <2>2. outstanding' > 0
    BY <1>6
  <2>3. Injective(lh)' /\ Injective(head)'
    BY DEF Structure, Header
  <2> QED  BY <2>1, <2>2, <2>3, <1>4 DEF Header, CommitPoints
<1>15. Buffers => Buffers'
  <2>1. ~Somebody({"install"}) /\ ~Somebody({"install"})'
    BY <1>4 DEF CommitPoints
  <2> QED  BY <2>1, <1>4 DEF Buffers
<1>16. Region => Region'
  BY <1>3, <1>4 DEF Region, Somebody, CommitPoints
<1>17. InRegion'
  BY DEF Structure, InRegion
<1> QED  BY <1>10, <1>11, <1>12, <1>13, <1>14, <1>15, <1>16, <1>17 DEF Structure, Contents

\* An open call goes on: everything about who runs stays.
LEMMA OpenCallInv ==
  ASSUME Structure, NEW p \in Process, NEW l \in {"op", "logging", "panic"},
         pc[p] \in {"op", "logging", "panic"}, pc' = [pc EXCEPT ![p] = l],
         UNCHANGED <<outstanding, committing>>
  PROVE  /\ Runners' /\ Open' = Open /\ ~Recovering' /\ pc' \in [Process -> Points]
         /\ \A L \in SUBSET CommitPoints : ~Somebody(L)'
         /\ outstanding \in Nat \ {0}
<1>1. \A q \in Process : pc[q] \notin CommitPoints \cup {"recover", "off"}
  BY InCall
<1>2. pc \in [Process -> Points]
  BY DEF Structure, TypeOK
<1>3. pc' \in [Process -> Points]
  BY <1>2 DEF Points
<1>4. \A q \in Process : pc'[q] \notin CommitPoints \cup {"recover", "off"}
  BY <1>1, <1>2 DEF CommitPoints
<1>5. Open' = Open
  BY <1>2 DEF Open
<1>6. ~Recovering' /\ \A L \in SUBSET CommitPoints : ~Somebody(L)'
  BY <1>4 DEF Recovering, Somebody
<1>7. outstanding' = Cardinality(Open')
  BY <1>5 DEF Structure, Runners
<1>8. ~committing'
  BY InCall
<1>9. Runners'
  BY <1>4, <1>7, <1>8 DEF Runners
<1>10. outstanding \in Nat \ {0}
  <2>1. p \in Open /\ IsFiniteSet(Open) /\ Cardinality(Open) \in Nat
    BY CallsAreFinite, FS_CardinalityType DEF Open
  <2>2. Cardinality(Open) # 0
    BY <2>1, FS_EmptySet
  <2> QED  BY <2>1, <2>2 DEF Structure, Runners
<1> QED  BY <1>3, <1>5, <1>6, <1>9, <1>10

\* What an open call does to the header, and to the buffers.
LEMMA OpenHeader ==
  ASSUME Structure, NEW p \in Process, pc[p] \in {"op", "logging", "panic"},
         ~Recovering', \A L \in SUBSET CommitPoints : ~Somebody(L)',
         outstanding' \in Nat \ {0}, UNCHANGED <<head, tail>>, Injective(lh)'
  PROVE  Header'
<1>1. head = <<>> /\ tail = 0
  BY InCall
<1>2. Injective(head)'
  BY <1>1 DEF Injective
<1>3. /\ {"install", "erase"} \in SUBSET CommitPoints /\ {"install"} \in SUBSET CommitPoints
      /\ {"erase", "done"} \in SUBSET CommitPoints /\ {"write_head"} \in SUBSET CommitPoints
      /\ {"write_log", "stuck", "install"} \in SUBSET CommitPoints
  BY DEF CommitPoints
<1> QED  BY <1>1, <1>2, <1>3 DEF Header

LEMMA OpenBuffers ==
  ASSUME Structure, NEW p \in Process, pc[p] \in {"op", "logging", "panic"},
         ~Recovering', \A L \in SUBSET CommitPoints : ~Somebody(L)',
         UNCHANGED head,
         dirty' = {lh'[i] : i \in 1..Len(lh')},
         \A b \in dirty' : cache'[b] # Uncached,
         \A q \in Process : held'[q] # Uncached => cache'[held'[q]] # Uncached,
         \A b \in Block : cache'[b] \notin {Uncached, home'[b]} =>
           b \in dirty' \/ \E q \in Process : held'[q] = b
  PROVE  Contents'
<1>1. head' = <<>>
  BY InCall
<1>2. /\ {"install"} \in SUBSET CommitPoints /\ {"write_head"} \in SUBSET CommitPoints
      /\ {"write_log"} \in SUBSET CommitPoints /\ {"erase"} \in SUBSET CommitPoints
  BY DEF CommitPoints
<1>3. Buffers'
  BY <1>2 DEF Buffers
<1>4. ~Somebody({"install", "recover"})'
  BY <1>2 DEF Somebody, Recovering
<1>5. Region'
  BY <1>1, <1>2, <1>4 DEF Region
<1> QED  BY <1>3, <1>5 DEF Contents

LEMMA ReadInv ==
  ASSUME Structure, NEW p \in Process, NEW b \in Block, Read(p, b)
  PROVE  Structure'
<1> USE DEF Read, disk, mem, procs
<1>1. cache' = [cache EXCEPT ![b] = home[b]] /\ cache \in [Block -> Value \cup {Uncached}]
      /\ home \in [Block -> Value]
  BY DEF Structure, TypeOK
<1>2. /\ ~Recovering /\ ~Recovering' /\ Open' = Open
      /\ \A L \in SUBSET CommitPoints : ~Somebody(L) /\ ~Somebody(L)'
      /\ outstanding \in Nat \ {0}
  <2>1. pc' = [pc EXCEPT ![p] = "op"]
    BY DEF Structure, TypeOK
  <2>2. /\ Open' = Open /\ ~Recovering' /\ \A L \in SUBSET CommitPoints : ~Somebody(L)'
        /\ outstanding \in Nat \ {0}
    BY <2>1, OpenCallInv
  <2> QED  BY <2>2, InCall DEF Somebody
<1>3. TypeOK'
  BY <1>1 DEF Structure, TypeOK
<1>4. Runners' /\ Calls'
  BY DEF Structure, Runners, Calls, Open, Claim, Somebody, Recovering
<1>5. Claims' = Claims
  BY DEF Claims, Claim, Open
<1>6. Reserved'
  BY <1>2, <1>5 DEF Structure, Reserved
<1>7. Header'
  <2>1. Injective(lh)'
    BY DEF Structure, Header
  <2> QED  BY <2>1, <1>2, OpenHeader
<1>8. InRegion'
  BY DEF Structure, InRegion
<1> QED  BY <1>3, <1>4, <1>6, <1>7, <1>8 DEF Structure

LEMMA ReadKeeps ==
  ASSUME Structure, Contents, NEW p \in Process, NEW b \in Block, Read(p, b)
  PROVE  Contents'
<1> USE DEF Read, disk, mem, procs
<1>1. /\ cache' = [cache EXCEPT ![b] = home[b]] /\ cache \in [Block -> Value \cup {Uncached}]
      /\ home \in [Block -> Value] /\ pc' = [pc EXCEPT ![p] = "op"]
  BY DEF Structure, TypeOK
<1>2. ~Recovering' /\ \A L \in SUBSET CommitPoints : ~Somebody(L)'
  BY <1>1, OpenCallInv
<1>3. dirty' = {lh'[i] : i \in 1..Len(lh')}
  BY CallBuffers
<1>4. \A c \in dirty' : cache'[c] # Uncached
  BY <1>1, SizeAssumption DEF Structure, TypeOK, Contents, Buffers
<1>5. \A c \in Block : cache'[c] \notin {Uncached, home'[c]} =>
        c \in dirty' \/ \E q \in Process : held'[q] = c
  BY <1>1 DEF Contents, Buffers
<1>6. \A q \in Process : held'[q] # Uncached => cache'[held'[q]] # Uncached
  BY <1>1, SizeAssumption DEF Structure, TypeOK, Contents, Buffers
<1> QED  BY <1>2, <1>3, <1>4, <1>5, <1>6, OpenBuffers

LEMMA ModifyInv ==
  ASSUME Structure, NEW p \in Process, NEW b \in Block, Modify(p, b)
  PROVE  Structure'
<1> USE DEF Modify, Goto, disk, mem
<1>1. PICK v \in Value : cache' = [cache EXCEPT ![b] = v]
  OBVIOUS
<1>2. PICK l \in {"logging", "panic"} : pc' = [pc EXCEPT ![p] = l]
  OBVIOUS
<1>3. /\ Runners' /\ Open' = Open /\ ~Recovering' /\ pc' \in [Process -> Points]
      /\ \A L \in SUBSET CommitPoints : ~Somebody(L)'
      /\ outstanding \in Nat \ {0} /\ ~Recovering
  BY <1>2, OpenCallInv, InCall
<1>4. /\ cache \in [Block -> Value \cup {Uncached}] /\ held \in [Process -> Block \cup {Uncached}]
      /\ quota \in [Process -> 0..OpBlocks] /\ pc \in [Process -> Points]
      /\ held' = [held EXCEPT ![p] = b] /\ quota' = [quota EXCEPT ![p] = @ - 1]
      /\ pc[p] = "op" /\ quota[p] > 0 /\ OpBlocks \in Nat
  BY SizeAssumption DEF Structure, TypeOK
<1>5. /\ \A q \in Process : Claim(q)' \in Nat /\ Claim(q)' <= Claim(q)
      /\ \A q \in Process : Claim(q) \in Nat
  BY <1>2, <1>4 DEF Claim
<1>6. TypeOK'
  <2>1. cache' \in [Block -> Value \cup {Uncached}] /\ held' \in [Process -> Block \cup {Uncached}]
        /\ quota' \in [Process -> 0..OpBlocks]
    BY <1>1, <1>4
  <2> QED  BY <2>1, <1>3 DEF Structure, TypeOK
<1>7. Calls'
  <2>1. \A q \in Process : (pc[q] \in {"logging", "panic", "stuck"} <=> held[q] # Uncached)'
    BY <1>2, <1>4, SizeAssumption DEF Structure, Calls
  <2>2. \A q, r \in Process : (held[q] = held[r] /\ held[q] # Uncached)' => q = r
    BY <1>4 DEF Structure, Calls
  <2>3. \A q \in Process : (Claim(q) <= OpBlocks)'
    BY <1>4, <1>5 DEF Structure, Calls
  <2>4. \A q \in Process : (Claim(q) > 0 => q \in Open)'
    BY <1>3, <1>5 DEF Structure, Calls
  <2> QED  BY <2>1, <2>2, <2>3, <2>4 DEF Calls
<1>8. Reserved'
  <2>1. Claims' \in SUBSET Claims /\ Claims \in SUBSET (Open \X (1..OpBlocks)) /\ Open \in SUBSET Process
    <3>1. \A c \in Open \X (1..OpBlocks) : c[2] <= Claim(c[1])' => c[2] <= Claim(c[1])
      BY <1>4, <1>5 DEF Open
    <3> QED  BY <3>1, <1>3 DEF Claims, Open
  <2>2. Cardinality(Claims') \in Nat /\ Cardinality(Claims') <= Cardinality(Claims) /\ Cardinality(Claims) \in Nat
    BY <2>1, FewerClaims, ClaimsAreFinite
  <2> QED  BY <2>2, <1>3, RoomIs DEF Structure, Reserved, TypeOK
<1>9. Header'
  <2>1. Injective(lh)'
    BY DEF Structure, Header
  <2> QED  BY <2>1, <1>3, OpenHeader
<1>10. InRegion'
  BY DEF Structure, InRegion
<1> QED  BY <1>3, <1>6, <1>7, <1>8, <1>9, <1>10 DEF Structure

LEMMA ModifyKeeps ==
  ASSUME Structure, Contents, NEW p \in Process, NEW b \in Block, Modify(p, b)
  PROVE  Contents'
<1> USE DEF Modify, Goto, disk, mem
<1>1. PICK v \in Value : cache' = [cache EXCEPT ![b] = v]
  OBVIOUS
<1>2. PICK l \in {"logging", "panic"} : pc' = [pc EXCEPT ![p] = l]
  OBVIOUS
<1>3. ~Recovering' /\ \A L \in SUBSET CommitPoints : ~Somebody(L)'
  BY <1>2, OpenCallInv
<1>4. /\ cache \in [Block -> Value \cup {Uncached}] /\ held \in [Process -> Block \cup {Uncached}]
      /\ held' = [held EXCEPT ![p] = b] /\ pc[p] = "op"
  BY DEF Structure, TypeOK
<1>5. dirty' = {lh'[i] : i \in 1..Len(lh')}
  BY CallBuffers
<1>6. \A c \in dirty' : cache'[c] # Uncached
  BY <1>1, <1>4, SizeAssumption DEF Structure, TypeOK, Contents, Buffers
<1>7. \A c \in Block : cache'[c] \notin {Uncached, home'[c]} =>
         c \in dirty' \/ \E q \in Process : held'[q] = c
  <2>1. held[p] = Uncached
    BY <1>4 DEF Structure, Calls
  <2>2. \A c \in Block : \A q \in Process : held[q] = c => held'[q] = c
    BY <1>4, <2>1, SizeAssumption
  <2>3. \A c \in Block : c # b => cache'[c] = cache[c] /\ home'[c] = home[c]
    BY <1>1, <1>4
  <2>4. held'[p] = b
    BY <1>4
  <2> QED  BY <2>2, <2>3, <2>4 DEF Contents, Buffers
<1>8. \A q \in Process : held'[q] # Uncached => cache'[held'[q]] # Uncached
  BY <1>1, <1>4, SizeAssumption DEF Contents, Buffers
<1> QED  BY <1>3, <1>4, <1>5, <1>6, <1>7, <1>8, OpenBuffers

\* log_write's list: the block is in it, once, and nothing else is new.
LEMMA LogWriteAppends ==
  ASSUME Structure, NEW p \in Process, LogWrite(p)
  PROVE  /\ lh' \in Seq(Block) /\ Len(lh') \in Nat /\ Len(lh') <= Len(lh) + 1
         /\ Injective(lh)'
         /\ {lh'[i] : i \in 1..Len(lh')} = {lh[i] : i \in 1..Len(lh)} \cup {held[p]}
<1> DEFINE b == held[p]
<1>1. lh \in Seq(Block) /\ Len(lh) \in Nat /\ DOMAIN lh = 1..Len(lh) /\ Injective(lh)
  BY LenProperties DEF Structure, TypeOK, Header
<1>2. b \in Block
  BY DEF Structure, TypeOK, Calls, LogWrite
<1>3. Logged = {lh[i] : i \in 1..Len(lh)}
  BY <1>1 DEF Logged, ToSet
<1>4. lh' = IF b \in Logged THEN lh ELSE Append(lh, b)
  BY DEF LogWrite
<1>5. CASE b \in Logged
  BY <1>1, <1>3, <1>4, <1>5 DEF Injective
<1>6. CASE b \notin Logged
  <2>1. /\ lh' \in Seq(Block) /\ Len(lh') = Len(lh) + 1
        /\ \A i \in 1..Len(lh) : lh'[i] = lh[i]
        /\ lh'[Len(lh) + 1] = b
    BY <1>1, <1>2, <1>4, <1>6, AppendProperties
  <2>2. \A i \in 1..Len(lh) : lh[i] # b
    BY <1>3, <1>6
  <2>3. Injective(lh)'
    <3>1. DOMAIN lh' = 1..(Len(lh) + 1)
      BY <2>1, LenProperties
    <3>2. \A i, j \in 1..Len(lh) : lh[i] = lh[j] => i = j
      BY <1>1 DEF Injective
    <3>3. ASSUME NEW i \in 1..(Len(lh) + 1), NEW j \in 1..(Len(lh) + 1), lh'[i] = lh'[j]
          PROVE  i = j
      <4>1. CASE i \in 1..Len(lh) /\ j \in 1..Len(lh)
        BY <4>1, <3>3, <3>2, <2>1
      <4>2. CASE i = Len(lh) + 1 \/ j = Len(lh) + 1
        BY <4>2, <3>3, <2>1, <2>2, <1>1
      <4> QED  BY <4>1, <4>2, <1>1
    <3> QED  BY <3>1, <3>3 DEF Injective
  <2>4. {lh'[i] : i \in 1..Len(lh')} = {lh[i] : i \in 1..Len(lh)} \cup {b}
    <3>1. 1..Len(lh') = (1..Len(lh)) \cup {Len(lh) + 1}
      BY <2>1, <1>1
    <3> QED  BY <3>1, <2>1
  <2> QED  BY <2>1, <2>3, <2>4, <1>1
<1> QED  BY <1>5, <1>6

LEMMA LogWriteInv ==
  ASSUME Structure, NEW p \in Process, LogWrite(p)
  PROVE  Structure'
<1> USE DEF LogWrite, Goto, disk
<1> DEFINE b == held[p]
<1>1. pc' = [pc EXCEPT ![p] = "op"] /\ pc[p] = "logging"
  OBVIOUS
<1>2. /\ Runners' /\ Open' = Open /\ ~Recovering' /\ pc' \in [Process -> Points]
      /\ \A L \in SUBSET CommitPoints : ~Somebody(L)'
      /\ outstanding \in Nat \ {0} /\ ~Recovering
  BY <1>1, OpenCallInv, InCall
<1>3. /\ held \in [Process -> Block \cup {Uncached}] /\ pc \in [Process -> Points]
      /\ held' = [held EXCEPT ![p] = Uncached]
      /\ quota \in [Process -> 0..OpBlocks] /\ OpBlocks \in Nat
      /\ lh \in Seq(Block) /\ Len(lh) \in Nat /\ dirty \subseteq Block
  BY SizeAssumption DEF Structure, TypeOK
<1>4. b \in Block
  BY <1>1, <1>3 DEF Structure, Calls
<1>5. /\ Claim(p) = quota[p] + 1 /\ Claim(p)' = quota[p] /\ Claim(p) <= OpBlocks
      /\ \A q \in Process \ {p} : Claim(q)' = Claim(q)
  BY <1>1, <1>3 DEF Claim, Structure, Calls
<1>6. /\ lh' \in Seq(Block) /\ Len(lh') \in Nat /\ Len(lh') <= Len(lh) + 1
      /\ Injective(lh)'
  BY LogWriteAppends
<1>7. Reserved'
  <2> DEFINE c == <<p, quota[p] + 1>>
  <2>1. Claims' = Claims \ {c} /\ c \in Claims
    <3>1. p \in Open
      BY <1>1 DEF Open
    <3>2. quota[p] + 1 \in 1..OpBlocks
      BY <1>3, <1>5
    <3>3. c \in Claims
      BY <3>1, <3>2, <1>5 DEF Claims
    <3>4. \A d \in Open \X (1..OpBlocks) :
            d[2] <= Claim(d[1])' <=> d[2] <= Claim(d[1]) /\ d # c
      <4> SUFFICES ASSUME NEW q \in Open, NEW k \in 1..OpBlocks
                   PROVE  k <= Claim(q)' <=> k <= Claim(q) /\ <<q, k>> # c
        OBVIOUS
      <4> QED  BY <1>3, <1>5 DEF Open
    <3>5. Claims' = {d \in Open \X (1..OpBlocks) : d[2] <= Claim(d[1])'}
      BY <1>2 DEF Claims
    <3> HIDE DEF c
    <3>6. Claims' = Claims \ {c}
      BY <3>4, <3>5 DEF Claims
    <3> QED  BY <3>3, <3>6
  <2>2. IsFiniteSet(Claims) /\ Cardinality(Claims) \in Nat
    BY ClaimsAreFinite DEF Claims, Open
  <2> HIDE DEF c
  <2>3. Cardinality(Claims') = Cardinality(Claims) - 1
    BY <2>1, <2>2, FS_RemoveElement
  <2>4. Len(lh) + Cardinality(Claims) <= Room
    BY <1>2 DEF Structure, Reserved
  <2>5. Len(lh') + Cardinality(Claims') <= Room
    BY <2>2, <2>3, <2>4, <1>3, <1>6, RoomIs
  <2> QED  BY <2>5 DEF Reserved
<1>8. TypeOK'
  <2>1. Cardinality(Claims') \in Nat
    <3>1. Claims' \in SUBSET (Open' \X (1..OpBlocks)) /\ Open' \in SUBSET Process
      BY DEF Claims, Open
    <3> QED  BY <3>1, ClaimsAreFinite
  <2>2. Len(lh') <= LOGSIZE
    BY <2>1, <1>2, <1>6, <1>7, RoomIs DEF Reserved
  <2>3. held' \in [Process -> Block \cup {Uncached}] /\ dirty' \subseteq Block
    BY <1>3, <1>4
  <2> QED  BY <2>2, <2>3, <1>2, <1>6 DEF Structure, TypeOK
<1>9. Calls'
  <2>1. \A q \in Process : (pc[q] \in {"logging", "panic", "stuck"} <=> held[q] # Uncached)'
    BY <1>1, <1>3 DEF Structure, Calls
  <2>2. \A q, r \in Process : (held[q] = held[r] /\ held[q] # Uncached)' => q = r
    BY <1>3 DEF Structure, Calls
  <2>3. \A q \in Process : (Claim(q) <= OpBlocks)'
    BY <1>3, <1>5 DEF Structure, Calls
  <2>4. \A q \in Process : (Claim(q) > 0 => q \in Open)'
    BY <1>1, <1>2, <1>5 DEF Structure, Calls, Open
  <2> QED  BY <2>1, <2>2, <2>3, <2>4 DEF Calls
<1>10. Header'
  BY <1>1, <1>2, <1>6, OpenHeader
<1>11. InRegion'
  BY DEF Structure, InRegion
<1> QED  BY <1>2, <1>7, <1>8, <1>9, <1>10, <1>11 DEF Structure

LEMMA LogWriteKeeps ==
  ASSUME Structure, Contents, NEW p \in Process, LogWrite(p)
  PROVE  Contents'
<1> USE DEF LogWrite, Goto, disk
<1> DEFINE b == held[p]
<1>1. pc' = [pc EXCEPT ![p] = "op"] /\ pc[p] = "logging"
  OBVIOUS
<1>2. ~Recovering' /\ \A L \in SUBSET CommitPoints : ~Somebody(L)'
  BY <1>1, OpenCallInv
<1>3. /\ held \in [Process -> Block \cup {Uncached}]
      /\ held' = [held EXCEPT ![p] = Uncached]
  BY DEF Structure, TypeOK
<1>4. b \in Block
  BY <1>1, <1>3 DEF Structure, Calls
<1>5. dirty' = {lh'[i] : i \in 1..Len(lh')}
  BY <1>1, CallBuffers, LogWriteAppends
<1>6. \A c \in dirty' : cache'[c] # Uncached
  <2>1. cache[b] # Uncached
    BY <1>4, SizeAssumption DEF Contents, Buffers
  <2> QED  BY <2>1 DEF Contents, Buffers
<1>7. \A c \in Block : cache'[c] \notin {Uncached, home'[c]} =>
         c \in dirty' \/ \E q \in Process : held'[q] = c
  <2>1. \A c \in Block : \A q \in Process : held[q] = c => c = b \/ held'[q] = c
    BY <1>3
  <2>2. b \in dirty' /\ dirty \subseteq dirty'
    OBVIOUS
  <2> QED  BY <2>1, <2>2 DEF bufs, Contents, Buffers
<1>8. \A q \in Process : held'[q] # Uncached => cache'[held'[q]] # Uncached
  BY <1>3 DEF bufs, Contents, Buffers
<1> QED  BY <1>1, <1>2, <1>5, <1>6, <1>7, <1>8, OpenBuffers

LEMMA EndOpInv ==
  ASSUME Structure, NEW p \in Process, EndOp(p)
  PROVE  Structure' /\ (Contents => Contents')
<1> USE DEF EndOp, Goto, disk, bufs
<1>1. /\ pc \in [Process -> Points] /\ quota \in [Process -> 0..OpBlocks] /\ OpBlocks \in Nat
      /\ quota' = [quota EXCEPT ![p] = 0] /\ pc[p] = "op"
      /\ lh \in Seq(Block) /\ Len(lh) \in Nat
  BY SizeAssumption DEF Structure, TypeOK
<1>2. \A q \in Process : pc[q] \notin CommitPoints \cup {"recover", "off"}
  BY InCall
<1>3. ~Recovering /\ ~committing /\ tail = 0 /\ head = <<>> /\ ~Somebody({"install"})
  BY InCall
<1>4. p \in Open /\ IsFiniteSet(Open) /\ Cardinality(Open) \in Nat /\ outstanding = Cardinality(Open)
  BY CallsAreFinite, FS_CardinalityType DEF Open, Structure, Runners
<1>5. Cardinality(Open \ {p}) = outstanding - 1 /\ IsFiniteSet(Open \ {p})
      /\ Cardinality(Open \ {p}) \in Nat
  BY <1>4, FS_RemoveElement, FS_CardinalityType
<1>6. /\ \A q \in Process \ {p} : pc'[q] = pc[q] \/ {pc[q], pc'[q]} \subseteq {"user", "begin", "asleep"}
      /\ pc'[p] = IF outstanding = 1 THEN IF lh = <<>> THEN "done" ELSE "write_log" ELSE "user"
      /\ pc' \in [Process -> Points]
  <2>1. CASE outstanding = 1
    BY <2>1, <1>1 DEF Points
  <2>2. CASE outstanding # 1
    BY <2>2, <1>1 DEF Points, Wakeup
  <2> QED  BY <2>1, <2>2
<1>7. \A q \in Process \ {p} : /\ pc'[q] \notin CommitPoints \cup {"recover", "off"}
                               /\ (pc'[q] = "logging" <=> pc[q] = "logging")
                               /\ (pc'[q] = "op" <=> pc[q] = "op")
                               /\ (pc'[q] = "panic" <=> pc[q] = "panic")
  BY <1>2, <1>6 DEF CommitPoints
<1>8. Open' = Open \ {p} /\ ~Recovering'
  BY <1>6, <1>7 DEF Open, Recovering
<1>9. outstanding' = Cardinality(Open')
  BY <1>5, <1>8
<1>10. Claim(p)' = 0 /\ \A q \in Process \ {p} : Claim(q)' = Claim(q)
  BY <1>1, <1>6, <1>7 DEF Claim
<1>11. \A L \in SUBSET CommitPoints : Somebody(L)' <=> pc'[p] \in L
  BY <1>7 DEF Somebody
<1>12. TypeOK'
  <2>1. outstanding' \in 0..Cardinality(Process)
    BY <1>9, CallsAreFinite DEF Open
  <2>2. quota' \in [Process -> 0..OpBlocks]
    BY <1>1
  <2>3. committing' \in BOOLEAN
    BY DEF Structure, TypeOK
  <2> QED  BY <2>1, <2>2, <2>3, <1>6 DEF Structure, TypeOK
<1>13. Runners'
  <2>1. ASSUME NEW q \in Process, pc'[q] \in CommitPoints
        PROVE  committing' /\ \A r \in Process \ {q} : pc'[r] \in {"user", "begin", "asleep"}
    <3>1. q = p
      BY <2>1, <1>7
    <3>2. outstanding = 1
      BY <2>1, <3>1, <1>6 DEF CommitPoints
    <3>3. Open' = {}
      BY <3>2, <1>5, <1>8, FS_EmptySet
    <3>4. \A r \in Process \ {p} : pc'[r] \notin {"op", "logging", "panic"}
      BY <3>3 DEF Open
    <3> QED  BY <3>1, <3>2, <3>4, <1>6, <1>7 DEF Points, CommitPoints
  <2>2. committing' => Somebody(CommitPoints)'
    <3>1. committing' => outstanding = 1
      BY <1>3
    <3> QED  BY <3>1, <1>6, <1>11 DEF CommitPoints
  <2>3. \A q \in Process : pc'[q] \notin {"recover", "off"}
    BY <1>6, <1>7
  <2> QED  BY <2>1, <2>2, <2>3, <1>9 DEF Runners
<1>14. Calls'
  <2>1. \A q \in Process : (pc[q] \in {"logging", "panic", "stuck"} <=> held[q] # Uncached)'
    BY <1>1, <1>6, <1>7 DEF Structure, Calls
  <2>2. \A q \in Process : (Claim(q) <= OpBlocks)'
    BY <1>1, <1>10 DEF Structure, Calls
  <2>3. \A q \in Process : (Claim(q) > 0 => q \in Open)'
    BY <1>8, <1>10 DEF Structure, Calls
  <2> QED  BY <2>1, <2>2, <2>3 DEF Structure, Calls
<1>15. Reserved'
  <2>1. Claims' \in SUBSET Claims
    BY <1>8, <1>10 DEF Claims, Open
  <2>2. Claims \in SUBSET (Open \X (1..OpBlocks)) /\ Open \in SUBSET Process
    BY DEF Claims, Open
  <2>3. Cardinality(Claims') \in Nat /\ Cardinality(Claims') <= Cardinality(Claims) /\ Cardinality(Claims) \in Nat
    BY <2>1, <2>2, FewerClaims, ClaimsAreFinite
  <2>4. Len(lh) + Cardinality(Claims) <= Room
    BY <1>3 DEF Structure, Reserved
  <2> QED  BY <2>3, <2>4, <1>1, RoomIs DEF Reserved
<1>16. Header'
  <2>1. lh # <<>> => committing' \/ outstanding' > 0
    <3>1. outstanding # 0
      BY <1>4, FS_EmptySet
    <3> QED  BY <3>1, <1>4
  <2>2. lh # <<>> => 0 < Len(lh)
    BY <1>1, EmptySeq
  <2>3. pc'[p] = "write_log" => lh # <<>>
    BY <1>6
  <2>4. pc'[p] = "done" => lh = <<>>
    BY <1>6
  <2>5. pc'[p] \in {"done", "write_log", "user"}
    BY <1>6
  <2>6. Injective(lh)' /\ Injective(head)'
    BY DEF Structure, Header
  <2> QED  BY <2>1, <2>2, <2>3, <2>4, <2>5, <2>6, <1>3, <1>8, <1>11 DEF Header, CommitPoints
<1>17. Buffers => Buffers'
  <2>1. ~Somebody({"install"})'
    BY <1>6, <1>11 DEF CommitPoints
  <2> QED  BY <2>1, <1>3, <1>8 DEF Buffers
<1>18. Region'
  <2>1. pc'[p] \in {"done", "write_log", "user"}
    BY <1>6
  <2> QED  BY <2>1, <1>3, <1>7 DEF Region, Somebody, CommitPoints
<1>19. InRegion'
  BY DEF Structure, InRegion
<1> QED  BY <1>12, <1>13, <1>14, <1>15, <1>16, <1>17, <1>18, <1>19 DEF Structure, Contents

LEMMA EvictInv ==
  ASSUME Structure, NEW b \in Block, Evict(b)
  PROVE  Structure'
<1> USE DEF Evict, disk, mem, procs
<1>1. cache' = [cache EXCEPT ![b] = Uncached] /\ cache \in [Block -> Value \cup {Uncached}]
      /\ lh \in Seq(Block) /\ tail \in Nat
  BY DEF Structure, TypeOK
<1>2. /\ \A L : Somebody(L)' = Somebody(L)
      /\ Recovering' = Recovering /\ Open' = Open /\ Claims' = Claims
      /\ \A q \in Process : Claim(q)' = Claim(q)
  BY DEF Somebody, Recovering, Open, Claims, Claim
<1>3. Structure'
  <2>1. TypeOK'
    BY <1>1 DEF Structure, TypeOK
  <2>2. Runners'
    BY DEF Structure, Runners, Somebody, Recovering, Open
  <2>3. Calls'
    BY <1>2 DEF Structure, Calls
  <2>4. Reserved'
    BY <1>2 DEF Structure, Reserved
  <2>5. Header' /\ InRegion'
    BY DEF Structure, Header, InRegion, Somebody, Recovering
  <2> QED  BY <2>1, <2>2, <2>3, <2>4, <2>5 DEF Structure
<1> QED  BY <1>3

LEMMA EvictKeeps ==
  ASSUME Structure, Contents, NEW b \in Block, Evict(b)
  PROVE  Contents'
<1> USE DEF Evict, disk, mem, procs
<1>1. cache' = [cache EXCEPT ![b] = Uncached] /\ cache \in [Block -> Value \cup {Uncached}]
      /\ lh \in Seq(Block) /\ tail \in Nat
  BY DEF Structure, TypeOK
<1>2. (\A L : Somebody(L)' = Somebody(L)) /\ Recovering' = Recovering
  BY DEF Somebody, Recovering
<1>3. Buffers'
  <2>1. dirty' = IF Recovering' THEN {}
        ELSE {lh'[i] : i \in (IF Somebody({"install"})' THEN tail' + 1 ELSE 1)..Len(lh')}
    BY <1>2 DEF Contents, Buffers
  <2>2. \A c \in dirty' : cache'[c] # Uncached
    BY <1>1 DEF Structure, TypeOK, Contents, Buffers
  <2>3. \A q \in Process : held'[q] # Uncached => cache'[held'[q]] # Uncached
    BY <1>1 DEF Contents, Buffers
  <2>4. \A c \in Block : cache'[c] \notin {Uncached, home'[c]} =>
          c \in dirty' \/ \E q \in Process : held'[q] = c
    BY <1>1 DEF Contents, Buffers
  <2> QED  BY <2>1, <2>2, <2>3, <2>4 DEF Buffers
<1>4. Region'
  <2>1. DOMAIN lh = 1..Len(lh) /\ Len(lh) \in Nat
    BY <1>1, LenProperties
  <2>2. ~Somebody({"install"}) => tail <= Len(lh)
    BY <1>1, <2>1 DEF Structure, Header, Somebody
  <2>3. ~Recovering => \A i \in (IF Somebody({"install"}) THEN tail + 1 ELSE 1)..Len(lh) : lh[i] # b
    BY DEF Contents, Buffers
  <2>4. \A p \in Process : pc[p] \in CommitPoints =>
          ~Recovering /\ \A L \in SUBSET CommitPoints : Somebody(L) <=> pc[p] \in L
    BY InCommit
  <2>5. Somebody({"write_log"}) \/ Somebody({"write_head"}) => ~Recovering /\ ~Somebody({"install"})
    BY <2>4 DEF Somebody, CommitPoints
  <2>6. Somebody({"write_log"}) \/ Somebody({"write_head"}) => \A i \in 1..Len(lh) : cache'[lh[i]] = cache[lh[i]]
    BY <1>1, <2>1, <2>3, <2>5, ElementOfSeq
  <2>7. Somebody({"install"}) => ~Recovering
    BY <2>4 DEF Somebody, CommitPoints
  <2>8. Somebody({"install"}) => \A i \in (tail + 1)..Len(lh) : cache'[lh[i]] = cache[lh[i]]
    <3>1. \A i \in (tail + 1)..Len(lh) : lh[i] \in Block
      BY <1>1, <2>1, ElementOfSeq
    <3> QED  BY <1>1, <2>3, <2>7, <3>1
  <2> QED  BY <1>2, <2>2, <2>5, <2>6, <2>7, <2>8, <2>1, <1>1 DEF Contents, Region
<1> QED  BY <1>3, <1>4 DEF Contents

(***************************************************************************)
(* Steps of the commit.                                                    *)
(***************************************************************************)

\* What a commit writes is what the calls have reserved.
LEMMA LoggedFits ==
  ASSUME Structure, NEW p \in Process, pc[p] \in CommitPoints
  PROVE  Len(lh) \in Nat /\ Len(lh) <= Room
<1>1. ~Recovering
  BY InCommit
<1>2. Cardinality(Claims) \in Nat
  BY ClaimsAreFinite DEF Claims, Open
<1>3. Len(lh) \in Nat
  BY DEF Structure, TypeOK
<1> QED  BY <1>1, <1>2, <1>3, RoomIs DEF Structure, Reserved

\* The commit goes on, with nobody else in a call.
LEMMA CommitStep ==
  ASSUME Structure, NEW p \in Process, NEW l \in CommitPoints \ {"stuck"},
         pc[p] \in CommitPoints \ {"stuck"}, pc' = [pc EXCEPT ![p] = l],
         UNCHANGED <<outstanding, committing, held, quota>>
  PROVE  /\ Runners' /\ Calls' /\ ~Recovering' /\ pc' \in [Process -> Points]
         /\ Claims' = {} /\ Open' = {} /\ Len(lh) <= Room
         /\ \A L \in SUBSET CommitPoints : Somebody(L)' <=> l \in L
<1>1. pc \in [Process -> Points] /\ \A q \in Process \ {p} : pc[q] \in {"user", "begin", "asleep"}
  BY InCommit DEF Structure, TypeOK
<1>2. pc'[p] = l /\ \A q \in Process \ {p} : pc'[q] = pc[q] /\ pc'[q] \in {"user", "begin", "asleep"}
  BY <1>1
<1>3. pc' \in [Process -> Points]
  BY <1>1 DEF Points, CommitPoints
<1>4. ~Recovering' /\ Open' = {}
  BY <1>2 DEF Recovering, Open, CommitPoints
<1>5. \A L \in SUBSET CommitPoints : Somebody(L)' <=> l \in L
  BY <1>2 DEF Somebody, CommitPoints
<1>6. Claims' = {}
  BY <1>4 DEF Claims
<1>7. Runners'
  <2>1. committing'
    BY InCommit
  <2>2. outstanding' = Cardinality(Open')
    BY <1>4, InCommit, FS_EmptySet
  <2> QED  BY <2>1, <2>2, <1>2, <1>5 DEF Runners, CommitPoints
<1>8. Calls'
  <2>1. \A q \in Process : Claim(q)' = Claim(q) /\ ~(Claim(q) > 0)
    BY <1>1, <1>2, InCommit DEF Claim, CommitPoints, Structure, Calls
  <2> QED  BY <2>1, <1>2, InCommit DEF Structure, Calls, CommitPoints
<1>9. Len(lh) <= Room
  BY LoggedFits
<1> QED  BY <1>2, <1>3, <1>4, <1>5, <1>6, <1>7, <1>8, <1>9

\* What the steps of the commit before the installation share.
LEMMA BeforeInstall ==
  ASSUME Structure, NEW p \in Process, pc[p] \in {"write_log", "write_head"}
  PROVE  /\ head = <<>> /\ lh # <<>> /\ Injective(lh)
         /\ lh \in Seq(Block) /\ Len(lh) \in 1..LOGSIZE /\ LOGSIZE \in Nat
         /\ \A i \in 1..Len(lh) : lh[i] \in Block
         /\ tail \in Nat /\ (pc[p] = "write_log" => tail + 1 \in 1..Len(lh))
<1>1. /\ lh \in Seq(Block) /\ Len(lh) \in Nat /\ Len(lh) <= LOGSIZE /\ LOGSIZE \in Nat
      /\ tail \in Nat
  BY SizeAssumption DEF Structure, TypeOK
<1>2. ~Recovering /\ \A L \in SUBSET CommitPoints : Somebody(L) <=> pc[p] \in L
  BY InCommit DEF CommitPoints
<1>3. head = <<>>
  BY <1>2 DEF Structure, Header, CommitPoints
<1>4. pc[p] = "write_log" => tail < Len(lh)
  BY <1>2 DEF Structure, Header, CommitPoints
<1>5. pc[p] = "write_head" => lh # <<>>
  BY <1>2 DEF Structure, Header, CommitPoints
<1>6. lh # <<>> /\ Injective(lh)
  BY <1>1, <1>4, <1>5, EmptySeq DEF Structure, Header
<1>7. Len(lh) \in 1..LOGSIZE
  BY <1>1, <1>6, EmptySeq
<1>8. \A i \in 1..Len(lh) : lh[i] \in Block
  BY <1>1, ElementOfSeq
<1> QED  BY <1>1, <1>3, <1>4, <1>6, <1>7, <1>8

LEMMA BuffersBeforeInstall ==
  ASSUME Structure, Contents, NEW p \in Process, pc[p] \in {"write_log", "write_head"}
  PROVE  /\ dirty = {lh[i] : i \in 1..Len(lh)}
         /\ \A i \in 1..Len(lh) : lh[i] \in Block /\ cache[lh[i]] \in Value
         /\ \A b \in Block : cache[b] \notin {Uncached, home[b]} => b \in dirty
<1>1. /\ ~Recovering /\ ~Somebody({"install"})
      /\ \A q \in Process : held[q] = Uncached
  BY InCommit DEF CommitPoints
<1>2. dirty = {lh[i] : i \in 1..Len(lh)}
  BY <1>1 DEF Contents, Buffers
<1>3. \A i \in 1..Len(lh) : lh[i] \in Block /\ cache[lh[i]] \in Value
  <2>1. \A i \in 1..Len(lh) : lh[i] \in Block
    BY BeforeInstall
  <2>2. \A i \in 1..Len(lh) : cache[lh[i]] # Uncached
    BY <1>2 DEF Contents, Buffers
  <2> QED  BY <2>1, <2>2 DEF Structure, TypeOK
<1>4. \A b \in Block : cache[b] \notin {Uncached, home[b]} => b \in dirty
  BY <1>1, SizeAssumption DEF Contents, Buffers
<1> QED  BY <1>2, <1>3, <1>4

\* The loop of write_log goes on or ends; a block is written to the region or
\* behind it.
LEMMA EntryInv ==
  ASSUME Structure, NEW p \in Process, pc[p] = "write_log", NextEntry(p),
         UNCHANGED <<head, lh, outstanding, committing, held, quota>>,
         logdata' \in [1..(LogBlocks - 1) -> Value], home' \in [Block -> Value],
         cache' \in [Block -> Value \cup {Uncached}], dirty' \subseteq Block,
         overrun' \in BOOLEAN, InRegion'
  PROVE  /\ Structure' /\ ~Recovering'
         /\ \E l \in {"write_log", "write_head"} :
              /\ \A L \in SUBSET CommitPoints : Somebody(L)' <=> l \in L
              /\ l = "write_log" => tail' = tail + 1 /\ tail + 1 < Len(lh)
              /\ l = "write_head" => tail' = 0 /\ tail + 1 = Len(lh)
<1>1. /\ head = <<>> /\ lh # <<>> /\ Injective(lh) /\ lh \in Seq(Block)
      /\ Len(lh) \in 1..LOGSIZE /\ LOGSIZE \in Nat
      /\ tail \in Nat /\ tail + 1 \in 1..Len(lh)
  BY BeforeInstall
<1>2. PICK l \in {"write_log", "write_head"} :
        /\ pc' = [pc EXCEPT ![p] = l]
        /\ l = "write_log" => tail' = tail + 1 /\ tail + 1 < Len(lh)
        /\ l = "write_head" => tail' = 0 /\ tail + 1 = Len(lh)
  <2>1. CASE tail + 1 < Len(lh)
    <3>1. pc' = [pc EXCEPT ![p] = "write_log"] /\ tail' = tail + 1
      BY <2>1 DEF NextEntry, Structure, TypeOK
    <3> QED  BY <3>1, <2>1
  <2>2. CASE ~(tail + 1 < Len(lh))
    <3>1. pc' = [pc EXCEPT ![p] = "write_head"] /\ tail' = 0
      BY <2>2 DEF NextEntry, Goto
    <3> QED  BY <3>1, <2>2, <1>1
  <2> QED  BY <2>1, <2>2
<1>3. /\ Runners' /\ Calls' /\ ~Recovering' /\ pc' \in [Process -> Points] /\ Claims' = {}
      /\ Len(lh) <= Room /\ \A L \in SUBSET CommitPoints : Somebody(L)' <=> l \in L
  BY <1>2, CommitStep DEF CommitPoints
<1>4. TypeOK'
  <2>1. tail' \in 0..LOGSIZE
    BY <1>1, <1>2
  <2> QED  BY <2>1, <1>3 DEF Structure, TypeOK
<1>5. Reserved'
  BY <1>1, <1>3, FS_EmptySet, RoomIs DEF Reserved
<1>6. Header'
  <2>1. committing' /\ Injective(lh)' /\ Injective(head)'
    BY InCommit DEF Structure, Header, CommitPoints
  <2>2. ~Somebody({"install"})' /\ ~Somebody({"erase", "done"})'
    BY <1>3 DEF CommitPoints
  <2>3. Somebody({"write_log", "stuck", "install"})' <=> l = "write_log"
    BY <1>3 DEF CommitPoints
  <2> QED  BY <2>1, <2>2, <2>3, <1>1, <1>2, <1>3 DEF Header
<1> QED  BY <1>2, <1>3, <1>4, <1>5, <1>6 DEF Structure

\* What bread returns is a block's contents.
LEMMA ContentIsValue ==
  ASSUME Structure, NEW b \in Block
  PROVE  Content(b) \in Value
BY DEF Structure, TypeOK, Content

LEMMA WriteLogInv ==
  ASSUME Structure, NEW p \in Process, WriteLog(p)
  PROVE  Structure'
<1>1. lh[tail + 1] \in Block
  BY BeforeInstall DEF WriteLog
<1>2. /\ logdata' \in [1..(LogBlocks - 1) -> Value]
      /\ cache' \in [Block -> Value \cup {Uncached}]
  BY <1>1, ContentIsValue DEF WriteLog, Structure, TypeOK
<1>3. home' \in [Block -> Value] /\ dirty' \subseteq Block /\ overrun' \in BOOLEAN /\ InRegion'
  BY DEF WriteLog, Structure, TypeOK, InRegion
<1> QED  BY <1>2, <1>3, EntryInv DEF WriteLog, mem

\* Behind the region there is nothing to write unless log_write calls have raced
\* for the whole header.
LEMMA BehindRegion ==
  ASSUME Structure, NEW p \in Process, pc[p] = "write_log", tail + 1 = LogBlocks
  PROVE  ~(OpBlocks < MAXOPBLOCKS \/ LOGSIZE < LogBlocks)
<1>1. tail + 1 \in 1..Len(lh) /\ Len(lh) \in Nat
  BY BeforeInstall DEF Structure, TypeOK
<1>2. Len(lh) <= Room
  BY LoggedFits DEF CommitPoints
<1> QED  BY <1>1, <1>2, SizeAssumption DEF Room

LEMMA WriteBehindInv ==
  ASSUME Structure, NEW p \in Process, WriteBehind(p)
  PROVE  Structure'
<1>1. lh[tail + 1] \in Block
  BY BeforeInstall DEF WriteBehind
<1>2. /\ home' \in [Block -> Value] /\ dirty' \subseteq Block
      /\ cache' \in [Block -> Value \cup {Uncached}]
  BY <1>1, ContentIsValue, SizeAssumption DEF WriteBehind, Structure, TypeOK
<1>3. overrun' \in BOOLEAN /\ InRegion'
  BY BehindRegion DEF WriteBehind, InRegion
<1>4. logdata' \in [1..(LogBlocks - 1) -> Value]
  BY DEF WriteBehind, Structure, TypeOK
<1> QED  BY <1>2, <1>3, <1>4, EntryInv DEF WriteBehind, mem

LEMMA WriteStuckInv ==
  ASSUME Structure, NEW p \in Process, WriteStuck(p)
  PROVE  Structure'
<1> USE DEF WriteStuck, Goto, disk, bufs, mem
<1>1. /\ head = <<>> /\ lh # <<>> /\ Injective(lh) /\ tail + 1 \in 1..Len(lh)
      /\ tail \in Nat /\ Len(lh) \in Nat
  BY BeforeInstall
<1>2. /\ ~Recovering /\ committing /\ Open = {} /\ outstanding = 0
      /\ \A q \in Process : held[q] = Uncached
      /\ \A q \in Process \ {p} : pc[q] \in {"user", "begin", "asleep"}
  BY InCommit DEF CommitPoints
<1>3. /\ pc \in [Process -> Points] /\ pc' = [pc EXCEPT ![p] = "stuck"]
      /\ held' = [held EXCEPT ![p] = InodeBlock] /\ held \in [Process -> Block \cup {Uncached}]
  BY DEF Structure, TypeOK
<1>4. pc'[p] = "stuck" /\ \A q \in Process \ {p} : pc'[q] = pc[q]
  BY <1>3
<1>5. /\ Open' = {} /\ ~Recovering'
      /\ \A L \in SUBSET CommitPoints : Somebody(L)' <=> "stuck" \in L
  BY <1>2, <1>4 DEF Open, Recovering, Somebody, CommitPoints
<1>6. Claims' = {}
  BY <1>5 DEF Claims
<1>7. TypeOK'
  <2>1. pc' \in [Process -> Points] /\ held' \in [Process -> Block \cup {Uncached}]
    BY <1>3, SizeAssumption DEF Points
  <2> QED  BY <2>1 DEF Structure, TypeOK
<1>8. Runners'
  <2>1. outstanding' = Cardinality(Open')
    BY <1>2, <1>5, FS_EmptySet
  <2> QED  BY <2>1, <1>2, <1>4, <1>5 DEF Runners, CommitPoints
<1>9. Calls'
  <2>1. \A q \in Process : Claim(q)' = Claim(q) /\ Claim(q) <= OpBlocks /\ ~(Claim(q) > 0)
    BY <1>2, <1>4 DEF Claim, Structure, Calls
  <2>2. \A q \in Process \ {p} : held'[q] = Uncached
    BY <1>2, <1>3
  <2>3. held'[p] = InodeBlock /\ InodeBlock # Uncached
    BY <1>3, SizeAssumption
  <2> QED  BY <2>1, <2>2, <2>3, <1>2, <1>4 DEF Calls
<1>10. Reserved'
  <2>1. Len(lh) <= Room
    BY LoggedFits DEF CommitPoints
  <2> QED  BY <2>1, <1>1, <1>6, FS_EmptySet, RoomIs DEF Reserved
<1>11. Header'
  <2>1. ~Somebody({"install"})' /\ ~Somebody({"erase", "done"})' /\ ~Somebody({"write_head"})'
        /\ Somebody({"write_log", "stuck", "install"})'
    BY <1>5 DEF CommitPoints
  <2>2. tail < Len(lh)
    BY <1>1
  <2> QED  BY <2>1, <2>2, <1>1, <1>2, <1>5 DEF Header, Injective
<1>12. InRegion'
  BY BehindRegion DEF InRegion
<1> QED  BY <1>7, <1>8, <1>9, <1>10, <1>11, <1>12 DEF Structure

\* write_log copies blocks that are cached: it changes no buffer.
LEMMA WriteLogCopies ==
  ASSUME Structure, Contents, NEW p \in Process, WriteLog(p)
  PROVE  /\ cache' = cache /\ tail \in Nat /\ tail + 1 \in 1..Len(lh)
         /\ logdata' = [logdata EXCEPT ![tail + 1] = cache[lh[tail + 1]]]
<1>1. tail \in Nat /\ tail + 1 \in 1..Len(lh)
  BY BeforeInstall DEF WriteLog
<1>2. lh[tail + 1] \in Block /\ cache[lh[tail + 1]] \in Value
  BY <1>1, BuffersBeforeInstall DEF WriteLog
<1>3. Content(lh[tail + 1]) = cache[lh[tail + 1]]
  BY <1>2, SizeAssumption DEF Content
<1>4. cache' = cache
  BY <1>3 DEF WriteLog, Structure, TypeOK
<1> QED  BY <1>1, <1>3, <1>4 DEF WriteLog

LEMMA WriteLogKeeps ==
  ASSUME Structure, Contents, NEW p \in Process, WriteLog(p)
  PROVE  Contents'
<1>1. /\ pc[p] = "write_log" /\ tail + 1 < LogBlocks /\ NextEntry(p)
      /\ UNCHANGED <<home, head, dirty, lh, outstanding, committing, held, quota, overrun>>
  BY DEF WriteLog, mem
<1>2. head = <<>> /\ Len(lh) \in Nat /\ tail \in Nat /\ tail + 1 \in 1..Len(lh)
  BY <1>1, BeforeInstall
<1>3. cache' = cache /\ logdata' = [logdata EXCEPT ![tail + 1] = cache[lh[tail + 1]]]
  BY WriteLogCopies
<1>4. /\ ~Recovering'
      /\ \E l \in {"write_log", "write_head"} :
           /\ \A L \in SUBSET CommitPoints : Somebody(L)' <=> l \in L
           /\ l = "write_log" => tail' = tail + 1 /\ tail + 1 < Len(lh)
           /\ l = "write_head" => tail' = 0 /\ tail + 1 = Len(lh)
  <2>1. Structure'
    BY WriteLogInv
  <2> QED  BY <2>1, <1>1, EntryInv DEF Structure, TypeOK
<1>5. PICK l \in {"write_log", "write_head"} :
        /\ \A L \in SUBSET CommitPoints : Somebody(L)' <=> l \in L
        /\ l = "write_log" => tail' = tail + 1 /\ tail + 1 < Len(lh)
        /\ l = "write_head" => tail' = 0 /\ tail + 1 = Len(lh)
  BY <1>4
<1>6. /\ ~Somebody({"install"})' /\ ~Somebody({"erase"})'
      /\ (Somebody({"write_log"})' <=> l = "write_log")
      /\ (Somebody({"write_head"})' <=> l = "write_head")
  BY <1>5 DEF CommitPoints
<1>7. Buffers'
  <2>1. ~Recovering /\ ~Somebody({"install"})
    BY <1>1, InCommit DEF CommitPoints
  <2> QED  BY <2>1, <1>1, <1>3, <1>4, <1>6 DEF Contents, Buffers
<1>8. \A i \in 1..(tail + 1) : logdata'[i] = cache[lh[i]]
  <2>1. \A i \in 1..tail : logdata[i] = cache[lh[i]]
    BY <1>1 DEF Contents, Region, Somebody
  <2>2. logdata \in [1..(LogBlocks - 1) -> Value] /\ LogBlocks \in Nat
    BY SizeAssumption DEF Structure, TypeOK
  <2> QED  BY <2>1, <2>2, <1>1, <1>2, <1>3
<1>9. Region'
  <2>1. ~Somebody({"install", "recover"})'
    BY <1>4, <1>6 DEF Somebody, Recovering
  <2>2. l = "write_head" => Len(lh) < LogBlocks
    BY <1>1, <1>5
  <2> QED  BY <2>1, <2>2, <1>1, <1>2, <1>3, <1>5, <1>6, <1>8 DEF Region
<1> QED  BY <1>7, <1>9 DEF Contents

LEMMA WriteHeadInv ==
  ASSUME Structure, NEW p \in Process, WriteHead(p)
  PROVE  Structure'
<1> USE DEF WriteHead, bufs, mem, Goto
<1>1. pc[p] = "write_head" /\ pc' = [pc EXCEPT ![p] = "install"]
  OBVIOUS
<1>2. /\ head = <<>> /\ lh # <<>> /\ Injective(lh)
      /\ lh \in Seq(Block) /\ Len(lh) \in 1..LOGSIZE /\ LOGSIZE \in Nat
  BY <1>1, BeforeInstall
<1>3. /\ Runners' /\ Calls' /\ ~Recovering' /\ pc' \in [Process -> Points] /\ Claims' = {}
      /\ Len(lh) <= Room /\ \A L \in SUBSET CommitPoints : Somebody(L)' <=> "install" \in L
  BY <1>1, CommitStep DEF CommitPoints
<1>4. tail = 0 /\ tail' = 0
  <2>1. ~Recovering /\ ~Somebody({"write_log", "stuck", "install"})
    BY <1>1, InCommit DEF CommitPoints
  <2> QED  BY <2>1 DEF Structure, Header
<1>5. TypeOK'
  BY <1>2, <1>3 DEF Structure, TypeOK
<1>6. Reserved'
  BY <1>2, <1>3, FS_EmptySet, RoomIs DEF Reserved
<1>7. Header'
  BY <1>2, <1>3, <1>4, InCommit, <1>1 DEF Structure, Header, CommitPoints
<1>8. InRegion'
  BY DEF Structure, InRegion
<1> QED  BY <1>3, <1>5, <1>6, <1>7, <1>8 DEF Structure

LEMMA WriteHeadKeeps ==
  ASSUME Structure, Contents, NEW p \in Process, WriteHead(p)
  PROVE  Contents'
<1> USE DEF WriteHead, bufs, mem, Goto
<1>1. pc[p] = "write_head" /\ pc' = [pc EXCEPT ![p] = "install"]
  OBVIOUS
<1>2. dirty = {lh[i] : i \in 1..Len(lh)}
  BY <1>1, BuffersBeforeInstall
<1>3. ~Recovering' /\ \A L \in SUBSET CommitPoints : Somebody(L)' <=> "install" \in L
  BY <1>1, CommitStep DEF CommitPoints
<1>4. tail = 0 /\ tail' = 0
  <2>1. ~Recovering /\ ~Somebody({"write_log", "stuck", "install"})
    BY <1>1, InCommit DEF CommitPoints
  <2> QED  BY <2>1 DEF Structure, Header
<1>5. Buffers'
  <2>1. Somebody({"install"})' /\ 1 = tail' + 1
    BY <1>3, <1>4 DEF CommitPoints
  <2> QED  BY <2>1, <1>2, <1>3 DEF Contents, Buffers
<1>6. Region'
  <2>1. Len(lh) < LogBlocks /\ \A i \in 1..Len(lh) : logdata[i] = cache[lh[i]]
    BY <1>1 DEF Contents, Region, Somebody
  <2>2. ~Somebody({"write_log"})' /\ ~Somebody({"write_head"})' /\ ~Somebody({"erase"})'
    BY <1>3 DEF CommitPoints
  <2> QED  BY <2>1, <2>2, <1>4 DEF Region
<1> QED  BY <1>5, <1>6 DEF Contents

\* What install_trans reads from the region.
LEMMA LogBlockIs ==
  ASSUME Structure
  PROVE  /\ \A i \in Nat \ {0} : LogBlock(i) \in Value
         /\ \A i : i < LogBlocks => LogBlock(i) = logdata[i]
<1>1. ASSUME NEW i \in Nat \ {0}  PROVE LogBlock(i) \in Value
  <2>1. CASE i < LogBlocks
    <3>1. i \in 1..(LogBlocks - 1)
      BY <2>1, SizeAssumption
    <3> QED  BY <2>1, <3>1 DEF LogBlock, Structure, TypeOK
  <2>2. CASE ~(i < LogBlocks)
    BY <2>2, ContentIsValue, SizeAssumption DEF LogBlock
  <2> QED  BY <2>1, <2>2
<1>2. \A i : i < LogBlocks => LogBlock(i) = logdata[i]
  BY DEF LogBlock
<1> QED  BY <1>1, <1>2

\* At the head of install_trans' loop: what is copied and what is not.
LEMMA AtInstall ==
  ASSUME Structure, NEW p \in Process, pc[p] = "install"
  PROVE  /\ head = lh /\ Injective(lh)
         /\ lh \in Seq(Block) /\ Len(lh) \in 1..LOGSIZE /\ LOGSIZE \in Nat
         /\ tail \in Nat /\ tail + 1 \in 1..Len(lh)
         /\ \A i \in 1..Len(lh) : lh[i] \in Block
<1>1. Somebody({"install"}) /\ Somebody({"write_log", "stuck", "install"})
  BY DEF Somebody
<1>2. head = lh /\ Injective(lh) /\ tail < Len(lh)
  BY <1>1 DEF Structure, Header
<1>3. /\ lh \in Seq(Block) /\ Len(lh) \in Nat /\ Len(lh) <= LOGSIZE /\ LOGSIZE \in Nat
      /\ tail \in Nat
  BY SizeAssumption DEF Structure, TypeOK
<1>4. \A i \in 1..Len(lh) : lh[i] \in Block
  BY <1>3, ElementOfSeq
<1> QED  BY <1>2, <1>3, <1>4

LEMMA BuffersAtInstall ==
  ASSUME Structure, Contents, NEW p \in Process, pc[p] = "install"
  PROVE  /\ dirty = {lh[i] : i \in (tail + 1)..Len(lh)}
         /\ Len(lh) < LogBlocks
         /\ \A i \in 1..Len(lh) : logdata[i] \in Value /\ LogBlock(i) = logdata[i]
         /\ \A i \in 1..tail : logdata[i] = home[lh[i]]
         /\ \A i \in (tail + 1)..Len(lh) : logdata[i] = cache[lh[i]]
         /\ \A b \in Block : cache[b] \notin {Uncached, home[b]} => b \in dirty
<1>1. Somebody({"install"}) /\ Somebody({"install", "recover"})
  BY DEF Somebody
<1>2. ~Recovering /\ \A q \in Process : held[q] = Uncached
  BY InCommit DEF CommitPoints
<1>3. dirty = {lh[i] : i \in (tail + 1)..Len(lh)}
  BY <1>1, <1>2 DEF Contents, Buffers
<1>4. Len(lh) < LogBlocks
  <2>1. head = lh /\ lh # <<>>
    BY AtInstall, EmptySeq
  <2> QED  BY <2>1 DEF Contents, Region
<1>5. \A i \in 1..Len(lh) : logdata[i] \in Value /\ LogBlock(i) = logdata[i]
  <2>1. \A i \in 1..Len(lh) : i \in Nat \ {0} /\ i < LogBlocks
    BY <1>4, AtInstall, SizeAssumption
  <2>2. \A i \in 1..Len(lh) : LogBlock(i) \in Value /\ LogBlock(i) = logdata[i]
    BY <2>1, LogBlockIs
  <2> QED  BY <2>2
<1>6. \A i \in 1..tail : logdata[i] = home[lh[i]]
  BY <1>1 DEF Contents, Region
<1>7. \A i \in (tail + 1)..Len(lh) : logdata[i] = cache[lh[i]]
  BY <1>1 DEF Contents, Region
<1>8. \A b \in Block : cache[b] \notin {Uncached, home[b]} => b \in dirty
  BY <1>2, SizeAssumption DEF Contents, Buffers
<1> QED  BY <1>3, <1>4, <1>5, <1>6, <1>7, <1>8

\* A block that is installed has a type, whatever the log block is.
LEMMA InstallTypes ==
  ASSUME Structure, InstallBlock, tail \in Nat, lh[tail + 1] \in Block
  PROVE  /\ home' \in [Block -> Value] /\ cache' \in [Block -> Value \cup {Uncached}]
         /\ dirty' \subseteq Block
<1>1. LogBlock(tail + 1) \in Value
  BY LogBlockIs
<1> QED  BY <1>1 DEF InstallBlock, Structure, TypeOK

LEMMA InstallInv ==
  ASSUME Structure, NEW p \in Process, Install(p)
  PROVE  Structure'
<1>1. /\ pc[p] = "install"
      /\ UNCHANGED <<logdata, head, outstanding, committing, held, quota, overrun>>
  BY DEF Install
<1>2. /\ head = lh /\ Injective(lh)
      /\ lh \in Seq(Block) /\ Len(lh) \in 1..LOGSIZE /\ LOGSIZE \in Nat
      /\ tail \in Nat /\ tail + 1 \in 1..Len(lh)
      /\ \A i \in 1..Len(lh) : lh[i] \in Block
  BY <1>1, AtInstall
<1>3. /\ home' \in [Block -> Value] /\ cache' \in [Block -> Value \cup {Uncached}]
      /\ dirty' \subseteq Block
  BY <1>2, InstallTypes DEF Install
<1>4. InRegion'
  BY <1>1 DEF Structure, InRegion
<1>5. CASE tail + 1 < Len(lh)
  <2>1. tail' = tail + 1 /\ pc' = [pc EXCEPT ![p] = "install"] /\ lh' = lh
    BY <1>5, <1>1 DEF Install, Structure, TypeOK
  <2>2. /\ Runners' /\ Calls' /\ ~Recovering' /\ pc' \in [Process -> Points] /\ Claims' = {}
        /\ Len(lh) <= Room /\ \A L \in SUBSET CommitPoints : Somebody(L)' <=> "install" \in L
    BY <2>1, <1>1, CommitStep DEF CommitPoints
  <2>3. /\ Somebody({"install"})' /\ Somebody({"write_log", "stuck", "install"})'
        /\ ~Somebody({"write_head"})' /\ ~Somebody({"erase", "done"})'
        /\ Somebody({"install", "erase"})'
    BY <2>2 DEF CommitPoints
  <2>4. TypeOK'
    <3>1. tail' \in 0..LOGSIZE
      BY <1>2, <2>1
    <3> QED  BY <3>1, <2>1, <2>2, <1>1, <1>3 DEF Structure, TypeOK
  <2>5. Reserved'
    BY <2>1, <2>2, <1>2, FS_EmptySet, RoomIs DEF Reserved
  <2>6. Header'
    <3>1. committing'
      BY <1>1, InCommit DEF CommitPoints
    <3> QED  BY <3>1, <2>1, <2>2, <2>3, <1>1, <1>2, <1>5 DEF Header
  <2> QED  BY <2>2, <2>4, <2>5, <2>6, <1>4 DEF Structure
<1>6. CASE ~(tail + 1 < Len(lh))
  <2>1. tail' = 0 /\ pc' = [pc EXCEPT ![p] = "erase"] /\ lh' = <<>>
    BY <1>6 DEF Install, Goto
  <2>2. /\ Runners' /\ Calls' /\ ~Recovering' /\ pc' \in [Process -> Points] /\ Claims' = {}
        /\ \A L \in SUBSET CommitPoints : Somebody(L)' <=> "erase" \in L
    BY <2>1, <1>1, CommitStep DEF CommitPoints
  <2>3. /\ ~Somebody({"install"})' /\ ~Somebody({"write_log", "stuck", "install"})'
        /\ ~Somebody({"write_head"})' /\ Somebody({"install", "erase"})'
    BY <2>2 DEF CommitPoints
  <2>4. TypeOK'
    <3>1. tail' \in 0..LOGSIZE /\ lh' \in Seq(Block) /\ Len(lh') <= LOGSIZE
      BY <1>2, <2>1, EmptySeq
    <3> QED  BY <3>1, <2>2, <1>1, <1>3 DEF Structure, TypeOK
  <2>5. Reserved'
    BY <2>1, <2>2, EmptySeq, FS_EmptySet, RoomIs DEF Reserved
  <2>6. Header'
    <3>1. Injective(lh)' /\ Injective(head)'
      BY <2>1, <1>1, <1>2 DEF Injective
    <3> QED  BY <3>1, <2>1, <2>2, <2>3 DEF Header
  <2> QED  BY <2>2, <2>4, <2>5, <2>6, <1>4 DEF Structure
<1> QED  BY <1>5, <1>6

\* install_trans writes what the buffer holds: it changes no buffer, but that it
\* is clean then.
LEMMA InstallCopies ==
  ASSUME Structure, Contents, NEW p \in Process, Install(p)
  PROVE  /\ cache' = cache
         /\ home' = [home EXCEPT ![lh[tail + 1]] = logdata[tail + 1]]
         /\ dirty' = {lh[i] : i \in (tail + 2)..Len(lh)}
<1>1. /\ Injective(lh) /\ lh \in Seq(Block) /\ Len(lh) \in 1..LOGSIZE /\ LOGSIZE \in Nat
      /\ tail \in Nat /\ tail + 1 \in 1..Len(lh)
      /\ \A i \in 1..Len(lh) : lh[i] \in Block
  BY AtInstall DEF Install
<1>2. /\ dirty = {lh[i] : i \in (tail + 1)..Len(lh)} /\ Len(lh) < LogBlocks
      /\ LogBlock(tail + 1) = logdata[tail + 1]
      /\ \A i \in (tail + 1)..Len(lh) : logdata[i] = cache[lh[i]]
  BY <1>1, BuffersAtInstall DEF Install
<1>3. cache' = cache
  <2>1. logdata[tail + 1] = cache[lh[tail + 1]]
    BY <1>1, <1>2
  <2>2. tail + 1 # LogBlocks
    BY <1>1, <1>2, SizeAssumption
  <2> QED  BY <2>1, <2>2, <1>2 DEF Install, InstallBlock, Structure, TypeOK
<1>4. dirty' = {lh[i] : i \in (tail + 2)..Len(lh)}
  <2>1. DOMAIN lh = 1..Len(lh)
    BY <1>1, LenProperties
  <2>2. \A i \in (tail + 1)..Len(lh) : lh[i] # lh[tail + 1] <=> i \in (tail + 2)..Len(lh)
    BY <1>1, <2>1 DEF Injective
  <2>3. dirty' = dirty \ {lh[tail + 1]}
    BY DEF Install, InstallBlock
  <2>4. (tail + 2)..Len(lh) \subseteq (tail + 1)..Len(lh)
    BY <1>1
  <2> QED  BY <1>2, <2>2, <2>3, <2>4
<1> QED  BY <1>2, <1>3, <1>4 DEF Install, InstallBlock

LEMMA InstallKeeps ==
  ASSUME Structure, Contents, NEW p \in Process, Install(p)
  PROVE  Contents'
<1>1. /\ pc[p] = "install"
      /\ UNCHANGED <<logdata, head, outstanding, committing, held, quota, overrun>>
  BY DEF Install
<1>2. /\ head = lh /\ Injective(lh)
      /\ lh \in Seq(Block) /\ Len(lh) \in 1..LOGSIZE /\ LOGSIZE \in Nat
      /\ tail \in Nat /\ tail + 1 \in 1..Len(lh)
      /\ \A i \in 1..Len(lh) : lh[i] \in Block
  BY <1>1, AtInstall
<1>3. /\ \A i \in 1..Len(lh) : logdata[i] \in Value
      /\ \A i \in 1..tail : logdata[i] = home[lh[i]]
      /\ \A i \in (tail + 1)..Len(lh) : logdata[i] = cache[lh[i]]
      /\ \A b \in Block : cache[b] \notin {Uncached, home[b]} => b \in dirty
      /\ dirty = {lh[i] : i \in (tail + 1)..Len(lh)}
      /\ Len(lh) < LogBlocks
  BY <1>1, BuffersAtInstall
<1>4. /\ cache' = cache
      /\ home' = [home EXCEPT ![lh[tail + 1]] = logdata[tail + 1]]
      /\ dirty' = {lh[i] : i \in (tail + 2)..Len(lh)}
  BY InstallCopies
<1>5. \A i \in 1..(tail + 1) : logdata[i] = home'[lh[i]]
  <2>1. \A i \in 1..(tail + 1) : i \in 1..Len(lh) /\ (i = tail + 1 \/ i \in 1..tail)
    BY <1>2
  <2>2. home \in [Block -> Value]
    BY DEF Structure, TypeOK
  <2>3. ASSUME NEW i \in 1..(tail + 1)  PROVE  logdata[i] = home'[lh[i]]
    <3>1. CASE lh[i] = lh[tail + 1]
      <4>1. i = tail + 1
        BY <2>1, <3>1, <1>2, LenProperties DEF Injective
      <4> QED  BY <4>1, <2>2, <1>2, <1>4
    <3>2. CASE lh[i] # lh[tail + 1]
      BY <2>1, <2>2, <3>2, <1>2, <1>3, <1>4
    <3> QED  BY <3>1, <3>2
  <2> QED  BY <2>3
<1>6. \A b \in Block : cache'[b] \notin {Uncached, home'[b]} => b \in dirty'
  <2>1. ASSUME NEW b \in Block, cache'[b] \notin {Uncached, home'[b]}
        PROVE  b \in dirty'
    <3>1. b # lh[tail + 1]
      BY <2>1, <1>2, <1>3, <1>4 DEF Structure, TypeOK
    <3>2. home'[b] = home[b]
      BY <3>1, <1>4 DEF Structure, TypeOK
    <3>3. PICK i \in (tail + 1)..Len(lh) : b = lh[i]
      BY <2>1, <3>2, <1>3, <1>4
    <3>4. i \in (tail + 2)..Len(lh)
      BY <3>1, <3>3, <1>2
    <3> QED  BY <3>3, <3>4, <1>4
  <2> QED  BY <2>1
<1>7. \A b \in dirty' : cache'[b] # Uncached
  <2>1. \A i \in (tail + 2)..Len(lh) : i \in (tail + 1)..Len(lh)
    BY <1>2
  <2> QED  BY <2>1, <1>3, <1>4 DEF Contents, Buffers
<1>8. \A q \in Process : held'[q] = Uncached
  BY <1>1, InCommit DEF CommitPoints
<1>9. CASE tail + 1 < Len(lh)
  <2>1. tail' = tail + 1 /\ pc' = [pc EXCEPT ![p] = "install"] /\ lh' = lh
    BY <1>9, <1>1 DEF Install, Structure, TypeOK
  <2>2. ~Recovering' /\ \A L \in SUBSET CommitPoints : Somebody(L)' <=> "install" \in L
    BY <2>1, <1>1, CommitStep DEF CommitPoints
  <2>3. /\ Somebody({"install"})' /\ ~Somebody({"write_log"})'
        /\ ~Somebody({"write_head"})' /\ ~Somebody({"erase"})'
    BY <2>2 DEF CommitPoints
  <2>4. Buffers'
    <3>1. dirty' = {lh'[i] : i \in (tail' + 1)..Len(lh')}
      BY <2>1, <1>2, <1>4
    <3> QED  BY <3>1, <2>2, <2>3, <1>6, <1>7, <1>8 DEF Buffers
  <2>5. Region'
    BY <2>1, <2>2, <2>3, <1>1, <1>2, <1>3, <1>4, <1>5 DEF Region
  <2> QED  BY <2>4, <2>5 DEF Contents
<1>10. CASE ~(tail + 1 < Len(lh))
  <2>1. tail' = 0 /\ pc' = [pc EXCEPT ![p] = "erase"] /\ lh' = <<>>
    BY <1>10 DEF Install, Goto
  <2>2. ~Recovering' /\ \A L \in SUBSET CommitPoints : Somebody(L)' <=> "erase" \in L
    BY <2>1, <1>1, CommitStep DEF CommitPoints
  <2>3. /\ ~Somebody({"install"})' /\ ~Somebody({"write_log"})' /\ ~Somebody({"write_head"})'
        /\ ~Somebody({"install", "recover"})'
    <3>1. /\ {"install"} \in SUBSET CommitPoints /\ {"write_log"} \in SUBSET CommitPoints
          /\ {"write_head"} \in SUBSET CommitPoints
      BY DEF CommitPoints
    <3>2. ~Somebody({"install", "recover"})'
      BY <3>1, <2>2 DEF Somebody, Recovering
    <3> QED  BY <3>1, <3>2, <2>2
  <2>4. tail + 1 = Len(lh)
    BY <1>2, <1>10
  <2>5. Buffers'
    <3>1. dirty' = {}
      BY <2>4, <1>2, <1>4
    <3>2. dirty' = {lh'[i] : i \in 1..Len(lh')}
      BY <3>1, <2>1, EmptySeq
    <3> QED  BY <3>2, <2>2, <2>3, <1>6, <1>7, <1>8 DEF Buffers
  <2>6. Region'
    BY <2>3, <2>4, <1>1, <1>2, <1>3, <1>5 DEF Region
  <2> QED  BY <2>5, <2>6 DEF Contents
<1> QED  BY <1>9, <1>10

\* The end of a commit: the header in memory is empty, and nothing is dirty.
LEMMA AtEnd ==
  ASSUME Structure, NEW p \in Process, pc[p] \in {"erase", "done"}
  PROVE  /\ lh = <<>> /\ tail = 0 /\ (pc[p] = "done" => head = <<>>)
         /\ \A q \in Process : held[q] = Uncached
         /\ ~Recovering /\ ~Somebody({"install"})
<1>1. /\ Somebody({"erase", "done"}) /\ ~Somebody({"install"})
      /\ ~Somebody({"write_log", "stuck", "install"})
      /\ ~Recovering /\ \A q \in Process : held[q] = Uncached
      /\ pc[p] = "done" => ~Somebody({"install", "erase"})
  BY InCommit DEF CommitPoints
<1> QED  BY <1>1 DEF Structure, Header

LEMMA BuffersAtEnd ==
  ASSUME Structure, Contents, NEW p \in Process, pc[p] \in {"erase", "done"}
  PROVE  dirty = {} /\ \A b \in Block : cache[b] \in {Uncached, home[b]}
<1>1. dirty = {}
  BY AtEnd, EmptySeq DEF Contents, Buffers
<1>2. \A b \in Block : cache[b] \in {Uncached, home[b]}
  BY <1>1, AtEnd, SizeAssumption DEF Contents, Buffers
<1> QED  BY <1>1, <1>2

LEMMA EraseInv ==
  ASSUME Structure, NEW p \in Process, Erase(p)
  PROVE  Structure' /\ (Contents => Contents')
<1> USE DEF Erase, bufs, mem, Goto
<1>1. pc[p] = "erase" /\ pc' = [pc EXCEPT ![p] = "done"]
  OBVIOUS
<1>2. lh = <<>> /\ tail = 0 /\ ~Recovering /\ ~Somebody({"install"})
  BY <1>1, AtEnd
<1>3. /\ Runners' /\ Calls' /\ ~Recovering' /\ pc' \in [Process -> Points] /\ Claims' = {}
      /\ \A L \in SUBSET CommitPoints : Somebody(L)' <=> "done" \in L
  BY <1>1, CommitStep DEF CommitPoints
<1>4. /\ ~Somebody({"install"})' /\ ~Somebody({"write_log", "stuck", "install"})'
      /\ ~Somebody({"write_log"})' /\ ~Somebody({"write_head"})' /\ ~Somebody({"erase"})'
      /\ ~Somebody({"install", "erase"})' /\ ~Somebody({"install", "recover"})'
  <2>1. /\ {"install"} \in SUBSET CommitPoints /\ {"write_log", "stuck", "install"} \in SUBSET CommitPoints
        /\ {"write_log"} \in SUBSET CommitPoints /\ {"write_head"} \in SUBSET CommitPoints
        /\ {"erase"} \in SUBSET CommitPoints /\ {"install", "erase"} \in SUBSET CommitPoints
    BY DEF CommitPoints
  <2>2. ~Somebody({"install", "recover"})'
    BY <2>1, <1>3 DEF Somebody, Recovering
  <2> QED  BY <2>1, <2>2, <1>3
<1>5. TypeOK'
  BY <1>2, <1>3 DEF Structure, TypeOK
<1>6. Reserved'
  BY <1>2, <1>3, EmptySeq, FS_EmptySet, RoomIs DEF Reserved
<1>7. Header'
  BY <1>2, <1>3, <1>4 DEF Header, Injective
<1>8. Contents => Buffers'
  BY <1>2, <1>3, <1>4, EmptySeq DEF Contents, Buffers
<1>9. Region'
  BY <1>2, <1>4 DEF Region
<1>10. InRegion'
  BY DEF Structure, InRegion
<1> QED  BY <1>3, <1>5, <1>6, <1>7, <1>8, <1>9, <1>10 DEF Structure, Contents

LEMMA CommittedInv ==
  ASSUME Structure, NEW p \in Process, Committed(p)
  PROVE  Structure' /\ (Contents => Contents')
<1> USE DEF Committed, disk, bufs
<1>1. pc[p] = "done" /\ p \in Process /\ pc \in [Process -> Points]
  BY DEF Structure, TypeOK
<1>2. /\ lh = <<>> /\ tail = 0 /\ head = <<>>
      /\ Contents => dirty = {} /\ \A b \in Block : cache[b] \in {Uncached, home[b]}
  BY <1>1, AtEnd, BuffersAtEnd
<1>3. /\ outstanding = 0 /\ \A q \in Process : held[q] = Uncached
      /\ \A q \in Process \ {p} : pc[q] \in {"user", "begin", "asleep"}
  BY <1>1, InCommit DEF CommitPoints
<1>4. \A q \in Process : pc'[q] \in {"user", "begin", "asleep"}
  BY <1>1, <1>3 DEF Wakeup
<1>5. pc' \in [Process -> Points]
  BY <1>1, <1>4 DEF Wakeup, Points
<1>6. Open' = {} /\ ~Recovering' /\ \A L \in SUBSET CommitPoints : ~Somebody(L)'
  BY <1>4 DEF Open, Recovering, Somebody, CommitPoints
<1>7. Claims' = {}
  BY <1>6 DEF Claims
<1>8. TypeOK'
  <2>1. committing' \in BOOLEAN
    OBVIOUS
  <2> QED  BY <1>5, <2>1 DEF Structure, TypeOK
<1>9. Runners'
  <2>1. ~committing'
    OBVIOUS
  <2>2. outstanding' = Cardinality(Open')
    BY <1>3, <1>6, FS_EmptySet
  <2> QED  BY <2>1, <2>2, <1>4 DEF Runners, CommitPoints
<1>10. Calls'
  <2>1. \A q \in Process : Claim(q)' <= OpBlocks /\ ~(Claim(q)' > 0)
    <3>1. \A q \in Process : Claim(q)' = Claim(q)
      BY <1>1, <1>3, <1>4 DEF Claim
    <3>2. Open = {}
      BY <1>1, InCommit DEF CommitPoints
    <3> QED  BY <3>1, <3>2 DEF Structure, Calls
  <2> QED  BY <2>1, <1>3, <1>4 DEF Calls
<1>11. Reserved'
  BY <1>2, <1>7, EmptySeq, FS_EmptySet, RoomIs DEF Reserved
<1>12. Header'
  BY <1>2, <1>6 DEF Header, Injective, CommitPoints
<1>13. Contents => Buffers'
  BY <1>2, <1>3, <1>6, EmptySeq DEF Buffers, CommitPoints
<1>14. Region'
  BY <1>2, <1>4 DEF Region, Somebody
<1>15. InRegion'
  BY DEF Structure, InRegion
<1> QED  BY <1>8, <1>9, <1>10, <1>11, <1>12, <1>13, <1>14, <1>15 DEF Structure, Contents

(***************************************************************************)
(* A crash, and the recovery.                                              *)
(***************************************************************************)

LEMMA CrashInv ==
  ASSUME Structure, Crash
  PROVE  Structure' /\ (Contents => Contents')
<1> USE DEF Crash, disk
<1>1. PICK first \in Process : pc' = [p \in Process |-> IF p = first THEN "recover" ELSE "off"]
  OBVIOUS
<1>2. /\ pc'[first] = "recover" /\ \A p \in Process \ {first} : pc'[p] = "off"
      /\ \A p \in Process : pc'[p] \in {"recover", "off"} /\ (pc'[p] = "recover" <=> p = first)
  BY <1>1
<1>3. Recovering' /\ Open' = {} /\ \A L \in SUBSET CommitPoints : ~Somebody(L)'
  BY <1>2 DEF Recovering, Open, Somebody, CommitPoints
<1>4. \A p \in Process : Claim(p)' = 0
  BY <1>1, <1>2 DEF Claim
<1>5. TypeOK'
  <2>1. pc' \in [Process -> Points]
    BY <1>1 DEF Points
  <2>2. cache' \in [Block -> Value \cup {Uncached}] /\ held' \in [Process -> Block \cup {Uncached}]
    OBVIOUS
  <2>3. quota' \in [Process -> 0..OpBlocks]
    BY SizeAssumption DEF Structure, TypeOK
  <2>4. lh' \in Seq(Block) /\ Len(lh') <= LOGSIZE /\ tail' \in 0..LOGSIZE
    BY EmptySeq, SizeAssumption
  <2>5. outstanding' \in 0..Cardinality(Process) /\ dirty' \subseteq Block
    BY FS_CardinalityType, SizeAssumption
  <2>6. committing' \in BOOLEAN
    OBVIOUS
  <2> QED  BY <2>1, <2>2, <2>3, <2>4, <2>5, <2>6 DEF Structure, TypeOK
<1>6. Runners'
  <2>1. ~committing'
    OBVIOUS
  <2>2. outstanding' = Cardinality(Open')
    BY <1>3, FS_EmptySet
  <2>3. \A p \in Process : pc'[p] \notin CommitPoints
    BY <1>2 DEF CommitPoints
  <2> QED  BY <2>1, <2>2, <2>3, <1>2, <1>3 DEF Runners
<1>7. Calls'
  BY <1>2, <1>4, SizeAssumption DEF Calls
<1>8. Reserved'
  BY <1>3 DEF Reserved
<1>9. Header'
  <2>1. Injective(lh)' /\ Injective(head)' /\ Len(lh') = 0
    BY EmptySeq DEF Injective, Structure, Header
  <2> QED  BY <2>1, <1>3 DEF Header, CommitPoints
<1>10. Buffers'
  BY <1>3 DEF Buffers
<1>11. Contents => Region'
  BY <1>3 DEF Contents, Region, CommitPoints
<1>12. InRegion'
  BY DEF Structure, InRegion
<1> QED  BY <1>5, <1>6, <1>7, <1>8, <1>9, <1>10, <1>11, <1>12 DEF Structure, Contents

LEMMA RecoverHeadInv ==
  ASSUME Structure, NEW p \in Process, RecoverHead(p)
  PROVE  Structure' /\ (Contents => Contents')
<1> USE DEF RecoverHead, disk, bufs, procs
<1>1. /\ Recovering /\ \A L \in SUBSET CommitPoints : ~Somebody(L)
      /\ tail <= Len(lh) /\ Open = {}
  BY InRecovery
<1>2. tail = 0 /\ head \in Seq(Block) /\ Len(head) \in Nat
  BY <1>1, EmptySeq DEF Structure, TypeOK
<1>3. /\ \A L : Somebody(L)' = Somebody(L)
      /\ Recovering' = Recovering /\ Open' = Open /\ Claims' = Claims
      /\ \A q \in Process : Claim(q)' = Claim(q)
  BY DEF Somebody, Recovering, Open, Claims, Claim
<1>4. TypeOK'
  BY DEF Structure, TypeOK
<1>5. Runners' /\ Calls'
  BY DEF Structure, Runners, Calls, Somebody, Recovering, Open, Claim
<1>6. Reserved'
  BY <1>1, <1>3 DEF Reserved
<1>7. Header'
  BY <1>1, <1>2, <1>3 DEF Structure, Header, CommitPoints
<1>8. Buffers => Buffers'
  BY <1>1, <1>3 DEF Buffers
<1>9. Region => Region'
  BY <1>1, <1>2, <1>3 DEF Region, CommitPoints
<1>10. InRegion'
  BY DEF Structure, InRegion
<1> QED  BY <1>4, <1>5, <1>6, <1>7, <1>8, <1>9, <1>10 DEF Structure, Contents

LEMMA RecoverInstallInv ==
  ASSUME Structure, NEW p \in Process, RecoverInstall(p)
  PROVE  Structure'
<1> USE DEF RecoverInstall, mem, procs
<1>1. /\ Recovering /\ \A L \in SUBSET CommitPoints : ~Somebody(L)
      /\ lh \in {<<>>, head} /\ Open = {} /\ tail <= Len(lh)
  BY InRecovery
<1>2. /\ lh \in Seq(Block) /\ Len(lh) \in Nat /\ Len(lh) <= LOGSIZE /\ LOGSIZE \in Nat
      /\ tail \in Nat /\ tail + 1 \in 1..Len(lh)
  BY <1>1, SizeAssumption DEF Structure, TypeOK
<1>3. lh[tail + 1] \in Block
  BY <1>2, ElementOfSeq
<1>4. /\ \A L : Somebody(L)' = Somebody(L)
      /\ Recovering' = Recovering /\ Open' = Open /\ Claims' = Claims
      /\ \A q \in Process : Claim(q)' = Claim(q)
  BY DEF Somebody, Recovering, Open, Claims, Claim
<1>5. TypeOK'
  <2>1. /\ home' \in [Block -> Value] /\ cache' \in [Block -> Value \cup {Uncached}]
        /\ dirty' \subseteq Block
    BY <1>2, <1>3, InstallTypes
  <2> QED  BY <2>1, <1>2 DEF Structure, TypeOK
<1>6. Runners' /\ Calls'
  BY DEF Structure, Runners, Calls, Somebody, Recovering, Open, Claim
<1>7. Reserved'
  BY <1>1, <1>4 DEF Reserved
<1>8. Header'
  <2>1. tail' <= Len(lh')
    BY <1>2
  <2> QED  BY <2>1, <1>1, <1>4 DEF Structure, Header, CommitPoints
<1>9. InRegion'
  BY DEF Structure, InRegion
<1> QED  BY <1>5, <1>6, <1>7, <1>8, <1>9 DEF Structure

\* A block that the recovery installs comes from the region.
LEMMA RecoverCopies ==
  ASSUME Structure, Contents, NEW p \in Process, RecoverInstall(p)
  PROVE  /\ lh \in Seq(Block) /\ Len(lh) \in Nat /\ lh = head
         /\ tail \in Nat /\ tail + 1 \in 1..Len(lh)
         /\ lh[tail + 1] \in Block /\ logdata[tail + 1] \in Value
         /\ home' = [home EXCEPT ![lh[tail + 1]] = logdata[tail + 1]]
         /\ cache' = [cache EXCEPT ![lh[tail + 1]] = logdata[tail + 1]]
<1>1. pc[p] = "recover" /\ tail < Len(lh) /\ InstallBlock
  BY DEF RecoverInstall
<1>2. /\ lh \in Seq(Block) /\ Len(lh) \in Nat /\ tail \in Nat /\ tail + 1 \in 1..Len(lh)
      /\ home \in [Block -> Value] /\ cache \in [Block -> Value \cup {Uncached}]
  BY <1>1, SizeAssumption DEF Structure, TypeOK
<1>3. lh = head
  BY <1>1, <1>2, InRecovery, EmptySeq
<1>4. lh[tail + 1] \in Block
  BY <1>2, ElementOfSeq
<1>5. tail + 1 < LogBlocks
  <2>1. lh # <<>>
    BY <1>2, EmptySeq
  <2>2. Len(lh) < LogBlocks
    BY <2>1, <1>1, RecoveryBuffers
  <2> QED  BY <2>2, <1>2, SizeAssumption
<1>6. LogBlock(tail + 1) = logdata[tail + 1] /\ LogBlock(tail + 1) \in Value
  BY <1>2, <1>5, LogBlockIs
<1>7. tail + 1 # LogBlocks
  BY <1>2, <1>5, SizeAssumption
<1>8. home' = [home EXCEPT ![lh[tail + 1]] = logdata[tail + 1]]
  BY <1>1, <1>6 DEF InstallBlock
<1>9. cache' = [cache EXCEPT ![lh[tail + 1]] = logdata[tail + 1]]
  BY <1>1, <1>2, <1>6, <1>7 DEF InstallBlock
<1> QED  BY <1>2, <1>3, <1>4, <1>6, <1>8, <1>9

LEMMA RecoverInstallKeeps ==
  ASSUME Structure, Contents, NEW p \in Process, RecoverInstall(p)
  PROVE  Contents'
<1>1. /\ Recovering /\ \A L \in SUBSET CommitPoints : ~Somebody(L)
      /\ \A q \in Process : held[q] = Uncached
      /\ dirty = {}
      /\ \A b \in Block : cache[b] \in {Uncached, home[b]}
      /\ \A i \in 1..tail : logdata[i] = home[lh[i]]
  BY InRecovery, RecoveryBuffers DEF RecoverInstall
<1>2. /\ lh \in Seq(Block) /\ Len(lh) \in Nat
      /\ tail \in Nat /\ tail + 1 \in 1..Len(lh)
      /\ lh[tail + 1] \in Block /\ logdata[tail + 1] \in Value
      /\ home' = [home EXCEPT ![lh[tail + 1]] = logdata[tail + 1]]
      /\ cache' = [cache EXCEPT ![lh[tail + 1]] = logdata[tail + 1]]
  BY RecoverCopies
<1>3. /\ pc' = pc /\ held' = held /\ lh' = lh /\ head' = head /\ logdata' = logdata
      /\ tail' = tail + 1 /\ dirty' = dirty \ {lh[tail + 1]}
      /\ home \in [Block -> Value] /\ cache \in [Block -> Value \cup {Uncached}]
  BY DEF RecoverInstall, InstallBlock, mem, procs, Structure, TypeOK
<1>4. (\A L : Somebody(L)' = Somebody(L)) /\ Recovering' = Recovering
  BY <1>3 DEF Somebody, Recovering
<1>5. Buffers'
  <2>1. dirty' = {}
    BY <1>1, <1>3
  <2>2. \A b \in Block : cache'[b] \in {Uncached, home'[b]}
    BY <1>1, <1>2, <1>3
  <2> QED  BY <2>1, <2>2, <1>1, <1>3, <1>4 DEF Buffers
<1>6. Region'
  <2>1. ASSUME NEW i \in 1..(tail + 1)  PROVE  logdata[i] = home'[lh[i]]
    <3>1. i \in 1..Len(lh) /\ (i = tail + 1 \/ i \in 1..tail) /\ DOMAIN lh = 1..Len(lh)
      BY <1>2, LenProperties
    <3>2. CASE lh[i] = lh[tail + 1]
      <4>1. i = tail + 1
        BY <3>1, <3>2, <1>2 DEF Structure, Header, Injective
      <4> QED  BY <4>1, <1>2, <1>3
    <3>3. CASE lh[i] # lh[tail + 1]
      BY <3>1, <3>3, <1>1, <1>2, <1>3
    <3> QED  BY <3>2, <3>3
  <2>2. head # <<>> => Len(head) < LogBlocks
    BY DEF Contents, Region
  <2> QED  BY <2>1, <2>2, <1>1, <1>3, <1>4 DEF Region, CommitPoints
<1> QED  BY <1>5, <1>6 DEF Contents

\* When the recovery erases the header, every block of it is at home.
LEMMA RecoverErases ==
  ASSUME Structure, Contents, NEW p \in Process, RecoverErase(p)
  PROVE  /\ \A i \in 1..Len(head) : logdata[i] = home[head[i]]
         /\ \A b \in Block : cache[b] \in {Uncached, home[b]}
<1>1. lh \in {<<>>, head} /\ \A b \in Block : cache[b] \in {Uncached, home[b]}
      /\ \A i \in 1..tail : logdata[i] = home[lh[i]]
  BY InRecovery, RecoveryBuffers DEF RecoverErase
<1>2. head \in Seq(Block) /\ Len(lh) = Len(head) /\ tail = Len(head)
  BY DEF RecoverErase, Structure, TypeOK
<1>3. lh = head
  BY <1>1, <1>2, EmptySeq
<1> QED  BY <1>1, <1>2, <1>3

LEMMA RecoverEraseInv ==
  ASSUME Structure, NEW p \in Process, RecoverErase(p)
  PROVE  Structure' /\ (Contents => Contents')
<1> USE DEF RecoverErase, bufs
<1>1. /\ Open = {} /\ outstanding = 0 /\ ~committing
      /\ \A q \in Process : held[q] = Uncached
      /\ Contents => dirty = {} /\ \A b \in Block : cache[b] \in {Uncached, home[b]}
  BY InRecovery, RecoveryBuffers
<1>2. \A q \in Process : pc'[q] = "user"
  OBVIOUS
<1>3. ~Recovering' /\ Open' = {} /\ Claims' = {} /\ \A L \in SUBSET CommitPoints : ~Somebody(L)'
  BY <1>2 DEF Recovering, Open, Claims, Somebody, CommitPoints
<1>4. \A q \in Process : Claim(q)' <= OpBlocks /\ ~(Claim(q)' > 0)
  <2>1. \A q \in Process : pc[q] # "logging"
    BY <1>1 DEF Open
  <2>2. \A q \in Process : Claim(q)' = Claim(q)
    BY <1>2, <2>1 DEF Claim
  <2> QED  BY <2>2, <1>1 DEF Structure, Calls
<1>5. TypeOK'
  <2>1. pc' \in [Process -> Points]
    BY DEF Points
  <2>2. <<>> \in Seq(Block) /\ Len(<<>>) <= LOGSIZE /\ 0 \in 0..LOGSIZE
    BY EmptySeq, SizeAssumption
  <2> QED  BY <2>1, <2>2 DEF Structure, TypeOK
<1>6. Runners'
  <2>1. outstanding' = Cardinality(Open')
    BY <1>1, <1>3, FS_EmptySet
  <2>2. ~committing'
    BY <1>1
  <2> QED  BY <2>1, <2>2, <1>2 DEF Runners, CommitPoints
<1>7. Calls'
  BY <1>1, <1>2, <1>4 DEF Calls
<1>8. Reserved'
  BY <1>3, EmptySeq, FS_EmptySet, RoomIs DEF Reserved
<1>9. Header'
  BY <1>3 DEF Header, Injective, CommitPoints
<1>10. Contents => Buffers'
  BY <1>1, <1>3, EmptySeq DEF Buffers, CommitPoints
<1>11. Region'
  BY <1>2 DEF Region, Somebody
<1>12. InRegion'
  BY DEF Structure, InRegion
<1> QED  BY <1>5, <1>6, <1>7, <1>8, <1>9, <1>10, <1>11, <1>12 DEF Structure, Contents

(***************************************************************************)
(* The invariant, and what follows from it.                                *)
(***************************************************************************)

\* A commit that has written behind the region has done so for ever.
LEMMA OverrunStays == IInv /\ [Next]_vars => (overrun => overrun')
<1> SUFFICES ASSUME IInv, [Next]_vars, overrun  PROVE overrun'
  OBVIOUS
<1>1. CASE UNCHANGED vars
  BY <1>1 DEF vars
<1>2. CASE Crash \/ \E b \in Block : Evict(b)
  BY <1>2 DEF Crash, Evict
<1>3. ASSUME NEW p \in Process,
             \/ Call(p) \/ BeginSleep(p) \/ Killed(p) \/ BeginOp(p)
             \/ \E b \in Block : Read(p, b) \/ Modify(p, b)
             \/ LogWrite(p) \/ EndOp(p)
             \/ Commit(p) \/ Recover(p) \/ Panic(p)
      PROVE  overrun'
  <2>1. CASE Commit(p)
    BY <2>1 DEF Commit, WriteLog, WriteBehind, WriteStuck, WriteHead, Install, Erase, Committed
  <2>2. CASE Recover(p) \/ Panic(p)
    BY <2>2 DEF Recover, RecoverHead, RecoverInstall, RecoverErase, Panic, vars
  <2>3. CASE Call(p) \/ BeginSleep(p) \/ Killed(p) \/ BeginOp(p)
    BY <2>3 DEF Call, BeginSleep, Killed, BeginOp
  <2>4. CASE LogWrite(p) \/ EndOp(p) \/ \E b \in Block : Read(p, b) \/ Modify(p, b)
    BY <2>4 DEF LogWrite, EndOp, Read, Modify
  <2> QED  BY <1>3, <2>1, <2>2, <2>3, <2>4
<1> QED  BY <1>1, <1>2, <1>3 DEF Next

\* Waiting, running and the reservation do not depend on what the blocks hold.
LEMMA StructureNext == Structure /\ [Next]_vars => Structure'
<1> SUFFICES ASSUME Structure, [Next]_vars  PROVE Structure'
  OBVIOUS
<1>1. pc \in [Process -> Points]
  BY DEF Structure, TypeOK
<1>2. CASE UNCHANGED vars
  BY <1>1, <1>2, WaitingInv DEF vars, disk, bufs, mem, procs
<1>3. CASE Crash
  BY <1>3, CrashInv
<1>4. CASE \E b \in Block : Evict(b)
  BY <1>4, EvictInv
<1>5. ASSUME NEW p \in Process,
             \/ Call(p) \/ BeginSleep(p) \/ Killed(p) \/ BeginOp(p)
             \/ \E b \in Block : Read(p, b) \/ Modify(p, b)
             \/ LogWrite(p) \/ EndOp(p)
             \/ Commit(p) \/ Recover(p) \/ Panic(p)
      PROVE  Structure'
  <2>1. CASE Call(p) \/ BeginSleep(p) \/ Killed(p)
    BY <2>1, <1>1, WaitingInv DEF Call, BeginSleep, Killed, Goto, Points
  <2>2. CASE BeginOp(p)
    BY <2>2, BeginOpInv
  <2>3. CASE \E b \in Block : Read(p, b) \/ Modify(p, b)
    BY <2>3, ReadInv, ModifyInv
  <2>4. CASE LogWrite(p)
    BY <2>4, LogWriteInv
  <2>5. CASE EndOp(p)
    BY <2>5, EndOpInv
  <2>6. CASE Commit(p)
    BY <2>6, WriteLogInv, WriteBehindInv, WriteStuckInv, WriteHeadInv, InstallInv, EraseInv,
       CommittedInv DEF Commit
  <2>7. CASE Recover(p)
    BY <2>7, RecoverHeadInv, RecoverInstallInv, RecoverEraseInv DEF Recover
  <2>8. CASE Panic(p)
    BY <2>8, <1>1, WaitingInv DEF Panic, vars, disk, bufs, mem, procs
  <2> QED  BY <1>5, <2>1, <2>2, <2>3, <2>4, <2>5, <2>6, <2>7, <2>8
<1> QED  BY <1>2, <1>3, <1>4, <1>5 DEF Next

\* The blocks stay in order, unless the commit writes behind the region.
LEMMA ContentsNext == Structure /\ Contents /\ [Next]_vars => Contents' \/ overrun'
<1> SUFFICES ASSUME Structure, Contents, [Next]_vars, ~overrun'  PROVE Contents'
  OBVIOUS
<1>1. pc \in [Process -> Points]
  BY DEF Structure, TypeOK
<1>2. CASE UNCHANGED vars
  BY <1>1, <1>2, WaitingInv DEF vars, disk, bufs, mem, procs
<1>3. CASE Crash
  BY <1>3, CrashInv
<1>4. CASE \E b \in Block : Evict(b)
  BY <1>4, EvictKeeps
<1>5. ASSUME NEW p \in Process,
             \/ Call(p) \/ BeginSleep(p) \/ Killed(p) \/ BeginOp(p)
             \/ \E b \in Block : Read(p, b) \/ Modify(p, b)
             \/ LogWrite(p) \/ EndOp(p)
             \/ Commit(p) \/ Recover(p) \/ Panic(p)
      PROVE  Contents'
  <2>1. CASE Call(p) \/ BeginSleep(p) \/ Killed(p)
    BY <2>1, <1>1, WaitingInv DEF Call, BeginSleep, Killed, Goto, Points
  <2>2. CASE BeginOp(p)
    BY <2>2, BeginOpInv
  <2>3. CASE \E b \in Block : Read(p, b) \/ Modify(p, b)
    BY <2>3, ReadKeeps, ModifyKeeps
  <2>4. CASE LogWrite(p)
    BY <2>4, LogWriteKeeps
  <2>5. CASE EndOp(p)
    BY <2>5, EndOpInv
  <2>6. CASE Commit(p)
    <3>1. ~WriteBehind(p) /\ ~WriteStuck(p)
      BY DEF WriteBehind, WriteStuck
    <3> QED  BY <2>6, <3>1, WriteLogKeeps, WriteHeadKeeps, InstallKeeps, EraseInv, CommittedInv
                DEF Commit
  <2>7. CASE Recover(p)
    BY <2>7, RecoverHeadInv, RecoverInstallKeeps, RecoverEraseInv DEF Recover
  <2>8. CASE Panic(p)
    BY <2>8, <1>1, WaitingInv DEF Panic, vars, disk, bufs, mem, procs
  <2> QED  BY <1>5, <2>1, <2>2, <2>3, <2>4, <2>5, <2>6, <2>7, <2>8
<1> QED  BY <1>2, <1>3, <1>4, <1>5 DEF Next

LEMMA NextInv == IInv /\ [Next]_vars => IInv'
<1> SUFFICES ASSUME IInv, [Next]_vars  PROVE IInv'
  OBVIOUS
<1>1. Structure'
  BY StructureNext DEF IInv
<1>2. ~overrun' => Contents'
  BY OverrunStays, ContentsNext DEF IInv
<1> QED  BY <1>1, <1>2 DEF IInv

\* The invariant of the log holds whenever crashes come.
THEOREM Invariance == Spec => []IInv
<1>1. Init => IInv
  BY InitInv DEF IInv
<1>2. IInv /\ [Next]_vars => IInv'
  BY NextInv
<1> QED  BY <1>1, <1>2, PTL DEF Spec

\* Every variable of the log keeps its type; the part that matters is that no
\* header ever has more than LOGSIZE entries.
THEOREM TypeCorrect == Spec => []TypeOK
<1>1. IInv => TypeOK
  BY DEF IInv, Structure
<1> QED  BY <1>1, Invariance, PTL

\* begin_op's reservation covers what the open calls may still log, whoever
\* begins, ends and absorbs meanwhile; if every call stays below its share, it
\* keeps one entry of the header free.
THEOREM SpaceIsReserved == Spec => []Reserved
<1>1. IInv => Reserved
  BY DEF IInv, Structure
<1> QED  BY <1>1, Invariance, PTL

\* So no commit writes behind the log region, whatever the unlocked test of
\* log_write sees, if every call stays below the share that begin_op reserves
\* for it, or if the region has more room than the header.
THEOREM StaysInRegion == Spec => []InRegion
<1>1. IInv => InRegion
  BY DEF IInv, Structure
<1> QED  BY <1>1, Invariance, PTL

\* bget can recycle no buffer that differs from the disk, until a commit writes
\* behind the region.
THEOREM ChangedIsPinned == Spec => []Pinned
<1>1. IInv => Pinned
  <2> SUFFICES ASSUME IInv, ~overrun, NEW b \in Block, cache[b] \notin {Uncached, home[b]},
                      ~ \E p \in Process : held[p] = b
               PROVE  b \in dirty /\ b \in Logged
    BY DEF Pinned
  <2>1. b \in dirty
    BY DEF IInv, Contents, Buffers
  <2>2. lh \in Seq(Block) /\ tail \in Nat
    BY RoomIs DEF IInv, Structure, TypeOK
  <2>3. PICK i \in 1..Len(lh) : b = lh[i]
    <3>1. b \in {lh[i] : i \in (tail + 1)..Len(lh)} \/ b \in {lh[i] : i \in 1..Len(lh)}
      BY <2>1 DEF IInv, Contents, Buffers
    <3>2. (tail + 1)..Len(lh) \subseteq 1..Len(lh)
      BY <2>2, LenProperties
    <3> QED  BY <3>1, <3>2
  <2>4. DOMAIN lh = 1..Len(lh)
    BY <2>2, LenProperties
  <2> QED  BY <2>1, <2>3, <2>4 DEF Logged, ToSet
<1> QED  BY <1>1, Invariance, PTL

(***************************************************************************)
(* The disk as a recovery would leave it.                                  *)
(***************************************************************************)

DurableOf(h, d, m) ==
  [b \in Block |->
     IF b \in ToSet(h) THEN d[CHOOSE i \in 1..Len(h) : h[i] = b] ELSE m[b]]

LEMMA DurableIs ==
  ASSUME NEW h \in Seq(Block), Injective(h), NEW d, NEW m
  PROVE  /\ \A i \in 1..Len(h) : h[i] \in Block /\ DurableOf(h, d, m)[h[i]] = d[i]
         /\ \A b \in Block : (\A i \in 1..Len(h) : h[i] # b) => DurableOf(h, d, m)[b] = m[b]
<1>1. DOMAIN h = 1..Len(h) /\ Len(h) \in Nat
  BY LenProperties
<1>2. ASSUME NEW i \in 1..Len(h)
      PROVE  h[i] \in Block /\ DurableOf(h, d, m)[h[i]] = d[i]
  <2>1. h[i] \in Block
    BY <1>1, ElementOfSeq
  <2>2. h[i] \in ToSet(h)
    BY <1>1 DEF ToSet
  <2>3. (CHOOSE j \in 1..Len(h) : h[j] = h[i]) = i
    BY <1>1 DEF Injective
  <2> QED  BY <2>1, <2>2, <2>3 DEF DurableOf
<1>3. ASSUME NEW b \in Block, \A i \in 1..Len(h) : h[i] # b
      PROVE  DurableOf(h, d, m)[b] = m[b]
  BY <1>1, <1>3 DEF DurableOf, ToSet
<1> QED  BY <1>2, <1>3

\* The contents of a header that is at home in full, or empty, do not matter.
LEMMA DurableAtHome ==
  ASSUME NEW h \in Seq(Block), Injective(h), NEW d, NEW m \in [Block -> Value],
         \A i \in 1..Len(h) : d[i] = m[h[i]]
  PROVE  DurableOf(h, d, m) = m
<1>1. ASSUME NEW b \in Block  PROVE DurableOf(h, d, m)[b] = m[b]
  <2>1. CASE \E i \in 1..Len(h) : h[i] = b
    BY <2>1, DurableIs
  <2>2. CASE \A i \in 1..Len(h) : h[i] # b
    BY <2>2, DurableIs
  <2> QED  BY <2>1, <2>2
<1> QED  BY <1>1 DEF DurableOf

\* A block that is installed was durable before.
LEMMA DurableInstalled ==
  ASSUME NEW h \in Seq(Block), Injective(h), NEW d, NEW m \in [Block -> Value],
         NEW i \in 1..Len(h), d[i] \in Value
  PROVE  DurableOf(h, d, [m EXCEPT ![h[i]] = d[i]]) = DurableOf(h, d, m)
<1> DEFINE n == [m EXCEPT ![h[i]] = d[i]]
<1>1. h[i] \in Block /\ n \in [Block -> Value] /\ \A b \in Block : b # h[i] => n[b] = m[b]
  BY DurableIs
<1> HIDE DEF n
<1>2. ASSUME NEW b \in Block  PROVE DurableOf(h, d, n)[b] = DurableOf(h, d, m)[b]
  <2>1. CASE \E j \in 1..Len(h) : h[j] = b
    BY <2>1, DurableIs
  <2>2. CASE \A j \in 1..Len(h) : h[j] # b
    BY <2>2, <1>1, DurableIs
  <2> QED  BY <2>1, <2>2
<1>3. DurableOf(h, d, n) = DurableOf(h, d, m)
  BY <1>2 DEF DurableOf
<1> QED  BY <1>3 DEF n

\* Without a header, what is at home.
LEMMA NoHeader ==
  ASSUME NEW d, NEW m \in [Block -> Value]
  PROVE  DurableOf(<<>>, d, m) = m
BY DEF DurableOf, ToSet

\* A header that fits lists no block behind the region.
LEMMA DurableFits ==
  ASSUME Structure, head # <<>> => Len(head) < LogBlocks
  PROVE  Durable = DurableOf(head, logdata, home)
<1>1. head \in Seq(Block) /\ DOMAIN head = 1..Len(head) /\ Len(head) \in Nat
  BY LenProperties DEF Structure, TypeOK
<1>2. ASSUME NEW b \in Block, b \in ToSet(head)
      PROVE  LogBlock(CHOOSE i \in 1..Len(head) : head[i] = b)
               = logdata[CHOOSE i \in 1..Len(head) : head[i] = b]
  <2>1. PICK k \in 1..Len(head) : head[k] = b
    BY <1>1, <1>2 DEF ToSet
  <2>2. (CHOOSE i \in 1..Len(head) : head[i] = b) \in 1..Len(head)
    BY <2>1
  <2>3. Len(head) < LogBlocks
    BY <1>1, <2>1
  <2>4. \A i \in 1..Len(head) : LogBlock(i) = logdata[i]
    BY <2>3, <1>1, SizeAssumption DEF LogBlock
  <2> QED  BY <2>2, <2>4
<1> QED  BY <1>2 DEF Durable, DurableOf

LEMMA DurableNow ==
  ASSUME Structure, Contents
  PROVE  /\ Durable = DurableOf(head, logdata, home)
         /\ head \in Seq(Block) /\ Injective(head) /\ home \in [Block -> Value]
         /\ \A i \in 1..Len(head) : logdata[i] \in Value
         /\ Durable \in [Block -> Value]
         /\ head = <<>> => Durable = home
<1>1. Durable = DurableOf(head, logdata, home)
  BY DurableFits DEF Contents, Region
<1>2. /\ head \in Seq(Block) /\ Injective(head) /\ home \in [Block -> Value] /\ Len(head) \in Nat
      /\ logdata \in [1..(LogBlocks - 1) -> Value] /\ LogBlocks \in Nat
  BY SizeAssumption DEF Structure, TypeOK, Header
<1>3. \A i \in 1..Len(head) : logdata[i] \in Value
  BY <1>2 DEF Contents, Region
<1>4. ASSUME NEW b \in Block  PROVE Durable[b] \in Value
  <2>1. CASE \E i \in 1..Len(head) : head[i] = b
    BY <2>1, <1>1, <1>2, <1>3, DurableIs
  <2>2. CASE \A i \in 1..Len(head) : head[i] # b
    BY <2>2, <1>1, <1>2, DurableIs
  <2> QED  BY <2>1, <2>2
<1>5. head = <<>> => Durable = home
  <2>1. SUFFICES ASSUME head = <<>>  PROVE Durable = home
    OBVIOUS
  <2>2. \A i \in 1..Len(head) : logdata[i] = home[head[i]]
    BY <2>1
  <2> QED  BY <2>2, <1>1, <1>2, DurableAtHome
<1> QED  BY <1>1, <1>2, <1>3, <1>4, <1>5 DEF Durable

LEMMA DurableAlways ==
  Structure /\ Contents => /\ Durable = DurableOf(head, logdata, home)
                           /\ head = <<>> => Durable = home
BY DurableNow

\* The same after a step.
LEMMA DurableThen ==
  ASSUME Structure', Contents'
  PROVE  /\ Durable' = DurableOf(head', logdata', home')
         /\ head' = <<>> => Durable' = home'
<1>1. (/\ Durable = DurableOf(head, logdata, home)
       /\ head = <<>> => Durable = home)'
  BY DurableAlways, PTL
<1> QED  BY <1>1 DEF DurableOf

\* What a crash would leave changes only with the disk.
LEMMA DurableSame ==
  ASSUME Structure, Contents, Structure', Contents', UNCHANGED <<home, logdata, head>>
  PROVE  Durable' = Durable
BY DurableNow, DurableThen

(***************************************************************************)
(* The refinement of TxnStore, step by step.                               *)
(***************************************************************************)

\* What calls read is not changed, nor is what a crash would leave, nor who is open.
Stutter == Durable' = Durable /\ Current' = Current /\ Open' = Open

LEMMA StutterIsStep == Stutter => [Store!Next]_(Store!vars)
BY DEF Stutter, Store!vars

\* If no buffer hides the disk, calls read the disk.
LEMMA CleanContent ==
  ASSUME NEW c, NEW m \in [Block -> Value], \A b \in Block : c[b] \in {Uncached, m[b]}
  PROVE  [b \in Block |-> IF c[b] = Uncached THEN m[b] ELSE c[b]] = m
OBVIOUS

LEMMA NotRecovering ==
  ASSUME ~Recovering
  PROVE  Current = [b \in Block |-> IF cache[b] = Uncached THEN home[b] ELSE cache[b]]
BY DEF Current, Content

LEMMA InitRefines == Init => Store!Init
<1> SUFFICES ASSUME Init PROVE Store!Init
  OBVIOUS
<1>1. Structure /\ Contents
  BY InitInv
<1>2. Durable = home /\ home \in [Block -> Value]
  BY <1>1, DurableNow DEF Init
<1>3. ~Recovering /\ Open = {}
  BY DEF Init, Recovering, Open
<1>4. \A b \in Block : cache[b] \in {Uncached, home[b]}
  BY DEF Init
<1>5. Current = home
  BY <1>2, <1>3, <1>4, NotRecovering, CleanContent
<1> QED  BY <1>2, <1>3, <1>5 DEF Store!Init

\* A call waits, begins, changes a block or ends.
LEMMA CallRefines ==
  ASSUME Structure, Contents, Structure', Contents', NEW p \in Process,
         \/ Call(p) \/ BeginSleep(p) \/ Killed(p) \/ BeginOp(p) \/ EndOp(p) \/ LogWrite(p)
         \/ \E b \in Block : Read(p, b) \/ Modify(p, b)
  PROVE  [Store!Next]_(Store!vars)
<1>1. /\ pc \in [Process -> Points] /\ home \in [Block -> Value]
      /\ cache \in [Block -> Value \cup {Uncached}]
  BY DEF Structure, TypeOK
<1>2. Durable' = Durable
  <2>1. CASE Call(p) \/ BeginSleep(p) \/ Killed(p) \/ BeginOp(p)
    BY <2>1, DurableSame DEF disk, Call, BeginSleep, Killed, BeginOp
  <2>2. CASE EndOp(p) \/ LogWrite(p)
    BY <2>2, DurableSame DEF disk, EndOp, LogWrite
  <2>3. ASSUME NEW b \in Block, Read(p, b) \/ Modify(p, b)
        PROVE  Durable' = Durable
    BY <2>3, DurableSame DEF disk, Read, Modify
  <2> QED  BY <2>1, <2>2, <2>3
<1>3. CASE Call(p) \/ BeginSleep(p) \/ Killed(p)
  <2>1. Open' = Open /\ (Recovering' <=> Recovering)
    BY <1>3, <1>1 DEF Call, BeginSleep, Killed, Goto, Open, Recovering
  <2>2. home' = home /\ cache' = cache
    BY <1>3 DEF Call, BeginSleep, Killed, disk, bufs
  <2>3. Current' = Current
    BY <2>1, <2>2, <1>2 DEF Current, Content
  <2> QED  BY <1>2, <2>1, <2>3, StutterIsStep DEF Stutter
<1>4. CASE BeginOp(p)
  <2>1. pc[p] = "begin" /\ pc' = [pc EXCEPT ![p] = "op"]
    BY <1>4 DEF BeginOp, Goto
  <2>2. p \notin Open /\ Open' = Open \cup {p} /\ (Recovering' <=> Recovering)
    BY <2>1, <1>1 DEF Open, Recovering
  <2>3. home' = home /\ cache' = cache
    BY <1>4 DEF BeginOp, disk, bufs
  <2>4. Current' = Current
    BY <2>2, <2>3, <1>2 DEF Current, Content
  <2>5. Store!Begin(p)
    BY <2>2, <2>4, <1>2 DEF Store!Begin
  <2> QED  BY <2>5 DEF Store!Next
<1>5. CASE EndOp(p)
  <2>1. /\ pc[p] = "op" /\ pc'[p] \notin {"op", "logging", "panic", "recover"}
        /\ \A q \in Process \ {p} : pc'[q] = pc[q] \/ {pc[q], pc'[q]} \subseteq {"user", "begin", "asleep"}
    BY <1>5, <1>1 DEF EndOp, Goto, Wakeup
  <2>2. p \in Open /\ Open' = Open \ {p}
    BY <2>1 DEF Open
  <2>3. ~Recovering /\ ~Recovering'
    BY <2>1, InCall DEF Recovering
  <2>4. home' = home /\ cache' = cache
    BY <1>5 DEF EndOp, disk, bufs
  <2>5. Current' = Current
    BY <2>3, <2>4 DEF Current, Content
  <2>6. Store!End(p)
    BY <2>2, <2>5, <1>2 DEF Store!End
  <2> QED  BY <2>6 DEF Store!Next
<1>6. CASE LogWrite(p)
  <2>1. pc[p] = "logging" /\ pc' = [pc EXCEPT ![p] = "op"]
    BY <1>6 DEF LogWrite, Goto
  <2>2. Open' = Open /\ (Recovering' <=> Recovering)
    BY <2>1, <1>1 DEF Open, Recovering
  <2>3. home' = home /\ cache' = cache
    BY <1>6 DEF LogWrite, disk
  <2>4. Current' = Current
    BY <2>2, <2>3, <1>2 DEF Current, Content
  <2> QED  BY <1>2, <2>2, <2>4, StutterIsStep DEF Stutter
<1>7. ASSUME NEW b \in Block, Read(p, b)
      PROVE  [Store!Next]_(Store!vars)
  <2>1. pc' = pc /\ home' = home /\ cache[b] = Uncached /\ cache' = [cache EXCEPT ![b] = home[b]]
    BY <1>7 DEF Read, procs, disk
  <2>2. Open' = Open /\ (Recovering' <=> Recovering)
    BY <2>1 DEF Open, Recovering
  <2>3. \A c \in Block : Content(c)' = Content(c)
    BY <2>1, <1>1, SizeAssumption DEF Content
  <2>4. Current' = Current
    BY <2>2, <2>3, <1>2 DEF Current
  <2> QED  BY <1>2, <2>2, <2>4, StutterIsStep DEF Stutter
<1>8. ASSUME NEW b \in Block, Modify(p, b)
      PROVE  [Store!Next]_(Store!vars)
  <2>1. PICK v \in Value : cache' = [cache EXCEPT ![b] = v]
    BY <1>8 DEF Modify
  <2>2. pc[p] = "op" /\ \E l \in {"logging", "panic"} : pc' = [pc EXCEPT ![p] = l]
    BY <1>8 DEF Modify, Goto
  <2>3. p \in Open /\ Open' = Open
    BY <2>2, <1>1 DEF Open
  <2>4. ~Recovering /\ ~Recovering'
    BY <2>2, <1>1, InCall DEF Recovering
  <2>5. home' = home
    BY <1>8 DEF Modify, disk
  <2>6. \A c \in Block : Content(c)' = IF c = b THEN v ELSE Content(c)
    BY <2>1, <2>5, <1>1, SizeAssumption DEF Content
  <2>7. Current' = [Current EXCEPT ![b] = v]
    <3>1. Current = [c \in Block |-> Content(c)] /\ Current' = [c \in Block |-> Content(c)']
      BY <2>4 DEF Current
    <3> QED  BY <3>1, <2>6
  <2>8. Store!Write(p, b, v)
    BY <2>3, <2>7, <1>2 DEF Store!Write
  <2> QED  BY <2>8 DEF Store!Next
<1> QED  BY <1>3, <1>4, <1>5, <1>6, <1>7, <1>8

\* A buffer is recycled only when it is as the disk.
LEMMA EvictRefines ==
  ASSUME Structure, Contents, Structure', Contents', NEW b \in Block, Evict(b)
  PROVE  [Store!Next]_(Store!vars)
<1>1. /\ home' = home /\ head' = head /\ logdata' = logdata /\ pc' = pc
      /\ cache' = [cache EXCEPT ![b] = Uncached]
      /\ cache[b] = home[b] /\ cache \in [Block -> Value \cup {Uncached}]
  BY DEF Evict, disk, procs, Structure, Contents, Buffers, TypeOK
<1>2. Durable' = Durable /\ Open' = Open /\ (Recovering' <=> Recovering)
  BY <1>1, DurableSame DEF Open, Recovering
<1>3. \A c \in Block : Content(c)' = Content(c)
  BY <1>1 DEF Content
<1>4. Current' = Current
  BY <1>2, <1>3 DEF Current
<1> QED  BY <1>2, <1>4, StutterIsStep DEF Stutter

\* A step of the commit leaves the transactions as they are, apart from the
\* commit point.
LEMMA CommitRefines ==
  ASSUME Structure, Contents, Structure', Contents', NEW p \in Process,
         WriteLog(p) \/ WriteHead(p) \/ Install(p) \/ Erase(p) \/ Committed(p)
  PROVE  [Store!Next]_(Store!vars)
<1>1. pc \in [Process -> Points] /\ pc' \in [Process -> Points]
  BY DEF Structure, TypeOK
<1>2. /\ pc[p] \in CommitPoints
      /\ \A q \in Process \ {p} : {pc[q], pc'[q]} \subseteq {"user", "begin", "asleep"}
      /\ pc'[p] \in CommitPoints \cup {"user"}
  <2>1. pc[p] \in CommitPoints
    BY DEF WriteLog, WriteHead, Install, Erase, Committed, CommitPoints
  <2>2. \A q \in Process \ {p} : pc[q] \in {"user", "begin", "asleep"}
    BY <2>1, InCommit
  <2>3. CASE WriteLog(p) \/ WriteHead(p) \/ Install(p) \/ Erase(p)
    BY <2>1, <2>2, <2>3, <1>1
       DEF WriteLog, NextEntry, WriteHead, Install, Erase, Goto, CommitPoints
  <2>4. CASE Committed(p)
    BY <2>1, <2>2, <2>4, <1>1 DEF Committed, Wakeup
  <2> QED  BY <2>1, <2>2, <2>3, <2>4
<1>3. Open = {} /\ Open' = {} /\ ~Recovering /\ ~Recovering'
  BY <1>2 DEF Open, Recovering, CommitPoints
<1>4. /\ Current = [b \in Block |-> IF cache[b] = Uncached THEN home[b] ELSE cache[b]]
      /\ Current' = [b \in Block |-> IF cache'[b] = Uncached THEN home'[b] ELSE cache'[b]]
  BY <1>3, NotRecovering DEF Current, Content
<1>5. cache \in [Block -> Value \cup {Uncached}] /\ Uncached \notin Value
  BY SizeAssumption DEF Structure, TypeOK
<1>6. CASE WriteLog(p)
  <2>1. head = <<>> /\ head' = <<>> /\ home' = home /\ cache' = cache
    BY <1>6, BeforeInstall, WriteLogCopies DEF WriteLog
  <2>2. Durable = home
    BY <2>1, DurableNow
  <2>3. Durable' = DurableOf(head', logdata', home')
    BY DurableThen
  <2>4. Durable' = home
    BY <2>1, <2>3, DurableNow, NoHeader
  <2>5. Current' = Current
    BY <2>1, <1>4
  <2> QED  BY <2>2, <2>4, <2>5, <1>3, StutterIsStep DEF Stutter
<1>7. CASE WriteHead(p)
  <2>1. /\ pc[p] = "write_head" /\ head' = lh /\ logdata' = logdata
        /\ home' = home /\ cache' = cache
    BY <1>7 DEF WriteHead, bufs
  <2>2. /\ lh \in Seq(Block) /\ Injective(lh)
        /\ \A i \in 1..Len(lh) : lh[i] \in Block /\ cache[lh[i]] \in Value
        /\ \A b \in Block : cache[b] \notin {Uncached, home[b]} => \E i \in 1..Len(lh) : b = lh[i]
    BY <2>1, BeforeInstall, BuffersBeforeInstall
  <2>3. \A i \in 1..Len(lh) : logdata[i] = cache[lh[i]]
    BY <2>1 DEF Contents, Region, Somebody
  <2>4. Durable' = DurableOf(lh, logdata, home)
    BY <2>1, DurableThen
  <2>5. ASSUME NEW b \in Block
        PROVE  DurableOf(lh, logdata, home)[b] = IF cache[b] = Uncached THEN home[b] ELSE cache[b]
    <3>1. CASE \E i \in 1..Len(lh) : lh[i] = b
      BY <3>1, <2>2, <2>3, <1>5, DurableIs
    <3>2. CASE \A i \in 1..Len(lh) : lh[i] # b
      BY <3>2, <2>2, <1>5, DurableIs
    <3> QED  BY <3>1, <3>2
  <2>6. Durable' = Current
    BY <2>4, <2>5, <1>4 DEF DurableOf
  <2>7. Current' = Current
    BY <2>1, <1>4
  <2>8. Store!Commit
    BY <2>6, <2>7, <1>3 DEF Store!Commit
  <2> QED  BY <2>8 DEF Store!Next
<1>8. CASE Install(p)
  <2>1. /\ pc[p] = "install" /\ logdata' = logdata /\ head' = head /\ cache' = cache
        /\ home' = [home EXCEPT ![lh[tail + 1]] = logdata[tail + 1]]
    BY <1>8, InstallCopies DEF Install
  <2>2. /\ head = lh /\ tail + 1 \in 1..Len(head) /\ head[tail + 1] \in Block
        /\ logdata[tail + 1] \in Value /\ logdata[tail + 1] = cache[lh[tail + 1]]
    <3>1. tail + 1 \in (tail + 1)..Len(lh)
      BY <2>1, AtInstall
    <3> QED  BY <3>1, <2>1, AtInstall, BuffersAtInstall
  <2>3. Durable' = DurableOf(head, logdata, home')
    BY <2>1, DurableThen
  <2>4. Durable' = Durable
    <3>1. /\ head \in Seq(Block) /\ Injective(head) /\ home \in [Block -> Value]
          /\ Durable = DurableOf(head, logdata, home)
      BY DurableNow
    <3>2. home' = [home EXCEPT ![head[tail + 1]] = logdata[tail + 1]]
      BY <2>1, <2>2
    <3> DEFINE i == tail + 1
    <3>3. DurableOf(head, logdata, [home EXCEPT ![head[i]] = logdata[i]]) = DurableOf(head, logdata, home)
      <4>1. i \in 1..Len(head) /\ logdata[i] \in Value
        BY <2>2
      <4> HIDE DEF i
      <4> QED  BY <3>1, <4>1, DurableInstalled
    <3> QED  BY <3>1, <3>2, <3>3, <2>3
  <2>5. Current' = Current
    BY <2>1, <2>2, <1>4, <1>5, DurableNow
  <2> QED  BY <2>4, <2>5, <1>3, StutterIsStep DEF Stutter
<1>9. CASE Erase(p)
  <2>1. /\ pc[p] = "erase" /\ head' = <<>> /\ home' = home /\ cache' = cache
    BY <1>9, AtEnd DEF Erase, bufs
  <2>2. \A i \in 1..Len(head) : logdata[i] = home[head[i]]
    BY <2>1 DEF Contents, Region, Somebody
  <2>3. Durable = home
    BY <2>2, DurableNow, DurableAtHome
  <2>4. Durable' = home
    <3>1. Durable' = DurableOf(head', logdata', home')
      BY DurableThen
    <3> QED  BY <2>1, <3>1, DurableNow, NoHeader
  <2>5. Current' = Current
    BY <2>1, <1>4
  <2> QED  BY <2>1, <2>3, <2>4, <2>5, <1>3, StutterIsStep DEF Stutter
<1>10. CASE Committed(p)
  <2>1. home' = home /\ logdata' = logdata /\ head' = head /\ cache' = cache
    BY <1>10 DEF Committed, disk, bufs
  <2>2. Durable' = Durable
    BY <2>1, DurableSame
  <2>3. Current' = Current
    BY <2>1, <1>4
  <2> QED  BY <2>2, <2>3, <1>3, StutterIsStep DEF Stutter
<1> QED  BY <1>6, <1>7, <1>8, <1>9, <1>10

\* A crash loses the open calls and the group that is not committed.
LEMMA CrashRefines ==
  ASSUME Structure, Contents, Structure', Contents', Crash
  PROVE  [Store!Next]_(Store!vars)
<1>1. PICK first \in Process :
        pc' = [p \in Process |-> IF p = first THEN "recover" ELSE "off"]
  BY DEF Crash
<1>2. Recovering' /\ Open' = {}
  BY <1>1 DEF Recovering, Open
<1>3. Durable' = Durable
  BY DurableSame DEF Crash, disk
<1>4. Current' = Durable'
  BY <1>2 DEF Current
<1>5. Store!Crash
  BY <1>2, <1>3, <1>4 DEF Store!Crash
<1> QED  BY <1>5 DEF Store!Next

\* A recovery changes nothing of what a crash would leave, and ends when calls
\* read just that.
LEMMA RecoverRefines ==
  ASSUME Structure, Contents, Structure', Contents', NEW p \in Process, Recover(p)
  PROVE  [Store!Next]_(Store!vars)
<1>1. pc \in [Process -> Points] /\ pc[p] = "recover"
  BY DEF Structure, TypeOK, Recover, RecoverHead, RecoverInstall, RecoverErase
<1>2. Recovering /\ Open = {} /\ lh \in {<<>>, head}
  BY <1>1, InRecovery
<1>3. Current = Durable
  BY <1>2 DEF Current
<1>4. CASE RecoverHead(p)
  <2>1. pc' = pc /\ home' = home /\ logdata' = logdata /\ head' = head
    BY <1>4 DEF RecoverHead, procs, disk
  <2>2. Durable' = Durable
    BY <2>1, DurableSame
  <2>3. Recovering' /\ Open' = Open
    BY <2>1, <1>2 DEF Recovering, Open
  <2> QED  BY <2>2, <2>3, <1>3, StutterIsStep DEF Stutter, Current
<1>5. CASE RecoverInstall(p)
  <2>1. /\ pc' = pc /\ logdata' = logdata /\ head' = head /\ tail < Len(lh)
        /\ home' = [home EXCEPT ![lh[tail + 1]] = logdata[tail + 1]]
    BY <1>5, RecoverCopies DEF RecoverInstall, procs
  <2>2. tail \in Nat /\ lh \in Seq(Block) /\ Len(lh) \in Nat
    BY SizeAssumption DEF Structure, TypeOK
  <2>3. lh = head /\ tail + 1 \in 1..Len(head)
    BY <1>2, <2>1, <2>2
  <2>4. Durable' = DurableOf(head, logdata, home')
    BY <2>1, DurableThen
  <2>5. Durable' = Durable
    <3>1. /\ head \in Seq(Block) /\ Injective(head) /\ home \in [Block -> Value]
          /\ Durable = DurableOf(head, logdata, home)
          /\ \A j \in 1..Len(head) : logdata[j] \in Value
      BY DurableNow
    <3>2. home' = [home EXCEPT ![head[tail + 1]] = logdata[tail + 1]]
      BY <2>1, <2>3
    <3> DEFINE i == tail + 1
    <3>3. DurableOf(head, logdata, [home EXCEPT ![head[i]] = logdata[i]]) = DurableOf(head, logdata, home)
      <4>1. i \in 1..Len(head) /\ logdata[i] \in Value
        BY <2>3, <3>1
      <4> HIDE DEF i
      <4> QED  BY <3>1, <4>1, DurableInstalled
    <3> QED  BY <3>1, <3>2, <3>3, <2>4
  <2>6. Recovering' /\ Open' = Open
    BY <2>1, <1>2 DEF Recovering, Open
  <2> QED  BY <2>5, <2>6, <1>3, StutterIsStep DEF Stutter, Current
<1>6. CASE RecoverErase(p)
  <2>1. /\ pc' = [q \in Process |-> "user"] /\ home' = home /\ head' = <<>> /\ cache' = cache
    BY <1>6 DEF RecoverErase, bufs
  <2>2. ~Recovering' /\ Open' = {}
    BY <2>1 DEF Recovering, Open
  <2>3. Durable = home /\ home \in [Block -> Value]
    BY <1>6, RecoverErases, DurableNow, DurableAtHome
  <2>4. Durable' = home
    <3>1. Durable' = DurableOf(head', logdata', home')
      BY DurableThen
    <3> QED  BY <2>1, <3>1, DurableNow, NoHeader
  <2>5. Current' = [b \in Block |-> IF cache[b] = Uncached THEN home[b] ELSE cache[b]]
    BY <2>1, <2>2 DEF Current, Content
  <2>6. Current' = home
    BY <2>3, <2>5, <1>6, RecoverErases, CleanContent
  <2> QED  BY <2>1, <2>2, <2>3, <2>4, <2>6, <1>2, <1>3, StutterIsStep DEF Stutter
<1> QED  BY <1>4, <1>5, <1>6 DEF Recover

LEMMA NextRefines == IInv /\ IInv' /\ [Next]_vars => [Store!Next \/ overrun']_(Store!vars)
<1> SUFFICES ASSUME IInv, IInv', [Next]_vars, ~overrun'
             PROVE  [Store!Next]_(Store!vars)
  OBVIOUS
<1>1. Structure /\ Contents /\ Structure' /\ Contents'
  BY OverrunStays DEF IInv
<1>2. CASE UNCHANGED vars
  <2>1. UNCHANGED <<home, logdata, head, cache, pc>>
    BY <1>2 DEF vars, disk, bufs, procs
  <2>2. Durable' = Durable
    BY <2>1, <1>1, DurableSame
  <2>3. Open' = Open /\ Recovering' = Recovering
    BY <2>1 DEF Open, Recovering
  <2>4. Current' = Current
    BY <2>1, <2>2, <2>3 DEF Current, Content
  <2> QED  BY <2>2, <2>3, <2>4, StutterIsStep DEF Stutter
<1>3. CASE Crash
  BY <1>1, <1>3, CrashRefines
<1>4. CASE \E b \in Block : Evict(b)
  BY <1>1, <1>4, EvictRefines
<1>5. ASSUME NEW p \in Process,
             \/ Call(p) \/ BeginSleep(p) \/ Killed(p) \/ BeginOp(p)
             \/ \E b \in Block : Read(p, b) \/ Modify(p, b)
             \/ LogWrite(p) \/ EndOp(p)
             \/ Commit(p) \/ Recover(p) \/ Panic(p)
      PROVE  [Store!Next]_(Store!vars)
  <2>1. CASE Commit(p)
    <3>1. ~WriteBehind(p) /\ ~WriteStuck(p)
      BY DEF WriteBehind, WriteStuck
    <3> QED  BY <1>1, <2>1, <3>1, CommitRefines DEF Commit
  <2>2. CASE Recover(p)
    BY <1>1, <2>2, RecoverRefines
  <2>3. CASE Panic(p)
    BY <2>3, <1>2 DEF Panic
  <2>4. CASE \/ Call(p) \/ BeginSleep(p) \/ Killed(p) \/ BeginOp(p)
             \/ EndOp(p) \/ LogWrite(p)
             \/ \E b \in Block : Read(p, b) \/ Modify(p, b)
    BY <1>1, <2>4, CallRefines
  <2> QED  BY <1>5, <2>1, <2>2, <2>3, <2>4
<1> QED  BY <1>2, <1>3, <1>4, <1>5 DEF Next

\* The log implements the transactional store: a crash at any point, also of a
\* recovery, loses or keeps every system call as a whole, up to a commit that
\* writes behind the log region; StaysInRegion says when there is none.
THEOREM LogIsStore == Spec => StoreSpec
<1>1. Init => Store!Init
  BY InitRefines
<1>2. IInv /\ IInv' /\ [Next]_vars => [Store!Next \/ overrun']_(Store!vars)
  BY NextRefines
<1> QED  BY <1>1, <1>2, Invariance, PTL DEF Spec, StoreSpec

\* end_op's promise: with no call open and no commit under way, what calls read
\* is what a crash would leave, unless a commit wrote behind the log region.
THEOREM QuietIsDurable == Spec => []QuiescentDurable
<1>1. IInv => QuiescentDurable
  <2> SUFFICES ASSUME Structure, Contents, outstanding = 0, ~committing, ~Recovering
               PROVE  Durable = Current
    BY DEF QuiescentDurable, IInv
  <2>1. ~Somebody(CommitPoints)
    BY DEF Structure, Runners, Somebody
  <2>2. ~Somebody({"install", "erase"}) /\ ~Somebody({"install"})
    BY <2>1 DEF Somebody, CommitPoints
  <2>3. lh = <<>> /\ head = <<>>
    BY <2>2 DEF Structure, Header
  <2>4. dirty = {}
    BY <2>2, <2>3 DEF Contents, Buffers
  <2>5. Open = {}
    <3>1. IsFiniteSet(Open) /\ Cardinality(Open) = 0
      BY CallsAreFinite DEF Structure, Runners, Open
    <3> QED  BY <3>1, FS_EmptySet
  <2>6. \A q \in Process : held[q] = Uncached
    BY <2>1, <2>5 DEF Structure, Calls, Open, Somebody, CommitPoints
  <2>7. \A b \in Block : cache[b] \in {Uncached, home[b]}
    <3>1. \A b \in Block : held \in [Process -> Block \cup {Uncached}] /\ Uncached \notin Block
      BY SizeAssumption DEF Structure, TypeOK
    <3> QED  BY <3>1, <2>4, <2>6 DEF Contents, Buffers
  <2>8. Durable = home /\ home \in [Block -> Value]
    BY <2>3, DurableNow
  <2> QED  BY <2>7, <2>8, NotRecovering, CleanContent
<1> QED  BY <1>1, Invariance, PTL

=============================================================================
