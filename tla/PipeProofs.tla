----------------------------- MODULE PipeProofs ------------------------------
(***************************************************************************)
(* Proofs about Pipe for every number of processes, every size of the pipe *)
(* and every modulus of its counters.                                      *)
(***************************************************************************)
EXTENDS Pipe, SequenceTheorems, TLAPS

(***************************************************************************)
(* The arithmetic of the ring: indices that only grow and wrap modulo M,   *)
(* and slots modulo P, where P divides M.                                  *)
(***************************************************************************)

LEMMA DivMod ==
  ASSUME NEW P \in Nat \ {0}, NEW x \in Nat
  PROVE  /\ x \div P \in Nat /\ x % P \in 0..(P - 1)
         /\ x = P * (x \div P) + (x % P)
<1>1. x \div P \in Nat
  BY SMT
<1>2. x % P \in 0..(P - 1)
  BY SMT
<1>3. x = P * (x \div P) + (x % P)
  BY SMT
<1> QED
  BY <1>1, <1>2, <1>3

LEMMA Distribute ==
  ASSUME NEW k \in Int, NEW u \in Int, NEW v \in Int
  PROVE  k * (v - u) = k * v - k * u /\ k * (v + u) = k * v + k * u
  BY SMT

LEMMA SmallMultiple ==
  ASSUME NEW P \in Nat \ {0}, NEW q \in Int, -P < P * q, P * q < P
  PROVE  P * q = 0
<1>1. CASE q >= 1
  <2>1. P * q >= P
    BY <1>1, SMT
  <2> QED
    BY <2>1
<1>2. CASE q <= -1
  <2>1. P * q <= -P
    BY <1>2, SMT
  <2> QED
    BY <2>1
<1>3. CASE q = 0
  BY <1>3
<1> QED
  BY <1>1, <1>2, <1>3

LEMMA Distance ==
  ASSUME NEW M \in Nat \ {0}, NEW a \in 0..(M - 1), NEW b \in 0..(M - 1)
  PROVE  /\ (a - b) % M = IF a >= b THEN a - b ELSE a - b + M
         /\ (a - b) % M \in 0..(M - 1)
  BY SMT

LEMMA PutDistance ==
  ASSUME NEW M \in Nat \ {0}, NEW a \in 0..(M - 1), NEW b \in 0..(M - 1),
         NEW n \in Nat, ((a - b) % M) + n < M
  PROVE  (((a + n) % M) - b) % M = ((a - b) % M) + n
<1>1. (a - b) % M = IF a >= b THEN a - b ELSE a - b + M
  BY Distance
<1>2. (a + n) % M = (IF a + n < M THEN a + n ELSE a + n - M)
      /\ (a + n) % M \in 0..(M - 1)
  BY <1>1, SMT
<1>3. (((a + n) % M) - b) % M
        = IF (a + n) % M >= b THEN ((a + n) % M) - b ELSE ((a + n) % M) - b + M
  BY <1>2, SMT
<1> QED
  BY <1>1, <1>2, <1>3

LEMMA GetDistance ==
  ASSUME NEW M \in Nat \ {0}, NEW a \in 0..(M - 1), NEW b \in 0..(M - 1),
         NEW n \in Nat, n <= (a - b) % M
  PROVE  (a - ((b + n) % M)) % M = ((a - b) % M) - n
<1>1. (a - b) % M = IF a >= b THEN a - b ELSE a - b + M
  BY Distance
<1>2. (b + n) % M = (IF b + n < M THEN b + n ELSE b + n - M)
      /\ (b + n) % M \in 0..(M - 1)
  BY <1>1, SMT
<1>3. (a - ((b + n) % M)) % M
        = IF a >= (b + n) % M THEN a - ((b + n) % M) ELSE a - ((b + n) % M) + M
  BY <1>2, SMT
<1> QED
  BY <1>1, <1>2, <1>3

LEMMA StepStep ==
  ASSUME NEW M \in Nat \ {0}, NEW a \in 0..(M - 1), NEW n \in Nat, NEW k \in Nat,
         n + k < M
  PROVE  (((a + n) % M) + k) % M = (a + (n + k)) % M
<1>1. (a + n) % M = (IF a + n < M THEN a + n ELSE a + n - M)
      /\ (a + n) % M \in 0..(M - 1)
  BY SMT
<1>2. (((a + n) % M) + k) % M
        = IF ((a + n) % M) + k < M THEN ((a + n) % M) + k
                                 ELSE ((a + n) % M) + k - M
  BY <1>1, SMT
<1>3. (a + (n + k)) % M = IF a + (n + k) < M THEN a + (n + k) ELSE a + (n + k) - M
  BY SMT
<1> QED
  BY <1>1, <1>2, <1>3

LEMMA SlotsDiffer ==
  ASSUME NEW P \in Nat \ {0}, NEW M \in Nat, M > P, M % P = 0,
         NEW a \in 0..(M - 1), NEW i \in 0..(P - 1), NEW j \in 0..(P - 1),
         ((a + i) % M) % P = ((a + j) % M) % P
  PROVE  i = j
<1> DEFINE x == (a + i) % M
           y == (a + j) % M
           u == x \div P
           v == y \div P
           k == M \div P
<1>1. /\ x = IF a + i < M THEN a + i ELSE a + i - M
      /\ y = IF a + j < M THEN a + j ELSE a + j - M
      /\ x \in Nat /\ y \in Nat
  BY SMT
<1>2. u \in Nat /\ v \in Nat /\ k \in Nat
  BY <1>1, DivMod
<1>3. x = P * u + (x % P) /\ y = P * v + (y % P) /\ x % P \in Int
  BY <1>1, DivMod
<1>4. M = P * k
  BY DivMod
<1> HIDE DEF x, y, u, v, k
<1>5. x % P = y % P
  BY DEF x, y
<1>6. /\ P * u \in Int /\ P * v \in Int /\ P * k \in Int
      /\ P * (v - u) = P * v - P * u
      /\ P * (v - u + k) = P * (v - u) + P * k
      /\ P * (v - u - k) = P * (v - u) - P * k
  BY <1>2, Distribute
<1>7. y - x = P * (v - u)
  BY <1>1, <1>3, <1>5, <1>6
<1>8. PICK q \in {v - u, v - u + k, v - u - k} : j - i = P * q
  BY <1>1, <1>2, <1>4, <1>6, <1>7
<1>9. q \in Int
  BY <1>2
<1> QED
  BY <1>8, <1>9, SmallMultiple

USE SizeAssumption, NoneAssumption

Closing(e) == IF e = "read" THEN "close read" ELSE "close write"

(* The inductive invariant, in parts. *)

\* A call has something left to transfer until it returns its result.
Calls ==
  \A p \in Process :
    /\ pc[p] \in Inside["read"] \cup Inside["write"] => left[p] > 0
    /\ pc[p] # "ret" => result[p] = None /\ got[p] = <<>>

\* Who is inside an operation has a descriptor of that end; an end is open
\* while somebody has it, or is about to close it; one process closes an end,
\* and one that has found both closed frees the page.
Descriptors ==
  /\ \A e \in Ends :
       /\ isopen[e] => exists
       /\ refs[e] # {} => isopen[e]
  /\ \A p \in Process :
       /\ \A e \in Ends :
            /\ pc[p] \in Inside[e] => p \in refs[e]
            /\ pc[p] = Closing(e) =>
                 /\ isopen[e] /\ refs[e] = {}
                 /\ \A q \in Process : pc[q] = Closing(e) => q = p
       /\ pc[p] = "free" =>
            /\ exists /\ \A e \in Ends : ~isopen[e]
            /\ \A q \in Process : pc[q] = "free" => q = p

\* Who is about to sleep has the lock, so that the reason to sleep stays.
Sleepers ==
  \A p \in Process :
    /\ lock = p => pc[p] \in {"wsleep", "rsleep"}
    /\ pc[p] = "wsleep" => lock = p /\ Full /\ isopen["read"]
    /\ pc[p] = "rsleep" => lock = p /\ Empty /\ isopen["write"]
    /\ pc[p] = "nwrite" => Full /\ isopen["read"]
    /\ pc[p] = "nread" => isopen["write"] /\ (Empty \/ killed # {})

IInv == TypeOK /\ Calls /\ Descriptors /\ Sleepers

----------------------------------------------------------------------------
(* The ring. *)

LEMMA CountType ==
  ASSUME TypeOK
  PROVE  /\ Count \in 0..PIPESIZE
         /\ Full <=> Count = PIPESIZE
         /\ Empty <=> Count = 0
<1> nread \in 0..(UintMod - 1) /\ nwrite \in 0..(UintMod - 1) /\ Count <= PIPESIZE
  BY DEF TypeOK
<1>1. /\ Count = IF nwrite >= nread THEN nwrite - nread ELSE nwrite - nread + UintMod
      /\ Count \in Nat
  BY Distance DEF Count
<1>2. (nread + PIPESIZE) % UintMod = IF nread + PIPESIZE < UintMod
        THEN nread + PIPESIZE ELSE nread + PIPESIZE - UintMod
  BY SMT
<1> QED
  BY <1>1, <1>2 DEF Full, Empty

LEMMA WriteIndex ==
  ASSUME TypeOK
  PROVE  nwrite = (nread + Count) % UintMod
<1> nread \in 0..(UintMod - 1) /\ nwrite \in 0..(UintMod - 1)
  BY DEF TypeOK
<1>1. /\ Count = IF nwrite >= nread THEN nwrite - nread ELSE nwrite - nread + UintMod
      /\ Count \in Nat
  BY Distance DEF Count
<1> QED
  BY <1>1, SMT

LEMMA SlotType ==
  ASSUME NEW x \in Nat
  PROVE  (x % UintMod) % PIPESIZE \in 0..(PIPESIZE - 1)
<1>1. x % UintMod \in Nat
  BY SMT
<1> QED
  BY <1>1, DivMod

\* The bytes from nread on are bytes.
LEMMA BytesType ==
  ASSUME TypeOK, NEW n \in Nat
  PROVE  Bytes(n) \in Seq(Byte) /\ Len(Bytes(n)) = n
<1>1. \A i \in 1..n : ((nread + i - 1) % UintMod) % PIPESIZE \in 0..(PIPESIZE - 1)
  <2> SUFFICES ASSUME NEW i \in 1..n
               PROVE  ((nread + i - 1) % UintMod) % PIPESIZE \in 0..(PIPESIZE - 1)
    OBVIOUS
  <2>1. nread + i - 1 \in Nat
    BY DEF TypeOK
  <2> QED
    BY <2>1, SlotType
<1>2. Bytes(n) \in [1..n -> Byte]
  BY <1>1 DEF Bytes, TypeOK
<1> QED
  BY <1>2, SeqDef

\* Where the byte number i of a write goes.
Place(i) == ((nwrite + i - 1) % UintMod) % PIPESIZE

\* A write that fits stores every byte at its own place.
LEMMA StoredAt ==
  ASSUME TypeOK, NEW n \in 0..PIPESIZE, NEW s \in [1..n -> Byte]
  PROVE  /\ Stored(s) \in [0..(PIPESIZE - 1) -> Byte]
         /\ \A i \in 1..n : Stored(s)[Place(i)] = s[i]
         /\ \A k \in 0..(PIPESIZE - 1) :
              (\A i \in 1..n : Place(i) # k) => Stored(s)[k] = data[k]
<1> DEFINE at(k) == {i \in 1..Len(s) : Place(i) = k}
<1>1. Len(s) = n
  BY SeqDef, LenProperties
<1>2. \A i, j \in 1..n : Place(i) = Place(j) => i = j
  <2> SUFFICES ASSUME NEW i \in 1..n, NEW j \in 1..n, Place(i) = Place(j)
               PROVE  i = j
    OBVIOUS
  <2>1. nwrite \in 0..(UintMod - 1) /\ i - 1 \in 0..(PIPESIZE - 1)
        /\ j - 1 \in 0..(PIPESIZE - 1)
    BY DEF TypeOK
  <2>2. nwrite + i - 1 = nwrite + (i - 1) /\ nwrite + j - 1 = nwrite + (j - 1)
    BY <2>1
  <2>3. i - 1 = j - 1
    BY <2>1, <2>2, SlotsDiffer DEF Place
  <2> QED
    BY <2>3
<1>3. ASSUME NEW i \in 1..n
      PROVE  at(Place(i)) = {i} /\ Max({i}) = i
  BY <1>1, <1>2, <1>3 DEF Max
<1>4. \A k \in 0..(PIPESIZE - 1) :
        Stored(s)[k] = IF at(k) = {} THEN data[k] ELSE s[Max(at(k))]
  BY DEF Stored, Place
<1>5. \A i \in 1..n : Place(i) \in 0..(PIPESIZE - 1)
  <2> SUFFICES ASSUME NEW i \in 1..n PROVE Place(i) \in 0..(PIPESIZE - 1)
    OBVIOUS
  <2>1. nwrite + i - 1 \in Nat
    BY DEF TypeOK
  <2> QED
    BY <2>1, SlotType DEF Place
<1>6. \A i \in 1..n : Stored(s)[Place(i)] = s[i]
  <2> SUFFICES ASSUME NEW i \in 1..n PROVE Stored(s)[Place(i)] = s[i]
    OBVIOUS
  <2>1. Stored(s)[Place(i)] = IF at(Place(i)) = {} THEN data[Place(i)]
                                                 ELSE s[Max(at(Place(i)))]
    BY <1>4, <1>5
  <2> HIDE DEF at
  <2> QED
    BY <2>1, <1>3, Zenon
<1>7. \A k \in 0..(PIPESIZE - 1) :
        (\A i \in 1..n : Place(i) # k) => Stored(s)[k] = data[k]
  BY <1>1, <1>4
<1>8. \A k \in 0..(PIPESIZE - 1) : Stored(s)[k] \in Byte
  <2> SUFFICES ASSUME NEW k \in 0..(PIPESIZE - 1) PROVE Stored(s)[k] \in Byte
    OBVIOUS
  <2>1. CASE \A i \in 1..n : Place(i) # k
    BY <1>7, <2>1 DEF TypeOK
  <2>2. CASE \E i \in 1..n : Place(i) = k
    BY <1>6, <2>2
  <2> QED
    BY <2>1, <2>2
<1>9. Stored(s) = [k \in 0..(PIPESIZE - 1) |-> Stored(s)[k]]
  BY DEF Stored
<1> QED
  BY <1>6, <1>7, <1>8, <1>9

LEMMA IsConcat ==
  ASSUME NEW s \in Seq(Byte), NEW t \in Seq(Byte), NEW u,
         u = [i \in 1..(Len(s) + Len(t)) |-> u[i]],
         \A i \in 1..(Len(s) + Len(t)) :
           u[i] = IF i <= Len(s) THEN s[i] ELSE t[i - Len(s)]
  PROVE  u = s \o t
<1>1. /\ s \o t \in Seq(Byte)
      /\ Len(s \o t) = Len(s) + Len(t)
      /\ \A i \in 1..(Len(s) + Len(t)) :
           (s \o t)[i] = IF i <= Len(s) THEN s[i] ELSE t[i - Len(s)]
  BY ConcatProperties
<1>2. s \o t = [i \in 1..(Len(s) + Len(t)) |-> (s \o t)[i]]
  BY <1>1, LenProperties
<1> QED
  BY <1>1, <1>2

\* Filling the ring: the bytes come after those that were there.
LEMMA FillRing ==
  ASSUME TypeOK, NEW n \in 0..(PIPESIZE - Count), NEW s \in [1..n -> Byte], Fill(s)
  PROVE  /\ data' \in [0..(PIPESIZE - 1) -> Byte]
         /\ nwrite' \in 0..(UintMod - 1) /\ nread' = nread
         /\ Count' = Count + n
         /\ Bytes(Count)' = Bytes(Count) \o s
<1>0. Count \in 0..PIPESIZE /\ n \in 0..PIPESIZE /\ Len(s) = n /\ s \in Seq(Byte)
  <2>1. Count \in 0..PIPESIZE
    BY CountType
  <2>2. n \in 0..PIPESIZE
    BY <2>1
  <2> QED
    BY <2>1, <2>2, SeqDef, LenProperties
<1>1. data' = Stored(s) /\ nwrite' = (nwrite + n) % UintMod /\ nread' = nread
  BY <1>0 DEF Fill
<1>2. nwrite \in 0..(UintMod - 1) /\ nread \in 0..(UintMod - 1)
  BY DEF TypeOK
<1>3. nwrite' \in 0..(UintMod - 1)
  BY <1>0, <1>1, <1>2, SMT
<1>4. Count' = Count + n
  <2>1. ((nwrite - nread) % UintMod) + n < UintMod
    BY <1>0 DEF Count
  <2>2. UintMod \in Nat \ {0} /\ n \in Nat
    BY <1>0
  <2>3. (((nwrite + n) % UintMod) - nread) % UintMod = ((nwrite - nread) % UintMod) + n
    <3> HIDE SizeAssumption, NoneAssumption
    <3> QED
      BY <1>2, <2>1, <2>2, PutDistance
  <2> QED
    BY <1>1, <2>3 DEF Count
<1>5. /\ Stored(s) \in [0..(PIPESIZE - 1) -> Byte]
      /\ \A i \in 1..n : Stored(s)[Place(i)] = s[i]
      /\ \A k \in 0..(PIPESIZE - 1) :
           (\A i \in 1..n : Place(i) # k) => Stored(s)[k] = data[k]
  BY <1>0, StoredAt
\* The place of the byte number i in the ring, counted from nread.
<1> DEFINE from(i) == ((nread + (i - 1)) % UintMod) % PIPESIZE
<1>6. \A i \in 1..n : Place(i) = from(Count + i)
  <2> SUFFICES ASSUME NEW i \in 1..n PROVE Place(i) = from(Count + i)
    OBVIOUS
  <2>1. nwrite = (nread + Count) % UintMod
    BY WriteIndex
  <2>2. Count \in Nat /\ i - 1 \in Nat /\ Count + (i - 1) < UintMod
        /\ UintMod \in Nat \ {0}
    BY <1>0
  <2>3. (((nread + Count) % UintMod) + (i - 1)) % UintMod
          = (nread + (Count + (i - 1))) % UintMod
    BY <1>2, <2>2, StepStep
  <2>4. nwrite + i - 1 = nwrite + (i - 1) /\ Count + i - 1 = Count + (i - 1)
    BY <1>0, <1>2
  <2>5. Count + i - 1 \in Nat
    BY <1>0
  <2>6. (nwrite + (i - 1)) % UintMod = (nread + (Count + i - 1)) % UintMod
    BY <2>1, <2>3, <2>4
  <2> QED
    BY <1>0, <1>2, <2>4, <2>5, <2>6 DEF Place
<1>7. \A i \in 1..Count : \A j \in 1..n : Place(j) # from(i)
  <2> SUFFICES ASSUME NEW i \in 1..Count, NEW j \in 1..n, Place(j) = from(i)
               PROVE  FALSE
    OBVIOUS
  <2>1. from(Count + j) = from(i)
    BY <1>6
  <2>2. Count + j - 1 \in 0..(PIPESIZE - 1) /\ i - 1 \in 0..(PIPESIZE - 1)
    BY <1>0
  <2>3. ((nread + (Count + j - 1)) % UintMod) % PIPESIZE
          = ((nread + (i - 1)) % UintMod) % PIPESIZE
    BY <1>0, <1>2, <2>1
  <2> HIDE DEF from
  <2>4. Count + j - 1 = i - 1
    <3> DEFINE a == Count + j - 1
               b == i - 1
    <3>1. /\ a \in 0..(PIPESIZE - 1) /\ b \in 0..(PIPESIZE - 1)
          /\ ((nread + a) % UintMod) % PIPESIZE = ((nread + b) % UintMod) % PIPESIZE
      BY <2>2, <2>3
    <3> HIDE DEF a, b
    <3>2. a = b
      BY <1>2, <3>1, SlotsDiffer
    <3> QED
      BY <3>2 DEF a, b
  <2> QED
    BY <1>0, <2>4
<1>8. \A i \in 1..Count : from(i) \in 0..(PIPESIZE - 1)
  <2> SUFFICES ASSUME NEW i \in 1..Count PROVE from(i) \in 0..(PIPESIZE - 1)
    OBVIOUS
  <2>1. nread + (i - 1) \in Nat
    BY <1>0, <1>2
  <2> QED
    BY <2>1, SlotType
<1>9. Bytes(Count)' = [i \in 1..(Count + n) |-> data'[from(i)]]
  <2>1. \A i \in 1..(Count + n) : nread + i - 1 = nread + (i - 1)
    BY <1>0, <1>2
  <2> QED
    BY <1>1, <1>4, <2>1 DEF Bytes
<1>10. Bytes(Count) \in Seq(Byte) /\ Len(Bytes(Count)) = Count
  BY <1>0, BytesType
<1>11. \A i \in 1..Count : Bytes(Count)[i] = data[from(i)]
  <2>1. \A i \in 1..Count : nread + i - 1 = nread + (i - 1)
    BY <1>0, <1>2
  <2> QED
    BY <2>1 DEF Bytes
<1> HIDE DEF from
<1>12. \A i \in 1..Count : data'[from(i)] = Bytes(Count)[i]
  BY <1>1, <1>5, <1>7, <1>8, <1>11
<1>13. \A i \in 1..n : data'[from(Count + i)] = s[i]
  BY <1>1, <1>5, <1>6
<1>14. \A i \in 1..(Count + n) :
         data'[from(i)] = IF i <= Count THEN Bytes(Count)[i] ELSE s[i - Count]
  <2> SUFFICES ASSUME NEW i \in 1..(Count + n)
               PROVE  data'[from(i)] = IF i <= Count THEN Bytes(Count)[i] ELSE s[i - Count]
    OBVIOUS
  <2>1. CASE i <= Count
    BY <1>0, <1>12, <2>1
  <2>2. CASE ~(i <= Count)
    <3>1. i - Count \in 1..n /\ Count + (i - Count) = i
      BY <1>0, <2>2
    <3> QED
      BY <1>13, <2>2, <3>1
  <2> QED
    BY <2>1, <2>2
<1> DEFINE old == Bytes(Count)
           new == Bytes(Count)'
<1>15. new = old \o s
  <2>1. old \in Seq(Byte) /\ Len(old) = Count
    BY <1>10
  <2>2. \A i \in 1..(Count + n) :
          new[i] = IF i <= Count THEN old[i] ELSE s[i - Count]
    BY <1>9, <1>14
  <2>3. new = [i \in 1..(Count + n) |-> new[i]]
    BY <1>9
  <2> HIDE DEF old, new
  <2>4. /\ new = [i \in 1..(Len(old) + Len(s)) |-> new[i]]
        /\ \A i \in 1..(Len(old) + Len(s)) :
             new[i] = IF i <= Len(old) THEN old[i] ELSE s[i - Len(old)]
    BY <1>0, <2>1, <2>2, <2>3
  <2>5. s \in Seq(Byte) /\ old \in Seq(Byte)
    BY <1>0, <2>1
  <2>6. \A u : /\ u = [i \in 1..(Len(old) + Len(s)) |-> u[i]]
               /\ \A i \in 1..(Len(old) + Len(s)) :
                    u[i] = IF i <= Len(old) THEN old[i] ELSE s[i - Len(old)]
               => u = old \o s
    BY <2>5, IsConcat
  <2> QED
    BY <2>4, <2>6
<1> QED
  BY <1>1, <1>3, <1>4, <1>5, <1>15

LEMMA IsSubSeq ==
  ASSUME NEW s \in Seq(Byte), NEW m \in 1..(Len(s) + 1), NEW n \in 0..Len(s),
         m <= n + 1
  PROVE  SubSeq(s, m, n) = [i \in 1..(n - m + 1) |-> s[m + i - 1]]
<1>1. Len(s) \in Nat /\ \A i \in m..n : s[i] \in Byte
  BY LenProperties
<1>2. /\ SubSeq(s, m, n) \in Seq(Byte)
      /\ Len(SubSeq(s, m, n)) = IF m <= n THEN n - m + 1 ELSE 0
      /\ \A i \in 1..(n - m + 1) : SubSeq(s, m, n)[i] = s[m + i - 1]
  BY <1>1, SubSeqProperties
<1>3. Len(SubSeq(s, m, n)) = n - m + 1
  BY <1>1, <1>2
<1>4. SubSeq(s, m, n) = [i \in 1..(n - m + 1) |-> SubSeq(s, m, n)[i]]
  BY <1>2, <1>3, LenProperties
<1> QED
  BY <1>2, <1>4

\* Emptying the ring: the first n bytes leave it.
LEMMA DrainRing ==
  ASSUME TypeOK, NEW n \in 0..Count,
         nread' = (nread + n) % UintMod, nwrite' = nwrite, data' = data
  PROVE  /\ nread' \in 0..(UintMod - 1)
         /\ Count' = Count - n
         /\ Bytes(n) = SubSeq(Bytes(Count), 1, n)
         /\ Bytes(Count)' = SubSeq(Bytes(Count), n + 1, Count)
<1>0. Count \in 0..PIPESIZE /\ n \in 0..PIPESIZE
  BY CountType
<1>1. nwrite \in 0..(UintMod - 1) /\ nread \in 0..(UintMod - 1)
  BY DEF TypeOK
<1>2. nread' \in 0..(UintMod - 1)
  BY <1>0, <1>1, SMT
<1>3. Count' = Count - n
  <2>1. n <= (nwrite - nread) % UintMod /\ n \in Nat /\ UintMod \in Nat \ {0}
    BY <1>0 DEF Count
  <2> HIDE SizeAssumption, NoneAssumption
  <2>2. (nwrite - ((nread + n) % UintMod)) % UintMod = ((nwrite - nread) % UintMod) - n
    BY <1>1, <2>1, GetDistance
  <2> QED
    BY <2>2 DEF Count
<1> DEFINE old == Bytes(Count)
<1>4. old \in Seq(Byte) /\ Len(old) = Count
  BY <1>0, BytesType
<1>5. \A i \in 1..Count : old[i] = data[((nread + i - 1) % UintMod) % PIPESIZE]
  BY DEF Bytes
<1>6. Bytes(n) = SubSeq(old, 1, n)
  <2>1. SubSeq(old, 1, n) = [i \in 1..(n - 1 + 1) |-> old[1 + i - 1]]
    <3>1. 1 \in 1..(Len(old) + 1) /\ n \in 0..Len(old) /\ 1 <= n + 1
      BY <1>0, <1>4
    <3> HIDE DEF old
    <3> QED
      BY <1>4, <3>1, IsSubSeq
  <2>2. n - 1 + 1 = n /\ \A i \in 1..n : 1 + i - 1 = i /\ i \in 1..Count
    BY <1>0
  <2> HIDE DEF old
  <2> QED
    BY <1>5, <2>1, <2>2 DEF Bytes
\* The place of the byte number i in the ring, counted from nread.
<1> DEFINE from(i) == ((nread + (i - 1)) % UintMod) % PIPESIZE
<1>7. \A i \in 1..(Count - n) :
        (((nread + n) % UintMod) + (i - 1)) % UintMod = (nread + (n + i - 1)) % UintMod
  <2> SUFFICES ASSUME NEW i \in 1..(Count - n)
               PROVE  (((nread + n) % UintMod) + (i - 1)) % UintMod
                        = (nread + (n + i - 1)) % UintMod
    OBVIOUS
  <2> DEFINE k == i - 1
  <2>1. /\ n \in Nat /\ k \in Nat /\ n + k < UintMod /\ UintMod \in Nat \ {0}
        /\ n + i - 1 = n + k
    BY <1>0
  <2> HIDE DEF k
  <2> HIDE SizeAssumption, NoneAssumption
  <2>2. (((nread + n) % UintMod) + k) % UintMod = (nread + (n + k)) % UintMod
    BY <1>1, <2>1, StepStep
  <2>3. (((nread + n) % UintMod) + (i - 1)) % UintMod = (nread + (n + i - 1)) % UintMod
    BY <2>1, <2>2, Zenon DEF k
  <2> QED
    BY <2>3
<1>8. \A i \in 1..(Count - n) : data'[((nread' + i - 1) % UintMod) % PIPESIZE] = data[from(n + i)]
  <2> SUFFICES ASSUME NEW i \in 1..(Count - n)
               PROVE  ((nread' + i - 1) % UintMod) % PIPESIZE = from(n + i)
    OBVIOUS
  <2>1. nread' + i - 1 = ((nread + n) % UintMod) + (i - 1)
    BY <1>2
  <2>2. from(n + i) = ((nread + (n + i - 1)) % UintMod) % PIPESIZE
    OBVIOUS
  <2> HIDE DEF from
  <2>3. (((nread + n) % UintMod) + (i - 1)) % UintMod = (nread + (n + i - 1)) % UintMod
    BY <1>7
  <2> QED
    BY <2>1, <2>2, <2>3, Zenon
<1>9. \A i \in 1..Count : old[i] = data[from(i)]
  <2>1. \A i \in 1..Count : nread + i - 1 = nread + (i - 1)
    BY <1>0, <1>1
  <2> QED
    BY <2>1 DEF Bytes
<1> HIDE DEF from, old
<1>10. Bytes(Count)' = SubSeq(old, n + 1, Count)
  <2>1. SubSeq(old, n + 1, Count)
          = [i \in 1..(Count - (n + 1) + 1) |-> old[n + 1 + i - 1]]
    <3>1. /\ n + 1 \in 1..(Len(old) + 1) /\ Count \in 0..Len(old)
          /\ n + 1 <= Count + 1
      BY <1>0, <1>4
    <3> QED
      BY <1>4, <3>1, IsSubSeq
  <2>2. /\ Count - (n + 1) + 1 = Count - n
        /\ \A i \in 1..(Count - n) : n + 1 + i - 1 = n + i /\ n + i \in 1..Count
    BY <1>0
  <2>3. SubSeq(old, n + 1, Count) = [i \in 1..(Count - n) |-> data[from(n + i)]]
    BY <1>9, <2>1, <2>2
  <2>4. Bytes(Count)' = [i \in 1..(Count - n) |->
                           data'[((nread' + i - 1) % UintMod) % PIPESIZE]]
    BY <1>3 DEF Bytes
  <2>5. [i \in 1..(Count - n) |-> data'[((nread' + i - 1) % UintMod) % PIPESIZE]]
          = [i \in 1..(Count - n) |-> data[from(n + i)]]
    BY <1>8, Zenon
  <2> QED
    BY <2>3, <2>4, <2>5, Zenon
<1> QED
  BY <1>2, <1>3, <1>6, <1>10 DEF old

----------------------------------------------------------------------------
(* The steps of the other variables. *)

\* wakeup moves the sleepers on chan only, and its caller.
LEMMA WakeStep ==
  ASSUME pc \in [Process -> Points], NEW p \in Process, NEW l \in Points,
         NEW chan \in {"nread", "nwrite"}, WakeGoto(chan, p, l)
  PROVE  /\ pc' \in [Process -> Points]
         /\ pc'[p] = l
         /\ \A q \in Process \ {p} :
              /\ pc[q] # chan => pc'[q] = pc[q]
              /\ pc[q] = chan => pc'[q] = (IF chan = "nread" THEN "read" ELSE "write")
  BY DEF WakeGoto, Points

LEMMA FullMeans ==
  ASSUME NEW r \in 0..(UintMod - 1), NEW w \in 0..(UintMod - 1)
  PROVE  (w - r) % UintMod = PIPESIZE => w = (r + PIPESIZE) % UintMod
<1>1. (w - r) % UintMod = IF w >= r THEN w - r ELSE w - r + UintMod
  BY Distance
<1>2. (r + PIPESIZE) % UintMod = IF r + PIPESIZE < UintMod
        THEN r + PIPESIZE ELSE r + PIPESIZE - UintMod
  BY SMT
<1> QED
  BY <1>1, <1>2

\* What a write step keeps: the ring has its type and n more bytes.
LEMMA FillType ==
  ASSUME TypeOK, NEW n \in 0..(PIPESIZE - Count),
         \E s \in [1..n -> Byte] : Fill(s)
  PROVE  /\ data' \in [0..(PIPESIZE - 1) -> Byte]
         /\ nread' \in 0..(UintMod - 1) /\ nwrite' \in 0..(UintMod - 1)
         /\ Count' = Count + n
         /\ Count' <= PIPESIZE
         /\ UNCHANGED <<exists, nread, isopen, got>>
<1> PICK s \in [1..n -> Byte] : Fill(s)
  OBVIOUS
<1>1. Count \in 0..PIPESIZE
  BY CountType
<1>2. /\ data' \in [0..(PIPESIZE - 1) -> Byte]
      /\ nwrite' \in 0..(UintMod - 1) /\ nread' = nread
      /\ Count' = Count + n
  BY FillRing
<1> QED
  BY <1>1, <1>2 DEF Fill, TypeOK

LEMMA InitType == Init => TypeOK
<1> SUFFICES ASSUME Init PROVE TypeOK
  OBVIOUS
<1>1. data \in [0..(PIPESIZE - 1) -> Byte]
  BY DEF Init
<1>2. Count = 0 /\ 0 \in 0..(UintMod - 1)
  BY SMT DEF Init, Count
<1>3. got \in [Process -> Seq(Byte)] /\ \A p \in Process : Len(got[p]) = 0
  BY EmptySeq DEF Init
<1>4. /\ nread \in 0..(UintMod - 1) /\ nwrite \in 0..(UintMod - 1)
      /\ Count <= PIPESIZE /\ left \in [Process -> 0..MaxN]
      /\ \A p \in Process : Len(got[p]) <= MaxN
  BY <1>2, <1>3 DEF Init
<1>5. /\ exists \in BOOLEAN /\ isopen \in [Ends -> BOOLEAN]
      /\ lock \in Process \cup {None} /\ refs \in [Ends -> SUBSET Process]
      /\ pc \in [Process -> Points]
      /\ result \in [Process -> {None, "done", "eof", "failed"}]
      /\ killed \subseteq Process
  BY DEF Init, Points
<1> QED
  BY <1>1, <1>3, <1>4, <1>5, Zenon DEF TypeOK

LEMMA NextType == TypeOK /\ Next => TypeOK'
<1> SUFFICES ASSUME TypeOK, Next PROVE TypeOK'
  OBVIOUS
<1> USE DEF Ends
<1>0. /\ Count \in 0..PIPESIZE
      /\ \A n \in 0..Count : Bytes(n) \in Seq(Byte) /\ Len(Bytes(n)) = n
  <2>1. Count \in 0..PIPESIZE
    BY CountType
  <2> QED
    BY <2>1, BytesType
\* The ring stays, unless a step fills or empties it.
<1>1. ASSUME UNCHANGED <<data, nread, nwrite>>
      PROVE  /\ data' \in [0..(PIPESIZE - 1) -> Byte]
             /\ nread' \in 0..(UintMod - 1) /\ nwrite' \in 0..(UintMod - 1)
             /\ Count' <= PIPESIZE
  BY <1>1 DEF TypeOK, Count
<1> SUFFICES ASSUME NEW p \in Process, NEW e \in Ends, NEW q \in Process,
                    \/ PipeAlloc(p) \/ SyscallReturn(p) \/ Sleep(p) \/ Free(p)
                    \/ Section(p)
                    \/ Call(p, e) \/ FileClose(p, e)
                    \/ Fork(p, q) \/ Kill(p, q)
             PROVE  TypeOK'
  BY DEF Next, Section
<1>2. CASE PipeAlloc(p)
  <2>1. Count' = 0 /\ 0 \in 0..(UintMod - 1)
    BY <1>2, SMT DEF PipeAlloc, Count
  <2> QED
    BY <1>2, <2>1 DEF PipeAlloc, TypeOK, procs
<1>3. CASE SyscallReturn(p)
  <2>1. <<>> \in Seq(Byte) /\ Len(<<>>) = 0
    BY EmptySeq
  <2>2. got' \in [Process -> Seq(Byte)] /\ \A r \in Process : Len(got'[r]) <= MaxN
    BY <1>3, <2>1 DEF SyscallReturn, TypeOK
  <2> QED
    BY <1>1, <1>3, <2>2 DEF SyscallReturn, TypeOK, pipe, Goto, Return, Points
<1>4. CASE Sleep(p)
  BY <1>1, <1>4 DEF Sleep, TypeOK, pipe, Goto, Points
<1>5. CASE Free(p)
  BY <1>1, <1>5 DEF Free, TypeOK, Goto, Points
<1>6. CASE WriteAll(p)
  <2> DEFINE n == left[p]
  <2>1. n \in 0..(PIPESIZE - Count)
    BY <1>0, <1>6 DEF WriteAll, TypeOK
  <2>2. \E s \in [1..n -> Byte] : Fill(s)
    BY <1>6 DEF WriteAll
  <2>3. pc' \in [Process -> Points]
    BY <1>6, WakeStep DEF WriteAll, TypeOK, Points
  <2>4. left' \in [Process -> 0..MaxN]
    BY <1>6 DEF WriteAll, TypeOK
  <2> HIDE DEF n
  <2> QED
    BY <1>6, <2>1, <2>2, <2>3, <2>4, FillType DEF WriteAll, TypeOK, Return
<1>7. CASE WriteFail(p)
  <2> DEFINE n == PIPESIZE - Count
  <2>1. n \in 0..(PIPESIZE - Count)
    BY <1>0
  <2>2. \E s \in [1..n -> Byte] : Fill(s)
    BY <1>7 DEF WriteFail, WritePart
  <2>3. pc' \in [Process -> Points]
    BY <1>7 DEF WriteFail, Goto, TypeOK, Points
  <2>4. left' \in [Process -> 0..MaxN]
    BY <1>7 DEF WriteFail, TypeOK
  <2> HIDE DEF n
  <2> QED
    BY <1>7, <2>1, <2>2, <2>3, <2>4, FillType DEF WriteFail, TypeOK, Return
<1>8. CASE WriteWait(p)
  <2> DEFINE n == PIPESIZE - Count
  <2>1. n \in 0..(PIPESIZE - Count)
    BY <1>0
  <2>2. \E s \in [1..n -> Byte] : Fill(s)
    BY <1>8 DEF WriteWait, WritePart
  <2>3. pc' \in [Process -> Points]
    BY <1>8, WakeStep DEF WriteWait, TypeOK, Points
  <2>4. left' \in [Process -> 0..MaxN]
    BY <1>0, <1>8 DEF WriteWait, WritePart, TypeOK
  <2> HIDE DEF n
  <2> QED
    BY <1>8, <2>1, <2>2, <2>3, <2>4, FillType DEF WriteWait, TypeOK
<1>9. CASE ReadData(p)
  <2> DEFINE n == IF left[p] < Count THEN left[p] ELSE Count
  <2>1. n \in 0..Count /\ n <= MaxN
    BY <1>0 DEF TypeOK
  <2>2. nread' = (nread + n) % UintMod /\ nwrite' = nwrite /\ data' = data
    BY <1>9 DEF ReadData
  <2>3. got' = [got EXCEPT ![p] = Bytes(n)]
    BY <1>9 DEF ReadData
  <2>4. pc' \in [Process -> Points]
    BY <1>9, WakeStep DEF ReadData, TypeOK, Points
  <2>5. left' \in [Process -> 0..MaxN]
    BY <1>9 DEF ReadData, TypeOK
  <2>6. result' \in [Process -> {None, "done", "eof", "failed"}]
    BY <1>9 DEF ReadData, Return, TypeOK
  <2> HIDE DEF n
  <2>7. nread' \in 0..(UintMod - 1) /\ Count' = Count - n
    BY <2>1, <2>2, DrainRing
  <2>8. got' \in [Process -> Seq(Byte)] /\ \A r \in Process : Len(got'[r]) <= MaxN
    BY <1>0, <2>1, <2>3 DEF TypeOK
  <2>9. Count' <= PIPESIZE
    BY <1>0, <2>1, <2>7
  <2> QED
    BY <1>9, <2>2, <2>4, <2>5, <2>6, <2>7, <2>8, <2>9 DEF ReadData, TypeOK
<1>10. CASE ReadKilled(p)
  <2>1. pc' \in [Process -> Points]
    BY <1>10 DEF ReadKilled, Goto, TypeOK, Points
  <2>2. left' \in [Process -> 0..MaxN]
    BY <1>10 DEF ReadKilled, TypeOK
  <2> QED
    BY <1>1, <1>10, <2>1, <2>2 DEF ReadKilled, TypeOK, pipe, Return
<1>11. CASE ReadWait(p)
  BY <1>1, <1>11 DEF ReadWait, TypeOK, pipe, Goto, Points
<1>13. CASE Call(p, e)
  <2>1. pc' \in [Process -> Points]
    BY <1>13 DEF Call, Goto, TypeOK, Points
  <2>2. left' \in [Process -> 0..MaxN]
    BY <1>13 DEF Call, TypeOK
  <2> QED
    BY <1>1, <1>13, <2>1, <2>2 DEF Call, TypeOK, pipe
<1>14. CASE FileClose(p, e)
  BY <1>1, <1>14 DEF FileClose, TypeOK, pipe, Goto, Points
<1>15. CASE Fork(p, q)
  BY <1>1, <1>15 DEF Fork, TypeOK, pipe, procs
<1>16. CASE Kill(p, q)
  BY <1>1, <1>16 DEF Kill, TypeOK, pipe, Points
<1>12. (\E f \in Ends : PipeClose(p, f)) => TypeOK'
  <2> SUFFICES ASSUME NEW f \in Ends, PipeClose(p, f) PROVE TypeOK'
    OBVIOUS
  <2>1. pc' \in [Process -> Points]
    BY WakeStep DEF PipeClose, TypeOK, Points
  <2> QED
    BY <1>1, <2>1 DEF PipeClose, TypeOK
<1> QED
  BY <1>2, <1>3, <1>4, <1>5, <1>6, <1>7, <1>8, <1>9, <1>10, <1>11, <1>12, <1>13,
     <1>14, <1>15, <1>16 DEF Section

----------------------------------------------------------------------------
(* The other parts of the invariant. *)

\* What the step of p, alone, changes in the other processes: nothing but the
\* wakeup, and the wakeup of kill.
Moves(q) ==
  \/ pc'[q] = pc[q]
  \/ pc[q] = "nread" /\ pc'[q] = "read"
  \/ pc[q] = "nwrite" /\ pc'[q] = "write"

LEMMA OthersMove ==
  ASSUME TypeOK, NEW p \in Process,
         \/ SyscallReturn(p) \/ Sleep(p) \/ Free(p) \/ Section(p)
         \/ \E e \in Ends : Call(p, e) \/ FileClose(p, e)
  PROVE  \A q \in Process \ {p} :
           Moves(q) /\ left'[q] = left[q] /\ got'[q] = got[q] /\ result'[q] = result[q]
<1> USE DEF TypeOK, Moves, Goto, Return, pipe, procs
<1>1. CASE SyscallReturn(p) \/ Sleep(p) \/ Free(p)
  BY <1>1 DEF SyscallReturn, Sleep, Free
<1>2. CASE \E e \in Ends : Call(p, e) \/ FileClose(p, e)
  BY <1>2 DEF Call, FileClose
<1>3. CASE WriteAll(p) \/ WriteFail(p) \/ WriteWait(p)
  BY <1>3 DEF WriteAll, WriteFail, WriteWait, WritePart, Fill, WakeGoto
<1>4. CASE ReadData(p) \/ ReadKilled(p) \/ ReadWait(p)
  BY <1>4 DEF ReadData, ReadKilled, ReadWait, WakeGoto
<1>5. CASE \E e \in Ends : PipeClose(p, e)
  BY <1>5 DEF PipeClose, WakeGoto
<1> QED
  BY <1>1, <1>2, <1>3, <1>4, <1>5 DEF Section

LEMMA CallsStep ==
  ASSUME TypeOK, Calls, Sleepers, Next
  PROVE  Calls'
<1> USE DEF TypeOK, Goto, Return, pipe, procs, Inside, Ends
<1>0. Count \in 0..PIPESIZE
  BY CountType
<1>1. ASSUME NEW p \in Process, PipeAlloc(p)
      PROVE  Calls'
  BY <1>1 DEF PipeAlloc, Calls
<1>2. ASSUME NEW p \in Process, NEW q \in Process, Fork(p, q)
      PROVE  Calls'
  BY <1>2 DEF Fork, Calls
<1>3. ASSUME NEW p \in Process, NEW q \in Process, Kill(p, q)
      PROVE  Calls'
  BY <1>3 DEF Kill, Calls
\* A step of p keeps the part of the others ...
<1>4. ASSUME NEW p \in Process,
             \/ SyscallReturn(p) \/ Sleep(p) \/ Free(p) \/ Section(p)
             \/ \E e \in Ends : Call(p, e) \/ FileClose(p, e),
             NEW q \in Process \ {p}
      PROVE  /\ pc'[q] \in Inside["read"] \cup Inside["write"] => left'[q] > 0
             /\ pc'[q] # "ret" => result'[q] = None /\ got'[q] = <<>>
  <2>1. Moves(q) /\ left'[q] = left[q] /\ got'[q] = got[q] /\ result'[q] = result[q]
    BY <1>4, OthersMove
  <2> QED
    BY <2>1 DEF Moves, Calls
\* ... and its own.
<1>5. ASSUME NEW p \in Process,
             \/ SyscallReturn(p) \/ Sleep(p) \/ Free(p) \/ Section(p)
             \/ \E e \in Ends : Call(p, e) \/ FileClose(p, e)
      PROVE  /\ pc'[p] \in Inside["read"] \cup Inside["write"] => left'[p] > 0
             /\ pc'[p] # "ret" => result'[p] = None /\ got'[p] = <<>>
  <2>1. CASE SyscallReturn(p)
    BY <2>1 DEF SyscallReturn
  <2>2. CASE Sleep(p)
    <3>1. pc[p] \in {"rsleep", "wsleep"} => left'[p] > 0 /\ result'[p] = None /\ got'[p] = <<>>
      BY <2>2 DEF Sleep, Calls, Sleepers
    <3> QED
      BY <2>2, <3>1 DEF Sleep, Sleepers
  <2>3. CASE Free(p)
    BY <2>3 DEF Free, Calls
  <2>4. CASE \E e \in Ends : Call(p, e)
    BY <2>4 DEF Call, User, Calls, Ends
  <2>5. CASE \E e \in Ends : FileClose(p, e)
    BY <2>5 DEF FileClose, Calls
  <2>6. CASE WriteAll(p) \/ WriteFail(p) \/ ReadData(p) \/ ReadKilled(p)
    <3>1. pc'[p] = "ret"
      BY <2>6 DEF WriteAll, WriteFail, ReadData, ReadKilled, WakeGoto
    <3> QED
      BY <3>1
  <2>7. CASE WriteWait(p)
    <3>1. pc'[p] = "wsleep" /\ left'[p] = left[p] - (PIPESIZE - Count)
      BY <2>7 DEF WriteWait, WakeGoto
    <3>2. left'[p] > 0
      BY <1>0, <2>7, <3>1 DEF WriteWait, WritePart
    <3>3. got' = got /\ result' = result /\ pc[p] = "write"
      BY <2>7 DEF WriteWait, WritePart, Fill
    <3> QED
      BY <3>1, <3>2, <3>3 DEF Calls
  <2>8. CASE ReadWait(p)
    BY <2>8 DEF ReadWait, Calls
  <2>9. CASE \E e \in Ends : PipeClose(p, e)
    BY <2>9 DEF PipeClose, WakeGoto, Calls
  <2> QED
    BY <1>5, <2>1, <2>2, <2>3, <2>4, <2>5, <2>6, <2>7, <2>8, <2>9 DEF Section
<1>6. ASSUME NEW p \in Process,
             \/ SyscallReturn(p) \/ Sleep(p) \/ Free(p) \/ Section(p)
             \/ \E e \in Ends : Call(p, e) \/ FileClose(p, e)
      PROVE  Calls'
  <2> SUFFICES ASSUME NEW q \in Process
               PROVE  /\ pc'[q] \in Inside["read"] \cup Inside["write"] => left'[q] > 0
                      /\ pc'[q] # "ret" => result'[q] = None /\ got'[q] = <<>>
    BY DEF Calls
  <2>1. CASE q = p
    BY <1>5, <1>6, <2>1
  <2>2. CASE q # p
    BY <1>4, <1>6, <2>2
  <2> QED
    BY <2>1, <2>2
<1> QED
  BY <1>1, <1>2, <1>3, <1>6 DEF Next

LEMMA DescriptorsStep ==
  ASSUME TypeOK, Descriptors, Sleepers, Next
  PROVE  Descriptors'
<1> USE DEF TypeOK, Goto, pipe, procs, Inside, Ends, Closing
\* A step that goes on inside the operation, or leaves it, disturbs nothing.
<1>0. ASSUME UNCHANGED <<exists, isopen, refs>>,
             \A q \in Process : \/ pc'[q] \in {pc[q], "ret", "user"}
                                \/ \E e \in Ends : pc[q] \in Inside[e] /\ pc'[q] \in Inside[e]
      PROVE  Descriptors'
  <2>1. \A e \in Ends : (isopen'[e] => exists') /\ (refs'[e] # {} => isopen'[e])
    BY <1>0 DEF Descriptors
  <2>2. \A q \in Process : \A e \in Ends : pc'[q] \in Inside[e] => q \in refs'[e]
    BY <1>0 DEF Descriptors
  <2>3. \A q \in Process : \A e \in Ends : pc'[q] = Closing(e) => pc[q] = Closing(e)
    BY <1>0
  <2>4. \A q \in Process : pc'[q] = "free" => pc[q] = "free"
    BY <1>0
  <2> HIDE DEF Inside, Closing, Ends
  <2> QED
    BY <1>0, <2>1, <2>2, <2>3, <2>4 DEF Descriptors
<1>1. ASSUME NEW p \in Process, PipeAlloc(p)
      PROVE  Descriptors'
  BY <1>1 DEF PipeAlloc, User, Descriptors
<1>2. ASSUME NEW p \in Process, NEW q \in Process, Fork(p, q)
      PROVE  Descriptors'
  BY <1>2 DEF Fork, User, Descriptors
<1>3. ASSUME NEW p \in Process, NEW q \in Process, Kill(p, q)
      PROVE  Descriptors'
  BY <1>3 DEF Kill, Descriptors
<1>4. ASSUME NEW p \in Process, SyscallReturn(p) \/ Sleep(p)
      PROVE  Descriptors'
  <2>1. \A q \in Process \ {p} : pc'[q] = pc[q]
    BY <1>4 DEF SyscallReturn, Sleep
  <2>2. \/ pc'[p] = "user"
        \/ \E e \in Ends : pc[p] \in Inside[e] /\ pc'[p] \in Inside[e]
    BY <1>4 DEF SyscallReturn, Sleep, Sleepers
  <2>3. UNCHANGED <<exists, isopen, refs>>
    BY <1>4 DEF SyscallReturn, Sleep
  <2> QED
    BY <1>0, <2>1, <2>2, <2>3
<1>5. ASSUME NEW p \in Process, Free(p)
      PROVE  Descriptors'
  BY <1>5 DEF Free, Descriptors
<1>6. ASSUME NEW p \in Process, NEW e \in Ends, Call(p, e)
      PROVE  Descriptors'
  <2>1. /\ UNCHANGED <<exists, isopen, refs>> /\ p \in refs[e]
        /\ pc' = [pc EXCEPT ![p] = e]
    BY <1>6 DEF Call
  <2>2. /\ e \in Inside[e] /\ \A f \in Ends \ {e} : e \notin Inside[f]
        /\ e # "free" /\ \A f \in Ends : e # Closing(f)
    OBVIOUS
  <2> HIDE DEF Inside, Closing, Ends
  <2>3. pc'[p] = e /\ \A q \in Process \ {p} : pc'[q] = pc[q]
    BY <2>1
  <2> QED
    BY <2>1, <2>2, <2>3 DEF Descriptors
<1>7. ASSUME NEW p \in Process, NEW e \in Ends, FileClose(p, e)
      PROVE  Descriptors'
  <2> DEFINE d == Other(e)
  <2>1. /\ d \in Ends \ {e} /\ Ends = {d, e} /\ Closing(e) # Closing(d)
        /\ Closing(e) \notin Inside[e] \cup Inside[d] \cup {"free", "user"}
        /\ Closing(d) \notin Inside[e] \cup Inside[d] \cup {"free", "user"}
        /\ "user" \notin Inside[e] \cup Inside[d]
        /\ Inside[e] \cap Inside[d] = {}
    BY DEF Other
  <2>2. /\ pc[p] = "user" /\ p \in refs[e]
        /\ refs' = [refs EXCEPT ![e] = @ \ {p}]
        /\ pc' = [pc EXCEPT ![p] = IF refs[e] # {p} THEN "user" ELSE Closing(e)]
        /\ UNCHANGED <<exists, isopen>>
    BY <1>7 DEF FileClose
  <2> HIDE DEF d, Ends, Inside, Closing
  <2>3. refs'[e] = refs[e] \ {p} /\ refs'[d] = refs[d]
    BY <2>1, <2>2
  <2>4. \A q \in Process \ {p} : pc'[q] = pc[q]
    BY <2>2
  <2>5. isopen[e] /\ exists /\ \A q \in Process : pc[q] # Closing(e) /\ pc[q] # "free"
    BY <2>1, <2>2 DEF Descriptors
  <2>6. pc'[p] = IF refs'[e] # {} THEN "user" ELSE Closing(e)
    BY <2>2, <2>3
  <2>7. \A f \in Ends : /\ isopen'[f] => exists'
                        /\ refs'[f] # {} => isopen'[f]
    BY <2>1, <2>2, <2>3, <2>5 DEF Descriptors
  <2>8. ASSUME NEW q \in Process, NEW f \in Ends
        PROVE  /\ pc'[q] \in Inside[f] => q \in refs'[f]
               /\ pc'[q] = Closing(f) =>
                    /\ isopen'[f] /\ refs'[f] = {}
                    /\ \A r \in Process : pc'[r] = Closing(f) => r = q
    <3>1. CASE q = p
      BY <2>1, <2>2, <2>3, <2>4, <2>5, <2>6, <3>1
    <3>2. CASE q # p
      BY <2>1, <2>2, <2>3, <2>4, <2>5, <2>6, <3>2 DEF Descriptors
    <3> QED
      BY <3>1, <3>2
  <2>9. \A q \in Process : pc'[q] # "free"
    BY <2>1, <2>4, <2>5, <2>6
  <2> QED
    BY <2>7, <2>8, <2>9, Zenon DEF Descriptors
<1>8. ASSUME NEW p \in Process,
             \/ WriteAll(p) \/ WriteFail(p) \/ WriteWait(p)
             \/ ReadData(p) \/ ReadKilled(p) \/ ReadWait(p)
      PROVE  Descriptors'
  <2>1. UNCHANGED <<exists, isopen, refs>>
    BY <1>8 DEF WriteAll, WriteFail, WriteWait, WritePart, Fill, ReadData, ReadKilled,
                ReadWait
  <2>2. \A q \in Process \ {p} : Moves(q)
    BY <1>8, OthersMove DEF Section
  <2>3. \/ pc'[p] = "ret"
        \/ pc[p] = "write" /\ pc'[p] = "wsleep"
        \/ pc[p] = "read" /\ pc'[p] = "rsleep"
    BY <1>8 DEF WriteAll, WriteFail, WriteWait, WritePart, ReadData, ReadKilled, ReadWait,
                WakeGoto
  <2> QED
    BY <1>0, <2>1, <2>2, <2>3 DEF Moves
<1>9. ASSUME NEW p \in Process, NEW e \in Ends, PipeClose(p, e)
       PROVE  Descriptors'
  <2> DEFINE d == Other(e)
  <2>1. /\ d \in Ends \ {e} /\ Ends = {d, e} /\ Closing(e) # Closing(d)
        /\ {Closing(e), Closing(d)} \cap ({"free", "user", "read", "write"} \cup Inside[e] \cup Inside[d]) = {}
        /\ {"user", "free"} \cap (Inside[e] \cup Inside[d]) = {}
        /\ Inside[e] \cap Inside[d] = {}
    BY DEF Other
  <2>2. /\ pc[p] = Closing(e)
        /\ isopen' = [isopen EXCEPT ![e] = FALSE]
        /\ pc'[p] = IF isopen[d] THEN "user" ELSE "free"
        /\ UNCHANGED <<exists, refs>>
    BY <1>9 DEF PipeClose, WakeGoto
  <2>3. \A q \in Process \ {p} :
          /\ pc'[q] \in {pc[q], "read", "write"}
          /\ \A f \in Ends : pc'[q] \in Inside[f] => pc[q] \in Inside[f]
    <3>1. \A q \in Process \ {p} : Moves(q)
      BY <1>9, OthersMove DEF Section
    <3> QED
      BY <3>1 DEF Moves
  <2> HIDE DEF d, Ends, Inside, Closing
  <2>4. isopen'[e] = FALSE /\ isopen'[d] = isopen[d] /\ refs[e] = {}
        /\ isopen[e] /\ exists /\ \A q \in Process : pc[q] # "free"
    BY <2>1, <2>2 DEF Descriptors
  <2>5. \A q \in Process \ {p} : pc[q] # Closing(e)
    BY <2>1, <2>2 DEF Descriptors
  <2>6. \A f \in Ends : /\ isopen'[f] => exists'
                        /\ refs'[f] # {} => isopen'[f]
    BY <2>1, <2>2, <2>4 DEF Descriptors
  <2>7. ASSUME NEW q \in Process, NEW f \in Ends
        PROVE  /\ pc'[q] \in Inside[f] => q \in refs'[f]
               /\ pc'[q] = Closing(f) =>
                    /\ isopen'[f] /\ refs'[f] = {}
                    /\ \A r \in Process : pc'[r] = Closing(f) => r = q
    <3>1. CASE q = p
      BY <2>1, <2>2, <3>1
    <3>2. CASE q # p
      <4>1. pc'[q] \in Inside[f] => q \in refs'[f]
        BY <2>2, <2>3, <3>2 DEF Descriptors
      <4>2. ASSUME pc'[q] = Closing(f)
            PROVE  f = d /\ pc[q] = Closing(d)
        BY <2>1, <2>3, <2>5, <3>2, <4>2
      <4>3. ASSUME pc'[q] = Closing(f), NEW r \in Process, pc'[r] = Closing(f)
            PROVE  r = q
        <5>1. r # p /\ pc[r] = Closing(d)
          BY <2>1, <2>2, <2>3, <4>2, <4>3
        <5> QED
          BY <2>1, <4>2, <4>3, <5>1 DEF Descriptors
      <4> QED
        BY <2>1, <2>2, <2>4, <4>1, <4>2, <4>3 DEF Descriptors
    <3> QED
      BY <3>1, <3>2
  <2>8. ASSUME NEW q \in Process, pc'[q] = "free"
        PROVE  /\ exists' /\ \A f \in Ends : ~isopen'[f]
               /\ \A r \in Process : pc'[r] = "free" => r = q
    <3>1. \A r \in Process \ {p} : pc'[r] # "free"
      BY <2>3, <2>4
    <3> QED
      BY <2>1, <2>2, <2>4, <2>8, <3>1
  <2> QED
    BY <2>6, <2>7, <2>8, Zenon DEF Descriptors
<1> QED
  BY <1>1, <1>2, <1>3, <1>4, <1>5, <1>6, <1>7, <1>8, <1>9 DEF Next, Section

LEMMA SleepersStep ==
  ASSUME IInv, Next
  PROVE  Sleepers'
<1> USE DEF IInv, TypeOK, Goto, pipe, procs, Ends
<1>0. /\ Count \in 0..PIPESIZE
      /\ Full <=> Count = PIPESIZE
      /\ Empty <=> Count = 0
  BY CountType
<1>1. ASSUME UNCHANGED <<nread, nwrite>>
      PROVE  (Full' <=> Full) /\ (Empty' <=> Empty)
  BY <1>1 DEF Full, Empty
<1>2. ASSUME lock = None, NEW q \in Process
      PROVE  pc[q] \notin {"wsleep", "rsleep"}
  BY <1>2 DEF Sleepers
<1>3. ASSUME NEW q \in Process, ~isopen["write"]
      PROVE  pc[q] \notin {"nread", "rsleep"}
  BY <1>3 DEF Sleepers
<1>4. ASSUME NEW q \in Process, ~isopen["read"]
      PROVE  pc[q] \notin Inside["read"]
  BY <1>4 DEF Descriptors
<1>5. ASSUME NEW p \in Process, PipeAlloc(p)
      PROVE  Sleepers'
  <2>1. \A q \in Process : pc[q] \notin {"nread", "rsleep", "nwrite", "wsleep"}
    BY <1>5 DEF PipeAlloc, Descriptors, Sleepers
  <2> QED
    BY <1>5, <2>1 DEF PipeAlloc, Sleepers
<1>6. ASSUME NEW p \in Process, NEW q \in Process, Fork(p, q)
      PROVE  Sleepers'
  BY <1>1, <1>6 DEF Fork, Sleepers
<1>7. ASSUME NEW p \in Process, NEW q \in Process, Kill(p, q)
      PROVE  Sleepers'
  BY <1>1, <1>7 DEF Kill, Sleepers
<1>8. ASSUME NEW p \in Process,
             \/ SyscallReturn(p) \/ Free(p)
             \/ \E e \in Ends : Call(p, e) \/ FileClose(p, e)
      PROVE  Sleepers'
  <2> DEFINE asleep == {"nread", "nwrite", "rsleep", "wsleep"}
  <2>1. /\ UNCHANGED <<nread, nwrite, isopen, lock, killed>>
        /\ pc[p] \notin asleep /\ pc'[p] \notin asleep
        /\ \A q \in Process \ {p} : pc'[q] = pc[q]
    BY <1>8 DEF SyscallReturn, Free, Call, FileClose, User
  <2>2. lock # p
    BY <2>1 DEF Sleepers
  <2>3. (Full' <=> Full) /\ (Empty' <=> Empty)
    BY <1>1, <2>1
  <2> QED
    BY <2>1, <2>2, <2>3 DEF Sleepers
<1>9. ASSUME NEW p \in Process, Sleep(p)
      PROVE  Sleepers'
  BY <1>1, <1>9 DEF Sleep, Sleepers
<1>10. ASSUME NEW p \in Process, WriteAll(p)
       PROVE  Sleepers'
  <2>1. left[p] > 0
    BY <1>10 DEF WriteAll, Calls, Inside
  <2>2. \A q \in Process : pc[q] # "nwrite"
    BY <1>0, <1>10, <2>1 DEF WriteAll, Sleepers
  <2>3. \A q \in Process : pc'[q] \notin {"nread", "nwrite", "wsleep", "rsleep"}
    BY <1>2, <1>10, <2>2 DEF WriteAll, WakeGoto
  <2> QED
    BY <1>10, <2>3 DEF WriteAll, Sleepers
<1>11. ASSUME NEW p \in Process, WriteFail(p) \/ WriteWait(p)
       PROVE  Full' /\ UNCHANGED isopen
  <2>1. \E s \in [1..(PIPESIZE - Count) -> Byte] : Fill(s)
    BY <1>11 DEF WriteFail, WriteWait, WritePart
  <2>2. PIPESIZE - Count \in 0..(PIPESIZE - Count)
    BY <1>0
  <2>3. /\ nread' \in 0..(UintMod - 1) /\ nwrite' \in 0..(UintMod - 1)
        /\ Count' = Count + (PIPESIZE - Count) /\ isopen' = isopen
    BY <2>1, <2>2, FillType
  <2>4. (nwrite' - nread') % UintMod = PIPESIZE
    BY <1>0, <2>3 DEF Count
  <2> QED
    BY <2>3, <2>4, FullMeans DEF Full
<1>12. ASSUME NEW p \in Process, WriteFail(p)
       PROVE  Sleepers'
  <2>1. ASSUME NEW q \in Process, pc[q] = "nread"
        PROVE  isopen["write"] /\ killed' # {}
    BY <1>4, <1>12, <2>1 DEF WriteFail, Sleepers, Inside
  <2>2. \A q \in Process : pc'[q] = IF q = p THEN "ret" ELSE pc[q]
    BY <1>12 DEF WriteFail
  <2>3. lock = None /\ lock' = None
    BY <1>12 DEF WriteFail, WritePart
  <2> QED
    BY <1>2, <1>11, <1>12, <2>1, <2>2, <2>3 DEF Sleepers
<1>13. ASSUME NEW p \in Process, WriteWait(p)
       PROVE  Sleepers'
  <2>1. \A q \in Process \ {p} : pc'[q] \notin {"nread", "wsleep", "rsleep"}
    BY <1>2, <1>13 DEF WriteWait, WritePart, WakeGoto
  <2>2. pc'[p] = "wsleep" /\ lock' = p /\ isopen["read"]
    BY <1>13 DEF WriteWait, WakeGoto
  <2> QED
    BY <1>11, <1>13, <2>1, <2>2 DEF Sleepers
<1>14. ASSUME NEW p \in Process, ReadData(p)
       PROVE  Sleepers'
  <2>1. \A q \in Process : pc'[q] \notin {"nwrite", "wsleep", "rsleep"}
    BY <1>2, <1>14 DEF ReadData, WakeGoto
  <2>2. \A q \in Process : pc'[q] = "nread" => pc[q] = "nread"
    BY <1>14 DEF ReadData, WakeGoto
  <2>3. \A q \in Process : pc[q] = "nread" => isopen["write"] /\ killed # {}
    BY <1>3, <1>14 DEF ReadData, Sleepers
  <2> QED
    BY <1>14, <2>1, <2>2, <2>3 DEF ReadData, Sleepers
<1>15. ASSUME NEW p \in Process, ReadKilled(p) \/ ReadWait(p)
       PROVE  Sleepers'
  BY <1>1, <1>2, <1>15 DEF ReadKilled, ReadWait, Sleepers
<1>16. ASSUME NEW p \in Process, NEW e \in Ends, PipeClose(p, e)
       PROVE  Sleepers'
  <2>1. \A q \in Process : pc'[q] \notin {"wsleep", "rsleep"}
    BY <1>2, <1>16 DEF PipeClose, WakeGoto
  <2>2. ASSUME NEW q \in Process, pc'[q] = "nread"
        PROVE  pc[q] = "nread" /\ e = "read"
    BY <1>16, <2>2 DEF PipeClose, WakeGoto
  <2>3. ASSUME NEW q \in Process, pc'[q] = "nwrite"
        PROVE  pc[q] = "nwrite" /\ e = "write"
    BY <1>16, <2>3 DEF PipeClose, WakeGoto
  <2>4. isopen' = [isopen EXCEPT ![e] = FALSE] /\ UNCHANGED <<nread, nwrite, killed, lock>>
        /\ lock = None
    BY <1>16 DEF PipeClose
  <2>5. (Full' <=> Full) /\ (Empty' <=> Empty)
    BY <1>1, <2>4
  <2>6. \A q \in Process : lock' # q
    BY <2>4
  <2>7. ASSUME NEW q \in Process, pc'[q] = "nwrite"
        PROVE  Full' /\ isopen'["read"]
    BY <2>3, <2>4, <2>5, <2>7 DEF Sleepers
  <2>8. ASSUME NEW q \in Process, pc'[q] = "nread"
        PROVE  isopen'["write"] /\ (Empty' \/ killed' # {})
    BY <2>2, <2>4, <2>5, <2>8 DEF Sleepers
  <2> QED
    BY <2>1, <2>6, <2>7, <2>8 DEF Sleepers
<1> QED
  BY <1>5, <1>6, <1>7, <1>8, <1>9, <1>10, <1>12, <1>13, <1>14, <1>15, <1>16
     DEF Next, Section

LEMMA InitIInv == Init => IInv
<1> SUFFICES ASSUME Init PROVE IInv
  OBVIOUS
<1>1. TypeOK
  BY InitType
<1>2. Calls
  BY DEF Init, Calls, Inside, Ends
<1>3. Descriptors
  BY DEF Init, Descriptors, Inside, Ends, Closing
<1>4. Sleepers
  BY DEF Init, Sleepers
<1> QED
  BY <1>1, <1>2, <1>3, <1>4 DEF IInv

LEMMA StepIInv == IInv /\ [Next]_vars => IInv'
<1> SUFFICES ASSUME IInv, [Next]_vars PROVE IInv'
  OBVIOUS
<1>1. CASE Next
  BY <1>1, NextType, CallsStep, DescriptorsStep, SleepersStep DEF IInv
<1>2. CASE UNCHANGED vars
  <2> USE <1>2 DEF vars, pipe, procs
  <2>1. TypeOK'
    BY DEF IInv, TypeOK, Count
  <2>2. Calls'
    BY DEF IInv, Calls
  <2>3. Descriptors'
    BY DEF IInv, Descriptors
  <2>4. Sleepers'
    BY DEF IInv, Sleepers, Full, Empty
  <2> QED
    BY <2>1, <2>2, <2>3, <2>4 DEF IInv
<1> QED
  BY <1>1, <1>2

\* The invariant holds in every reachable state, whatever the interleaving of
\* pipewrite, piperead, pipeclose, kill and fork.
THEOREM Invariance == Spec => []IInv
  BY InitIInv, StepIInv, PTL DEF Spec

\* The variables keep their types: the counters stay in range and the pipe
\* never holds more than PIPESIZE bytes.
THEOREM TypeCorrect == Spec => []TypeOK
<1>1. IInv => TypeOK
  BY DEF IInv
<1> QED
  BY <1>1, Invariance, PTL

\* pipeclose frees the page once, when nobody can use it any more.
THEOREM FreedOnce == Spec => []FreedUnused
<1>1. IInv => FreedUnused
  <2> SUFFICES ASSUME IInv, NEW p \in Process, pc[p] = "free" \/ ~exists
               PROVE  /\ \A e \in Ends : p \notin refs[e]
                      /\ pc[p] \in {"user", "free", "ret"}
                      /\ pc[p] = "free" => exists /\ \A q \in Process \ {p} : pc[q] # "free"
    BY DEF FreedUnused
  <2>1. \A e \in Ends : ~isopen[e] /\ refs[e] = {}
    BY DEF IInv, TypeOK, Descriptors
  <2>2. pc[p] \in {"user", "free", "ret"}
    BY <2>1 DEF IInv, TypeOK, Descriptors, Inside, Closing, Ends, Points
  <2> QED
    BY <2>1, <2>2 DEF IInv, Descriptors
<1> QED
  BY <1>1, Invariance, PTL

\* Nobody sleeps on a pipe that has something for it, in spite of kill().
THEOREM NoWakeupIsLost == Spec => []NoLostWakeup
<1>1. IInv => NoLostWakeup
  BY DEF IInv, Sleepers, NoLostWakeup
<1> QED
  BY <1>1, Invariance, PTL

----------------------------------------------------------------------------
(* The pipe implements the FIFO. *)

Queue == IF exists THEN Bytes(Count) ELSE <<>>
Open == {e \in Ends : isopen[e]}
Eofs == {p \in Process : result[p] = "eof"}

\* A step that changes none of these is a stutter of the FIFO.
LEMMA Unseen ==
  ASSUME UNCHANGED <<data, nread, nwrite, exists, isopen, got>>, Eofs' = Eofs
  PROVE  UNCHANGED Channel!vars
<1>1. Bytes(Count)' = Bytes(Count)
  BY DEF Bytes, Count
<1>2. Open' = Open
  BY DEF Open
<1> QED
  BY <1>1, <1>2 DEF Channel!vars, Open, Eofs

LEMMA NoBytes == Bytes(0) = <<>> /\ \A s \in [1..0 -> Byte] : s = <<>>
  BY DEF Bytes

\* A write that stores n bytes is a Put, or a stutter when there is no room.
LEMMA FillPuts ==
  ASSUME IInv, NEW p \in Process, NEW n \in 0..(PIPESIZE - Count), n <= MaxN,
         pc[p] = "write", \E s \in [1..n -> Byte] : Fill(s), Eofs' = Eofs
  PROVE  [Channel!Next]_(Channel!vars)
<1> PICK s \in [1..n -> Byte] : Fill(s)
  OBVIOUS
<1>1. TypeOK /\ isopen["write"] /\ exists
  BY DEF IInv, Descriptors, Inside, Ends
<1>2. Count \in 0..PIPESIZE
  BY <1>1, CountType
<1>3. /\ UNCHANGED <<exists, isopen, got>>
      /\ Bytes(Count)' = Bytes(Count) \o s
  BY <1>1, FillRing DEF Fill
<1>4. Bytes(Count) \in Seq(Byte) /\ Len(Bytes(Count)) = Count
  BY <1>1, <1>2, BytesType
<1>5. UNCHANGED <<Open, exists, got, Eofs>>
  BY <1>3 DEF Open
<1>6. CASE n = 0
  <2>1. s = <<>>
    BY <1>6, NoBytes
  <2>2. Bytes(Count)' = Bytes(Count)
    BY <1>3, <1>4, <2>1, ConcatEmptySeq
  <2> QED
    BY <1>5, <2>2 DEF Channel!vars, Open, Eofs
<1>7. CASE n # 0
  <2>1. n \in 1..MaxN /\ Len(Bytes(Count)) + n <= PIPESIZE
    BY <1>2, <1>4, <1>7
  <2>2. Queue = Bytes(Count) /\ Queue' = Bytes(Count) \o s
    BY <1>1, <1>3 DEF Queue
  <2>3. Len(Queue) + n <= PIPESIZE /\ Queue' = Queue \o s
    BY <2>1, <2>2
  <2>4. \E m \in 1..MaxN : \E u \in [1..m -> Byte] :
          Len(Queue) + m <= PIPESIZE /\ Queue' = Queue \o u
    BY <2>1, <2>3, Zenon
  <2>5. "write" \in Open
    BY <1>1 DEF Open, Ends
  <2>6. Channel!Put
    BY <1>5, <2>4, <2>5, Zenon DEF Channel!Put, Queue, Open, Eofs
  <2> QED
    BY <2>6 DEF Channel!Next
<1> QED
  BY <1>6, <1>7

\* The same for a read: a Get, or the end of file.
LEMMA ReadGets ==
  ASSUME IInv, NEW p \in Process, ReadData(p)
  PROVE  Channel!Next
<1> DEFINE n == IF left[p] < Count THEN left[p] ELSE Count
<1>1. TypeOK /\ isopen["read"] /\ exists /\ left[p] > 0 /\ left[p] \in Nat
      /\ result[p] = None /\ got[p] = <<>>
  BY DEF IInv, TypeOK, Calls, Descriptors, Inside, Ends, ReadData
<1>2. Count \in 0..PIPESIZE /\ (Empty <=> Count = 0)
  BY <1>1, CountType
<1>3. n \in 0..Count /\ (n = 0 => Count = 0)
  BY <1>1, <1>2
<1>4. /\ nread' = (nread + n) % UintMod /\ nwrite' = nwrite /\ data' = data
      /\ got' = [got EXCEPT ![p] = Bytes(n)]
      /\ result' = [result EXCEPT ![p] = IF n = 0 THEN "eof" ELSE "done"]
      /\ UNCHANGED <<exists, isopen>>
      /\ ~Empty \/ ~isopen["write"]
  BY DEF ReadData, Return
<1> HIDE DEF n
<1>5. /\ Bytes(n) = SubSeq(Bytes(Count), 1, n)
      /\ Bytes(Count)' = SubSeq(Bytes(Count), n + 1, Count)
  BY <1>1, <1>3, <1>4, DrainRing
<1>6. Bytes(Count) \in Seq(Byte) /\ Len(Bytes(Count)) = Count
  BY <1>1, <1>2, BytesType
<1>7. Queue = Bytes(Count) /\ Queue' = Bytes(Count)'
  BY <1>1, <1>4 DEF Queue
<1>8. Open' = Open /\ exists' = exists
  BY <1>4 DEF Open
<1>9. "read" \in Open /\ p \notin Eofs
  BY <1>1 DEF Open, Eofs, Ends, None
<1>10. CASE n # 0
  <2>1. n \in 1..Len(Queue)
    BY <1>2, <1>3, <1>6, <1>7, <1>10
  <2>2. /\ got' = [got EXCEPT ![p] = SubSeq(Queue, 1, n)]
        /\ Queue' = SubSeq(Queue, n + 1, Len(Queue))
    BY <1>4, <1>5, <1>6, <1>7
  <2>3. Eofs' = Eofs
    BY <1>1, <1>4, <1>10 DEF Eofs, TypeOK, None
  <2>4. \E m \in 1..Len(Queue) : /\ got' = [got EXCEPT ![p] = SubSeq(Queue, 1, m)]
                                 /\ Queue' = SubSeq(Queue, m + 1, Len(Queue))
    BY <2>1, <2>2, Zenon
  <2>5. Channel!Get(p)
    BY <1>1, <1>8, <1>9, <2>3, <2>4, Zenon DEF Channel!Get, Queue, Open, Eofs
  <2> QED
    BY <2>5 DEF Channel!Next
<1>11. CASE n = 0
  <2>1. Count = 0 /\ "write" \notin Open
    BY <1>2, <1>3, <1>4, <1>11 DEF Open
  <2>2. Queue = <<>>
    BY <1>7, <2>1, NoBytes
  <2>3. Queue' = Queue
    <3>1. Count' = Count - n
      BY <1>1, <1>3, <1>4, DrainRing
    <3>2. Count' = 0
      BY <1>11, <2>1, <3>1
    <3>3. Bytes(Count)' = <<>>
      BY <3>2 DEF Bytes
    <3> QED
      BY <1>7, <2>2, <3>3
  <2>4. got' = got
    <3>1. Bytes(n) = <<>>
      BY <1>11, NoBytes
    <3> QED
      BY <1>1, <1>4, <3>1 DEF TypeOK
  <2>5. Eofs' = Eofs \cup {p}
    BY <1>1, <1>4, <1>11 DEF Eofs, TypeOK
  <2>6. Channel!Eof(p)
    BY <1>1, <1>8, <1>9, <2>1, <2>2, <2>3, <2>4, <2>5, Zenon
       DEF Channel!Eof, Queue, Open, Eofs
  <2> QED
    BY <2>6 DEF Channel!Next
<1> QED
  BY <1>10, <1>11

LEMMA StepRefines == IInv /\ [Next]_vars => [Channel!Next]_(Channel!vars)
<1> SUFFICES ASSUME IInv, [Next]_vars PROVE [Channel!Next]_(Channel!vars)
  OBVIOUS
<1>0. TypeOK /\ Count \in 0..PIPESIZE
  BY CountType DEF IInv
<1>1. ASSUME NEW p \in Process, PipeAlloc(p)
      PROVE  Channel!Next
  <2>1. Count' = 0
    BY <1>1, SMT DEF PipeAlloc, Count
  <2>2. Bytes(Count)' = <<>>
    BY <2>1 DEF Bytes
  <2>3. Queue' = <<>> /\ Open' = {"read", "write"} /\ Eofs' = Eofs /\ got' = got
    BY <1>1, <2>2 DEF PipeAlloc, Queue, Open, Eofs, Ends, procs
  <2>4. Channel!New
    BY <1>1, <2>3 DEF PipeAlloc, Channel!New, Queue, Open, Eofs
  <2> QED
    BY <2>4 DEF Channel!Next
<1>2. ASSUME NEW p \in Process, SyscallReturn(p)
      PROVE  Channel!Next
  <2>1. /\ UNCHANGED <<data, nread, nwrite, exists, isopen>>
        /\ got' = [got EXCEPT ![p] = <<>>]
        /\ result' = [result EXCEPT ![p] = None]
    BY <1>2 DEF SyscallReturn, pipe, Return
  <2>2. Queue' = Queue /\ Open' = Open
    BY <2>1 DEF Queue, Open, Bytes, Count
  <2>3. Eofs' = Eofs \ {p}
    BY <1>0, <2>1 DEF Eofs, None, TypeOK
  <2>4. Channel!Take(p)
    BY <2>1, <2>2, <2>3, Zenon DEF Channel!Take, Queue, Open, Eofs
  <2> QED
    BY <2>4 DEF Channel!Next
<1>3. ASSUME NEW p \in Process, NEW e \in Ends, PipeClose(p, e)
      PROVE  Channel!Next
  <2>1. e \in Open
    BY <1>3 DEF PipeClose, IInv, Descriptors, Open, Closing, Ends
  <2>2. isopen' = [isopen EXCEPT ![e] = FALSE]
        /\ UNCHANGED <<data, nread, nwrite, exists, got, result>>
    BY <1>3 DEF PipeClose
  <2>3. Open' = Open \ {e}
    BY <1>0, <2>2 DEF Open, TypeOK
  <2>4. Queue' = Queue /\ Eofs' = Eofs
    BY <2>2 DEF Queue, Eofs, Bytes, Count
  <2>5. Channel!Close(e)
    BY <2>1, <2>2, <2>3, <2>4, Zenon DEF Channel!Close, Queue, Open, Eofs
  <2>6. e \in {"read", "write"}
    BY DEF Ends
  <2> QED
    BY <2>5, <2>6 DEF Channel!Next
<1>4. ASSUME NEW p \in Process, Free(p)
      PROVE  Channel!Next
  <2>1. exists /\ Open = {}
    BY <1>4 DEF Free, IInv, Descriptors, Open
  <2>2. exists' = FALSE /\ UNCHANGED <<isopen, got, result>>
    BY <1>4 DEF Free
  <2>3. Queue' = <<>> /\ Open' = Open /\ Eofs' = Eofs
    BY <2>2 DEF Queue, Open, Eofs
  <2>4. Channel!Free
    BY <2>1, <2>2, <2>3 DEF Channel!Free, Queue, Open, Eofs
  <2> QED
    BY <2>4 DEF Channel!Next
<1>5. ASSUME NEW p \in Process, NEW v \in {None, "done", "failed"},
             result' = [result EXCEPT ![p] = v], pc[p] # "ret"
      PROVE  Eofs' = Eofs
  <2>1. result[p] # "eof" /\ v # "eof"
    BY <1>5 DEF IInv, Calls, None
  <2> QED
    BY <1>0, <1>5, <2>1 DEF Eofs, TypeOK
<1>6. ASSUME NEW p \in Process, WriteAll(p)
      PROVE  [Channel!Next]_(Channel!vars)
  <2> DEFINE n == left[p]
  <2>1. n \in 0..(PIPESIZE - Count) /\ n <= MaxN
    BY <1>0, <1>6 DEF WriteAll, TypeOK
  <2>2. pc[p] = "write" /\ \E s \in [1..n -> Byte] : Fill(s)
    BY <1>6 DEF WriteAll
  <2>3. Eofs' = Eofs
    BY <1>5, <1>6 DEF WriteAll, Return
  <2> HIDE DEF n
  <2> QED
    BY <2>1, <2>2, <2>3, FillPuts
<1>7. ASSUME NEW p \in Process, WriteFail(p) \/ WriteWait(p)
      PROVE  [Channel!Next]_(Channel!vars)
  <2> DEFINE n == PIPESIZE - Count
  <2>1. pc[p] = "write" /\ (\E s \in [1..n -> Byte] : Fill(s)) /\ Count + left[p] > PIPESIZE
    BY <1>7 DEF WriteFail, WriteWait, WritePart
  <2>2. n \in 0..(PIPESIZE - Count) /\ n <= MaxN
    BY <1>0, <2>1 DEF TypeOK
  <2>3. Eofs' = Eofs
    BY <1>5, <1>7, <2>1 DEF WriteFail, WriteWait, Return, Eofs
  <2> HIDE DEF n
  <2> QED
    BY <2>1, <2>2, <2>3, FillPuts
<1>8. ASSUME NEW p \in Process, ReadKilled(p)
      PROVE  UNCHANGED Channel!vars
  <2>1. Eofs' = Eofs
    BY <1>5, <1>8 DEF ReadKilled, Return
  <2> QED
    BY <1>8, <2>1, Unseen DEF ReadKilled, pipe
<1>9. ASSUME NEW p \in Process,
             \/ Sleep(p) \/ ReadWait(p)
             \/ \E e \in Ends : Call(p, e) \/ FileClose(p, e)
             \/ \E q \in Process : Fork(p, q) \/ Kill(p, q)
      PROVE  UNCHANGED Channel!vars
  <2>1. UNCHANGED <<data, nread, nwrite, exists, isopen, got, result>>
    BY <1>9 DEF Sleep, ReadWait, Call, FileClose, Fork, Kill, pipe, procs
  <2> QED
    BY <2>1, Unseen DEF Eofs
<1>10. CASE UNCHANGED vars
  BY <1>10, Unseen DEF vars, pipe, procs, Eofs
<1>11. ASSUME NEW p \in Process, Section(p)
       PROVE  [Channel!Next]_(Channel!vars)
  <2>1. CASE WriteAll(p)
    BY <1>6, <2>1
  <2>2. CASE WriteFail(p) \/ WriteWait(p)
    BY <1>7, <2>2
  <2>3. CASE ReadData(p)
    BY <2>3, ReadGets
  <2>4. CASE ReadKilled(p) \/ ReadWait(p)
    BY <1>8, <1>9, <2>4
  <2>5. CASE \E e \in Ends : PipeClose(p, e)
    BY <1>3, <2>5
  <2> QED
    BY <1>11, <2>1, <2>2, <2>3, <2>4, <2>5 DEF Section
<1>12. CASE Next
  <2> PICK p \in Process :
        \/ PipeAlloc(p) \/ SyscallReturn(p) \/ Sleep(p) \/ Free(p) \/ Section(p)
        \/ \E e \in Ends : Call(p, e) \/ FileClose(p, e)
        \/ \E q \in Process : Fork(p, q) \/ Kill(p, q)
    BY <1>12 DEF Next
  <2>1. CASE PipeAlloc(p) \/ SyscallReturn(p) \/ Free(p)
    BY <1>1, <1>2, <1>4, <2>1
  <2>2. CASE Section(p)
    BY <1>11, <2>2
  <2>3. CASE \/ Sleep(p)
             \/ \E e \in Ends : Call(p, e) \/ FileClose(p, e)
             \/ \E q \in Process : Fork(p, q) \/ Kill(p, q)
    BY <1>9, <2>3
  <2> QED
    BY <2>1, <2>2, <2>3
<1> QED
  BY <1>10, <1>12

LEMMA InitRefines == Init => Channel!Init
<1> SUFFICES ASSUME Init PROVE Channel!Init
  OBVIOUS
<1>1. Queue = <<>> /\ Open = {} /\ Eofs = {}
  BY DEF Init, Queue, Open, Eofs, None
<1> QED
  BY <1>1 DEF Init, Channel!Init, Queue, Open, Eofs

\* The pipe implements the FIFO: whatever the interleaving of its readers and
\* writers and wherever the counters wrap, bytes come out in the order in which
\* they went in, each once, and the end of file comes last.
THEOREM PipeIsFifo == Spec => ChannelSpec
<1>1. Init /\ [][Next]_vars /\ []IInv => Channel!Init /\ [][Channel!Next]_(Channel!vars)
  BY InitRefines, StepRefines, PTL
<1> QED
  BY <1>1, Invariance, PTL DEF Spec, ChannelSpec, Channel!Spec

=============================================================================
