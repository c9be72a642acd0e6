---------------------------- MODULE ConsoleProofs ----------------------------
(***************************************************************************)
(* Proofs about Console for every number of readers, every size of the     *)
(* ring and every modulus of its indices.  First no wakeup is lost: what   *)
(* makes NoLostWakeup inductive is the process between its test r == w and *)
(* its place on the channel, which has cons.lock, so that the answer of    *)
(* the test stays true.  Then the ring is seen as the text it holds from r *)
(* on: the indices never pass one another, and every step of the handler   *)
(* and of a reader is a step of the line buffer or a stutter.              *)
(***************************************************************************)
EXTENDS Console, SequenceTheorems, WellFoundedInduction, TLAPS

(***************************************************************************)
(* The arithmetic of the ring: indices that only grow and wrap modulo M,   *)
(* and slots modulo P, where P divides M.                                  *)
(***************************************************************************)

LEMMA DivMod ==
  ASSUME NEW P \in Nat \ {0}, NEW x \in Nat
  PROVE  /\ x \div P \in Nat /\ x % P \in 0..(P - 1)
         /\ x = P * (x \div P) + (x % P)
<1>1. x \div P \in Nat
  BY SMT
<1>2. x % P \in 0..(P - 1)
  BY SMT
<1>3. x = P * (x \div P) + (x % P)
  BY SMT
<1> QED
  BY <1>1, <1>2, <1>3

LEMMA Distribute ==
  ASSUME NEW k \in Int, NEW u \in Int, NEW v \in Int
  PROVE  k * (v - u) = k * v - k * u /\ k * (v + u) = k * v + k * u
  BY SMT

LEMMA SmallMultiple ==
  ASSUME NEW P \in Nat \ {0}, NEW q \in Int, -P < P * q, P * q < P
  PROVE  P * q = 0
<1>1. CASE q >= 1
  <2>1. P * q >= P
    BY <1>1, SMT
  <2> QED
    BY <2>1
<1>2. CASE q <= -1
  <2>1. P * q <= -P
    BY <1>2, SMT
  <2> QED
    BY <2>1
<1>3. CASE q = 0
  BY <1>3
<1> QED
  BY <1>1, <1>2, <1>3

LEMMA Distance ==
  ASSUME NEW M \in Nat \ {0}, NEW a \in 0..(M - 1), NEW b \in 0..(M - 1)
  PROVE  /\ (a - b) % M = IF a >= b THEN a - b ELSE a - b + M
         /\ (a - b) % M \in 0..(M - 1)
  BY SMT

LEMMA Step ==
  ASSUME NEW M \in Nat \ {0}, NEW a \in 0..(M - 1), NEW n \in 0..M
  PROVE  /\ (a + n) % M = IF a + n < M THEN a + n ELSE a + n - M
         /\ (a + n) % M \in 0..(M - 1)
  BY SMT

LEMMA PutDistance ==
  ASSUME NEW M \in Nat \ {0}, NEW a \in 0..(M - 1), NEW b \in 0..(M - 1),
         NEW n \in Nat, ((a - b) % M) + n < M
  PROVE  (((a + n) % M) - b) % M = ((a - b) % M) + n
<1>1. (a - b) % M = IF a >= b THEN a - b ELSE a - b + M
  BY Distance
<1>2. (a + n) % M = (IF a + n < M THEN a + n ELSE a + n - M)
      /\ (a + n) % M \in 0..(M - 1)
  BY <1>1, SMT
<1>3. (((a + n) % M) - b) % M
        = IF (a + n) % M >= b THEN ((a + n) % M) - b ELSE ((a + n) % M) - b + M
  BY <1>2, SMT
<1> QED
  BY <1>1, <1>2, <1>3

LEMMA GetDistance ==
  ASSUME NEW M \in Nat \ {0}, NEW a \in 0..(M - 1), NEW b \in 0..(M - 1),
         NEW n \in Nat, n <= (a - b) % M
  PROVE  (a - ((b + n) % M)) % M = ((a - b) % M) - n
<1>1. (a - b) % M = IF a >= b THEN a - b ELSE a - b + M
  BY Distance
<1>2. (b + n) % M = (IF b + n < M THEN b + n ELSE b + n - M)
      /\ (b + n) % M \in 0..(M - 1)
  BY <1>1, SMT
<1>3. (a - ((b + n) % M)) % M
        = IF a >= (b + n) % M THEN a - ((b + n) % M) ELSE a - ((b + n) % M) + M
  BY <1>2, SMT
<1> QED
  BY <1>1, <1>2, <1>3

LEMMA StepStep ==
  ASSUME NEW M \in Nat \ {0}, NEW a \in 0..(M - 1), NEW n \in Nat, NEW k \in Nat,
         n + k < M
  PROVE  (((a + n) % M) + k) % M = (a + (n + k)) % M
<1>1. (a + n) % M = (IF a + n < M THEN a + n ELSE a + n - M)
      /\ (a + n) % M \in 0..(M - 1)
  BY SMT
<1>2. (((a + n) % M) + k) % M
        = IF ((a + n) % M) + k < M THEN ((a + n) % M) + k
                                 ELSE ((a + n) % M) + k - M
  BY <1>1, SMT
<1>3. (a + (n + k)) % M = IF a + (n + k) < M THEN a + (n + k) ELSE a + (n + k) - M
  BY SMT
<1> QED
  BY <1>1, <1>2, <1>3

LEMMA SlotsDiffer ==
  ASSUME NEW P \in Nat \ {0}, NEW M \in Nat, M > P, M % P = 0,
         NEW a \in 0..(M - 1), NEW i \in 0..(P - 1), NEW j \in 0..(P - 1),
         ((a + i) % M) % P = ((a + j) % M) % P
  PROVE  i = j
<1> DEFINE x == (a + i) % M
           y == (a + j) % M
           u == x \div P
           v == y \div P
           k == M \div P
<1>1. /\ x = IF a + i < M THEN a + i ELSE a + i - M
      /\ y = IF a + j < M THEN a + j ELSE a + j - M
      /\ x \in Nat /\ y \in Nat
  BY SMT
<1>2. u \in Nat /\ v \in Nat /\ k \in Nat
  BY <1>1, DivMod
<1>3. x = P * u + (x % P) /\ y = P * v + (y % P) /\ x % P \in Int
  BY <1>1, DivMod
<1>4. M = P * k
  BY DivMod
<1> HIDE DEF x, y, u, v, k
<1>5. x % P = y % P
  BY DEF x, y
<1>6. /\ P * u \in Int /\ P * v \in Int /\ P * k \in Int
      /\ P * (v - u) = P * v - P * u
      /\ P * (v - u + k) = P * (v - u) + P * k
      /\ P * (v - u - k) = P * (v - u) - P * k
  BY <1>2, Distribute
<1>7. y - x = P * (v - u)
  BY <1>1, <1>3, <1>5, <1>6
<1>8. PICK q \in {v - u, v - u + k, v - u - k} : j - i = P * q
  BY <1>1, <1>2, <1>4, <1>6, <1>7
<1>9. q \in Int
  BY <1>2
<1> QED
  BY <1>8, <1>9, SmallMultiple

\* Who is about to sleep has the lock, and who sleeps has nothing to read.
Waiting ==
  /\ pc \in [Process -> Points]
  /\ \A p \in Process : pc[p] = "sleep" => lock = p /\ r = w
  /\ \A p \in Process : pc[p] = "asleep" => r = w

LEMMA InitWaiting == Init => Waiting
  BY DEF Init, Waiting, Points

\* An interrupt handler has the lock: nobody is about to sleep, and a commit
\* leaves nobody asleep.
LEMMA ConsoleintrWaiting ==
  ASSUME Waiting, NEW t \in Typed, Consoleintr(t)
  PROVE  Waiting'
<1>1. lock = None /\ \A p \in Process : pc[p] # "sleep"
  BY NoneAssumption
     DEF Waiting, Consoleintr, TypeLine, TypeChar, InsertChar, Backspace, KillLine
<1>2. PICK c \in Char : TypeLine(c) \/ TypeChar(c) \/ Backspace \/ KillLine
  BY DEF Consoleintr, Char
<1>3. CASE TypeLine(c)
  BY <1>1, <1>3 DEF Waiting, TypeLine, InsertChar, Wakeup, Points
<1>4. CASE TypeChar(c)
  BY <1>1, <1>4 DEF Waiting, TypeChar, InsertChar
<1>5. CASE Backspace \/ KillLine
  BY <1>1, <1>5 DEF Waiting, Backspace, KillLine, Erased, procs
<1> QED
  BY <1>2, <1>3, <1>4, <1>5

\* A reader moves r only when it is not w, that is when nobody sleeps.
LEMMA ReadWaiting ==
  ASSUME Waiting, NEW p \in Process, Read(p)
  PROVE  Waiting'
<1>1. \A q \in Process : pc[q] = "sleep" => q # p /\ lock = q
  BY DEF Waiting, Read, ReadChars, ReadEof, ReadKilled, ReadWait, Section
<1>2. \A q \in Process : pc[q] # "sleep"
  BY <1>1, NoneAssumption
     DEF Read, ReadChars, ReadEof, ReadKilled, ReadWait, Section
<1>3. CASE ReadChars(p)
  BY <1>2, <1>3 DEF Waiting, ReadChars, Goto, Points
<1>4. CASE ReadEof(p)
  BY <1>2, <1>4 DEF Waiting, ReadEof, Goto, Points
<1>5. CASE ReadKilled(p)
  BY <1>2, <1>5 DEF Waiting, ReadKilled, Goto, Points, input
<1>6. CASE ReadWait(p)
  BY <1>2, <1>6 DEF Waiting, ReadWait, Goto, Points, input
<1> QED
  BY <1>3, <1>4, <1>5, <1>6 DEF Read

LEMMA NextWaiting == Waiting /\ [Next]_vars => Waiting'
<1> SUFFICES ASSUME Waiting, [Next]_vars
             PROVE  Waiting'
  OBVIOUS
<1>1. CASE \E t \in Typed : Consoleintr(t)
  BY <1>1, ConsoleintrWaiting
<1>2. ASSUME NEW p \in Process, Read(p)
      PROVE  Waiting'
  BY <1>2, ReadWaiting
<1>3. ASSUME NEW p \in Process, ReadCall(p) \/ SyscallReturn(p) \/ Exit(p)
      PROVE  Waiting'
  BY <1>3 DEF Waiting, ReadCall, SyscallReturn, Exit, Goto, Points, input, procs
<1>4. ASSUME NEW p \in Process, Sleep(p)
      PROVE  Waiting'
  <2>1. \A q \in Process : pc[q] = "sleep" => q = p
    BY <1>4 DEF Waiting, Sleep
  <2> QED
    BY <1>4, <2>1 DEF Waiting, Sleep, Goto, Points, input
<1>5. ASSUME NEW p \in Process, NEW q \in Process, Kill(p, q)
      PROVE  Waiting'
  BY <1>5 DEF Waiting, Kill, Points, input
<1>6. CASE UNCHANGED vars
  BY <1>6 DEF Waiting, vars, input, procs
<1> QED
  BY <1>1, <1>2, <1>3, <1>4, <1>5, <1>6 DEF Next

\* A process asleep in consoleread has no committed input to read, however
\* many readers, writers of the ring and kills interleave.
THEOREM NoWakeupIsLost == Spec => []NoLostWakeup
<1>1. Waiting => NoLostWakeup
  BY DEF Waiting, NoLostWakeup
<1> QED
  BY <1>1, InitWaiting, NextWaiting, PTL DEF Spec

----------------------------------------------------------------------------
(* The ring as the text it holds: the characters from r on.                *)

Cell == Char \cup {"nul"}

\* The character number k of the text, and how much of it is committed.
At(k) == buf[Slot(Plus(r, k - 1))]
Committed == Minus(w, r)
Filled == Minus(e, r)

\* The inductive invariant, in parts: what a read has taken holds no line end
\* while it goes on, a call has something left to transfer until it returns its
\* result ...
Calls ==
  /\ got \in [Process -> Seq(Cell)]
  /\ \A p \in Process :
       /\ pc[p] \in {"read", "sleep", "asleep"} =>
            /\ left[p] > 0
            /\ \A i \in 1..Len(got[p]) : got[p][i] \notin {Newline, EndMark}
       /\ pc[p] \in {"user", "ret"} => left[p] = 0
       /\ pc[p] = "user" => got[p] = <<>>
       /\ pc[p] # "ret" => result[p] = None

\* ... and the line that is being typed has no line end.
Editing ==
  \A k \in (Committed + 1)..Filled : At(k) \notin {Newline, EndMark}

IInv == TypeOK /\ Calls /\ Editing

LEMMA RingType ==
  ASSUME TypeOK
  PROVE  /\ r \in 0..(UintMod - 1) /\ w \in 0..(UintMod - 1) /\ e \in 0..(UintMod - 1)
         /\ Committed \in Nat /\ Filled \in Nat
         /\ Committed <= Filled /\ Filled <= INPUT_BUF
         /\ Minus(e, w) = Filled - Committed
         /\ w = Plus(r, Committed)
         /\ e = Plus(r, Filled)
<1>1. r \in 0..(UintMod - 1) /\ w \in 0..(UintMod - 1) /\ e \in 0..(UintMod - 1)
  BY DEF TypeOK
<1>2. UintMod \in Nat \ {0} /\ INPUT_BUF \in Nat \ {0} /\ INPUT_BUF < UintMod
  BY SizeAssumption
<1>3. Committed \in Nat /\ Committed = IF w >= r THEN w - r ELSE w - r + UintMod
  BY <1>1, <1>2, Distance DEF Committed, Minus
<1>4. Filled \in Nat /\ Filled = IF e >= r THEN e - r ELSE e - r + UintMod
  BY <1>1, <1>2, Distance DEF Filled, Minus
<1>5. Minus(e, w) = IF e >= w THEN e - w ELSE e - w + UintMod
  BY <1>1, <1>2, Distance DEF Minus
<1>6. Committed <= Filled /\ Filled <= INPUT_BUF
  BY DEF TypeOK, Committed, Filled
<1>7. Minus(e, w) = Filled - Committed
  BY <1>1, <1>2, <1>3, <1>4, <1>5, <1>6
<1>8. \A n \in 0..UintMod :
        Plus(r, n) = IF r + n < UintMod THEN r + n ELSE r + n - UintMod
  BY <1>1, <1>2, Step DEF Plus
<1>9. Committed \in 0..UintMod /\ Filled \in 0..UintMod
  BY <1>2, <1>3, <1>4, <1>6
<1>10. w = Plus(r, Committed)
  BY <1>1, <1>2, <1>3, <1>8, <1>9
<1>11. e = Plus(r, Filled)
  BY <1>1, <1>2, <1>4, <1>8, <1>9
<1> QED
  BY <1>1, <1>3, <1>4, <1>6, <1>7, <1>10, <1>11

LEMMA SameIndex ==
  ASSUME TypeOK
  PROVE  /\ r = w <=> Committed = 0
         /\ e = w <=> Filled = Committed
<1>1. r \in 0..(UintMod - 1) /\ w \in 0..(UintMod - 1) /\ e \in 0..(UintMod - 1)
      /\ UintMod \in Nat \ {0} /\ Minus(e, w) = Filled - Committed
      /\ Filled \in Nat /\ Committed \in Nat
  BY RingType, SizeAssumption
<1>2. Committed = IF w >= r THEN w - r ELSE w - r + UintMod
  BY <1>1, Distance DEF Committed, Minus
<1>3. Minus(e, w) = IF e >= w THEN e - w ELSE e - w + UintMod
  BY <1>1, Distance DEF Minus
<1> QED
  BY <1>1, <1>2, <1>3

LEMMA PlusType ==
  ASSUME NEW i \in Nat, NEW n \in Nat
  PROVE  Plus(i, n) \in 0..(UintMod - 1) /\ Slot(Plus(i, n)) \in 0..(INPUT_BUF - 1)
<1>1. UintMod \in Nat \ {0} /\ INPUT_BUF \in Nat \ {0} /\ i + n \in Nat
  BY SizeAssumption
<1>2. Plus(i, n) \in 0..(UintMod - 1)
  BY <1>1, DivMod DEF Plus
<1> QED
  BY <1>1, <1>2, DivMod DEF Slot

\* The characters of the text have places of their own.
LEMMA PlacesDiffer ==
  ASSUME TypeOK, NEW j \in 1..INPUT_BUF, NEW k \in 1..INPUT_BUF,
         Slot(Plus(r, j - 1)) = Slot(Plus(r, k - 1))
  PROVE  j = k
<1>1. j - 1 \in 0..(INPUT_BUF - 1) /\ k - 1 \in 0..(INPUT_BUF - 1) /\ r \in 0..(UintMod - 1)
  BY RingType, SizeAssumption
<1>2. INPUT_BUF \in Nat \ {0} /\ UintMod \in Nat /\ UintMod > INPUT_BUF
      /\ UintMod % INPUT_BUF = 0
  BY SizeAssumption
<1>3. j - 1 = k - 1
  BY <1>1, <1>2, SlotsDiffer DEF Slot, Plus
<1> QED
  BY <1>3, SizeAssumption

LEMMA AtType ==
  ASSUME TypeOK, NEW k \in Nat \ {0}
  PROVE  At(k) \in Cell
<1>1. r \in Nat /\ k - 1 \in Nat
  BY RingType, SizeAssumption
<1>2. Slot(Plus(r, k - 1)) \in 0..(INPUT_BUF - 1)
  BY <1>1, PlusType
<1> QED
  BY <1>2 DEF TypeOK, At, Cell

\* The n characters after the first m ones.
LEMMA CharsAt ==
  ASSUME TypeOK, NEW m \in Nat, NEW n \in Nat, m + n <= INPUT_BUF
  PROVE  /\ Chars(Plus(r, m), n) = [k \in 1..n |-> At(m + k)]
         /\ Chars(Plus(r, m), n) \in Seq(Cell)
         /\ Len(Chars(Plus(r, m), n)) = n
<1> DEFINE s == Chars(Plus(r, m), n)
<1>0. r \in 0..(UintMod - 1) /\ UintMod \in Nat \ {0} /\ INPUT_BUF \in Nat /\ INPUT_BUF < UintMod
  BY RingType, SizeAssumption
<1>1. ASSUME NEW k \in 1..n
      PROVE  Plus(Plus(r, m), k - 1) = Plus(r, (m + k) - 1)
  <2> DEFINE i == k - 1
  <2>1. i \in Nat /\ m + i < UintMod /\ (m + k) - 1 = m + i
    BY <1>0
  <2> HIDE DEF i
  <2>2. Plus(Plus(r, m), i) = Plus(r, m + i)
    BY <1>0, <2>1, StepStep DEF Plus
  <2>3. Plus(Plus(r, m), k - 1) = Plus(r, m + i)
    BY <2>2 DEF i
  <2> QED
    BY <2>1, <2>3
<1>2. s = [k \in 1..n |-> At(m + k)]
  BY <1>1 DEF Chars, At
<1>3. \A k \in 1..n : At(m + k) \in Cell
  BY AtType
<1> HIDE DEF s
<1>4. s \in [1..n -> Cell]
  BY <1>2, <1>3
<1>5. s \in Seq(Cell) /\ DOMAIN s = 1..n
  BY <1>4, SeqDef
<1>6. Len(s) = n
  BY <1>5, LenProperties
<1> QED
  BY <1>2, <1>5, <1>6 DEF s

\* The same from r on, where nothing is skipped.
LEMMA CharsFirst ==
  ASSUME TypeOK, NEW n \in 0..INPUT_BUF
  PROVE  /\ Chars(r, n) = [k \in 1..n |-> At(k)]
         /\ Chars(r, n) \in Seq(Cell)
         /\ Len(Chars(r, n)) = n
<1>1. r \in 0..(UintMod - 1) /\ UintMod \in Nat \ {0} /\ INPUT_BUF \in Nat
  BY RingType, SizeAssumption
<1>2. Plus(r, 0) = r
  <2>1. 0 \in 0..UintMod /\ r + 0 = r /\ r < UintMod
    BY <1>1
  <2> QED
    BY <1>1, <2>1, Step DEF Plus
<1>3. \A k \in 1..n : 0 + k = k
  BY <1>1
<1>4. /\ Chars(r, n) = [k \in 1..n |-> At(0 + k)]
      /\ Chars(r, n) \in Seq(Cell)
      /\ Len(Chars(r, n)) = n
  <2>1. 0 \in Nat /\ n \in Nat /\ 0 + n <= INPUT_BUF
    BY <1>1
  <2> QED
    BY <1>2, <2>1, CharsAt
<1> QED
  BY <1>3, <1>4

\* Two texts that agree in length and characters are equal.
LEMMA SameText ==
  ASSUME NEW s \in Seq(Cell), NEW t, NEW n \in Nat,
         t = [k \in 1..n |-> t[k]], Len(s) = n, \A k \in 1..n : t[k] = s[k]
  PROVE  s = t
<1>1. s = [k \in 1..n |-> s[k]]
  BY LenProperties
<1> QED
  BY <1>1

----------------------------------------------------------------------------
(* What the steps do to the text.                                          *)

LEMMA Inserts ==
  ASSUME TypeOK, NEW c \in Char, InsertChar(c)
  PROVE  /\ Filled < INPUT_BUF /\ Filled' = Filled + 1
         /\ e' \in 0..(UintMod - 1) /\ buf' \in [0..(INPUT_BUF - 1) -> Cell]
         /\ \A k \in 1..Filled : At(k)' = At(k)
         /\ \A k \in {Filled + 1} : At(k)' = c
         /\ Commits(c) <=> c \in {Newline, EndMark} \/ Filled + 1 = INPUT_BUF
<1>0. /\ r \in 0..(UintMod - 1) /\ e \in 0..(UintMod - 1) /\ e = Plus(r, Filled)
      /\ Filled \in Nat /\ Filled <= INPUT_BUF
      /\ UintMod \in Nat \ {0} /\ INPUT_BUF \in Nat \ {0} /\ INPUT_BUF < UintMod
  BY RingType, SizeAssumption
<1>1. Filled < INPUT_BUF
  BY <1>0 DEF InsertChar, Full, Filled
<1>2. r' = r /\ e' = Plus(e, 1) /\ buf' = [buf EXCEPT ![Slot(e)] = c]
  BY DEF InsertChar
<1>3. e' \in 0..(UintMod - 1)
  BY <1>0, <1>2, PlusType
<1>4. Filled' = Filled + 1
  <2>1. ((e - r) % UintMod) + 1 < UintMod /\ 1 \in Nat
    BY <1>0, <1>1 DEF Filled, Minus
  <2>2. (((e + 1) % UintMod) - r) % UintMod = ((e - r) % UintMod) + 1
    BY <1>0, <2>1, PutDistance
  <2> QED
    BY <1>2, <2>2 DEF Filled, Minus, Plus
<1>5. Slot(e) = Slot(Plus(r, (Filled + 1) - 1))
  BY <1>0
<1>6. Slot(e) \in 0..(INPUT_BUF - 1)
  BY <1>0, PlusType
<1>7. buf' \in [0..(INPUT_BUF - 1) -> Cell]
  BY <1>2 DEF TypeOK, Cell
<1>8. \A k \in 1..Filled : At(k)' = At(k)
  <2> SUFFICES ASSUME NEW k \in 1..Filled PROVE At(k)' = At(k)
    OBVIOUS
  <2> DEFINE i == Filled + 1
  <2>1. k \in 1..INPUT_BUF /\ i \in 1..INPUT_BUF /\ k # i
    BY <1>0, <1>1
  <2>2. Slot(e) = Slot(Plus(r, i - 1))
    BY <1>5
  <2> HIDE DEF i
  <2>3. Slot(Plus(r, k - 1)) # Slot(e)
    BY <2>1, <2>2, PlacesDiffer
  <2>4. r \in Nat /\ k - 1 \in Nat
    BY <1>0, <2>1
  <2>5. Slot(Plus(r, k - 1)) \in 0..(INPUT_BUF - 1)
    BY <2>4, PlusType
  <2> QED
    BY <1>2, <2>3, <2>5 DEF At, TypeOK
<1>9. \A k \in {Filled + 1} : At(k)' = c
  BY <1>2, <1>5, <1>6 DEF At, TypeOK
<1>10. Plus(e, 1) = Plus(r, INPUT_BUF) <=> Filled + 1 = INPUT_BUF
  <2>0. 1 \in 0..UintMod /\ INPUT_BUF \in 0..UintMod
    BY <1>0
  <2>1. Plus(r, INPUT_BUF) = IF r + INPUT_BUF < UintMod THEN r + INPUT_BUF
                                                       ELSE r + INPUT_BUF - UintMod
    BY <1>0, <2>0, Step DEF Plus
  <2>2. Plus(e, 1) = IF e + 1 < UintMod THEN e + 1 ELSE e + 1 - UintMod
    BY <1>0, <2>0, Step DEF Plus
  <2>3. Filled = IF e >= r THEN e - r ELSE e - r + UintMod
    BY <1>0, Distance DEF Filled, Minus
  <2> QED
    BY <1>0, <1>1, <2>1, <2>2, <2>3
<1> QED
  BY <1>1, <1>3, <1>4, <1>7, <1>8, <1>9, <1>10 DEF Commits

LEMMA Erases ==
  ASSUME TypeOK, NEW n \in 0..(Filled - Committed), Erased(n)
  PROVE  /\ e' \in 0..(UintMod - 1)
         /\ Filled' = Filled - n /\ Committed' = Committed
         /\ \A k \in Nat : At(k)' = At(k)
<1>0. /\ r \in 0..(UintMod - 1) /\ e \in 0..(UintMod - 1)
      /\ Filled \in Nat /\ Filled <= INPUT_BUF /\ Committed \in Nat
      /\ UintMod \in Nat \ {0} /\ INPUT_BUF \in Nat \ {0} /\ INPUT_BUF < UintMod
  BY RingType, SizeAssumption
<1>1. UNCHANGED <<buf, r, w>> /\ e' = Minus(e, n) /\ n \in 0..(UintMod - 1) /\ n <= Filled
  BY <1>0 DEF Erased
<1>2. e' \in 0..(UintMod - 1) /\ e' = IF e >= n THEN e - n ELSE e - n + UintMod
  BY <1>0, <1>1, Distance DEF Minus
<1>3. Filled = IF e >= r THEN e - r ELSE e - r + UintMod
  BY <1>0, Distance DEF Filled, Minus
<1>4. Filled' = IF e' >= r THEN e' - r ELSE e' - r + UintMod
  BY <1>0, <1>1, <1>2, Distance DEF Filled, Minus
<1>5. Filled' = Filled - n
  BY <1>0, <1>1, <1>2, <1>3, <1>4
<1> QED
  BY <1>1, <1>2, <1>5 DEF Committed, At

LEMMA Takes ==
  ASSUME TypeOK, NEW n \in 0..Committed, r' = Plus(r, n), UNCHANGED <<buf, w, e>>
  PROVE  /\ r' \in 0..(UintMod - 1)
         /\ Committed' = Committed - n /\ Filled' = Filled - n
         /\ \A k \in 1..(INPUT_BUF - n) : At(k)' = At(n + k)
<1>0. /\ r \in 0..(UintMod - 1) /\ e \in 0..(UintMod - 1) /\ w \in 0..(UintMod - 1)
      /\ Committed \in Nat /\ Filled \in Nat
      /\ Committed <= Filled /\ Filled <= INPUT_BUF
      /\ UintMod \in Nat \ {0} /\ INPUT_BUF \in Nat \ {0} /\ INPUT_BUF < UintMod
      /\ n \in Nat /\ n <= Committed
  BY RingType, SizeAssumption
<1>1. r' \in 0..(UintMod - 1)
  BY <1>0, PlusType
<1>2. Committed' = Committed - n
  <2>1. n <= (w - r) % UintMod
    BY <1>0 DEF Committed, Minus
  <2>2. (w - ((r + n) % UintMod)) % UintMod = ((w - r) % UintMod) - n
    BY <1>0, <2>1, GetDistance
  <2> QED
    BY <2>2 DEF Committed, Minus, Plus
<1>3. Filled' = Filled - n
  <2>1. n <= (e - r) % UintMod
    BY <1>0 DEF Filled, Minus
  <2>2. (e - ((r + n) % UintMod)) % UintMod = ((e - r) % UintMod) - n
    BY <1>0, <2>1, GetDistance
  <2> QED
    BY <2>2 DEF Filled, Minus, Plus
<1>4. ASSUME NEW k \in 1..(INPUT_BUF - n)
      PROVE  At(k)' = At(n + k)
  <2> DEFINE i == k - 1
  <2>1. i \in Nat /\ n + i < UintMod /\ (n + k) - 1 = n + i
    BY <1>0
  <2> HIDE DEF i
  <2>2. Plus(Plus(r, n), i) = Plus(r, n + i)
    BY <1>0, <2>1, StepStep DEF Plus
  <2>3. Plus(r', k - 1) = Plus(r, n + i)
    BY <2>2 DEF i
  <2>4. Plus(r', k - 1) = Plus(r, (n + k) - 1)
    BY <2>1, <2>3
  <2> QED
    BY <2>4 DEF At
<1> QED
  BY <1>1, <1>2, <1>3, <1>4

\* A nonempty set of numbers has a least one.
LEMMA MinProperties ==
  ASSUME NEW S \in SUBSET Nat, S # {}
  PROVE  Min(S) \in S /\ \A y \in S : Min(S) <= y
<1>1. PICK x \in S : \A y \in S : <<y, x>> \notin OpToRel(<, Nat)
  BY WFMin, NatLessThanWellFounded, Zenon
<1>2. \A y \in S : ~(y < x)
  BY <1>1 DEF OpToRel
<1>3. \A y \in S : x <= y
  BY <1>2
<1> QED
  BY <1>3 DEF Min

\* What the loop of consoleread takes: as much as is asked for and committed,
\* and no line end but the last character.
LEMMA TakenChars ==
  ASSUME TypeOK, Calls, NEW p \in Process, pc[p] = "read", r # w
  PROVE  /\ Taken(p) \in 1..Committed /\ Taken(p) <= left[p]
         /\ Last(p) = At(Taken(p))
         /\ \A k \in 1..(Taken(p) - 1) : At(k) \notin {Newline, EndMark}
         /\ \/ Taken(p) = left[p] \/ Taken(p) = Committed
            \/ Last(p) \in {Newline, EndMark}
<1> DEFINE stop == {k \in 1..Committed :
                     k = left[p] \/ k = Committed \/ At(k) \in {Newline, EndMark}}
<1>1. Committed \in Nat /\ Committed > 0
  BY RingType, SameIndex
<1>2. left[p] \in Nat /\ left[p] > 0
  BY SizeAssumption DEF TypeOK, Calls
<1>3. Taken(p) = Min(stop)
  BY DEF Taken, Committed, At
<1>4. Committed \in stop /\ stop \in SUBSET Nat
  BY <1>1
<1>5. Taken(p) \in stop /\ \A k \in stop : Taken(p) <= k
  <2> HIDE DEF stop
  <2> QED
    BY <1>3, <1>4, MinProperties
<1>6. Taken(p) \in 1..Committed
  BY <1>5
<1>7. Taken(p) <= left[p]
  <2>1. left[p] <= Committed => left[p] \in stop
    BY <1>1, <1>2
  <2> QED
    BY <1>1, <1>2, <1>5, <1>6, <2>1
<1>8. Last(p) = At(Taken(p))
  BY DEF Last, At
<1>9. \A k \in 1..(Taken(p) - 1) : At(k) \notin {Newline, EndMark}
  <2> SUFFICES ASSUME NEW k \in 1..(Taken(p) - 1) PROVE k \notin stop /\ k \in 1..Committed
    OBVIOUS
  <2> QED
    BY <1>1, <1>5, <1>6
<1> QED
  BY <1>5, <1>6, <1>7, <1>8, <1>9

----------------------------------------------------------------------------
(* The invariant is inductive.                                             *)

\* TypeOK is about the ring and about the processes.
RingOK ==
  /\ r \in 0..(UintMod - 1) /\ w \in 0..(UintMod - 1) /\ e \in 0..(UintMod - 1)
  /\ Committed <= Filled /\ Filled <= INPUT_BUF
  /\ Filled = INPUT_BUF => w = e
  /\ buf \in [0..(INPUT_BUF - 1) -> Cell]

ProcsOK ==
  /\ lock \in Process \cup {None}
  /\ pc \in [Process -> Points]
  /\ left \in [Process -> 0..MaxN]
  /\ \A p \in Process : Len(got[p]) + left[p] <= MaxN
  /\ result \in [Process -> {None, "done", "eof", "failed"}]
  /\ killed \subseteq Process

LEMMA TypeParts == TypeOK <=> RingOK /\ ProcsOK
  BY DEF TypeOK, RingOK, ProcsOK, Committed, Filled, Full, Cell

LEMMA NextParts == (RingOK /\ ProcsOK /\ Calls /\ Editing)' => IInv'
  BY DEF IInv, TypeOK, RingOK, ProcsOK, Committed, Filled, Full, Cell

LEMMA InitIInv == Init => IInv
<1> SUFFICES ASSUME Init PROVE IInv
  OBVIOUS
<1>1. UintMod \in Nat \ {0} /\ INPUT_BUF \in Nat \ {0} /\ MaxN \in Nat
  BY SizeAssumption
<1>2. r = 0 /\ w = 0 /\ e = 0 /\ 0 \in 0..(UintMod - 1)
  BY <1>1 DEF Init
<1>3. Committed = 0 /\ Filled = 0
  BY <1>1, <1>2, Distance DEF Committed, Filled, Minus
<1>4. RingOK
  BY <1>1, <1>2, <1>3 DEF RingOK, Init, Cell
<1>5. got \in [Process -> Seq(Cell)] /\ \A p \in Process : Len(got[p]) = 0
  BY EmptySeq DEF Init
<1>6. ProcsOK
  BY <1>1, <1>5 DEF ProcsOK, Init, Points
<1>7. Calls
  BY <1>5 DEF Calls, Init
<1>8. Editing
  BY <1>1, <1>3 DEF Editing
<1> QED
  BY <1>4, <1>6, <1>7, <1>8, TypeParts DEF IInv

\* A step of the ring that at most wakes processes.
LEMMA WakesOnly ==
  ASSUME ProcsOK, Calls, Wakeup \/ UNCHANGED pc,
         UNCHANGED <<lock, left, got, result, killed>>
  PROVE  ProcsOK' /\ Calls'
<1>1. pc' \in [Process -> Points]
  BY DEF ProcsOK, Wakeup, Points
<1>2. \A p \in Process : pc'[p] = pc[p] \/ (pc[p] = "asleep" /\ pc'[p] = "read")
  BY DEF ProcsOK, Wakeup
<1> QED
  BY <1>1, <1>2 DEF ProcsOK, Calls

LEMMA TypeIInv ==
  ASSUME IInv, NEW c \in Char, TypeLine(c) \/ TypeChar(c)
  PROVE  IInv'
<1>0. TypeOK /\ Calls /\ Editing /\ RingOK /\ ProcsOK
  BY TypeParts DEF IInv
<1>1. InsertChar(c)
  BY DEF TypeLine, TypeChar
<1>2. /\ Filled < INPUT_BUF /\ Filled' = Filled + 1
      /\ e' \in 0..(UintMod - 1) /\ buf' \in [0..(INPUT_BUF - 1) -> Cell]
      /\ \A k \in 1..Filled : At(k)' = At(k)
      /\ \A k \in {Filled + 1} : At(k)' = c
      /\ Commits(c) <=> c \in {Newline, EndMark} \/ Filled + 1 = INPUT_BUF
  BY <1>0, <1>1, Inserts
<1>3. Committed \in Nat /\ Filled \in Nat /\ Committed <= Filled /\ INPUT_BUF \in Nat
  BY <1>0, RingType, SizeAssumption
<1>4. r' = r /\ UNCHANGED <<lock, left, got, result, killed>>
  BY <1>1 DEF InsertChar
<1>5. CASE TypeLine(c)
  <2>1. w' = e' /\ Wakeup
    BY <1>1, <1>5 DEF TypeLine, InsertChar
  <2>2. Committed' = Filled'
    BY <2>1 DEF Committed, Filled
  <2>3. RingOK'
    BY <1>0, <1>2, <1>3, <1>4, <2>1, <2>2 DEF RingOK
  <2>4. Editing'
    BY <1>2, <1>3, <2>2 DEF Editing
  <2> QED
    BY <1>0, <1>4, <2>1, <2>3, <2>4, WakesOnly, NextParts
<1>6. CASE TypeChar(c)
  <2>1. w' = w /\ UNCHANGED pc /\ ~Commits(c)
    BY <1>6 DEF TypeChar
  <2>2. Committed' = Committed
    BY <1>4, <2>1 DEF Committed
  <2>3. RingOK'
    BY <1>0, <1>2, <1>3, <1>4, <2>1, <2>2 DEF RingOK
  <2>4. Editing'
    BY <1>0, <1>2, <1>3, <2>1, <2>2 DEF Editing
  <2> QED
    BY <1>0, <1>4, <2>1, <2>3, <2>4, WakesOnly, NextParts
<1> QED
  BY <1>5, <1>6

LEMMA EraseIInv ==
  ASSUME IInv, NEW n \in 1..(Filled - Committed), Erased(n)
  PROVE  IInv'
<1>0. TypeOK /\ Calls /\ Editing /\ RingOK /\ ProcsOK
  BY TypeParts DEF IInv
<1>1. Committed \in Nat /\ Filled \in Nat /\ Committed <= Filled /\ INPUT_BUF \in Nat
  BY <1>0, RingType, SizeAssumption
<1>2. /\ e' \in 0..(UintMod - 1)
      /\ Filled' = Filled - n /\ Committed' = Committed
      /\ \A k \in Nat : At(k)' = At(k)
  BY <1>0, <1>1, Erases
<1>3. UNCHANGED <<buf, r, w, lock, pc, left, got, result, killed>>
  BY DEF Erased, procs
<1>4. RingOK'
  BY <1>0, <1>1, <1>2, <1>3 DEF RingOK
<1>5. Editing'
  BY <1>0, <1>1, <1>2 DEF Editing
<1> QED
  BY <1>0, <1>3, <1>4, <1>5, WakesOnly, NextParts

\* How much backspace and kill line erase: the line at most.
LEMMA ErasedChars ==
  ASSUME IInv, Backspace \/ KillLine
  PROVE  \/ Backspace /\ Filled > Committed /\ Erased(1)
         \/ KillLine /\ Filled > Committed /\ Erased(Filled - Committed)
<1>0. TypeOK /\ Editing
  BY DEF IInv
<1>1. /\ Committed \in Nat /\ Filled \in Nat /\ Committed <= Filled
      /\ Minus(e, w) = Filled - Committed /\ Filled <= INPUT_BUF
      /\ r \in 0..(UintMod - 1) /\ e \in 0..(UintMod - 1) /\ e = Plus(r, Filled)
      /\ UintMod \in Nat \ {0} /\ INPUT_BUF < UintMod /\ INPUT_BUF \in Nat
  BY <1>0, RingType, SizeAssumption
<1>2. Filled > Committed
  BY <1>0, <1>1, SameIndex DEF Backspace, KillLine
<1>3. ASSUME NEW k \in 1..(Filled - Committed)
      PROVE  buf[Slot(Minus(e, k))] # Newline
  <2> DEFINE m == Filled - k
  <2>1. /\ m \in 0..UintMod /\ m + 1 \in (Committed + 1)..Filled /\ (m + 1) - 1 = m
        /\ k \in 0..(UintMod - 1) /\ k <= Filled
    BY <1>1
  <2>2. Minus(e, k) = IF e >= k THEN e - k ELSE e - k + UintMod
    BY <1>1, <2>1, Distance DEF Minus
  <2>3. Plus(r, m) = IF r + m < UintMod THEN r + m ELSE r + m - UintMod
    BY <1>1, <2>1, Step DEF Plus
  <2>4. e = IF r + Filled < UintMod THEN r + Filled ELSE r + Filled - UintMod
    <3>1. Filled \in 0..UintMod
      BY <1>1
    <3> QED
      BY <1>1, <3>1, Step DEF Plus
  <2>5. Minus(e, k) = Plus(r, m)
    BY <1>1, <2>1, <2>2, <2>3, <2>4
  <2> HIDE DEF m
  <2>6. buf[Slot(Minus(e, k))] = At(m + 1)
    BY <2>1, <2>5 DEF At
  <2> QED
    BY <1>0, <2>1, <2>6 DEF Editing
<1>4. {k \in 1..Minus(e, w) : buf[Slot(Minus(e, k))] = Newline} = {}
  BY <1>1, <1>3
<1> QED
  BY <1>1, <1>2, <1>4 DEF Backspace, KillLine

\* What a reader does to the processes: only p changes.
LEMMA ReaderOnly ==
  ASSUME ProcsOK, Calls, NEW p \in Process,
         UNCHANGED killed, lock' \in {lock, p, None},
         NEW l \in Points, NEW n \in 0..MaxN, NEW s \in Seq(Cell),
         NEW v \in {None, "done", "eof", "failed"},
         pc' = [pc EXCEPT ![p] = l], left' = [left EXCEPT ![p] = n],
         got' = [got EXCEPT ![p] = s], result' = [result EXCEPT ![p] = v],
         Len(s) + n <= MaxN,
         l \in {"read", "sleep", "asleep"} =>
           n > 0 /\ \A i \in 1..Len(s) : s[i] \notin {Newline, EndMark},
         l \in {"user", "ret"} => n = 0,
         l = "user" => s = <<>>,
         l # "ret" => v = None
  PROVE  ProcsOK' /\ Calls'
<1>1. \A q \in Process :
        /\ pc'[q] = IF q = p THEN l ELSE pc[q]
        /\ left'[q] = IF q = p THEN n ELSE left[q]
        /\ got'[q] = IF q = p THEN s ELSE got[q]
        /\ result'[q] = IF q = p THEN v ELSE result[q]
  BY DEF ProcsOK, Calls
<1>2. /\ pc' \in [Process -> Points] /\ left' \in [Process -> 0..MaxN]
      /\ got' \in [Process -> Seq(Cell)]
      /\ result' \in [Process -> {None, "done", "eof", "failed"}]
      /\ lock' \in Process \cup {None} /\ killed' \subseteq Process
  BY DEF ProcsOK, Calls
<1>3. \A q \in Process : Len(got'[q]) + left'[q] <= MaxN
  BY <1>1 DEF ProcsOK
<1>4. ProcsOK'
  BY <1>2, <1>3 DEF ProcsOK
<1>5. ASSUME NEW q \in Process
      PROVE  /\ pc'[q] \in {"read", "sleep", "asleep"} =>
                  /\ left'[q] > 0
                  /\ \A i \in 1..Len(got'[q]) : got'[q][i] \notin {Newline, EndMark}
             /\ pc'[q] \in {"user", "ret"} => left'[q] = 0
             /\ pc'[q] = "user" => got'[q] = <<>>
             /\ pc'[q] # "ret" => result'[q] = None
  <2>1. CASE q = p
    BY <1>1, <2>1
  <2>2. CASE q # p
    BY <1>1, <2>2 DEF Calls
  <2> QED
    BY <2>1, <2>2
<1> QED
  BY <1>2, <1>4, <1>5 DEF Calls

\* The text after some of its committed characters have been taken.
LEMMA TakeRing ==
  ASSUME TypeOK, Editing, NEW m \in 0..Committed, r' = Plus(r, m), UNCHANGED <<buf, w, e>>
  PROVE  RingOK' /\ Editing'
<1>0. /\ Committed \in Nat /\ Filled \in Nat /\ Committed <= Filled
      /\ Filled <= INPUT_BUF /\ INPUT_BUF \in Nat
  BY RingType, SizeAssumption
<1>1. /\ r' \in 0..(UintMod - 1)
      /\ Committed' = Committed - m /\ Filled' = Filled - m
      /\ \A k \in 1..(INPUT_BUF - m) : At(k)' = At(m + k)
  BY Takes
<1>2. RingOK
  BY TypeParts
<1>3. RingOK'
  BY <1>0, <1>1, <1>2 DEF RingOK
<1>4. Editing'
  <2> SUFFICES ASSUME NEW k \in (Committed' + 1)..Filled'
               PROVE  At(k)' \notin {Newline, EndMark}
    BY DEF Editing
  <2>1. k \in 1..(INPUT_BUF - m) /\ m + k \in (Committed + 1)..Filled
    BY <1>0, <1>1
  <2> QED
    BY <1>1, <2>1 DEF Editing
<1> QED
  BY <1>3, <1>4

\* What a read has when it has taken n characters more.
LEMMA GotChars ==
  ASSUME TypeOK, Calls, NEW p \in Process, pc[p] = "read", NEW n \in 0..Committed
  PROVE  LET s == got[p] \o Chars(r, n)
         IN  /\ s \in Seq(Cell) /\ Len(s) = Len(got[p]) + n /\ Len(got[p]) \in Nat
             /\ \A i \in 1..Len(got[p]) : s[i] \notin {Newline, EndMark}
             /\ \A i \in (Len(got[p]) + 1)..Len(s) : s[i] = At(i - Len(got[p]))
<1> DEFINE g == got[p]
           c == Chars(r, n)
<1>1. /\ c = [k \in 1..n |-> At(k)] /\ c \in Seq(Cell) /\ Len(c) = n
  <2>1. n \in 0..INPUT_BUF
    BY RingType, SizeAssumption
  <2> QED
    BY <2>1, CharsFirst
<1>2. g \in Seq(Cell) /\ \A i \in 1..Len(g) : g[i] \notin {Newline, EndMark}
  BY DEF Calls
<1>3. n \in Nat
  BY RingType
<1>4. \A k \in 1..n : c[k] = At(k)
  BY <1>1
<1> HIDE DEF g, c
<1>5. /\ g \o c \in Seq(Cell)
      /\ Len(g \o c) = Len(g) + n
      /\ \A i \in 1..(Len(g) + n) : (g \o c)[i] = IF i <= Len(g) THEN g[i] ELSE c[i - Len(g)]
  BY <1>1, <1>2, ConcatProperties
<1>6. Len(g) \in Nat
  BY <1>2, LenProperties
<1>7. \A i \in 1..Len(g) : (g \o c)[i] \notin {Newline, EndMark}
  BY <1>2, <1>3, <1>5, <1>6
<1>8. \A i \in (Len(g) + 1)..(Len(g) + n) : (g \o c)[i] = At(i - Len(g))
  <2> SUFFICES ASSUME NEW i \in (Len(g) + 1)..(Len(g) + n)
               PROVE  (g \o c)[i] = At(i - Len(g))
    OBVIOUS
  <2>1. i \in 1..(Len(g) + n) /\ ~(i <= Len(g)) /\ i - Len(g) \in 1..n
    BY <1>3, <1>6
  <2> QED
    BY <1>4, <1>5, <2>1
<1> QED
  BY <1>5, <1>6, <1>7, <1>8 DEF g, c

LEMMA ReadCharsIInv ==
  ASSUME IInv, NEW p \in Process, ReadChars(p)
  PROVE  IInv'
<1>0. TypeOK /\ Calls /\ Editing /\ RingOK /\ ProcsOK
  BY TypeParts DEF IInv
<1> DEFINE n == Taken(p)
           s == got[p] \o Chars(r, n)
<1>1. pc[p] = "read" /\ r # w /\ Last(p) # EndMark
  BY DEF ReadChars, Section
<1>2. /\ n \in 1..Committed /\ n <= left[p] /\ Last(p) = At(n)
      /\ \A k \in 1..(n - 1) : At(k) \notin {Newline, EndMark}
  BY <1>0, <1>1, TakenChars
<1>3. /\ Committed \in Nat /\ Committed <= Filled /\ Filled <= INPUT_BUF
      /\ INPUT_BUF \in Nat /\ MaxN \in Nat /\ left[p] \in 0..MaxN
      /\ Len(got[p]) + left[p] <= MaxN
  BY <1>0, RingType, SizeAssumption DEF ProcsOK
<1>4. /\ r' = Plus(r, n) /\ UNCHANGED <<buf, w, e, killed>>
      /\ got' = [got EXCEPT ![p] = s]
  BY DEF ReadChars
<1>5. n \in 0..Committed
  BY <1>2, <1>3
<1>6. RingOK' /\ Editing'
  <2> HIDE DEF n, s
  <2> QED
    BY <1>0, <1>4, <1>5, TakeRing
<1>7. /\ s \in Seq(Cell) /\ Len(s) = Len(got[p]) + n /\ Len(got[p]) \in Nat
      /\ \A i \in 1..Len(got[p]) : s[i] \notin {Newline, EndMark}
      /\ \A i \in (Len(got[p]) + 1)..Len(s) : s[i] = At(i - Len(got[p]))
  BY <1>0, <1>1, <1>5, GotChars
<1>8. CASE n = left[p] \/ Last(p) = Newline
  <2>1. /\ left' = [left EXCEPT ![p] = 0] /\ pc' = [pc EXCEPT ![p] = "ret"]
        /\ result' = [result EXCEPT ![p] = "done"] /\ lock' = lock
    BY <1>8 DEF ReadChars, Goto, Return
  <2>2. Len(s) + 0 <= MaxN /\ 0 \in 0..MaxN
    BY <1>2, <1>3, <1>7
  <2> HIDE DEF n, s
  <2>3. ProcsOK' /\ Calls'
    BY <1>0, <1>4, <1>7, <2>1, <2>2, ReaderOnly DEF Points
  <2> QED
    BY <1>6, <2>3, NextParts
<1>9. CASE ~(n = left[p] \/ Last(p) = Newline)
  <2> DEFINE m == left[p] - n
  <2>1. /\ left' = [left EXCEPT ![p] = m] /\ pc' = pc
        /\ result' = result /\ lock' = p
    BY <1>9 DEF ReadChars, m
  <2>2. Len(s) + m <= MaxN /\ m \in 0..MaxN /\ m > 0
    BY <1>2, <1>3, <1>7, <1>9
  <2>3. pc' = [pc EXCEPT ![p] = "read"] /\ result' = [result EXCEPT ![p] = None]
    BY <1>0, <1>1, <2>1 DEF ProcsOK, Calls
  <2>4. ASSUME NEW i \in 1..Len(s)
        PROVE  s[i] \notin {Newline, EndMark}
    <3>1. CASE i <= Len(got[p])
      BY <1>7, <3>1
    <3>2. CASE ~(i <= Len(got[p]))
      <4>1. i - Len(got[p]) \in 1..n /\ s[i] = At(i - Len(got[p]))
        BY <1>2, <1>3, <1>7, <3>2
      <4>2. At(n) \notin {Newline, EndMark}
        BY <1>1, <1>2, <1>9
      <4>3. \A k \in 1..n : At(k) \notin {Newline, EndMark}
        <5>1. \A k \in 1..n : k = n \/ k \in 1..(n - 1)
          BY <1>2, <1>3
        <5> HIDE DEF n, s
        <5> QED
          BY <1>2, <4>2, <5>1
      <4> QED
        BY <4>1, <4>3
    <3> QED
      BY <3>1, <3>2
  <2> HIDE DEF n, s, m
  <2>5. ProcsOK' /\ Calls'
    BY <1>0, <1>4, <1>7, <2>1, <2>2, <2>3, <2>4, ReaderOnly DEF Points
  <2> QED
    BY <1>6, <2>5, NextParts
<1> QED
  BY <1>8, <1>9

LEMMA ReadEofIInv ==
  ASSUME IInv, NEW p \in Process, ReadEof(p)
  PROVE  IInv'
<1>0. TypeOK /\ Calls /\ Editing /\ RingOK /\ ProcsOK
  BY TypeParts DEF IInv
<1> DEFINE n == Taken(p) - 1
           s == got[p] \o Chars(r, n)
<1>1. pc[p] = "read" /\ r # w /\ Last(p) = EndMark
  BY DEF ReadEof, Section
<1>2. Taken(p) \in 1..Committed /\ Taken(p) <= left[p]
  BY <1>0, <1>1, TakenChars
<1>3. /\ Committed \in Nat /\ MaxN \in Nat /\ left[p] \in 0..MaxN
      /\ Len(got[p]) + left[p] <= MaxN
  BY <1>0, RingType, SizeAssumption DEF ProcsOK
<1>4. n \in 0..Committed /\ 1 \in 0..Committed /\ n <= left[p]
  BY <1>2, <1>3
<1>5. s \in Seq(Cell) /\ Len(s) = Len(got[p]) + n /\ Len(got[p]) \in Nat
  BY <1>0, <1>1, <1>4, GotChars
<1>6. /\ UNCHANGED <<buf, w, e, lock, killed>>
      /\ got' = [got EXCEPT ![p] = s]
      /\ left' = [left EXCEPT ![p] = 0] /\ pc' = [pc EXCEPT ![p] = "ret"]
      /\ \/ r' = Plus(r, n) /\ result' = [result EXCEPT ![p] = "done"]
         \/ r' = Plus(r, 1) /\ result' = [result EXCEPT ![p] = "eof"]
  BY DEF ReadEof, Goto, Return
<1> HIDE DEF n, s
<1>7. Len(s) + 0 <= MaxN /\ 0 \in 0..MaxN
  <2>1. n \in Nat
    BY <1>3, <1>4
  <2> QED
    BY <1>3, <1>4, <1>5, <2>1
<1>8. RingOK' /\ Editing'
  BY <1>0, <1>4, <1>6, TakeRing
<1>9. PICK v \in {"done", "eof"} : result' = [result EXCEPT ![p] = v]
  BY <1>6
<1>10. ProcsOK' /\ Calls'
  BY <1>0, <1>5, <1>6, <1>7, <1>9, ReaderOnly DEF Points
<1> QED
  BY <1>8, <1>10, NextParts

\* The steps of a process that leave the ring alone.
LEMMA ProcessIInv ==
  ASSUME IInv, UNCHANGED input, ProcsOK' /\ Calls'
  PROVE  IInv'
<1>1. RingOK' /\ Editing'
  BY TypeParts DEF IInv, input, RingOK, Editing, Committed, Filled, At
<1> QED
  BY <1>1, NextParts

LEMMA ReadIInv ==
  ASSUME IInv, NEW p \in Process, Read(p)
  PROVE  IInv'
<1>0. Calls /\ ProcsOK
  BY TypeParts DEF IInv
<1>1. CASE ReadChars(p)
  BY <1>1, ReadCharsIInv
<1>2. CASE ReadEof(p)
  BY <1>2, ReadEofIInv
<1>3. CASE ReadKilled(p)
  <2>1. 0 \in 0..MaxN /\ Len(<<>>) + 0 <= MaxN /\ <<>> \in Seq(Cell)
    BY SizeAssumption, EmptySeq
  <2>2. ProcsOK' /\ Calls'
    BY <1>0, <1>3, <2>1, ReaderOnly DEF ReadKilled, Goto, Return, Points
  <2> QED
    BY <1>3, <2>2, ProcessIInv DEF ReadKilled
<1>4. CASE ReadWait(p)
  <2>1. ProcsOK' /\ Calls'
    BY <1>0, <1>4 DEF ReadWait, Section, Goto, ProcsOK, Calls, Points
  <2> QED
    BY <1>4, <2>1, ProcessIInv DEF ReadWait
<1> QED
  BY <1>1, <1>2, <1>3, <1>4 DEF Read

LEMMA CallIInv ==
  ASSUME IInv, NEW p \in Process,
         ReadCall(p) \/ Sleep(p) \/ SyscallReturn(p) \/ Exit(p)
  PROVE  IInv'
<1>0. Calls /\ ProcsOK
  BY TypeParts DEF IInv
<1>1. CASE ReadCall(p)
  <2>1. PICK n \in 1..MaxN : left' = [left EXCEPT ![p] = n]
    BY <1>1 DEF ReadCall
  <2>2. pc[p] = "user" /\ got[p] = <<>> /\ result[p] = None
    BY <1>0, <1>1 DEF ReadCall, User, Calls
  <2>3. n \in 0..MaxN /\ n > 0 /\ Len(<<>>) + n <= MaxN /\ Len(<<>>) = 0 /\ <<>> \in Seq(Cell)
    BY SizeAssumption, EmptySeq
  <2>4. got' = [got EXCEPT ![p] = <<>>] /\ result' = [result EXCEPT ![p] = None]
    BY <1>0, <1>1, <2>2 DEF ReadCall, ProcsOK, Calls
  <2>5. \A i \in 1..Len(<<>>) : <<>>[i] \notin {Newline, EndMark}
    BY <2>3
  <2>6. pc' = [pc EXCEPT ![p] = "read"] /\ UNCHANGED <<lock, killed>>
    BY <1>1 DEF ReadCall, Goto
  <2>7. ProcsOK' /\ Calls'
    BY <1>0, <2>1, <2>3, <2>4, <2>5, <2>6, ReaderOnly DEF Points
  <2> QED
    BY <1>1, <2>7, ProcessIInv DEF ReadCall
<1>2. CASE Sleep(p)
  <2>1. ProcsOK' /\ Calls'
    BY <1>0, <1>2 DEF Sleep, Goto, ProcsOK, Calls, Points
  <2> QED
    BY <1>2, <2>1, ProcessIInv DEF Sleep
<1>3. CASE SyscallReturn(p)
  <2>1. 0 \in 0..MaxN /\ Len(<<>>) + 0 <= MaxN /\ <<>> \in Seq(Cell)
    BY SizeAssumption, EmptySeq
  <2>2. left[p] = 0 /\ UNCHANGED <<left, lock, killed>>
    BY <1>0, <1>3 DEF SyscallReturn, Calls
  <2>3. left' = [left EXCEPT ![p] = 0]
    BY <1>0, <2>2 DEF ProcsOK
  <2>4. ProcsOK' /\ Calls'
    BY <1>0, <1>3, <2>1, <2>2, <2>3, ReaderOnly DEF SyscallReturn, Goto, Return, Points
  <2> QED
    BY <1>3, <2>4, ProcessIInv DEF SyscallReturn
<1>4. CASE Exit(p)
  <2>1. ProcsOK' /\ Calls'
    BY <1>0, <1>4 DEF Exit, procs, ProcsOK, Calls
  <2> QED
    BY <1>4, <2>1, ProcessIInv DEF Exit
<1> QED
  BY <1>1, <1>2, <1>3, <1>4

LEMMA NextIInv == IInv /\ [Next]_vars => IInv'
<1> SUFFICES ASSUME IInv, [Next]_vars PROVE IInv'
  OBVIOUS
<1>0. Calls /\ ProcsOK
  BY TypeParts DEF IInv
<1>1. ASSUME NEW t \in Typed, Consoleintr(t)
      PROVE  IInv'
  <2>1. PICK c \in Char : TypeLine(c) \/ TypeChar(c) \/ Backspace \/ KillLine
    BY <1>1 DEF Consoleintr, Char
  <2>2. CASE TypeLine(c) \/ TypeChar(c)
    BY <2>2, TypeIInv
  <2>3. CASE Backspace \/ KillLine
    <3>1. Committed \in Nat /\ Filled \in Nat
      BY RingType DEF IInv
    <3>2. PICK n \in {1, Filled - Committed} : Erased(n) /\ Filled > Committed
      BY <2>3, ErasedChars
    <3>3. n \in 1..(Filled - Committed)
      BY <3>1, <3>2
    <3> QED
      BY <3>2, <3>3, EraseIInv
  <2> QED
    BY <2>1, <2>2, <2>3
<1>2. ASSUME NEW p \in Process, NEW q \in Process, Kill(p, q)
      PROVE  IInv'
  <2>1. ProcsOK' /\ Calls'
    BY <1>0, <1>2 DEF Kill, ProcsOK, Calls, Points
  <2> QED
    BY <1>2, <2>1, ProcessIInv DEF Kill
<1>3. CASE UNCHANGED vars
  <2>1. ProcsOK' /\ Calls'
    BY <1>0, <1>3 DEF vars, procs, ProcsOK, Calls
  <2> QED
    BY <1>3, <2>1, ProcessIInv DEF vars
<1> QED
  BY <1>1, <1>2, <1>3, ReadIInv, CallIInv DEF Next

\* The invariant holds in every reachable state, whatever the interleaving of
\* consoleintr, consoleread and kill.
THEOREM Invariance == Spec => []IInv
  BY InitIInv, NextIInv, PTL DEF Spec

\* The indices of the ring keep their order where they wrap, a full ring is
\* committed as a whole, and a read never gets more than it asked for.
THEOREM TypeCorrect == Spec => []TypeOK
<1>1. IInv => TypeOK
  BY DEF IInv
<1> QED
  BY <1>1, Invariance, PTL

----------------------------------------------------------------------------
(* The ring implements the line buffer.                                    *)

Ready == Chars(r, Minus(w, r))
Line == Chars(w, Minus(e, w))
Eofs == {p \in Process : result[p] = "eof"}

\* The two parts of the text.
TextParts ==
  /\ Ready = [k \in 1..Committed |-> At(k)]
  /\ Ready \in Seq(Cell) /\ Len(Ready) = Committed
  /\ Line = [k \in 1..(Filled - Committed) |-> At(Committed + k)]
  /\ Line \in Seq(Cell) /\ Len(Line) = Filled - Committed
  /\ Committed \in Nat /\ Filled \in Nat
  /\ Committed <= Filled /\ Filled <= INPUT_BUF

LEMMA Text == TypeOK => TextParts
<1> SUFFICES ASSUME TypeOK PROVE TextParts
  OBVIOUS
<1>1. /\ Committed \in Nat /\ Filled \in Nat
      /\ Committed <= Filled /\ Filled <= INPUT_BUF /\ INPUT_BUF \in Nat
      /\ Minus(e, w) = Filled - Committed /\ w = Plus(r, Committed)
  BY RingType, SizeAssumption
<1>2. Ready = Chars(r, Committed) /\ Committed \in 0..INPUT_BUF
  BY <1>1 DEF Ready, Committed
<1>3. /\ Ready = [k \in 1..Committed |-> At(k)]
      /\ Ready \in Seq(Cell) /\ Len(Ready) = Committed
  BY <1>2, CharsFirst
<1> DEFINE n == Filled - Committed
<1>4. n \in Nat /\ Committed + n <= INPUT_BUF
  BY <1>1
<1>5. Line = Chars(Plus(r, Committed), n)
  BY <1>1 DEF Line
<1> HIDE DEF n
<1>6. /\ Line = [k \in 1..n |-> At(Committed + k)]
      /\ Line \in Seq(Cell) /\ Len(Line) = n
  BY <1>1, <1>4, <1>5, CharsAt
<1> QED
  BY <1>1, <1>3, <1>6 DEF TextParts, n

LEMMA TextNext == TypeOK' => TextParts'
  BY Text, PTL

\* Two texts of the same length with the same characters are the same.
LEMMA IsText ==
  ASSUME NEW n \in Nat, NEW s, s = [k \in 1..n |-> s[k]],
         NEW t \in Seq(Cell), Len(t) = n, \A k \in 1..n : s[k] = t[k]
  PROVE  s = t
<1>1. t = [k \in 1..n |-> t[k]]
  BY LenProperties
<1> QED
  BY <1>1

\* A typed character is appended to the line, and commits it or not.
LEMMA TypeRefines ==
  ASSUME IInv, IInv', NEW c \in Char, TypeLine(c) \/ TypeChar(c)
  PROVE  Lines!Next
<1>0. TypeOK /\ TypeOK' /\ TextParts /\ TextParts'
  BY Text, TextNext DEF IInv
<1>1. InsertChar(c)
  BY DEF TypeLine, TypeChar
<1>2. /\ Filled < INPUT_BUF /\ Filled' = Filled + 1
      /\ \A k \in 1..Filled : At(k)' = At(k)
      /\ \A k \in {Filled + 1} : At(k)' = c
      /\ Commits(c) <=> c \in {Newline, EndMark} \/ Filled + 1 = INPUT_BUF
  BY <1>0, <1>1, Inserts
<1> DEFINE a == Append(Line, c)
           m == Filled - Committed
<1>3. /\ a \in Seq(Cell) /\ Len(a) = m + 1
      /\ \A k \in 1..m : a[k] = At(Committed + k)
      /\ \A k \in {m + 1} : a[k] = c
  <2>1. Line \in Seq(Cell) /\ c \in Cell /\ Len(Line) = m
    BY <1>0 DEF TextParts, Cell
  <2>2. /\ a \in Seq(Cell) /\ Len(a) = Len(Line) + 1
        /\ \A k \in 1..Len(Line) : a[k] = Line[k]
        /\ a[Len(Line) + 1] = c
    BY <2>1, AppendProperties
  <2>3. \A k \in 1..m : Line[k] = At(Committed + k)
    BY <1>0 DEF TextParts
  <2> HIDE DEF a, m
  <2> QED
    BY <2>1, <2>2, <2>3
<1>4. /\ Committed \in Nat /\ Filled \in Nat /\ Committed <= Filled
      /\ m \in Nat /\ Len(Ready) = Committed /\ Len(Line) = m
      /\ Len(Ready) + Len(Line) = Filled
  BY <1>0 DEF TextParts
<1>5. got' = got /\ Eofs' = Eofs
  BY <1>1 DEF InsertChar, Eofs
<1>6. CASE TypeLine(c)
  <2>1. w' = e' /\ Commits(c)
    BY <1>1, <1>6 DEF TypeLine, InsertChar
  <2>2. Committed' = Filled + 1
    BY <1>2, <2>1 DEF Committed, Filled
  <2>3. Line' = <<>>
    BY <1>0, <1>2, <2>2 DEF TextParts
  <2>4. Ready' = [k \in 1..(Filled + 1) |-> At(k)']
    BY <1>0, <2>2 DEF TextParts
  <2> DEFINE new == Ready'
             u == Ready \o a
  <2>5. /\ u \in Seq(Cell) /\ Len(u) = Committed + (m + 1)
        /\ \A k \in 1..(Committed + (m + 1)) :
             u[k] = IF k <= Committed THEN Ready[k] ELSE a[k - Committed]
    <3>1. Ready \in Seq(Cell) /\ Len(Ready) = Committed
      BY <1>0 DEF TextParts
    <3> HIDE DEF a, m
    <3>2. /\ u \in Seq(Cell) /\ Len(u) = Len(Ready) + Len(a)
          /\ \A k \in 1..(Len(Ready) + Len(a)) :
               u[k] = IF k <= Len(Ready) THEN Ready[k] ELSE a[k - Len(Ready)]
      BY <1>3, <3>1, ConcatProperties
    <3> QED
      BY <1>3, <3>1, <3>2
  <2>6. \A k \in 1..Committed : Ready[k] = At(k)
    BY <1>0 DEF TextParts
  <2>7. ASSUME NEW k \in 1..(Filled + 1)
        PROVE  At(k)' = u[k]
    <3>1. CASE k <= Committed
      BY <1>2, <1>4, <2>5, <2>6, <3>1
    <3>2. CASE ~(k <= Committed) /\ k <= Filled
      <4>1. k - Committed \in 1..m /\ Committed + (k - Committed) = k
        BY <1>4, <3>2
      <4>2. u[k] = a[k - Committed]
        BY <1>4, <2>5, <3>2
      <4> QED
        BY <1>2, <1>3, <1>4, <3>2, <4>1, <4>2
    <3>3. CASE k = Filled + 1
      <4>1. k - Committed = m + 1 /\ ~(k <= Committed) /\ k \in 1..(Committed + (m + 1))
        BY <1>4, <3>3
      <4>2. u[k] = a[k - Committed]
        BY <2>5, <4>1
      <4> QED
        BY <1>2, <1>3, <3>3, <4>1, <4>2
    <3> QED
      BY <1>4, <3>1, <3>2, <3>3
  <2>8. new = u
    <3>1. new = [k \in 1..(Filled + 1) |-> new[k]] /\ \A k \in 1..(Filled + 1) : new[k] = u[k]
      BY <2>4, <2>7
    <3>2. Len(u) = Filled + 1 /\ Filled + 1 \in Nat
      BY <1>4, <2>5
    <3> HIDE DEF new, u
    <3> QED
      BY <2>5, <3>1, <3>2, IsText
  <2>9. c \in {Newline, EndMark} \/ Len(Ready) + Len(Line) + 1 = INPUT_BUF
    BY <1>2, <1>4, <2>1
  <2>10. Len(Ready) + Len(Line) < INPUT_BUF
    BY <1>2, <1>4
  <2>11. Lines!Type
    BY <1>5, <2>3, <2>8, <2>9, <2>10 DEF Lines!Type, Ready, Line, Eofs
  <2> QED
    BY <2>11 DEF Lines!Next
<1>7. CASE TypeChar(c)
  <2>1. w' = w /\ r' = r /\ ~Commits(c)
    BY <1>1, <1>7 DEF TypeChar, InsertChar
  <2>2. Committed' = Committed
    BY <2>1 DEF Committed
  <2>3. Line' = [k \in 1..(m + 1) |-> At(Committed + k)']
    <3>1. Line' = [k \in 1..(Filled' - Committed') |-> At(Committed + k)']
      BY <1>0, <2>2 DEF TextParts
    <3>2. Filled' - Committed' = m + 1
      BY <1>2, <1>4, <2>2
    <3> QED
      BY <3>1, <3>2
  <2>4. ASSUME NEW k \in 1..(m + 1)
        PROVE  At(Committed + k)' = a[k]
    <3>1. CASE k \in 1..m
      <4>1. Committed + k \in 1..Filled
        BY <1>4, <3>1
      <4>2. At(Committed + k)' = At(Committed + k)
        BY <1>2, <2>2, <4>1
      <4> QED
        BY <1>3, <3>1, <4>2
    <3>2. CASE k = m + 1
      <4>1. Committed + k = Filled + 1
        BY <1>4, <3>2
      <4>2. At(Committed + k)' = c
        BY <1>2, <2>2, <4>1
      <4> QED
        BY <1>3, <3>2, <4>2
    <3> QED
      BY <1>4, <3>1, <3>2
  <2> DEFINE new == Line'
  <2>5. new = a
    <3>1. new = [k \in 1..(m + 1) |-> new[k]] /\ \A k \in 1..(m + 1) : new[k] = a[k]
      BY <2>3, <2>4
    <3>2. m + 1 \in Nat
      BY <1>4
    <3> HIDE DEF new, a, m
    <3> QED
      BY <1>3, <3>1, <3>2, IsText
  <2>6. Ready' = Ready
    <3>1. Ready' = [k \in 1..Committed |-> At(k)']
      BY <1>0, <2>2 DEF TextParts
    <3>2. \A k \in 1..Committed : At(k)' = At(k)
      BY <1>2, <1>4
    <3>3. Ready = [k \in 1..Committed |-> At(k)]
      BY <1>0 DEF TextParts
    <3> QED
      BY <3>1, <3>2, <3>3
  <2>7. ~(c \in {Newline, EndMark} \/ Len(Ready) + Len(Line) + 1 = INPUT_BUF)
    BY <1>2, <1>4, <2>1
  <2>8. Len(Ready) + Len(Line) < INPUT_BUF
    BY <1>2, <1>4
  <2>9. Lines!Type
    BY <1>5, <2>5, <2>6, <2>7, <2>8 DEF Lines!Type, Ready, Line, Eofs
  <2> QED
    BY <2>9 DEF Lines!Next
<1> QED
  BY <1>6, <1>7

\* A part of a text.
LEMMA SubText ==
  ASSUME NEW s \in Seq(Cell), NEW m \in 1..(Len(s) + 1), NEW n \in 0..Len(s), m <= n + 1
  PROVE  SubSeq(s, m, n) = [k \in 1..(n - m + 1) |-> s[m + k - 1]]
<1>1. Len(s) \in Nat /\ \A i \in m..n : s[i] \in Cell
  BY LenProperties
<1>2. /\ SubSeq(s, m, n) \in Seq(Cell)
      /\ Len(SubSeq(s, m, n)) = IF m <= n THEN n - m + 1 ELSE 0
      /\ \A i \in 1..(n - m + 1) : SubSeq(s, m, n)[i] = s[m + i - 1]
  BY <1>1, SubSeqProperties
<1>3. Len(SubSeq(s, m, n)) = n - m + 1
  BY <1>1, <1>2
<1>4. SubSeq(s, m, n) = [i \in 1..(n - m + 1) |-> SubSeq(s, m, n)[i]]
  BY <1>2, <1>3, LenProperties
<1> QED
  BY <1>2, <1>4

\* Backspace takes the last character of the line, kill line all of them.
LEMMA EraseRefines ==
  ASSUME IInv, IInv', Backspace \/ KillLine
  PROVE  Lines!Next
<1>0. TypeOK /\ TypeOK' /\ TextParts /\ TextParts'
  BY Text, TextNext DEF IInv
<1> DEFINE m == Filled - Committed
<1>1. /\ Committed \in Nat /\ Filled \in Nat /\ Committed <= Filled
      /\ Len(Line) = m /\ Line \in Seq(Cell)
      /\ Line = [k \in 1..m |-> At(Committed + k)]
      /\ Ready = [k \in 1..Committed |-> At(k)]
  BY <1>0 DEF TextParts
<1>2. PICK n \in {1, m} : Filled > Committed /\ Erased(n)
  BY ErasedChars
<1>3. n \in 0..m /\ m \in Nat /\ m > 0
  BY <1>1, <1>2
<1>4. /\ Filled' = Filled - n /\ Committed' = Committed
      /\ \A k \in Nat : At(k)' = At(k)
  BY <1>0, <1>2, <1>3, Erases
<1>5. got' = got /\ Eofs' = Eofs
  BY <1>2 DEF Erased, procs, Eofs
<1>6. Ready' = Ready
  <2>1. Ready' = [k \in 1..Committed |-> At(k)']
    BY <1>0, <1>4 DEF TextParts
  <2>2. \A k \in 1..Committed : At(k)' = At(k)
    BY <1>1, <1>4
  <2> QED
    BY <1>1, <2>1, <2>2
<1>7. Line' = [k \in 1..(m - n) |-> At(Committed + k)]
  <2>1. Line' = [k \in 1..(Filled' - Committed') |-> At(Committed + k)']
    BY <1>0, <1>4 DEF TextParts
  <2>2. Filled' - Committed' = m - n
    BY <1>1, <1>3, <1>4
  <2>3. \A k \in 1..(m - n) : At(Committed + k)' = At(Committed + k)
    BY <1>1, <1>4
  <2> QED
    BY <2>1, <2>2, <2>3
<1>8. Line # <<>>
  <2>1. Len(<<>>) = 0
    BY EmptySeq
  <2> QED
    BY <1>1, <1>3, <2>1
<1>9. CASE n = m
  <2>1. Line' = <<>>
    BY <1>3, <1>7, <1>9
  <2> QED
    BY <1>5, <1>6, <2>1 DEF Lines!Next, Lines!Erase, Ready, Line, Eofs
<1>10. CASE n = 1
  <2>1. Lines!Front(Line) = [k \in 1..(m - 1) |-> Line[k]]
    <3>1. 1 \in 1..(Len(Line) + 1) /\ m - 1 \in 0..Len(Line) /\ 1 <= (m - 1) + 1
      BY <1>1, <1>3
    <3>2. SubSeq(Line, 1, m - 1) = [k \in 1..((m - 1) - 1 + 1) |-> Line[1 + k - 1]]
      BY <1>1, <3>1, SubText
    <3>3. (m - 1) - 1 + 1 = m - 1 /\ \A k \in 1..(m - 1) : 1 + k - 1 = k
      BY <1>3
    <3> QED
      BY <1>1, <3>2, <3>3 DEF Lines!Front
  <2>2. \A k \in 1..(m - 1) : Line[k] = At(Committed + k)
    BY <1>1, <1>3
  <2>3. Line' = Lines!Front(Line)
    BY <1>7, <1>10, <2>1, <2>2
  <2> QED
    BY <1>5, <1>6, <1>8, <2>3 DEF Lines!Next, Lines!Erase, Ready, Line, Eofs
<1> QED
  BY <1>2, <1>9, <1>10

\* A step that changes none of these is a stutter of the line buffer.
LEMMA Unseen ==
  ASSUME UNCHANGED <<buf, r, w, e, got>>, Eofs' = Eofs
  PROVE  UNCHANGED Lines!vars
<1>1. Ready' = Ready /\ Line' = Line
  BY DEF Ready, Line, Chars
<1> QED
  BY <1>1 DEF Lines!vars, Ready, Line, Eofs

\* A read takes characters of one line.
LEMMA ReadsText ==
  ASSUME IInv, IInv', NEW p \in Process, pc[p] = "read", NEW n \in 1..Committed,
         r' = Plus(r, n), UNCHANGED <<buf, w, e>>,
         got' = [got EXCEPT ![p] = got[p] \o Chars(r, n)],
         p \notin Eofs, Eofs' = Eofs,
         \A k \in 1..(n - 1) : At(k) \notin {Newline, EndMark}, At(n) # EndMark
  PROVE  Lines!Next
<1>0. TypeOK /\ TypeOK' /\ Calls /\ TextParts /\ TextParts'
  BY Text, TextNext DEF IInv
<1>1. /\ Committed \in Nat /\ Committed <= INPUT_BUF /\ INPUT_BUF \in Nat
      /\ Ready \in Seq(Cell) /\ Len(Ready) = Committed
      /\ Ready = [k \in 1..Committed |-> At(k)]
      /\ n \in Nat /\ n > 0 /\ n <= Committed
  BY <1>0, SizeAssumption DEF TextParts
<1>2. SubSeq(Ready, 1, n) = Chars(r, n)
  <2>1. 1 \in 1..(Len(Ready) + 1) /\ n \in 0..Len(Ready) /\ 1 <= n + 1 /\ n \in 0..INPUT_BUF
    BY <1>1
  <2>2. SubSeq(Ready, 1, n) = [k \in 1..(n - 1 + 1) |-> Ready[1 + k - 1]]
    BY <1>1, <2>1, SubText
  <2>3. n - 1 + 1 = n /\ \A k \in 1..n : 1 + k - 1 = k /\ Ready[k] = At(k)
    BY <1>1
  <2>4. Chars(r, n) = [k \in 1..n |-> At(k)]
    BY <1>0, <2>1, CharsFirst
  <2> QED
    BY <2>2, <2>3, <2>4
<1>3. Ready' = SubSeq(Ready, n + 1, Len(Ready))
  <2>1. /\ Committed' = Committed - n
        /\ \A k \in 1..(INPUT_BUF - n) : At(k)' = At(n + k)
    <3>1. n \in 0..Committed
      BY <1>1
    <3> QED
      BY <1>0, <3>1, Takes
  <2>2. SubSeq(Ready, n + 1, Len(Ready))
          = [k \in 1..(Committed - (n + 1) + 1) |-> Ready[(n + 1) + k - 1]]
    <3>1. /\ n + 1 \in 1..(Len(Ready) + 1) /\ Len(Ready) \in 0..Len(Ready)
          /\ n + 1 <= Len(Ready) + 1
      BY <1>1
    <3> QED
      BY <1>1, <3>1, SubText
  <2>3. Committed - (n + 1) + 1 = Committed - n
    BY <1>1
  <2>4. ASSUME NEW k \in 1..(Committed - n)
        PROVE  Ready[(n + 1) + k - 1] = At(k)'
    <3>1. (n + 1) + k - 1 = n + k /\ n + k \in 1..Committed /\ k \in 1..(INPUT_BUF - n)
      BY <1>1
    <3> QED
      BY <1>1, <2>1, <3>1
  <2>5. Ready' = [k \in 1..(Committed - n) |-> At(k)']
    BY <1>0, <2>1 DEF TextParts
  <2> QED
    BY <2>2, <2>3, <2>4, <2>5
<1>4. Line' = Line
  BY DEF Line, Chars
<1> DEFINE s == got[p] \o Chars(r, n)
<1>5. /\ Len(s) = Len(got[p]) + n /\ Len(got[p]) \in Nat
      /\ \A i \in 1..Len(got[p]) : s[i] \notin {Newline, EndMark}
      /\ \A i \in (Len(got[p]) + 1)..Len(s) : s[i] = At(i - Len(got[p]))
  <2>1. n \in 0..Committed
    BY <1>1
  <2> QED
    BY <1>0, <2>1, GotChars
<1>6. ASSUME NEW i \in 1..Len(s)
      PROVE  s[i] # EndMark /\ (i < Len(s) => s[i] # Newline)
  <2> HIDE DEF s
  <2>1. CASE i <= Len(got[p])
    BY <1>5, <2>1
  <2>2. CASE ~(i <= Len(got[p]))
    <3> DEFINE g == Len(got[p])
               k == i - g
    <3>1. g \in Nat /\ Len(s) = g + n /\ i \in (g + 1)..Len(s)
      BY <1>1, <1>5, <2>2
    <3> HIDE DEF g
    <3>2. k \in 1..n /\ (i < Len(s) => k \in 1..(n - 1)) /\ (k = n \/ k \in 1..(n - 1))
      BY <1>1, <3>1
    <3>3. s[i] = At(k)
      BY <1>5, <3>1 DEF g
    <3> HIDE DEF k
    <3> QED
      BY <3>2, <3>3
  <2> QED
    BY <2>1, <2>2
<1>7. (\A i \in 1..Len(s) : s[i] # EndMark) /\ (\A i \in 1..(Len(s) - 1) : s[i] # Newline)
  <2>1. Len(s) \in Nat
    BY <1>1, <1>5
  <2> HIDE DEF s
  <2> QED
    BY <1>6, <2>1
<1>8. n \in 1..Len(Ready)
  BY <1>1
<1>9. s = got[p] \o SubSeq(Ready, 1, n)
  BY <1>2
<1>10. got' = [got EXCEPT ![p] = s]
  OBVIOUS
<1> HIDE DEF s
<1>11. \E i \in 1..Len(Ready) :
         LET u == got[p] \o SubSeq(Ready, 1, i)
         IN  /\ \A j \in 1..Len(u) : u[j] # EndMark
             /\ \A j \in 1..(Len(u) - 1) : u[j] # Newline
             /\ got' = [got EXCEPT ![p] = u]
             /\ Ready' = SubSeq(Ready, i + 1, Len(Ready))
  BY <1>3, <1>7, <1>8, <1>9, <1>10
<1>12. Lines!Read(p)
  BY <1>4, <1>11, Zenon DEF Lines!Read, Ready, Line, Eofs
<1> QED
  BY <1>12 DEF Lines!Next

LEMMA ReadRefines ==
  ASSUME IInv, IInv', NEW p \in Process, ReadChars(p) \/ ReadEof(p)
  PROVE  [Lines!Next]_(Lines!vars)
<1>0. TypeOK /\ TypeOK' /\ Calls /\ TextParts /\ TextParts' /\ ProcsOK
  BY Text, TextNext, TypeParts DEF IInv
<1>1. pc[p] = "read" /\ r # w
  BY DEF ReadChars, ReadEof, Section
<1>2. result[p] = None /\ p \notin Eofs /\ left[p] \in Nat
  BY <1>0, <1>1, SizeAssumption DEF Calls, Eofs, None, ProcsOK
<1>3. /\ Taken(p) \in 1..Committed /\ Last(p) = At(Taken(p))
      /\ \A k \in 1..(Taken(p) - 1) : At(k) \notin {Newline, EndMark}
      /\ Committed \in Nat
  BY <1>0, <1>1, TakenChars, RingType
<1>4. ASSUME NEW v \in {None, "done"}, result' = [result EXCEPT ![p] = v]
      PROVE  Eofs' = Eofs
  BY <1>0, <1>2, <1>4 DEF Eofs, None, ProcsOK
<1>5. CASE ReadChars(p)
  <2> DEFINE n == Taken(p)
  <2>1. /\ r' = Plus(r, n) /\ UNCHANGED <<buf, w, e>>
        /\ got' = [got EXCEPT ![p] = got[p] \o Chars(r, n)]
        /\ Last(p) # EndMark
    BY <1>5 DEF ReadChars
  <2>2. Eofs' = Eofs
    <3>1. result' = result \/ result' = [result EXCEPT ![p] = "done"]
      BY <1>5 DEF ReadChars, Return
    <3> QED
      BY <1>4, <3>1 DEF Eofs
  <2>3. n \in 1..Committed /\ At(n) # EndMark
        /\ \A k \in 1..(n - 1) : At(k) \notin {Newline, EndMark}
    BY <1>3, <2>1
  <2> HIDE DEF n
  <2> QED
    BY <1>1, <1>2, <2>1, <2>2, <2>3, ReadsText
<1>6. CASE ReadEof(p)
  <2> DEFINE n == Taken(p) - 1
             s == got[p] \o Chars(r, n)
  <2>1. /\ UNCHANGED <<buf, w, e>>
        /\ got' = [got EXCEPT ![p] = s]
        /\ IF got'[p] # <<>>
             THEN r' = Plus(r, n) /\ result' = [result EXCEPT ![p] = "done"]
             ELSE r' = Plus(r, 1) /\ result' = [result EXCEPT ![p] = "eof"]
        /\ Last(p) = EndMark
    BY <1>6 DEF ReadEof, Return
  <2>2. n \in 0..Committed /\ (n = 0 => Taken(p) = 1)
    BY <1>3
  <2>3. \A k \in 1..n : At(k) \notin {Newline, EndMark}
    BY <1>3
  <2> HIDE DEF n
  <2>4. /\ s \in Seq(Cell) /\ Len(s) = Len(got[p]) + n /\ Len(got[p]) \in Nat
    BY <1>0, <1>1, <2>2, GotChars
  <2>5. got'[p] = s
    BY <1>0, <2>1 DEF Calls
  <2>6. n = 0 => s = got[p] /\ got' = got
    <3>1. ASSUME n = 0
          PROVE  Chars(r, n) = <<>>
      BY <3>1 DEF Chars
    <3>2. got[p] \in Seq(Cell)
      BY <1>0 DEF Calls
    <3>3. n = 0 => s = got[p]
      BY <3>1, <3>2, ConcatEmptySeq
    <3>4. s = got[p] => got' = got
      <4> HIDE DEF s
      <4> QED
        BY <1>0, <2>1 DEF Calls
    <3> QED
      BY <3>3, <3>4
  <2>7. CASE s # <<>> /\ n # 0
    <3>1. Eofs' = Eofs
      BY <1>4, <2>1, <2>5, <2>7
    <3>2. /\ n \in 1..Committed /\ At(n) # EndMark
          /\ \A k \in 1..(n - 1) : At(k) \notin {Newline, EndMark}
      <4>1. n \in 1..Committed /\ \A k \in 1..(n - 1) : k \in 1..n
        BY <1>3, <2>2, <2>7
      <4>2. n \in 1..n
        BY <4>1
      <4> QED
        BY <2>3, <4>1, <4>2
    <3>3. r' = Plus(r, n)
      BY <2>1, <2>5, <2>7
    <3> QED
      BY <1>1, <1>2, <2>1, <3>1, <3>2, <3>3, ReadsText
  <2>8. CASE s # <<>> /\ n = 0
    <3>1. Eofs' = Eofs
      BY <1>4, <2>1, <2>5, <2>8
    <3>2. Plus(r, 0) = r
      <4>1. r \in 0..(UintMod - 1) /\ UintMod \in Nat \ {0}
        BY <1>0, RingType, SizeAssumption
      <4>2. 0 \in 0..UintMod /\ r + 0 = r /\ r < UintMod
        BY <4>1
      <4> QED
        BY <4>1, <4>2, Step DEF Plus
    <3> QED
      BY <2>1, <2>5, <2>6, <2>8, <3>1, <3>2, Unseen
  <2>9. CASE s = <<>>
    <3>1. n = 0 /\ got[p] = <<>> /\ got' = got
      <4>1. Len(s) = 0
        BY <2>9, EmptySeq
      <4>2. n = 0
        BY <1>3, <2>2, <2>4, <4>1
      <4> QED
        BY <2>6, <2>9, <4>2
    <3>2. r' = Plus(r, 1) /\ result' = [result EXCEPT ![p] = "eof"]
      BY <2>1, <2>5, <2>9
    <3>3. Eofs' = Eofs \cup {p}
      BY <1>0, <3>2 DEF Eofs, ProcsOK
    <3>4. At(1) = EndMark
      BY <1>3, <2>1, <2>2, <3>1
    <3>5. Line' = Line
      BY <2>1 DEF Line, Chars
    <3>6. /\ Ready \in Seq(Cell) /\ Len(Ready) = Committed /\ Committed >= 1
          /\ Ready = [k \in 1..Committed |-> At(k)]
          /\ Committed <= INPUT_BUF /\ INPUT_BUF \in Nat
      BY <1>0, <1>3, SizeAssumption DEF TextParts
    <3>7. Ready # <<>> /\ Head(Ready) = EndMark
      <4>1. Ready # <<>>
        BY <3>6, EmptySeq
      <4>2. Head(Ready) = Ready[1]
        BY <3>6, <4>1, HeadTailProperties
      <4> QED
        BY <1>3, <3>4, <3>6, <4>1, <4>2
    <3>8. Ready' = Tail(Ready)
      <4>1. /\ Committed' = Committed - 1
            /\ \A k \in 1..(INPUT_BUF - 1) : At(k)' = At(1 + k)
        <5>1. 1 \in 0..Committed
          BY <1>3, <3>6
        <5> QED
          BY <1>0, <2>1, <3>2, <5>1, Takes
      <4>2. /\ Tail(Ready) \in Seq(Cell) /\ Len(Tail(Ready)) = Committed - 1
            /\ \A k \in 1..(Committed - 1) : Tail(Ready)[k] = Ready[k + 1]
        BY <3>6, <3>7, HeadTailProperties
      <4>3. Ready' = [k \in 1..(Committed - 1) |-> At(k)']
        BY <1>0, <4>1 DEF TextParts
      <4>4. ASSUME NEW k \in 1..(Committed - 1)
            PROVE  At(k)' = Tail(Ready)[k]
        <5>1. k \in 1..(INPUT_BUF - 1) /\ k + 1 \in 1..Committed /\ k + 1 = 1 + k
          BY <1>3, <3>6
        <5> QED
          BY <3>6, <4>1, <4>2, <5>1
      <4> DEFINE new == Ready'
                 old == Tail(Ready)
      <4>5. new = [k \in 1..(Committed - 1) |-> new[k]]
            /\ \A k \in 1..(Committed - 1) : new[k] = old[k]
        BY <4>3, <4>4
      <4>6. old \in Seq(Cell) /\ Len(old) = Committed - 1 /\ Committed - 1 \in Nat
        BY <1>3, <3>6, <4>2
      <4> HIDE DEF new, old
      <4>7. new = old
        BY <4>5, <4>6, IsText
      <4> QED
        BY <4>7 DEF new, old
    <3>9. Lines!Eof(p)
      BY <1>2, <3>1, <3>3, <3>5, <3>7, <3>8, Zenon DEF Lines!Eof, Ready, Line, Eofs
    <3> QED
      BY <3>9 DEF Lines!Next
  <2> QED
    BY <2>7, <2>8, <2>9
<1> QED
  BY <1>5, <1>6

LEMMA StepRefines == IInv /\ IInv' /\ [Next]_vars => [Lines!Next]_(Lines!vars)
<1> SUFFICES ASSUME IInv, IInv', [Next]_vars PROVE [Lines!Next]_(Lines!vars)
  OBVIOUS
<1>0. Calls /\ ProcsOK
  BY TypeParts DEF IInv
<1>1. ASSUME NEW t \in Typed, Consoleintr(t)
      PROVE  Lines!Next
  <2>1. PICK c \in Char : TypeLine(c) \/ TypeChar(c) \/ Backspace \/ KillLine
    BY <1>1 DEF Consoleintr, Char
  <2> QED
    BY <2>1, TypeRefines, EraseRefines
<1>2. ASSUME NEW p \in Process, NEW v \in {None, "failed"},
             UNCHANGED input, got' = [got EXCEPT ![p] = <<>>],
             result' = [result EXCEPT ![p] = v]
      PROVE  Lines!Next
  <2>1. Eofs' = Eofs \ {p}
    BY <1>0, <1>2 DEF Eofs, ProcsOK, None
  <2>2. Ready' = Ready /\ Line' = Line
    BY <1>2 DEF input, Ready, Line, Chars
  <2>3. Lines!Take(p)
    BY <1>2, <2>1, <2>2, Zenon DEF Lines!Take, Ready, Line, Eofs
  <2> QED
    BY <2>3 DEF Lines!Next
<1>3. ASSUME NEW p \in Process, ReadKilled(p) \/ SyscallReturn(p)
      PROVE  Lines!Next
  BY <1>2, <1>3 DEF ReadKilled, SyscallReturn, Return
<1>4. ASSUME NEW p \in Process,
             \/ ReadCall(p) \/ ReadWait(p) \/ Sleep(p) \/ Exit(p)
             \/ \E q \in Process : Kill(p, q)
      PROVE  UNCHANGED Lines!vars
  <2>1. UNCHANGED <<buf, r, w, e, got, result>>
    BY <1>4 DEF ReadCall, ReadWait, Sleep, Exit, Kill, input, procs
  <2> QED
    BY <2>1, Unseen DEF Eofs
<1>5. CASE UNCHANGED vars
  BY <1>5, Unseen DEF vars, input, procs, Eofs
<1>6. ASSUME NEW p \in Process, Read(p)
      PROVE  [Lines!Next]_(Lines!vars)
  BY <1>3, <1>4, <1>6, ReadRefines DEF Read
<1> QED
  BY <1>1, <1>3, <1>4, <1>5, <1>6 DEF Next

LEMMA InitRefines == Init => Lines!Init
<1> SUFFICES ASSUME Init PROVE Lines!Init
  OBVIOUS
<1>1. TypeOK /\ TextParts
  BY InitIInv, Text DEF IInv
<1>2. r = 0 /\ w = 0 /\ e = 0 /\ UintMod \in Nat \ {0}
  BY SizeAssumption DEF Init
<1>3. Committed = 0 /\ Filled = 0
  <2>1. 0 \in 0..(UintMod - 1)
    BY <1>2
  <2> QED
    BY <1>2, <2>1, Distance DEF Committed, Filled, Minus
<1>4. Ready = <<>> /\ Line = <<>>
  BY <1>1, <1>3 DEF TextParts
<1>5. Eofs = {} /\ got = [p \in Process |-> <<>>]
  BY DEF Init, Eofs, None
<1> QED
  BY <1>4, <1>5 DEF Lines!Init, Ready, Line, Eofs

\* The console implements the line buffer: no committed character is lost,
\* duplicated, erased or given to two readers, a read gets one line at most,
\* and ^D is reported once.
THEOREM ConsoleIsLineBuffer == Spec => LinesSpec
<1>1. Init /\ [][Next]_vars /\ []IInv => Lines!Init /\ [][Lines!Next]_(Lines!vars)
  BY InitRefines, StepRefines, PTL
<1> QED
  BY <1>1, Invariance, PTL DEF Spec, LinesSpec, Lines!Spec

=============================================================================
