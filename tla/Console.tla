------------------------------- MODULE Console --------------------------------
(***************************************************************************)
(* The console of kernel/console.c: the input ring that the keyboard and   *)
(* serial interrupts fill and edit, and the processes that read it.  What  *)
(* is echoed and written to the screen and the serial line is left out.    *)
(*                                                                         *)
(* A section under cons.lock is one step, except when it ends in sleep():  *)
(* the decision to sleep and the moment the process is on the channel are  *)
(* two steps, because kill() does not take cons.lock.  consoleread drops   *)
(* the lock of the console's inode for its whole duration, so that it is   *)
(* left out.                                                               *)
(***************************************************************************)
EXTENDS Integers, Sequences, FiniteSets, FiniteSetsExt

CONSTANTS
  Process,
  INPUT_BUF,  \* characters of input.buf
  UintMod,    \* the indices wrap modulo UintMod (2^32)
  MaxN        \* longest read (bound)

ASSUME SizeAssumption ==
  /\ INPUT_BUF \in Nat \ {0}
  /\ UintMod \in Nat /\ UintMod > INPUT_BUF /\ UintMod % INPUT_BUF = 0
  /\ MaxN \in Nat \ {0}

None == "none"
ASSUME NoneAssumption == None \notin Process

Newline == "nl"
EndMark == "C-D"
\* What getc returns: "C-P" and 0 change nothing here and are left out.
Char == {"x", Newline, EndMark}
Typed == Char \cup {"cr", "C-U", "C-H"}

VARIABLES
  buf, r, w, e,    \* input
  lock,            \* holder of cons.lock between two steps
  (* processes *)
  pc,
  left,            \* n of consoleread, 0 outside it
  got,             \* dst[0..target-n-1], until the caller has it
  result,          \* of the last read, until the caller has it
  killed

input == <<buf, r, w, e>>
procs == <<pc, left, got, result>>
vars == <<input, lock, procs, killed>>

Points == {"user", "read", "sleep", "asleep", "ret"}

----------------------------------------------------------------------------

Goto(p, l) == pc' = [pc EXCEPT ![p] = l]
Return(p, v) == result' = [result EXCEPT ![p] = v]

\* wakeup(&input.r)
Wakeup == pc' = [p \in Process |-> IF pc[p] = "asleep" THEN "read" ELSE pc[p]]

Plus(i, n) == (i + n) % UintMod
Minus(i, j) == (i - j) % UintMod
Slot(i) == i % INPUT_BUF

\* The n characters from index i on.
Chars(i, n) == [k \in 1..n |-> buf[Slot(Plus(i, k - 1))]]

Init ==
  /\ buf = [k \in 0..(INPUT_BUF - 1) |-> "nul"]
  /\ r = 0 /\ w = 0 /\ e = 0
  /\ lock = None
  /\ pc = [p \in Process |-> "user"]
  /\ left = [p \in Process |-> 0]
  /\ got = [p \in Process |-> <<>>]
  /\ result = [p \in Process |-> None]
  /\ killed = {}

----------------------------------------------------------------------------
(* consoleintr: one character of getc.                                     *)

Full == Minus(e, r) = INPUT_BUF

\* The character goes into the ring, and a line end or the last free place
\* commits what has been typed.
InsertChar(c) ==
  /\ lock = None
  /\ ~Full
  /\ buf' = [buf EXCEPT ![Slot(e)] = c]
  /\ e' = Plus(e, 1)
  /\ UNCHANGED <<r, lock, left, got, result, killed>>

Commits(c) == c \in {Newline, EndMark} \/ Plus(e, 1) = Plus(r, INPUT_BUF)

\* Mutants of TypeLine: the readers are not woken when the ring is full; only
\* one of them is woken.
TypeLineQuiet(c) ==
  /\ InsertChar(c)
  /\ Commits(c)
  /\ w' = Plus(e, 1)
  /\ IF c \in {Newline, EndMark} THEN Wakeup ELSE UNCHANGED pc

TypeLineOne(c) ==
  /\ InsertChar(c)
  /\ Commits(c)
  /\ w' = Plus(e, 1)
  /\ LET asleep == {p \in Process : pc[p] = "asleep"}
     IN  IF asleep = {} THEN UNCHANGED pc
                        ELSE Goto(CHOOSE p \in asleep : TRUE, "read")

TypeLine(c) ==
  /\ InsertChar(c)
  /\ Commits(c)
  /\ w' = Plus(e, 1)
  /\ Wakeup

TypeChar(c) ==
  /\ InsertChar(c)
  /\ ~Commits(c)
  /\ UNCHANGED <<w, pc>>

Erased(n) ==
  /\ e' = Minus(e, n)
  /\ UNCHANGED <<buf, r, w, lock, procs, killed>>

\* Mutant of Backspace: it erases what has been committed, too.
BackspaceFree ==
  /\ lock = None
  /\ e # r
  /\ Erased(1)

Backspace ==
  /\ lock = None
  /\ e # w
  /\ Erased(1)

\* The loop stops at a line end; there is none after w.
KillLine ==
  /\ lock = None
  /\ e # w
  /\ LET Ends == {k \in 1..Minus(e, w) : buf[Slot(Minus(e, k))] = Newline}
     IN  Erased(IF Ends = {} THEN Minus(e, w) ELSE Min(Ends) - 1)

Consoleintr(t) ==
  LET c == IF t = "cr" THEN Newline ELSE t
  IN  \/ c \in Char /\ (TypeLine(c) \/ TypeChar(c))
      \/ c = "C-H" /\ Backspace
      \/ c = "C-U" /\ KillLine

----------------------------------------------------------------------------
(* System calls. *)

User(p) == pc[p] = "user" /\ p \notin killed

ReadCall(p) ==
  /\ User(p)
  /\ \E n \in 1..MaxN : left' = [left EXCEPT ![p] = n]
  /\ Goto(p, "read")
  /\ UNCHANGED <<input, lock, got, result, killed>>

SyscallReturn(p) ==
  /\ pc[p] = "ret"
  /\ Goto(p, "user")
  /\ got' = [got EXCEPT ![p] = <<>>]
  /\ Return(p, None)
  /\ UNCHANGED <<input, lock, left, killed>>

\* A killed process exits on its way to user mode; another one takes its place.
Exit(p) ==
  /\ pc[p] = "user" /\ p \in killed
  /\ killed' = killed \ {p}
  /\ UNCHANGED <<input, lock, procs>>

\* kill() takes ptable.lock only, and wakes the process if it sleeps.
Kill(p, q) ==
  /\ User(p) /\ p # q /\ q \notin killed
  /\ killed' = killed \cup {q}
  /\ pc' = [pc EXCEPT ![q] = IF @ = "asleep" THEN "read" ELSE @]
  /\ UNCHANGED <<input, lock, left, got, result>>

----------------------------------------------------------------------------
(* consoleread. *)

\* How many characters the loop takes before n, the input or the line ends.
Taken(p) ==
  LET stop == {k \in 1..Minus(w, r) :
                 k = left[p] \/ k = Minus(w, r)
                 \/ buf[Slot(Plus(r, k - 1))] \in {Newline, EndMark}}
  IN  Min(stop)

Last(p) == buf[Slot(Plus(r, Taken(p) - 1))]

Section(p) == pc[p] = "read" /\ lock \in {None, p}

\* The loop ends, or goes on to the test r == w with the lock held.
ReadChars(p) ==
  /\ Section(p) /\ r # w
  /\ Last(p) # EndMark
  /\ r' = Plus(r, Taken(p))
  /\ got' = [got EXCEPT ![p] = @ \o Chars(r, Taken(p))]
  /\ IF Taken(p) = left[p] \/ Last(p) = Newline
       THEN /\ left' = [left EXCEPT ![p] = 0]
            /\ Goto(p, "ret") /\ Return(p, "done")
            /\ UNCHANGED lock
       ELSE /\ left' = [left EXCEPT ![p] = @ - Taken(p)]
            /\ lock' = p
            /\ UNCHANGED <<pc, result>>
  /\ UNCHANGED <<buf, w, e, killed>>

\* Mutant of ReadEof: the mark is never put back.
ReadEofTaken(p) ==
  /\ Section(p) /\ r # w
  /\ Last(p) = EndMark
  /\ LET n == Taken(p) - 1
     IN  /\ got' = [got EXCEPT ![p] = @ \o Chars(r, n)]
         /\ r' = Plus(r, n + 1)
         /\ Return(p, IF got'[p] # <<>> THEN "done" ELSE "eof")
  /\ left' = [left EXCEPT ![p] = 0]
  /\ Goto(p, "ret")
  /\ UNCHANGED <<buf, w, e, lock, killed>>

\* ^D: it stays for the next read if this one has something to return.
ReadEof(p) ==
  /\ Section(p) /\ r # w
  /\ Last(p) = EndMark
  /\ LET n == Taken(p) - 1
     IN  /\ got' = [got EXCEPT ![p] = @ \o Chars(r, n)]
         /\ IF got'[p] # <<>>
              THEN r' = Plus(r, n) /\ Return(p, "done")
              ELSE r' = Plus(r, 1) /\ Return(p, "eof")
  /\ left' = [left EXCEPT ![p] = 0]
  /\ Goto(p, "ret")
  /\ UNCHANGED <<buf, w, e, lock, killed>>

ReadKilled(p) ==
  /\ Section(p) /\ r = w
  /\ p \in killed
  /\ got' = [got EXCEPT ![p] = <<>>]
  /\ Return(p, "failed")
  /\ left' = [left EXCEPT ![p] = 0]
  /\ Goto(p, "ret")
  /\ lock' = None
  /\ UNCHANGED <<input, killed>>

ReadWait(p) ==
  /\ Section(p) /\ r = w
  /\ p \notin killed
  /\ Goto(p, "sleep")
  /\ lock' = p
  /\ UNCHANGED <<input, left, got, result, killed>>

\* sleep(): on the channel and cons.lock released, under ptable.lock.
Sleep(p) ==
  /\ pc[p] = "sleep"
  /\ Goto(p, "asleep")
  /\ lock' = None
  /\ UNCHANGED <<input, left, got, result, killed>>

----------------------------------------------------------------------------

Read(p) ==
  ReadChars(p) \/ ReadEof(p) \/ ReadKilled(p) \/ ReadWait(p)

Next ==
  \/ \E t \in Typed : Consoleintr(t)
  \/ \E p \in Process :
       \/ ReadCall(p) \/ Read(p) \/ Sleep(p) \/ SyscallReturn(p) \/ Exit(p)
       \/ \E q \in Process : Kill(p, q)

Spec == Init /\ [][Next]_vars

----------------------------------------------------------------------------
(* Properties. *)

\* The indices keep their order when they wrap, a full ring is committed as a
\* whole (or nobody could ever read it).
TypeOK ==
  /\ \A i \in {r, w, e} : i \in 0..(UintMod - 1)
  /\ Minus(w, r) <= Minus(e, r) /\ Minus(e, r) <= INPUT_BUF
  /\ Full => w = e
  /\ buf \in [0..(INPUT_BUF - 1) -> Char \cup {"nul"}]
  /\ lock \in Process \cup {None}
  /\ pc \in [Process -> Points]
  /\ left \in [Process -> 0..MaxN]
  /\ \A p \in Process : Len(got[p]) + left[p] <= MaxN
  /\ result \in [Process -> {None, "done", "eof", "failed"}]
  /\ killed \subseteq Process

\* The ring implements the line buffer: no committed character is lost,
\* duplicated, erased or given to two readers, a read never goes past a line
\* end, and ^D is reported once, as an empty read of its own.
Lines == INSTANCE LineBuffer WITH
  Capacity <- INPUT_BUF,
  ready <- Chars(r, Minus(w, r)),
  line <- Chars(w, Minus(e, w)),
  eof <- {p \in Process : result[p] = "eof"}
LinesSpec == Lines!Spec

\* No lost wakeup: with cons.lock free, a process sleeps only when no committed
\* input is left, although readers that were woken may have taken a part of it.
NoLostWakeup ==
  lock = None => \A p \in Process : pc[p] = "asleep" => r = w

----------------------------------------------------------------------------
(* Fairness: a running process goes on, and a lock that is free again and  *)
(* again is won.                                                           *)

Fairness ==
  \A p \in Process :
    /\ WF_vars(Sleep(p) \/ SyscallReturn(p))
    /\ SF_vars(Read(p))

FairSpec == Spec /\ Fairness

\* A read returns while there is committed input, unless other readers take it.
InputRead ==
  \A p \in Process :
    pc[p] \in {"read", "sleep", "asleep"} /\ r # w
      ~> pc[p] \in {"ret", "user"} \/ r = w

=============================================================================
