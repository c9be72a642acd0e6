------------------------------ MODULE LineBuffer ------------------------------
(***************************************************************************)
(* What the console promises to the programs that read it: the line being  *)
(* typed can be edited until it is committed, a committed character cannot *)
(* be taken back and goes to one reader, in order; a read gets at most one *)
(* line, and it reports the end of file exactly when it finds the mark     *)
(* before any other character.                                             *)
(***************************************************************************)
EXTENDS Naturals, Sequences, SequencesExt

CONSTANTS Process, Char, Newline, EndMark, Capacity

VARIABLES
  ready,    \* committed characters nobody has read
  line,     \* the line that is being typed
  got,      \* what the read of a process has for its caller
  eof       \* processes whose finished read reported the end of file

vars == <<ready, line, got, eof>>

Init ==
  /\ ready = <<>> /\ line = <<>>
  /\ got = [p \in Process |-> <<>>]
  /\ eof = {}

\* A line is committed by its end, or when no more fits.
Type ==
  /\ Len(ready) + Len(line) < Capacity
  /\ \E c \in Char :
       IF c \in {Newline, EndMark} \/ Len(ready) + Len(line) + 1 = Capacity
         THEN ready' = ready \o Append(line, c) /\ line' = <<>>
         ELSE line' = Append(line, c) /\ UNCHANGED ready
  /\ UNCHANGED <<got, eof>>

Erase ==
  /\ \/ line # <<>> /\ line' = Front(line)
     \/ line' = <<>>
  /\ UNCHANGED <<ready, got, eof>>

Read(p) ==
  /\ p \notin eof
  /\ \E n \in 1..Len(ready) :
       LET s == got[p] \o SubSeq(ready, 1, n)
       IN  /\ \A i \in 1..Len(s) : s[i] # EndMark
           /\ \A i \in 1..(Len(s) - 1) : s[i] # Newline
           /\ got' = [got EXCEPT ![p] = s]
           /\ ready' = SubSeq(ready, n + 1, Len(ready))
  /\ UNCHANGED <<line, eof>>

Eof(p) ==
  /\ p \notin eof /\ got[p] = <<>>
  /\ ready # <<>> /\ Head(ready) = EndMark
  /\ ready' = Tail(ready)
  /\ eof' = eof \cup {p}
  /\ UNCHANGED <<line, got>>

\* The caller of read takes its result; a killed one takes nothing.
Take(p) ==
  /\ got' = [got EXCEPT ![p] = <<>>]
  /\ eof' = eof \ {p}
  /\ UNCHANGED <<ready, line>>

Next ==
  \/ Type \/ Erase
  \/ \E p \in Process : Read(p) \/ Eof(p) \/ Take(p)

Spec == Init /\ [][Next]_vars

=============================================================================
