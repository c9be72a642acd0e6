-------------------------------- MODULE Fifo --------------------------------
(***************************************************************************)
(* What a pipe promises to its users: bytes come out in the order in which *)
(* they went in, each once; the end of file is reported only when nothing  *)
(* is left and no write end is open; the pipe disappears, with what is     *)
(* left in it, only when both ends are closed.                             *)
(***************************************************************************)
EXTENDS Naturals, Sequences

CONSTANTS Process, Byte, Capacity, MaxN

VARIABLES
  queue,      \* the bytes in the pipe
  open,       \* the ends that are open, a subset of {"read", "write"}
  exists,     \* the pipe is allocated
  got,        \* bytes a finished read has for its caller
  eof         \* processes whose finished read reported the end of file

vars == <<queue, open, exists, got, eof>>

Init ==
  /\ queue = <<>> /\ open = {} /\ exists = FALSE
  /\ got = [p \in Process |-> <<>>]
  /\ eof = {}

New ==
  /\ ~exists
  /\ exists' = TRUE /\ queue' = <<>> /\ open' = {"read", "write"}
  /\ UNCHANGED <<got, eof>>

Put ==
  /\ "write" \in open
  /\ \E n \in 1..MaxN : \E s \in [1..n -> Byte] :
       /\ Len(queue) + n <= Capacity
       /\ queue' = queue \o s
  /\ UNCHANGED <<open, exists, got, eof>>

Get(p) ==
  /\ "read" \in open /\ got[p] = <<>> /\ p \notin eof
  /\ \E n \in 1..Len(queue) :
       /\ got' = [got EXCEPT ![p] = SubSeq(queue, 1, n)]
       /\ queue' = SubSeq(queue, n + 1, Len(queue))
  /\ UNCHANGED <<open, exists, eof>>

Eof(p) ==
  /\ "read" \in open /\ "write" \notin open
  /\ queue = <<>> /\ got[p] = <<>>
  /\ eof' = eof \cup {p}
  /\ UNCHANGED <<queue, open, exists, got>>

\* The caller of read takes its result.
Take(p) ==
  /\ got' = [got EXCEPT ![p] = <<>>]
  /\ eof' = eof \ {p}
  /\ UNCHANGED <<queue, open, exists>>

Close(e) ==
  /\ e \in open
  /\ open' = open \ {e}
  /\ UNCHANGED <<queue, exists, got, eof>>

Free ==
  /\ exists /\ open = {}
  /\ exists' = FALSE /\ queue' = <<>>
  /\ UNCHANGED <<open, got, eof>>

Next ==
  \/ New \/ Put \/ Free
  \/ \E e \in {"read", "write"} : Close(e)
  \/ \E p \in Process : Get(p) \/ Eof(p) \/ Take(p)

Spec == Init /\ [][Next]_vars

=============================================================================
