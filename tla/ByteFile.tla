------------------------------ MODULE ByteFile ------------------------------
(***************************************************************************)
(* What read, write and the last close of a file promise: a file is a      *)
(* sequence of bytes without holes; a write puts its bytes, each once and  *)
(* in their order, at the offset of the open file, one transaction after   *)
(* the other, and nobody reads in the middle of one; a crash takes every   *)
(* file back to what it was at one and the same moment, when no            *)
(* transaction was under way.                                              *)
(***************************************************************************)
EXTENDS Integers, Sequences

CONSTANTS
  Process, Inode, File, InodeOf,
  Source,     \* Source[p]: the bytes that p writes, from the first one
  Unit,       \* bytes put at once at most
  Lengths     \* of a read

VARIABLES
  content,    \* of each inode
  stable,     \* what a crash takes content back to
  off,        \* offset of each open file, or Closed
  busy,       \* the transaction of a write: who, file, bytes it has put
  sent        \* bytes that the write of each process has put so far

vars == <<content, stable, off, busy, sent>>

Closed == -1
Idle == [who |-> "none", file |-> "none", done |-> 0]
Quiet == \A ip \in Inode : busy[ip] = Idle

Init ==
  /\ content = [ip \in Inode |-> <<>>] /\ stable = content
  /\ off = [f \in File |-> Closed]
  /\ busy = [ip \in Inode |-> Idle]
  /\ sent = [p \in Process |-> 0]

Open(f) ==
  /\ off[f] = Closed /\ off' = [off EXCEPT ![f] = 0]
  /\ UNCHANGED <<content, stable, busy, sent>>

Close(f) ==
  /\ off[f] # Closed /\ off' = [off EXCEPT ![f] = Closed]
  /\ UNCHANGED <<content, stable, busy, sent>>

Begin(p, f) ==
  /\ off[f] # Closed /\ busy[InodeOf[f]] = Idle
  /\ busy' = [busy EXCEPT ![InodeOf[f]] = [who |-> p, file |-> f, done |-> 0]]
  /\ UNCHANGED <<content, stable, off, sent>>

\* c with s at position at: the file grows when s goes past its end.
Overlay(c, at, s) ==
  [i \in 1..(IF at + Len(s) > Len(c) THEN at + Len(s) ELSE Len(c)) |->
     IF i \in (at + 1)..(at + Len(s)) THEN s[i - at] ELSE c[i]]

Put(p, f) ==
  LET ip == InodeOf[f]
      at == off[f] + busy[ip].done
  IN  /\ busy[ip].who = p /\ busy[ip].file = f
      /\ at <= Len(content[ip])
      /\ \E n \in 1..Unit :
           /\ sent[p] + n <= Len(Source[p])
           /\ content' = [content EXCEPT ![ip] =
                            Overlay(@, at, SubSeq(Source[p], sent[p] + 1, sent[p] + n))]
           /\ busy' = [busy EXCEPT ![ip].done = @ + n]
           /\ sent' = [sent EXCEPT ![p] = @ + n]
      /\ UNCHANGED <<stable, off>>

End(f) ==
  LET ip == InodeOf[f]
  IN  /\ busy[ip].file = f
      /\ off' = [off EXCEPT ![f] = @ + busy[ip].done]
      /\ busy' = [busy EXCEPT ![ip] = Idle]
      /\ UNCHANGED <<content, stable, sent>>

\* read returns what is between the old offset and the new one.
Read(f) ==
  LET size == Len(content[InodeOf[f]])
  IN  /\ off[f] # Closed /\ busy[InodeOf[f]] = Idle
      /\ \E n \in Lengths :
           off' = [off EXCEPT ![f] = IF @ + n < size THEN @ + n ELSE size]
      /\ UNCHANGED <<content, stable, busy, sent>>

\* The last link and the last reference are gone.
Remove(ip) ==
  /\ busy[ip] = Idle /\ \A f \in File : InodeOf[f] = ip => off[f] = Closed
  /\ content' = [content EXCEPT ![ip] = <<>>]
  /\ UNCHANGED <<stable, off, busy, sent>>

\* The end of a transaction, which may be the end of a write, and a commit.
EndTxn(p) ==
  /\ \A ip \in Inode : busy[ip].who # p
  /\ sent' \in {sent, [sent EXCEPT ![p] = 0]}
  /\ \/ UNCHANGED stable
     \/ Quiet /\ stable' = content
  /\ UNCHANGED <<content, off, busy>>

Crash ==
  /\ content' = stable
  /\ off' = [f \in File |-> Closed]
  /\ busy' = [ip \in Inode |-> Idle]
  /\ sent' = [p \in Process |-> 0]
  /\ UNCHANGED stable

Next ==
  \/ Crash
  \/ \E f \in File : Open(f) \/ Close(f) \/ End(f) \/ Read(f)
  \/ \E p \in Process : EndTxn(p) \/ \E f \in File : Begin(p, f) \/ Put(p, f)
  \/ \E ip \in Inode : Remove(ip)

Spec == Init /\ [][Next]_vars

=============================================================================
