----------------------------- MODULE BlockCache -----------------------------
(***************************************************************************)
(* What the buffer cache promises ("one process at a time can use a        *)
(* buffer", kernel/bio.c): each block is used by one process at a time, and *)
(* who gets a block sees what its last user left in it, however the block   *)
(* moves between memory and disk.                                           *)
(***************************************************************************)
CONSTANTS Process, Block, Value, None

VARIABLES
  content,   \* the latest contents of every block
  user,      \* the process that uses the block, or None
  view       \* what this process finds in its buffer, or None

vars == <<content, user, view>>

Init ==
  /\ content \in [Block -> Value]
  /\ user = [b \in Block |-> None]
  /\ view = [b \in Block |-> None]

Get(p, b) ==
  /\ user[b] = None
  /\ user' = [user EXCEPT ![b] = p]
  /\ view' = [view EXCEPT ![b] = content[b]]
  /\ UNCHANGED content

Put(p, b, v) ==
  /\ user[b] = p
  /\ content' = [content EXCEPT ![b] = v]
  /\ view' = [view EXCEPT ![b] = v]
  /\ UNCHANGED user

Release(p, b) ==
  /\ user[b] = p
  /\ user' = [user EXCEPT ![b] = None]
  /\ view' = [view EXCEPT ![b] = None]
  /\ UNCHANGED content

Next ==
  \E p \in Process, b \in Block :
    Get(p, b) \/ Release(p, b) \/ \E v \in Value : Put(p, b, v)

Spec == Init /\ [][Next]_vars

=============================================================================
