------------------------------ MODULE TxnStore ------------------------------
(***************************************************************************)
(* What the log promises to the file system: a store of blocks on which    *)
(* processes run operations, where a crash takes the store back to a point *)
(* at which no operation was open, so that each operation happened         *)
(* entirely or not at all.                                                 *)
(***************************************************************************)
CONSTANTS Block, Value, Process

VARIABLES
  durable,   \* the blocks as a crash would leave them
  current,   \* the blocks as the operations see them
  open       \* processes between begin_op and end_op

vars == <<durable, current, open>>

Init ==
  /\ durable \in [Block -> Value]
  /\ current = durable
  /\ open = {}

Begin(p) ==
  /\ p \notin open
  /\ open' = open \cup {p}
  /\ UNCHANGED <<durable, current>>

Write(p, b, v) ==
  /\ p \in open
  /\ current' = [current EXCEPT ![b] = v]
  /\ UNCHANGED <<durable, open>>

End(p) ==
  /\ p \in open
  /\ open' = open \ {p}
  /\ UNCHANGED <<durable, current>>

\* All finished operations become durable together, when none is open.
Commit ==
  /\ open = {}
  /\ durable' = current
  /\ UNCHANGED <<current, open>>

Crash ==
  /\ current' = durable
  /\ open' = {}
  /\ UNCHANGED durable

Next ==
  \/ Commit \/ Crash
  \/ \E p \in Process :
       \/ Begin(p) \/ End(p)
       \/ \E b \in Block, v \in Value : Write(p, b, v)

Spec == Init /\ [][Next]_vars

=============================================================================
