------------------------------- MODULE ProcInv -------------------------------
(***************************************************************************)
(* The inductive invariant of Proc, in named parts: who may be on which    *)
(* stack and in which state, and which step releases the ptable.lock that  *)
(* sched() hands from stack to stack; who may be a parent, and what one    *)
(* that waits may sleep on; and what tickslock keeps from a sleeper.       *)
(***************************************************************************)
EXTENDS Proc

\* The points at which a thread comes back from swtch with ptable.lock held.
Resume == {"forkret", "waiting", "asleep"}

\* The points between allocproc and the end of fork.
Forking == {"kstack", "copyuvm", "ready"}

\* One CPU per stack; the process on it is RUNNING or on its way to sched().
OnStack ==
  \A c \in CPUs : stack[c] # Null =>
    /\ cproc[c] = stack[c]
    /\ spc[c] = "scan"
    /\ state[stack[c]] \notin {"UNUSED", "EMBRYO"}
    /\ state[stack[c]] = "RUNNING" \/ ptlock = c
    /\ \A d \in CPUs : stack[d] = stack[c] => d = c

\* A CPU in its scheduler runs nothing, and holds the lock while it scans.
OffStack ==
  \A c \in CPUs : stack[c] = Null =>
    /\ cproc[c] = Null
    /\ spc[c] = "scan" => ptlock = c

\* A RUNNING process is on a CPU.
RunningOnCpu == \A p \in Procs : state[p] = "RUNNING" => \E c \in CPUs : stack[c] = p

\* A trap is handled without ptable.lock; after its last check it yields a
\* RUNNING process that is at none of the points that expect the lock.
InTrap ==
  \A c \in CPUs : irq[c] # "none" =>
    /\ ptlock # c
    /\ irq[c] = "yield" => stack[c] # Null

\* A RUNNING process that still has to release the lock runs on its holder.
HandOff ==
  \A c \in CPUs :
    stack[c] # Null =>
      (state[stack[c]] = "RUNNING"
         /\ (preempted[stack[c]] \/ pc[stack[c]] \in Resume) => ptlock = c)

\* yield() was called in the middle of something else, by a live process.
PreemptedLive ==
  \A p \in Procs : preempted[p] =>
    /\ state[p] \in {"RUNNABLE", "RUNNING"}
    /\ pc[p] \notin Resume

\* fork works on an EMBRYO of its own.
ForkOwns ==
  \A p \in Procs :
    /\ pc[p] \in Forking <=> np[p] # Null
    /\ np[p] # Null =>
         /\ state[p] \in {"RUNNABLE", "RUNNING"}
         /\ state[np[p]] = "EMBRYO"
         /\ \A q \in Procs : np[q] = np[p] => q = p
         /\ kstack[np[p]] <=> pc[p] # "kstack"

(* Parents and children. *)

Live == {"SLEEPING", "RUNNABLE", "RUNNING"}

\* Orphans go to a process that does not exit.
InitLives ==
  /\ state[initproc] \in Live
  /\ pc[initproc] \notin {"lastlock", "dead"}

\* From copyuvm on, the EMBRYO of fork is a child of the caller.
Linked == \A p \in Procs : pc[p] = "ready" => parent[np[p]] = p

\* Until then no child is there: nobody counts a slot that is not in use.
Fresh ==
  /\ \A q \in Procs : state[q] = "UNUSED" => parent[q] = Null
  /\ \A p \in Procs : pc[p] \in {"kstack", "copyuvm"} => parent[np[p]] = Null

\* NoLostChild, also while somebody holds ptable.lock.
WaitersWait ==
  \A p \in Procs : state[p] = "SLEEPING" /\ chan[p] = p =>
    Children(p) # {} /\ Zombies(p) = {} /\ ~killed[p]

Family == InitLives /\ Linked /\ Fresh /\ ParentAlive /\ WaitersWait

(* The ticks. *)

\* sys_sleep decides to sleep, and sleeps, under tickslock: on a CPU that no
\* interrupt takes away from it.
Deciding == {"sleepcheck", "gosleep"}
DecidesLocked ==
  \A p \in Procs : pc[p] \in Deciding =>
    /\ state[p] = "RUNNING" /\ ~preempted[p]
    /\ \E c \in CPUs : stack[c] = p /\ irq[c] = "none" /\ tklock = c

\* CPU 0 counts the ticks, and wakes the sleepers before it releases tickslock.
TickLocked ==
  \A c \in CPUs :
    /\ irq[c] \in {"tick", "wakeup"} => c = 0
    /\ irq[c] = "wakeup" => tklock = c

TimeLeft == \A p \in Procs : pc[p] = "gosleep" => left[p] > 0

Sleepers == DecidesLocked /\ TickLocked /\ TimeLeft /\ NoLostTick

IInv ==
  /\ TypeOK
  /\ OnStack /\ OffStack /\ RunningOnCpu
  /\ InTrap /\ HandOff /\ PreemptedLive
  /\ ForkOwns /\ StackAccounted
  /\ Family /\ Sleepers

=============================================================================
