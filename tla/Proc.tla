-------------------------------- MODULE Proc --------------------------------
(***************************************************************************)
(* The process table of kernel/proc.c: the round-robin scheduler of every  *)
(* CPU, timer preemption, fork, wait, exit, kill and sys_sleep, with the   *)
(* two spinlocks these handlers take (ptable.lock and tickslock).          *)
(*                                                                         *)
(* A critical section that acquires and releases its lock is one step,     *)
(* guarded by the lock being free.  A section that ends in sched() is the  *)
(* exception that makes xv6 delicate: the lock stays held while the CPU    *)
(* changes stacks and is released on another stack, so the lock's holder   *)
(* is a variable.                                                          *)
(***************************************************************************)
EXTENDS Integers

CONSTANTS
  NPROC,      \* slots of ptable.proc; slot 1 is initproc
  NCPU,       \* CPUs; CPU 0 counts the ticks
  MaxSleep,   \* longest argument of sys_sleep, in ticks (bound)
  UserCalls   \* the system calls that the program of each slot makes (bound)

ASSUME NPROCAssumption == NPROC \in Nat /\ NPROC >= 2
ASSUME NCPUAssumption == NCPU \in Nat \ {0}
ASSUME MaxSleepAssumption == MaxSleep \in Nat \ {0}

Procs == 1..NPROC
Calls == {"fork", "wait", "sleep", "kill", "exit"}
ASSUME UserCallsAssumption == UserCalls \in [Procs -> SUBSET Calls]

CPUs == 0..(NCPU - 1)
initproc == 1
Null == 0          \* a null struct proc*, and the scheduler's own stack
Free == -1         \* no CPU holds the spinlock
Ticks == -1        \* the channel &ticks; the channel of wait is the caller
Failed == -1       \* init's fork returned -1

States == {"UNUSED", "EMBRYO", "SLEEPING", "RUNNABLE", "RUNNING", "ZOMBIE"}
Points == {"forkret", "user", "fork", "kstack", "copyuvm", "ready", "wait",
           "waiting", "sleep", "sleepcheck", "gosleep", "asleep", "reacquire",
           "kill", "exit", "lastlock", "dead", "sysret", "panic"}
Stages == {"none", "tick", "wakeup", "check", "yield"}

VARIABLES
  (* struct proc, per slot *)
  state, parent, chan, killed,
  haspid,     \* p->pid is not 0 (pids are unique: a slot stands for its pid)
  kstack,     \* p->kstack is an allocated page
  (* the kernel thread of a slot, saved on that stack *)
  pc,         \* where it is
  np,         \* fork's local np
  left,       \* sys_sleep: n - (ticks - ticks0), 0 when the time is over
  preempted,  \* it is inside yield(), called from the timer trap
  (* struct cpu, per CPU *)
  cproc,      \* c->proc
  stack,      \* the process whose stack the CPU runs on, Null: scheduler's
  spc,        \* where the scheduler loop is
  scan,       \* rr_scheduler's p: last slot run in this pass (0: none)
  irq,        \* stage of the timer trap the CPU is in
  (* spinlocks *)
  ptlock, tklock,  \* the CPU that holds ptable.lock, tickslock
  spin,       \* CPUs that spin in acquire(): interrupts are already off
  shell       \* user/init.c: the pid it waits for

ptable == <<state, parent, chan, killed, haspid, kstack>>
threads == <<pc, np, left, preempted>>
cpus == <<cproc, stack, spc, scan, irq>>
locks == <<ptlock, tklock, spin>>
vars == <<ptable, threads, cpus, locks, shell>>

----------------------------------------------------------------------------
(* Helpers. *)

\* The slot a loop from &ptable.proc[0] upward stops at.
First(S) == {p \in S : \A q \in S : p <= q}

Children(p) == {q \in Procs : parent[q] = p}
Zombies(p) == {q \in Children(p) : state[q] = "ZOMBIE"}

\* wakeup1(ch) applied to a table of states.
Wakeup1(st, ch) ==
  [p \in Procs |-> IF st[p] = "SLEEPING" /\ chan[p] = ch THEN "RUNNABLE"
                                                         ELSE st[p]]

\* CPU c executes process p at point l, outside any interrupt; a process that
\* is not RUNNING any more has only the call of sched() before it.
At(c, p, l) ==
  /\ stack[c] = p /\ irq[c] = "none"
  /\ state[p] = "RUNNING" /\ ~preempted[p] /\ pc[p] = l

Goto(p, l) == pc' = [pc EXCEPT ![p] = l]

\* acquire() by CPU c ends: it does not spin any more.
Acquired(c) == spin' = spin \ {c}

\* A critical section of ptable.lock that is one step.
Locked(c) == ptlock = Free /\ UNCHANGED ptlock /\ Acquired(c)

\* The section ends in a call of sched(): ptable.lock stays held.
KeepLock(c) == ptlock = Free /\ ptlock' = c /\ Acquired(c)

----------------------------------------------------------------------------
(* main(): userinit has made slot 1 RUNNABLE, the CPUs enter scheduler(). *)

Init ==
  /\ state = [p \in Procs |-> IF p = initproc THEN "RUNNABLE" ELSE "UNUSED"]
  /\ parent = [p \in Procs |-> Null]
  /\ chan = [p \in Procs |-> Null]
  /\ killed = [p \in Procs |-> FALSE]
  /\ haspid = [p \in Procs |-> p = initproc]
  /\ kstack = [p \in Procs |-> p = initproc]
  /\ pc = [p \in Procs |-> IF p = initproc THEN "forkret" ELSE "dead"]
  /\ np = [p \in Procs |-> Null]
  /\ left = [p \in Procs |-> 0]
  /\ preempted = [p \in Procs |-> FALSE]
  /\ cproc = [c \in CPUs |-> Null]
  /\ stack = [c \in CPUs |-> Null]
  /\ spc = [c \in CPUs |-> "acquire"]
  /\ scan = [c \in CPUs |-> 0]
  /\ irq = [c \in CPUs |-> "none"]
  /\ ptlock = Free
  /\ tklock = Free
  /\ spin = {}
  /\ shell = Null

----------------------------------------------------------------------------
(* rr_scheduler on CPU c. *)

InScheduler(c, l) == stack[c] = Null /\ irq[c] = "none" /\ spc[c] = l

\* hlt(): the CPU stops until an interrupt.
SchedHalt(c) ==
  /\ InScheduler(c, "sti")
  /\ spc' = [spc EXCEPT ![c] = "hlt"]
  /\ UNCHANGED <<ptable, threads, cproc, stack, scan, irq, locks, shell>>

SchedAcquire(c) ==
  /\ InScheduler(c, "acquire")
  /\ KeepLock(c)
  /\ spc' = [spc EXCEPT ![c] = "scan"]
  /\ scan' = [scan EXCEPT ![c] = 0]
  /\ UNCHANGED <<ptable, threads, cproc, stack, irq, tklock, shell>>

\* Mutant of Ahead: after a process ran, the loop starts again at slot 1.
AheadRestarts(c) == {p \in Procs : state[p] = "RUNNABLE"}

\* The slots the loop has still to look at.
Ahead(c) == {p \in Procs : p > scan[c] /\ state[p] = "RUNNABLE"}

\* The next RUNNABLE slot gets the CPU; ptable.lock goes with it.
SchedRun(c) ==
  /\ InScheduler(c, "scan")
  /\ \E p \in First(Ahead(c)) :
       /\ cproc' = [cproc EXCEPT ![c] = p]
       /\ state' = [state EXCEPT ![p] = "RUNNING"]
       /\ stack' = [stack EXCEPT ![c] = p]
       /\ scan' = [scan EXCEPT ![c] = p]
  /\ UNCHANGED <<parent, chan, killed, haspid, kstack, threads, spc, irq,
                 locks, shell>>

\* End of the pass: release, and halt if the pass ran nothing.
SchedEnd(c) ==
  /\ InScheduler(c, "scan")
  /\ Ahead(c) = {}
  /\ ptlock' = Free
  /\ spc' = [spc EXCEPT ![c] = IF scan[c] = 0 THEN "sti" ELSE "acquire"]
  /\ UNCHANGED <<ptable, threads, cproc, stack, scan, irq, tklock, spin, shell>>

\* sched(): leave the stack of a process that is not RUNNING any more, for
\* the scheduler loop, which sets c->proc = 0.
Sched(c) ==
  /\ stack[c] # Null
  /\ state[stack[c]] # "RUNNING"
  /\ ptlock = c
  /\ stack' = [stack EXCEPT ![c] = Null]
  /\ cproc' = [cproc EXCEPT ![c] = Null]
  /\ UNCHANGED <<ptable, threads, spc, scan, irq, locks, shell>>

----------------------------------------------------------------------------
(* The timer interrupt on CPU c (trap.c). *)

\* Interrupts are off while the CPU holds a spinlock, in a trap, in panic.
InterruptsOn(c) ==
  /\ irq[c] = "none"
  /\ ptlock # c /\ tklock # c /\ c \notin spin
  /\ stack[c] # Null => pc[stack[c]] # "panic"

Timer(c) ==
  /\ InterruptsOn(c)
  /\ irq' = [irq EXCEPT ![c] = IF c = 0 THEN "tick" ELSE "check"]
  /\ spc' = [spc EXCEPT ![c] =
               IF stack[c] = Null /\ @ = "hlt" THEN "acquire" ELSE @]
  /\ UNCHANGED <<ptable, threads, cproc, stack, scan, locks, shell>>

\* acquire(&tickslock); ticks++
Tick(c) ==
  /\ irq[c] = "tick"
  /\ tklock = Free
  /\ tklock' = c
  /\ left' = [p \in Procs |-> IF left[p] > 0 THEN left[p] - 1 ELSE 0]
  /\ irq' = [irq EXCEPT ![c] = "wakeup"]
  /\ UNCHANGED <<ptable, pc, np, preempted, cproc, stack, spc, scan, ptlock, spin,
                 shell>>

\* Mutant of TickWakeup: nobody is woken.
TickSilent(c) ==
  /\ irq[c] = "wakeup"
  /\ Locked(c)
  /\ tklock' = Free
  /\ irq' = [irq EXCEPT ![c] = "check"]
  /\ UNCHANGED <<ptable, threads, cproc, stack, spc, scan, shell>>

\* wakeup(&ticks); release(&tickslock)
TickWakeup(c) ==
  /\ irq[c] = "wakeup"
  /\ Locked(c)
  /\ state' = Wakeup1(state, Ticks)
  /\ tklock' = Free
  /\ irq' = [irq EXCEPT ![c] = "check"]
  /\ UNCHANGED <<parent, chan, killed, haspid, kstack, threads, cproc, stack,
                 spc, scan, shell>>

\* The end of trap(): nothing to preempt in the scheduler, exit() if the
\* process in user space was killed, and otherwise yield().
TrapReturn(c) ==
  /\ irq[c] = "check"
  /\ cproc[c] = Null
  /\ irq' = [irq EXCEPT ![c] = "none"]
  /\ UNCHANGED <<ptable, threads, cproc, stack, spc, scan, locks, shell>>

TrapKilled(c) ==
  /\ irq[c] = "check"
  /\ cproc[c] # Null
  /\ killed[cproc[c]] /\ pc[cproc[c]] = "user"
  /\ Goto(cproc[c], "exit")
  /\ irq' = [irq EXCEPT ![c] = "none"]
  /\ UNCHANGED <<ptable, np, left, preempted, cproc, stack, spc, scan, locks,
                 shell>>

TrapYield(c) ==
  /\ irq[c] = "check"
  /\ cproc[c] # Null
  /\ ~(killed[cproc[c]] /\ pc[cproc[c]] = "user")
  /\ state[cproc[c]] = "RUNNING"
  /\ irq' = [irq EXCEPT ![c] = "yield"]
  /\ UNCHANGED <<ptable, threads, cproc, stack, spc, scan, locks, shell>>

\* Mutant of Yield: ptable.lock is released before sched().
YieldRelease(c) ==
  /\ irq[c] = "yield"
  /\ Locked(c)
  /\ state' = [state EXCEPT ![cproc[c]] = "RUNNABLE"]
  /\ preempted' = [preempted EXCEPT ![cproc[c]] = TRUE]
  /\ irq' = [irq EXCEPT ![c] = "none"]
  /\ UNCHANGED <<parent, chan, killed, haspid, kstack, pc, np, left, cproc,
                 stack, spc, scan, tklock, shell>>

\* yield(), up to the call of sched().
Yield(c) ==
  /\ irq[c] = "yield"
  /\ KeepLock(c)
  /\ state' = [state EXCEPT ![cproc[c]] = "RUNNABLE"]
  /\ preempted' = [preempted EXCEPT ![cproc[c]] = TRUE]
  /\ irq' = [irq EXCEPT ![c] = "none"]
  /\ UNCHANGED <<parent, chan, killed, haspid, kstack, pc, np, left, cproc,
                 stack, spc, scan, tklock, shell>>

\* yield() returns from sched(): release, then trap's last killed check.
YieldReturn(c, p) ==
  /\ stack[c] = p /\ irq[c] = "none"
  /\ state[p] = "RUNNING" /\ preempted[p]
  /\ preempted' = [preempted EXCEPT ![p] = FALSE]
  /\ ptlock' = Free
  /\ Goto(p, IF killed[p] /\ pc[p] = "user" THEN "exit" ELSE pc[p])
  /\ UNCHANGED <<ptable, np, left, cpus, tklock, spin, shell>>

----------------------------------------------------------------------------
(* acquire(): the lock the CPU is about to take is busy; interrupts go off   *)
(* and stay off while it spins.                                              *)

Spin(c) ==
  /\ irq[c] = "none" /\ c \notin spin
  /\ \/ InScheduler(c, "acquire") /\ ptlock # Free
     \/ \E p \in Procs :
          \/ ptlock # Free /\ \E l \in {"fork", "ready", "wait", "kill", "lastlock"} :
                              At(c, p, l)
          \/ tklock # Free /\ (At(c, p, "sleep") \/ At(c, p, "reacquire"))
  /\ spin' = spin \cup {c}
  /\ UNCHANGED <<ptable, threads, cpus, ptlock, tklock, shell>>

----------------------------------------------------------------------------
(* Entry to and return from system calls. *)

\* forkret(): the first thing a new thread does is to release the lock.
Forkret(c, p) ==
  /\ At(c, p, "forkret")
  /\ ptlock' = Free
  /\ Goto(p, "user")
  /\ UNCHANGED <<ptable, np, left, preempted, cpus, tklock, spin, shell>>

\* What the program does next: init runs user/init.c, the others anything.
NextCalls(p) ==
  IF p # initproc THEN UserCalls[p]
  ELSE CASE shell = Null -> {"fork"}
         [] shell = Failed -> {"exit"}
         [] OTHER -> {"wait"}

SyscallEnter(c, p) ==
  /\ At(c, p, "user")
  /\ \E call \in NextCalls(p) : Goto(p, IF killed[p] THEN "exit" ELSE call)
  /\ UNCHANGED <<ptable, np, left, preempted, cpus, locks, shell>>

\* A fault in user space: trap marks the process killed and exits it.
UserFault(c, p) ==
  /\ At(c, p, "user")
  /\ p # initproc
  /\ killed' = [killed EXCEPT ![p] = TRUE]
  /\ Goto(p, "exit")
  /\ UNCHANGED <<state, parent, chan, haspid, kstack, np, left, preempted,
                 cpus, locks, shell>>

SyscallReturn(c, p) ==
  /\ At(c, p, "sysret")
  /\ Goto(p, IF killed[p] THEN "exit" ELSE "user")
  /\ UNCHANGED <<ptable, np, left, preempted, cpus, locks, shell>>

----------------------------------------------------------------------------
(* fork() by p on CPU c. *)

\* What fork's result means to init's program.
ShellIs(p, r) == shell' = IF p = initproc THEN r ELSE shell

\* Mutant of ForkAlloc: the slot is not claimed before ptable.lock is released.
ForkAllocUnclaimed(c, p) ==
  /\ At(c, p, "fork")
  /\ Locked(c)
  /\ \E q \in First({r \in Procs : state[r] = "UNUSED"}) :
       /\ haspid' = [haspid EXCEPT ![q] = TRUE]
       /\ np' = [np EXCEPT ![p] = q]
  /\ Goto(p, "kstack")
  /\ UNCHANGED <<state, parent, chan, killed, kstack, left, preempted, cpus,
                 tklock, shell>>

\* allocproc: the first UNUSED slot becomes an EMBRYO with a new pid.
ForkAlloc(c, p) ==
  /\ At(c, p, "fork")
  /\ Locked(c)
  /\ \E q \in First({r \in Procs : state[r] = "UNUSED"}) :
       /\ state' = [state EXCEPT ![q] = "EMBRYO"]
       /\ haspid' = [haspid EXCEPT ![q] = TRUE]
       /\ np' = [np EXCEPT ![p] = q]
  /\ Goto(p, "kstack")
  /\ UNCHANGED <<parent, chan, killed, kstack, left, preempted, cpus, tklock,
                 shell>>

ForkNoSlot(c, p) ==
  /\ At(c, p, "fork")
  /\ Locked(c)
  /\ \A r \in Procs : state[r] # "UNUSED"
  /\ Goto(p, "sysret")
  /\ ShellIs(p, Failed)
  /\ UNCHANGED <<ptable, np, left, preempted, cpus, tklock>>

\* kalloc fails: the slot is given back without ptable.lock.
ForkNoStack(c, p) ==
  /\ At(c, p, "kstack")
  /\ state' = [state EXCEPT ![np[p]] = "UNUSED"]
  /\ np' = [np EXCEPT ![p] = Null]
  /\ Goto(p, "sysret")
  /\ ShellIs(p, Failed)
  /\ UNCHANGED <<parent, chan, killed, haspid, kstack, left, preempted, cpus,
                 locks>>

ForkStack(c, p) ==
  /\ At(c, p, "kstack")
  /\ kstack' = [kstack EXCEPT ![np[p]] = TRUE]
  /\ pc' = [pc EXCEPT ![p] = "copyuvm", ![np[p]] = "forkret"]
  /\ UNCHANGED <<state, parent, chan, killed, haspid, np, left, preempted,
                 cpus, locks, shell>>

\* copyuvm fails: free the stack, give the slot back, without the lock.
ForkNoMemory(c, p) ==
  /\ At(c, p, "copyuvm")
  /\ kstack' = [kstack EXCEPT ![np[p]] = FALSE]
  /\ state' = [state EXCEPT ![np[p]] = "UNUSED"]
  /\ np' = [np EXCEPT ![p] = Null]
  /\ pc' = [pc EXCEPT ![p] = "sysret", ![np[p]] = "dead"]
  /\ ShellIs(p, Failed)
  /\ UNCHANGED <<parent, chan, killed, haspid, left, preempted, cpus, locks>>

ForkCopy(c, p) ==
  /\ At(c, p, "copyuvm")
  /\ parent' = [parent EXCEPT ![np[p]] = p]
  /\ Goto(p, "ready")
  /\ UNCHANGED <<state, chan, killed, haspid, kstack, np, left, preempted,
                 cpus, locks, shell>>

ForkReady(c, p) ==
  /\ At(c, p, "ready")
  /\ Locked(c)
  /\ state' = [state EXCEPT ![np[p]] = "RUNNABLE"]
  /\ np' = [np EXCEPT ![p] = Null]
  /\ Goto(p, "sysret")
  /\ ShellIs(p, np[p])
  /\ UNCHANGED <<parent, chan, killed, haspid, kstack, left, preempted, cpus,
                 tklock>>

----------------------------------------------------------------------------
(* wait() by p on CPU c: the scan runs on entry, with the lock just taken, *)
(* and after each return from sleep(), with the lock handed over by sched. *)

Scanning(c, p) ==
  \/ At(c, p, "wait") /\ ptlock = Free
  \/ At(c, p, "waiting") /\ ptlock = c

WaitReap(c, p) ==
  /\ Scanning(c, p)
  /\ \E q \in First(Zombies(p)) :
       /\ kstack' = [kstack EXCEPT ![q] = FALSE]
       /\ haspid' = [haspid EXCEPT ![q] = FALSE]
       /\ parent' = [parent EXCEPT ![q] = Null]
       /\ killed' = [killed EXCEPT ![q] = FALSE]
       /\ state' = [state EXCEPT ![q] = "UNUSED"]
       /\ ShellIs(p, IF q = shell THEN Null ELSE shell)
  /\ chan' = [chan EXCEPT ![p] = Null]
  /\ ptlock' = Free
  /\ Acquired(c)
  /\ Goto(p, "sysret")
  /\ UNCHANGED <<np, left, preempted, cpus, tklock>>

WaitFail(c, p) ==
  /\ Scanning(c, p)
  /\ Zombies(p) = {}
  /\ Children(p) = {} \/ killed[p]
  /\ chan' = [chan EXCEPT ![p] = Null]
  /\ ptlock' = Free
  /\ Acquired(c)
  /\ Goto(p, "sysret")
  /\ ShellIs(p, Null)
  /\ UNCHANGED <<state, parent, killed, haspid, kstack, np, left, preempted,
                 cpus, tklock>>

\* sleep(curproc, &ptable.lock)
WaitSleep(c, p) ==
  /\ Scanning(c, p)
  /\ Zombies(p) = {}
  /\ Children(p) # {} /\ ~killed[p]
  /\ chan' = [chan EXCEPT ![p] = p]
  /\ state' = [state EXCEPT ![p] = "SLEEPING"]
  /\ Acquired(c)
  /\ Goto(p, "waiting")
  /\ ptlock' = c
  /\ UNCHANGED <<parent, killed, haspid, kstack, np, left, preempted, cpus,
                 tklock, shell>>

----------------------------------------------------------------------------
(* sys_sleep() by p on CPU c. *)

SleepStart(c, p) ==
  /\ At(c, p, "sleep")
  /\ tklock = Free
  /\ tklock' = c
  /\ \E n \in 0..MaxSleep : left' = [left EXCEPT ![p] = n]
  /\ Acquired(c)
  /\ Goto(p, "sleepcheck")
  /\ UNCHANGED <<ptable, np, preempted, cpus, ptlock, shell>>

\* The time is over, or the caller was killed.
SleepDone(c, p) ==
  /\ At(c, p, "sleepcheck")
  /\ tklock = c
  /\ left[p] = 0 \/ killed[p]
  /\ tklock' = Free
  /\ left' = [left EXCEPT ![p] = 0]
  /\ Goto(p, "sysret")
  /\ UNCHANGED <<ptable, np, preempted, cpus, ptlock, spin, shell>>

\* The decision to sleep, without ptable.lock: a kill may still come.
SleepMore(c, p) ==
  /\ At(c, p, "sleepcheck")
  /\ tklock = c
  /\ left[p] > 0 /\ ~killed[p]
  /\ Goto(p, "gosleep")
  /\ UNCHANGED <<ptable, np, left, preempted, cpus, locks, shell>>

\* sleep(&ticks, &tickslock): ptable.lock is taken before tickslock is let go.
SleepTicks(c, p) ==
  /\ At(c, p, "gosleep")
  /\ tklock = c
  /\ KeepLock(c)
  /\ tklock' = Free
  /\ chan' = [chan EXCEPT ![p] = Ticks]
  /\ state' = [state EXCEPT ![p] = "SLEEPING"]
  /\ Goto(p, "asleep")
  /\ UNCHANGED <<parent, killed, haspid, kstack, np, left, preempted, cpus,
                 shell>>

\* Back from sched(): release ptable.lock ...
SleepWoken(c, p) ==
  /\ At(c, p, "asleep")
  /\ ptlock = c
  /\ chan' = [chan EXCEPT ![p] = Null]
  /\ ptlock' = Free
  /\ Goto(p, "reacquire")
  /\ UNCHANGED <<state, parent, killed, haspid, kstack, np, left, preempted,
                 cpus, tklock, spin, shell>>

\* ... and then reacquire tickslock.
SleepReacquire(c, p) ==
  /\ At(c, p, "reacquire")
  /\ tklock = Free
  /\ tklock' = c
  /\ Acquired(c)
  /\ Goto(p, "sleepcheck")
  /\ UNCHANGED <<ptable, np, left, preempted, cpus, ptlock, shell>>

----------------------------------------------------------------------------
(* kill(pid) by p on CPU c: the first slot with that pid, whatever its     *)
(* state.  kill(0) matches the first slot without a pid.                   *)

Matches == {q \in Procs : haspid[q]} \cup First({q \in Procs : ~haspid[q]})

\* Mutants of Kill: every process but a RUNNING one is made RUNNABLE; nobody is.
KillResurrects(c, p) ==
  /\ At(c, p, "kill")
  /\ Locked(c)
  /\ \E q \in Matches :
       /\ killed' = [killed EXCEPT ![q] = TRUE]
       /\ state' = [state EXCEPT ![q] = IF @ # "RUNNING" THEN "RUNNABLE" ELSE @]
  /\ Goto(p, "sysret")
  /\ UNCHANGED <<parent, chan, haspid, kstack, np, left, preempted, cpus,
                 tklock, shell>>

KillSilent(c, p) ==
  /\ At(c, p, "kill")
  /\ Locked(c)
  /\ \E q \in Matches : killed' = [killed EXCEPT ![q] = TRUE]
  /\ Goto(p, "sysret")
  /\ UNCHANGED <<state, parent, chan, haspid, kstack, np, left, preempted,
                 cpus, tklock, shell>>

Kill(c, p) ==
  /\ At(c, p, "kill")
  /\ Locked(c)
  /\ \E q \in Matches :
       /\ killed' = [killed EXCEPT ![q] = TRUE]
       /\ state' = [state EXCEPT ![q] = IF @ = "SLEEPING" THEN "RUNNABLE"
                                                          ELSE @]
  /\ Goto(p, "sysret")
  /\ UNCHANGED <<parent, chan, haspid, kstack, np, left, preempted, cpus,
                 tklock, shell>>

\* No slot has the pid.
KillNobody(c, p) ==
  /\ At(c, p, "kill")
  /\ Locked(c)
  /\ Goto(p, "sysret")
  /\ UNCHANGED <<ptable, np, left, preempted, cpus, tklock, shell>>

----------------------------------------------------------------------------
(* exit() by p on CPU c. *)

\* Files and cwd are closed without ptable.lock (abstracted); init panics.
ExitClose(c, p) ==
  /\ At(c, p, "exit")
  /\ Goto(p, IF p = initproc THEN "panic" ELSE "lastlock")
  /\ UNCHANGED <<ptable, np, left, preempted, cpus, locks, shell>>

\* Mutant of ExitStates: the parent is not woken.
ExitStatesSilent(p) == [state EXCEPT ![p] = "ZOMBIE"]

\* The states exit leaves: wake the parent, then init if it inherits a zombie.
ExitStates(p) ==
  LET woken == Wakeup1(state, parent[p])
      more == IF Zombies(p) # {} THEN Wakeup1(woken, initproc) ELSE woken
  IN  [more EXCEPT ![p] = "ZOMBIE"]

\* Mutant of Exit: the children keep their dead parent.
ExitOrphans(c, p) ==
  /\ At(c, p, "lastlock")
  /\ KeepLock(c)
  /\ state' = ExitStates(p)
  /\ Goto(p, "dead")
  /\ UNCHANGED <<parent, chan, killed, haspid, kstack, np, left, preempted,
                 cpus, tklock, shell>>

Exit(c, p) ==
  /\ At(c, p, "lastlock")
  /\ KeepLock(c)
  /\ state' = ExitStates(p)
  /\ parent' = [q \in Procs |-> IF parent[q] = p THEN initproc ELSE parent[q]]
  /\ Goto(p, "dead")
  /\ UNCHANGED <<chan, killed, haspid, kstack, np, left, preempted, cpus,
                 tklock, shell>>

\* panic(): interrupts off, spin for ever.
Panic(c, p) == At(c, p, "panic") /\ UNCHANGED vars

----------------------------------------------------------------------------

CpuStep(c) ==
  \/ SchedHalt(c) \/ SchedAcquire(c) \/ SchedRun(c) \/ SchedEnd(c)
  \/ Sched(c)
  \/ Tick(c) \/ TickWakeup(c)
  \/ TrapReturn(c) \/ TrapKilled(c) \/ TrapYield(c) \/ Yield(c)
  \/ Spin(c)

Syscall(c, p) ==
  \/ ForkAlloc(c, p) \/ ForkNoSlot(c, p) \/ ForkNoStack(c, p)
  \/ ForkStack(c, p) \/ ForkNoMemory(c, p) \/ ForkCopy(c, p) \/ ForkReady(c, p)
  \/ WaitReap(c, p) \/ WaitFail(c, p) \/ WaitSleep(c, p)
  \/ SleepStart(c, p) \/ SleepDone(c, p) \/ SleepMore(c, p) \/ SleepTicks(c, p)
  \/ SleepWoken(c, p) \/ SleepReacquire(c, p)
  \/ Kill(c, p) \/ KillNobody(c, p)
  \/ ExitClose(c, p) \/ Exit(c, p)

ThreadStep(c, p) ==
  \/ YieldReturn(c, p) \/ Forkret(c, p) \/ SyscallReturn(c, p)
  \/ Syscall(c, p)

User(c, p) == SyscallEnter(c, p) \/ UserFault(c, p)

Next ==
  \E c \in CPUs :
    \/ Timer(c)
    \/ CpuStep(c)
    \/ \E p \in Procs : ThreadStep(c, p) \/ User(c, p) \/ Panic(c, p)

Spec == Init /\ [][Next]_vars

----------------------------------------------------------------------------
(* Properties. *)

\* Every variable has its type.
TypeOK ==
  /\ state \in [Procs -> States]
  /\ parent \in [Procs -> Procs \cup {Null}]
  /\ chan \in [Procs -> Procs \cup {Null, Ticks}]
  /\ killed \in [Procs -> BOOLEAN]
  /\ haspid \in [Procs -> BOOLEAN]
  /\ kstack \in [Procs -> BOOLEAN]
  /\ pc \in [Procs -> Points]
  /\ np \in [Procs -> Procs \cup {Null}]
  /\ left \in [Procs -> 0..MaxSleep]
  /\ preempted \in [Procs -> BOOLEAN]
  /\ cproc \in [CPUs -> Procs \cup {Null}]
  /\ stack \in [CPUs -> Procs \cup {Null}]
  /\ spc \in [CPUs -> {"acquire", "scan", "sti", "hlt"}]
  /\ scan \in [CPUs -> Procs \cup {0}]
  /\ irq \in [CPUs -> Stages]
  /\ ptlock \in CPUs \cup {Free}
  /\ tklock \in CPUs \cup {Free}
  /\ spin \subseteq CPUs
  /\ shell \in Procs \cup {Null, Failed}


(* The kernel stacks. *)

\* The stack a CPU runs on belongs to one CPU, is the one of myproc(), is not
\* freed, and its process is RUNNING unless this CPU holds ptable.lock on the
\* way to sched(): this is why sched() keeps the lock across the swtch.
StackSafe ==
  \A c \in CPUs : stack[c] # Null =>
    /\ kstack[stack[c]]
    /\ cproc[c] = stack[c]
    /\ state[stack[c]] = "RUNNING" \/ ptlock = c
    /\ \A d \in CPUs : stack[d] = stack[c] => d = c

\* A process table entry owns a stack page exactly while it stands for a
\* process: fork's failure paths and wait leave no page behind.
StackAccounted ==
  \A p \in Procs :
    /\ state[p] = "UNUSED" => ~kstack[p]
    /\ state[p] \notin {"UNUSED", "EMBRYO"} => kstack[p]

(* wait, exit and kill. *)

\* No lost wakeup in wait(): when ptable.lock is free, a process that sleeps
\* for its children has a child, none of them is a zombie, and it is not
\* killed (exit wakes the parent before it becomes ZOMBIE, kill sets the flag
\* and wakes in one section, wait tests and sleeps in one section).
NoLostChild ==
  ptlock = Free =>
    \A p \in Procs : state[p] = "SLEEPING" /\ chan[p] = p =>
      Children(p) # {} /\ Zombies(p) = {} /\ ~killed[p]

\* No lost tick: a process that sleeps in sys_sleep has time left, unless the
\* tick that ended it is just going to call wakeup(&ticks).
NoLostTick ==
  \A p \in Procs : state[p] = "SLEEPING" /\ chan[p] = Ticks =>
    left[p] > 0 \/ irq[0] = "wakeup"

\* Every process but init has a parent that can still wait for it: exit hands
\* the children of an exiting process to init in the section that ends it.
ParentAlive ==
  \A p \in Procs \ {initproc} :
    state[p] \notin {"UNUSED", "EMBRYO"} =>
      /\ parent[p] \in Procs \ {p}
      /\ state[parent[p]] \in {"SLEEPING", "RUNNABLE", "RUNNING"}

\* "An exited process remains in the zombie state until its parent calls
\* wait()" (exit): a zombie's slot changes only to UNUSED, while its parent
\* is on a CPU inside wait().
ZombieStays ==
  [][\A p \in Procs : state[p] = "ZOMBIE" /\ state'[p] # "ZOMBIE" =>
       /\ state'[p] = "UNUSED"
       /\ \E c \in CPUs : stack[c] = parent[p]
       /\ pc[parent[p]] \in {"wait", "waiting"}]_vars

----------------------------------------------------------------------------
(* Fairness.  The LAPIC timer is periodic and an interrupt that arrives with *)
(* interrupts off stays pending; a CPU executes instructions between two     *)
(* ticks; and a spinlock that is free again and again is won in the end.     *)

TrapStep(c) ==
  \/ SchedRun(c) \/ SchedEnd(c) \/ Sched(c)
  \/ Tick(c) \/ TickWakeup(c)
  \/ TrapReturn(c) \/ TrapKilled(c) \/ TrapYield(c) \/ Yield(c)
  \/ \E p \in Procs : YieldReturn(c, p) \/ Forkret(c, p)

Fairness ==
  /\ \A c \in CPUs :
       /\ SF_vars(Timer(c))
       /\ SF_vars(TrapStep(c))
       /\ SF_vars(\/ SchedHalt(c) \/ SchedAcquire(c)
                  \/ Spin(c) /\ stack[c] = Null)
  /\ \A p \in Procs :
       SF_vars(\E c \in CPUs : \/ Spin(c) /\ stack[c] = p
                               \/ SyscallReturn(c, p) \/ Syscall(c, p))

FairSpec == Spec /\ Fairness

Panicked == \E p \in Procs : pc[p] = "panic"

\* Round robin: a RUNNABLE process gets a CPU; nothing else ends that state.
RunnableRuns == \A p \in Procs : []<>(state[p] # "RUNNABLE" \/ Panicked)

\* kill: a process other than init exits, whatever it was doing ("Wake process
\* from sleep if necessary"); killed is cleared when its parent reaps it.
KilledExits ==
  \A p \in Procs \ {initproc} :
    []<>(~(killed[p] /\ state[p] \in {"SLEEPING", "RUNNABLE", "RUNNING"}) \/ Panicked)

\* wait() returns once a child is a zombie; nobody else reaps that child.
WaitReturns ==
  \A p \in Procs :
    []<>(~(pc[p] \in {"wait", "waiting"} /\ Zombies(p) # {}) \/ Panicked)

=============================================================================
