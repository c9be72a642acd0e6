----------------------------- MODULE ProcProofs -----------------------------
(***************************************************************************)
(* Proofs about Proc for every number of slots and CPUs.                   *)
(***************************************************************************)
EXTENDS ProcInv, TLAPS

USE NPROCAssumption, NCPUAssumption, MaxSleepAssumption

\* main() and userinit leave every variable with its type.
LEMMA InitType == Init => TypeOK
  BY DEF Init, TypeOK, Procs, CPUs, States, Points, Stages, initproc, Null, Free

\* Every step of a CPU (scheduler, trap, acquire) preserves the types.
LEMMA CpuType ==
  ASSUME TypeOK, NEW c \in CPUs, CpuStep(c) \/ Timer(c)
  PROVE  TypeOK'
<1> USE DEF TypeOK, Procs, CPUs, States, Points, Stages, Null, Free, Ticks, Failed
<1>1. CASE Timer(c)
  BY <1>1 DEF Timer, ptable, threads, locks
<1>2. CASE SchedHalt(c)
  BY <1>2 DEF SchedHalt, ptable, threads, locks
<1>3. CASE SchedAcquire(c)
  BY <1>3 DEF SchedAcquire, KeepLock, Acquired, ptable, threads
<1>4. CASE SchedRun(c)
  <2>1. PICK p \in Procs : /\ cproc' = [cproc EXCEPT ![c] = p]
                           /\ state' = [state EXCEPT ![p] = "RUNNING"]
                           /\ stack' = [stack EXCEPT ![c] = p]
                           /\ scan' = [scan EXCEPT ![c] = p]
    BY <1>4 DEF SchedRun, First, Ahead
  <2> QED
    BY <1>4, <2>1 DEF SchedRun, threads, locks
<1>5. CASE SchedEnd(c)
  BY <1>5 DEF SchedEnd, ptable, threads
<1>6. CASE Sched(c)
  BY <1>6 DEF Sched, ptable, threads, locks
<1>7. CASE Tick(c)
  BY <1>7, SMTT(30) DEF Tick, ptable
<1>8. CASE TickWakeup(c)
  BY <1>8 DEF TickWakeup, Locked, Acquired, Wakeup1, threads
<1>9. CASE TrapReturn(c)
  BY <1>9 DEF TrapReturn, ptable, threads, locks
<1>10. CASE TrapKilled(c)
  BY <1>10 DEF TrapKilled, Goto, ptable, locks
<1>11. CASE TrapYield(c)
  BY <1>11 DEF TrapYield, ptable, threads, locks
<1>12. CASE Yield(c)
  BY <1>12 DEF Yield, KeepLock, Acquired
<1>13. CASE Spin(c)
  BY <1>13 DEF Spin, ptable, threads, cpus
<1> QED
  BY <1>1, <1>2, <1>3, <1>4, <1>5, <1>6, <1>7, <1>8, <1>9, <1>10, <1>11,
     <1>12, <1>13 DEF CpuStep

\* Every step of a thread preserves the types.
LEMMA ThreadType ==
  ASSUME TypeOK, NEW c \in CPUs, NEW p \in Procs,
         ThreadStep(c, p) \/ User(c, p) \/ Panic(c, p)
  PROVE  TypeOK'
<1> USE DEF TypeOK, Procs, CPUs, States, Points, Stages, Null, Free, Ticks, Failed
<1>1. CASE YieldReturn(c, p)
  BY <1>1 DEF YieldReturn, Goto, ptable, cpus
<1>2. CASE Forkret(c, p)
  BY <1>2 DEF Forkret, Goto, ptable, cpus
<1>3. CASE SyscallReturn(c, p)
  BY <1>3 DEF SyscallReturn, Goto, ptable, cpus, locks
<1>4. CASE ForkAlloc(c, p)
  <2>1. PICK q \in Procs : /\ state' = [state EXCEPT ![q] = "EMBRYO"]
                           /\ haspid' = [haspid EXCEPT ![q] = TRUE]
                           /\ np' = [np EXCEPT ![p] = q]
    BY <1>4 DEF ForkAlloc, First
  <2> QED
    BY <1>4, <2>1 DEF ForkAlloc, Goto, Locked, Acquired, cpus
<1>5. CASE ForkNoSlot(c, p)
  BY <1>5 DEF ForkNoSlot, Goto, Locked, Acquired, ShellIs, ptable, cpus
<1>6. CASE ForkNoStack(c, p)
  BY <1>6 DEF ForkNoStack, Goto, ShellIs, cpus, locks
<1>7. CASE ForkStack(c, p)
  BY <1>7 DEF ForkStack, cpus, locks
<1>8. CASE ForkNoMemory(c, p)
  BY <1>8 DEF ForkNoMemory, ShellIs, cpus, locks
<1>9. CASE ForkCopy(c, p)
  BY <1>9 DEF ForkCopy, Goto, cpus, locks
<1>10. CASE ForkReady(c, p)
  BY <1>10 DEF ForkReady, Goto, Locked, Acquired, ShellIs, cpus
<1>11. CASE WaitReap(c, p)
  <2>1. PICK q \in Procs : /\ kstack' = [kstack EXCEPT ![q] = FALSE]
                           /\ haspid' = [haspid EXCEPT ![q] = FALSE]
                           /\ parent' = [parent EXCEPT ![q] = Null]
                           /\ killed' = [killed EXCEPT ![q] = FALSE]
                           /\ state' = [state EXCEPT ![q] = "UNUSED"]
                           /\ ShellIs(p, IF q = shell THEN Null ELSE shell)
    BY <1>11 DEF WaitReap, First, Zombies, Children
  <2> QED
    BY <1>11, <2>1 DEF WaitReap, Goto, Acquired, ShellIs, cpus
<1>12. CASE WaitFail(c, p)
  BY <1>12 DEF WaitFail, Goto, Acquired, ShellIs, cpus
<1>13. CASE WaitSleep(c, p)
  BY <1>13 DEF WaitSleep, Goto, Acquired, cpus
<1>14. CASE SleepStart(c, p)
  <2>1. PICK n \in 0..MaxSleep : left' = [left EXCEPT ![p] = n]
    BY <1>14 DEF SleepStart
  <2> QED
    BY <1>14, <2>1 DEF SleepStart, Goto, Acquired, ptable, cpus
<1>15. CASE SleepDone(c, p)
  <2>1. 0 \in 0..MaxSleep
    OBVIOUS
  <2> QED
    BY <1>15, <2>1 DEF SleepDone, Goto, ptable, cpus
<1>16. CASE SleepTicks(c, p)
  BY <1>16 DEF SleepTicks, Goto, KeepLock, Acquired, cpus
<1>26. CASE SleepMore(c, p)
  BY <1>26 DEF SleepMore, Goto, ptable, cpus, locks
<1>17. CASE SleepWoken(c, p)
  BY <1>17 DEF SleepWoken, Goto, cpus
<1>18. CASE SleepReacquire(c, p)
  BY <1>18 DEF SleepReacquire, Goto, Acquired, ptable, cpus
<1>19. CASE Kill(c, p)
  BY <1>19, SMTT(30) DEF Kill, Goto, Locked, Acquired, Matches, First, cpus
<1>20. CASE KillNobody(c, p)
  BY <1>20 DEF KillNobody, Goto, Locked, Acquired, ptable, cpus
<1>21. CASE ExitClose(c, p)
  BY <1>21 DEF ExitClose, Goto, ptable, cpus, locks, initproc
<1>22. CASE Exit(c, p)
  <2>1. /\ Wakeup1(state, parent[p]) \in [Procs -> States]
        /\ \A st \in [Procs -> States] : Wakeup1(st, initproc) \in [Procs -> States]
    BY DEF Wakeup1
  <2>2. state' \in [Procs -> States]
    BY <1>22, <2>1 DEF Exit, ExitStates
  <2>3. parent' \in [Procs -> Procs \cup {Null}]
    BY <1>22 DEF Exit, initproc
  <2> QED
    BY <1>22, <2>2, <2>3 DEF Exit, Goto, KeepLock, Acquired, cpus
<1>23. CASE SyscallEnter(c, p)
  <2>1. NextCalls(p) \subseteq Points
    BY UserCallsAssumption DEF Calls, NextCalls
  <2>2. PICK l \in Points : Goto(p, l)
    BY <1>23, <2>1 DEF SyscallEnter
  <2> QED
    BY <1>23, <2>2 DEF SyscallEnter, Goto, ptable, cpus, locks
<1>24. CASE UserFault(c, p)
  BY <1>24 DEF UserFault, Goto, cpus, locks
<1>25. CASE Panic(c, p)
  BY <1>25 DEF Panic, vars, ptable, threads, cpus, locks
<1> QED
  BY <1>1, <1>2, <1>3, <1>4, <1>5, <1>6, <1>7, <1>8, <1>9, <1>10, <1>11, <1>12, <1>13, <1>14, <1>15, <1>16, <1>17, <1>18, <1>19, <1>20, <1>21, <1>22, <1>23, <1>24, <1>25, <1>26
  DEF ThreadStep, Syscall, User

\* The parts of the invariant beside the types.
Parts ==
  /\ OnStack /\ OffStack /\ RunningOnCpu
  /\ InTrap /\ HandOff /\ PreemptedLive
  /\ ForkOwns /\ StackAccounted

\* Every step of a CPU keeps the parts of the invariant.
LEMMA CpuInv ==
  ASSUME TypeOK, TypeOK', Parts, NEW c \in CPUs, CpuStep(c) \/ Timer(c)
  PROVE  Parts'
<1> USE DEF TypeOK, Procs, CPUs, States, Points, Stages, Null, Free, Ticks, Failed,
      Parts, OnStack, OffStack, RunningOnCpu, InTrap, HandOff, PreemptedLive,
      ForkOwns, StackAccounted, Resume, Forking
<1>1. CASE Timer(c)
  BY <1>1, SMTT(20) DEF Timer, InterruptsOn, ptable, threads, locks
<1>2. CASE SchedHalt(c)
  BY <1>2, SMTT(20) DEF SchedHalt, InScheduler, ptable, threads, locks
<1>3. CASE SchedAcquire(c)
  BY <1>3, SMTT(20) DEF SchedAcquire, InScheduler, KeepLock, Acquired, ptable, threads
<1>4. CASE SchedRun(c)
  <2> HIDE DEF TypeOK, Points, Stages, OnStack, OffStack, RunningOnCpu, InTrap,
        HandOff, PreemptedLive, ForkOwns, StackAccounted, Resume, Forking
  <2>1. PICK p \in Procs : /\ state[p] = "RUNNABLE"
                           /\ cproc' = [cproc EXCEPT ![c] = p]
                           /\ state' = [state EXCEPT ![p] = "RUNNING"]
                           /\ stack' = [stack EXCEPT ![c] = p]
    BY <1>4 DEF SchedRun, First, Ahead
  <2>2. /\ stack[c] = Null /\ spc[c] = "scan" /\ irq[c] = "none"
        /\ UNCHANGED <<kstack, pc, np, preempted, spc, irq, ptlock>>
    BY <1>4 DEF SchedRun, InScheduler, threads, locks
  <2>3. ptlock = c
    BY <2>2 DEF OffStack
  <2>4. ASSUME NEW d \in CPUs, d # c, stack[d] # Null
        PROVE  stack[d] \in Procs \ {p} /\ state[stack[d]] = "RUNNING"
    BY <2>1, <2>3, <2>4 DEF OnStack, TypeOK
  <2>5. OnStack'
    <3>1. /\ cproc'[c] = p /\ stack'[c] = p /\ state'[p] = "RUNNING"
          /\ spc'[c] = "scan"
      BY <2>1, <2>2 DEF TypeOK
    <3>2. ASSUME NEW d \in CPUs, d # c
          PROVE  /\ cproc'[d] = cproc[d] /\ stack'[d] = stack[d] /\ spc'[d] = spc[d]
                 /\ stack[d] # Null => state'[stack[d]] = state[stack[d]]
      BY <2>1, <2>2, <2>4, <3>2 DEF TypeOK
    <3>3. ASSUME NEW d \in CPUs, d # c, stack'[d] # Null
          PROVE  /\ cproc'[d] = stack'[d] /\ spc'[d] = "scan"
                 /\ state'[stack'[d]] = "RUNNING" /\ stack'[d] # p
                 /\ \A e \in CPUs \ {c} : stack'[e] = stack'[d] => e = d
      BY <2>4, <3>2, <3>3 DEF OnStack
    <3> QED
      BY <3>1, <3>3 DEF OnStack
  <2>6. OffStack' /\ InTrap'
    BY <2>1, <2>2 DEF OffStack, InTrap, TypeOK
  <2>7. RunningOnCpu'
    BY <2>1, <2>2 DEF RunningOnCpu, TypeOK
  <2>8. HandOff'
    BY <2>1, <2>2, <2>3, <2>4 DEF HandOff, TypeOK
  <2>9. PreemptedLive'
    BY <2>1, <2>2 DEF PreemptedLive, TypeOK
  <2>10. ForkOwns'
    <3>1. ASSUME NEW q \in Procs, np[q] # Null
          PROVE  state'[q] \in {"RUNNABLE", "RUNNING"} /\ state'[np[q]] = "EMBRYO"
      <4>1. state[q] \in {"RUNNABLE", "RUNNING"} /\ state[np[q]] = "EMBRYO"
        BY <3>1 DEF ForkOwns
      <4>2. np[q] \in Procs \ {p}
        BY <2>1, <3>1, <4>1 DEF TypeOK
      <4> QED
        BY <2>1, <4>1, <4>2 DEF TypeOK
    <3> QED
      BY <2>2, <3>1 DEF ForkOwns
  <2>11. StackAccounted'
    <3>1. kstack[p]
      BY <2>1 DEF StackAccounted
    <3>2. \A q \in Procs : q # p => state'[q] = state[q]
      BY <2>1 DEF TypeOK
    <3>3. state'[p] = "RUNNING"
      BY <2>1 DEF TypeOK
    <3> QED
      BY <2>2, <3>1, <3>2, <3>3 DEF StackAccounted
  <2> QED
    BY <2>5, <2>6, <2>7, <2>8, <2>9, <2>10, <2>11
<1>5. CASE SchedEnd(c)
  BY <1>5, SMTT(20) DEF SchedEnd, InScheduler, ptable, threads
<1>6. CASE Sched(c)
  BY <1>6, SMTT(20) DEF Sched, ptable, threads, locks
<1>7. CASE Tick(c)
  BY <1>7, SMTT(20) DEF Tick, ptable
<1>8. CASE TickWakeup(c)
  BY <1>8, SMTT(20) DEF TickWakeup, Locked, Acquired, Wakeup1, threads
<1>9. CASE TrapReturn(c)
  BY <1>9, SMTT(20) DEF TrapReturn, ptable, threads, locks
<1>10. CASE TrapKilled(c)
  BY <1>10, SMTT(20) DEF TrapKilled, Goto, ptable, locks
<1>11. CASE TrapYield(c)
  BY <1>11, SMTT(20) DEF TrapYield, ptable, threads, locks
<1>12. CASE Yield(c)
  <2> HIDE DEF TypeOK, Points, OnStack, OffStack, RunningOnCpu, InTrap, HandOff,
        PreemptedLive, ForkOwns, StackAccounted, Resume, Forking
  <2>1. stack[c] \in Procs /\ stack[c] # Null /\ cproc[c] = stack[c]
    BY <1>12 DEF Yield, TypeOK, OnStack, InTrap
  <2>2. /\ state' = [state EXCEPT ![stack[c]] = "RUNNABLE"]
        /\ preempted' = [preempted EXCEPT ![stack[c]] = TRUE]
        /\ ptlock = Free /\ ptlock' = c /\ irq' = [irq EXCEPT ![c] = "none"]
        /\ UNCHANGED <<kstack, pc, np, cproc, stack, spc>>
    BY <1>12, <2>1 DEF Yield, KeepLock
  <2>3. \A d \in CPUs : stack[d] # Null => state[stack[d]] = "RUNNING"
    BY <2>2 DEF TypeOK, OnStack
  <2>4. state[stack[c]] = "RUNNING"
    BY <2>1, <2>3
  <2>5. pc[stack[c]] \notin Resume
    BY <2>1, <2>2, <2>4 DEF TypeOK, HandOff
  <2>6. OnStack' /\ OffStack' /\ RunningOnCpu'
    <3>1. OnStack'
      BY <2>1, <2>2, SMTT(30) DEF TypeOK, OnStack
    <3>2. OffStack' /\ RunningOnCpu'
      BY <2>1, <2>2 DEF TypeOK, OffStack, RunningOnCpu
    <3> QED
      BY <3>1, <3>2
  <2>7. InTrap' /\ HandOff' /\ PreemptedLive'
    BY <2>1, <2>2, <2>3, <2>4, <2>5 DEF TypeOK, OnStack, InTrap, HandOff, PreemptedLive
  <2>8. ForkOwns' /\ StackAccounted'
    BY <2>1, <2>2, <2>4 DEF TypeOK, ForkOwns, StackAccounted
  <2> QED
    BY <2>6, <2>7, <2>8
<1>13. CASE Spin(c)
  BY <1>13, SMTT(20) DEF Spin, ptable, threads, cpus
<1> QED
  BY <1>1, <1>2, <1>3, <1>4, <1>5, <1>6, <1>7, <1>8, <1>9, <1>10, <1>11, <1>12, <1>13
  DEF CpuStep

\* A running process that goes on at a point where the lock is not needed: it
\* may give ptable.lock back, end a preemption, or wake sleepers on the way.
LEMMA Move ==
  ASSUME TypeOK, TypeOK', Parts, NEW c \in CPUs, NEW p \in Procs,
         stack[c] = p, state[p] = "RUNNING",
         NEW l \in Points \ Resume,
         l = pc[p] \/ (l \notin Forking /\ pc[p] \notin Forking),
         pc' = [pc EXCEPT ![p] = l],
         preempted' = [preempted EXCEPT ![p] = FALSE],
         \A q \in Procs :
           state'[q] = state[q] \/ (state[q] = "SLEEPING" /\ state'[q] = "RUNNABLE"),
         UNCHANGED <<kstack, np, cproc, stack, spc, irq>>,
         ptlock' = ptlock \/ (ptlock' = Free /\ ptlock \in {c, Free})
  PROVE  Parts'
<1> USE DEF TypeOK, Procs, CPUs, Null, Free
<1>1. OnStack'
  <2>1. ASSUME NEW d \in CPUs, stack[d] # Null
        PROVE  state'[stack[d]] = "RUNNING" \/ ptlock' = d
    <3>1. stack[d] \in Procs
      BY <2>1
    <3>2. CASE state[stack[d]] = "RUNNING"
      BY <3>1, <3>2
    <3>3. CASE state[stack[d]] # "RUNNING"
      <4>1. ptlock = d
        BY <2>1, <3>3 DEF Parts, OnStack
      <4>2. d # c
        BY <3>3
      <4> QED
        BY <4>1, <4>2
    <3> QED
      BY <3>2, <3>3
  <2>2. ASSUME NEW d \in CPUs, stack[d] # Null
        PROVE  /\ cproc[d] = stack[d] /\ spc[d] = "scan"
               /\ state'[stack[d]] \notin {"UNUSED", "EMBRYO"}
               /\ \A e \in CPUs : stack[e] = stack[d] => e = d
    <3>1. stack[d] \in Procs /\ state[stack[d]] \notin {"UNUSED", "EMBRYO"}
      BY <2>2 DEF Parts, OnStack
    <3>2. state'[stack[d]] \notin {"UNUSED", "EMBRYO"}
      BY <3>1
    <3> QED
      BY <2>2, <3>2 DEF Parts, OnStack
  <2> QED
    BY <2>1, <2>2 DEF OnStack
<1>2. OffStack'
  <2>1. ASSUME NEW d \in CPUs, stack'[d] = Null
        PROVE  cproc'[d] = Null /\ (spc'[d] = "scan" => ptlock' = d)
    <3>1. d # c /\ stack[d] = Null
      BY <2>1
    <3> QED
      BY <3>1 DEF Parts, OffStack
  <2> QED
    BY <2>1 DEF OffStack
<1>3. RunningOnCpu'
  <2>1. ASSUME NEW q \in Procs, state'[q] = "RUNNING"
        PROVE  \E d \in CPUs : stack'[d] = q
    <3>1. state[q] = "RUNNING"
      BY <2>1
    <3>2. PICK d \in CPUs : stack[d] = q
      BY <3>1 DEF Parts, RunningOnCpu
    <3> QED
      BY <3>2
  <2> QED
    BY <2>1 DEF RunningOnCpu
<1>4. InTrap'
  BY DEF Parts, InTrap
<1>5. HandOff'
  <2>1. ASSUME NEW d \in CPUs, stack'[d] # Null, state'[stack'[d]] = "RUNNING",
               preempted'[stack'[d]] \/ pc'[stack'[d]] \in Resume
        PROVE  ptlock' = d
    <3>1. stack[d] # p /\ d # c /\ stack[d] \in Procs
      BY <2>1
    <3>2. /\ state[stack[d]] = "RUNNING"
          /\ preempted[stack[d]] \/ pc[stack[d]] \in Resume
      BY <2>1, <3>1
    <3>3. ptlock = d
      BY <3>1, <3>2 DEF Parts, HandOff
    <3> QED
      BY <3>1, <3>3
  <2> QED
    BY <2>1 DEF HandOff
<1>6. PreemptedLive'
  <2>1. ASSUME NEW q \in Procs, preempted'[q]
        PROVE  state'[q] \in {"RUNNABLE", "RUNNING"} /\ pc'[q] \notin Resume
    <3>1. q # p /\ preempted[q]
      BY <2>1
    <3> QED
      BY <2>1, <3>1 DEF Parts, PreemptedLive
  <2> QED
    BY <2>1 DEF PreemptedLive
<1>7. ForkOwns'
  <2>1. \A q \in Procs : pc'[q] = pc[q] \/ (pc[q] \notin Forking /\ pc'[q] \notin Forking)
    OBVIOUS
  <2>2. ASSUME NEW q \in Procs PROVE pc'[q] \in Forking <=> np[q] # Null
    BY <2>1 DEF Parts, ForkOwns
  <2>3. ASSUME NEW q \in Procs, np[q] # Null
        PROVE  /\ state'[q] \in {"RUNNABLE", "RUNNING"} /\ state'[np[q]] = "EMBRYO"
               /\ \A r \in Procs : np[r] = np[q] => r = q
               /\ kstack[np[q]] <=> pc'[q] # "kstack"
    <3>1. pc'[q] = pc[q]
      BY <2>1, <2>2, <2>3
    <3>2. /\ state[q] \in {"RUNNABLE", "RUNNING"} /\ state[np[q]] = "EMBRYO"
          /\ \A r \in Procs : np[r] = np[q] => r = q
          /\ kstack[np[q]] <=> pc[q] # "kstack"
      BY <2>3 DEF Parts, ForkOwns
    <3>3. np[q] \in Procs
      BY <2>3
    <3>4. state'[q] \in {"RUNNABLE", "RUNNING"} /\ state'[np[q]] = "EMBRYO"
      BY <3>2, <3>3
    <3> QED
      BY <3>1, <3>2, <3>4
  <2> QED
    BY <2>2, <2>3 DEF ForkOwns
<1>8. StackAccounted'
  <2>1. ASSUME NEW q \in Procs
        PROVE  /\ state'[q] = "UNUSED" => ~kstack[q]
               /\ state'[q] \notin {"UNUSED", "EMBRYO"} => kstack[q]
    BY DEF Parts, StackAccounted
  <2> QED
    BY <2>1 DEF StackAccounted
<1> QED
  BY <1>1, <1>2, <1>3, <1>4, <1>5, <1>6, <1>7, <1>8 DEF Parts

\* A running process that gives up the CPU: it holds the lock and is not
\* RUNNING any more; sleepers may have been woken on the way.
LEMMA Leave ==
  ASSUME TypeOK, TypeOK', Parts, NEW c \in CPUs, NEW p \in Procs,
         stack[c] = p, state[p] = "RUNNING", pc[p] \notin Forking,
         NEW l \in Points \ Forking,
         pc' = [pc EXCEPT ![p] = l],
         state'[p] \in {"SLEEPING", "ZOMBIE"},
         \A q \in Procs \ {p} :
           state'[q] = state[q] \/ (state[q] = "SLEEPING" /\ state'[q] = "RUNNABLE"),
         UNCHANGED <<kstack, np, cproc, stack, spc, irq, preempted>>,
         ~preempted[p], irq[c] = "none",
         ptlock \in {c, Free}, ptlock' = c
  PROVE  Parts'
<1> USE DEF TypeOK, Procs, CPUs, Null, Free
<1>1. ASSUME NEW d \in CPUs, d # c, stack[d] # Null
      PROVE  stack[d] # p /\ state[stack[d]] = "RUNNING" /\ state'[stack[d]] = "RUNNING"
  <2>1. stack[d] # p
    BY <1>1 DEF Parts, OnStack
  <2>2. state[stack[d]] = "RUNNING"
    BY <1>1 DEF Parts, OnStack
  <2>3. stack[d] \in Procs \ {p}
    BY <1>1, <2>1
  <2> QED
    BY <2>1, <2>2, <2>3
<1>2. OnStack'
  <2>1. ASSUME NEW d \in CPUs, stack'[d] # Null
        PROVE  /\ cproc'[d] = stack'[d] /\ spc'[d] = "scan"
               /\ state'[stack'[d]] \notin {"UNUSED", "EMBRYO"}
               /\ state'[stack'[d]] = "RUNNING" \/ ptlock' = d
               /\ \A e \in CPUs : stack'[e] = stack'[d] => e = d
    <3>1. /\ cproc'[d] = stack'[d] /\ spc'[d] = "scan"
          /\ \A e \in CPUs : stack'[e] = stack'[d] => e = d
      BY <2>1 DEF Parts, OnStack
    <3>2. CASE d = c
      BY <3>1, <3>2
    <3>3. CASE d # c
      BY <1>1, <2>1, <3>1, <3>3
    <3> QED
      BY <3>2, <3>3
  <2> QED
    BY <2>1 DEF OnStack
<1>3. OffStack'
  <2>1. ASSUME NEW d \in CPUs, stack'[d] = Null
        PROVE  cproc'[d] = Null /\ (spc'[d] = "scan" => ptlock' = d)
    <3>1. d # c /\ stack[d] = Null
      BY <2>1
    <3> QED
      BY <3>1 DEF Parts, OffStack
  <2> QED
    BY <2>1 DEF OffStack
<1>4. RunningOnCpu'
  <2>1. ASSUME NEW q \in Procs, state'[q] = "RUNNING"
        PROVE  \E d \in CPUs : stack'[d] = q
    <3>1. state[q] = "RUNNING"
      BY <2>1
    <3>2. PICK d \in CPUs : stack[d] = q
      BY <3>1 DEF Parts, RunningOnCpu
    <3> QED
      BY <3>2
  <2> QED
    BY <2>1 DEF RunningOnCpu
<1>5. InTrap'
  BY DEF Parts, InTrap
<1>6. HandOff'
  <2>1. ASSUME NEW d \in CPUs, stack'[d] # Null, state'[stack'[d]] = "RUNNING",
               preempted'[stack'[d]] \/ pc'[stack'[d]] \in Resume
        PROVE  ptlock' = d
    <3>1. CASE d = c
      BY <3>1
    <3>2. CASE d # c
      BY <1>1, <2>1, <3>2 DEF Parts, HandOff
    <3> QED
      BY <3>1, <3>2
  <2> QED
    BY <2>1 DEF HandOff
<1>7. PreemptedLive'
  <2>1. ASSUME NEW q \in Procs, preempted[q]
        PROVE  state'[q] \in {"RUNNABLE", "RUNNING"} /\ pc'[q] \notin Resume
    <3>1. q # p
      BY <2>1
    <3> QED
      BY <2>1, <3>1 DEF Parts, PreemptedLive
  <2> QED
    BY <2>1 DEF PreemptedLive
<1>8. ForkOwns'
  <2>1. np[p] = Null
    BY DEF Parts, ForkOwns
  <2>2. ASSUME NEW q \in Procs PROVE pc'[q] \in Forking <=> np[q] # Null
    BY <2>1, SMTT(30) DEF Parts, ForkOwns
  <2>3. ASSUME NEW q \in Procs, np[q] # Null
        PROVE  /\ state'[q] \in {"RUNNABLE", "RUNNING"} /\ state'[np[q]] = "EMBRYO"
               /\ \A r \in Procs : np[r] = np[q] => r = q
               /\ kstack[np[q]] <=> pc'[q] # "kstack"
    <3>1. q # p
      BY <2>1, <2>3
    <3>2. state[np[q]] = "EMBRYO" /\ np[q] \in Procs
      BY <2>3 DEF Parts, ForkOwns
    <3>3. np[q] # p
      BY <3>2
    <3>4. state[q] \in {"RUNNABLE", "RUNNING"} /\ pc'[q] = pc[q]
      BY <2>3, <3>1 DEF Parts, ForkOwns
    <3>5. /\ \A r \in Procs : np[r] = np[q] => r = q
          /\ kstack[np[q]] <=> pc[q] # "kstack"
      BY <2>3 DEF Parts, ForkOwns
    <3>6. state'[q] \in {"RUNNABLE", "RUNNING"} /\ state'[np[q]] = "EMBRYO"
      BY <3>1, <3>2, <3>3, <3>4
    <3> QED
      BY <3>4, <3>5, <3>6
  <2> QED
    BY <2>2, <2>3 DEF ForkOwns
<1>9. StackAccounted'
  <2>1. ASSUME NEW q \in Procs
        PROVE  /\ state'[q] = "UNUSED" => ~kstack[q]
               /\ state'[q] \notin {"UNUSED", "EMBRYO"} => kstack[q]
    <3>1. CASE q = p
      BY <3>1 DEF Parts, StackAccounted
    <3>2. CASE q # p
      BY <3>2 DEF Parts, StackAccounted
    <3> QED
      BY <3>1, <3>2
  <2> QED
    BY <2>1 DEF StackAccounted
<1> QED
  BY <1>2, <1>3, <1>4, <1>5, <1>6, <1>7, <1>8, <1>9 DEF Parts

\* The steps of a thread that goes on running, up to its next point.
LEMMA InPlace ==
  ASSUME TypeOK, TypeOK', Parts, NEW c \in CPUs, NEW p \in Procs,
         YieldReturn(c, p) \/ Forkret(c, p) \/ SyscallReturn(c, p)
         \/ SyscallEnter(c, p) \/ UserFault(c, p) \/ ForkNoSlot(c, p)
         \/ WaitFail(c, p) \/ SleepStart(c, p) \/ SleepDone(c, p)
         \/ SleepMore(c, p) \/ SleepWoken(c, p) \/ SleepReacquire(c, p)
         \/ Kill(c, p) \/ KillNobody(c, p) \/ ExitClose(c, p)
  PROVE  Parts'
<1>1. CASE YieldReturn(c, p)
  <2>1. /\ stack[c] = p /\ state[p] = "RUNNING" /\ preempted[p] /\ irq[c] = "none"
        /\ UNCHANGED <<state, kstack, np, cproc, stack, spc, irq>>
        /\ preempted' = [preempted EXCEPT ![p] = FALSE] /\ ptlock' = Free
    BY <1>1 DEF YieldReturn, ptable, cpus
  <2>2. pc[p] \in Points \ Resume
    BY <2>1 DEF Parts, PreemptedLive, TypeOK
  <2>3. ptlock = c
    BY <2>1 DEF HandOff, Parts, Procs, Null
  <2>4. CASE pc' = [pc EXCEPT ![p] = pc[p]]
    BY <2>1, <2>2, <2>3, <2>4, Move
  <2>5. CASE pc[p] = "user" /\ pc' = [pc EXCEPT ![p] = "exit"]
    <3>1. "exit" \in Points \ Resume /\ "exit" \notin Forking /\ pc[p] \notin Forking
      BY <2>5 DEF Points, Resume, Forking
    <3> QED
      BY <2>1, <2>3, <2>5, <3>1, Move
  <2> QED
    BY <1>1, <2>4, <2>5 DEF YieldReturn, Goto
<1>2. CASE Forkret(c, p)
  <2>1. /\ stack[c] = p /\ state[p] = "RUNNING" /\ ~preempted[p] /\ irq[c] = "none"
        /\ pc[p] = "forkret"
        /\ UNCHANGED <<state, kstack, np, cproc, stack, spc, irq, preempted>>
        /\ preempted' = [preempted EXCEPT ![p] = FALSE]
    BY <1>2 DEF Forkret, At, Goto, ptable, cpus, TypeOK
  <2>2. pc[p] \notin Forking /\ pc[p] \in Resume
    BY <2>1 DEF Resume, Forking
  <2>3. ptlock = c
    BY <2>1, <2>2 DEF HandOff, Parts, Procs, Null
  <2>4. "user" \in Points \ (Resume \cup Forking) /\ pc' = [pc EXCEPT ![p] = "user"]
    BY <1>2 DEF Forkret, Goto, ptable, cpus, Points, Resume, Forking
  <2> QED
    BY <1>2, <2>1, <2>2, <2>3, <2>4, Move DEF Forkret
<1>3. CASE SyscallReturn(c, p)
  <2>1. /\ stack[c] = p /\ state[p] = "RUNNING" /\ ~preempted[p] /\ irq[c] = "none"
        /\ pc[p] = "sysret"
        /\ UNCHANGED <<state, kstack, np, cproc, stack, spc, irq, preempted>>
        /\ preempted' = [preempted EXCEPT ![p] = FALSE]
    BY <1>3 DEF SyscallReturn, At, Goto, ptable, cpus, locks, TypeOK
  <2>2. pc[p] \notin Forking
    BY <2>1 DEF Resume, Forking
  <2>3. ptlock' = ptlock \/ (ptlock' = Free /\ ptlock \in {c, Free})
    BY <1>3 DEF SyscallReturn, Goto, ptable, cpus, locks
  <2>4. PICK l \in {"exit", "user"} : pc' = [pc EXCEPT ![p] = l]
    BY <1>3 DEF SyscallReturn, Goto
  <2>5. l \in Points \ (Resume \cup Forking)
    BY DEF Points, Resume, Forking
  <2> QED
    BY <2>1, <2>2, <2>3, <2>4, <2>5, Move
<1>4. CASE SyscallEnter(c, p)
  <2>1. /\ stack[c] = p /\ state[p] = "RUNNING" /\ ~preempted[p] /\ irq[c] = "none"
        /\ pc[p] = "user"
        /\ UNCHANGED <<state, kstack, np, cproc, stack, spc, irq, preempted>>
        /\ preempted' = [preempted EXCEPT ![p] = FALSE]
    BY <1>4 DEF SyscallEnter, At, Goto, ptable, cpus, locks, TypeOK
  <2>2. pc[p] \notin Forking
    BY <2>1 DEF Resume, Forking
  <2>3. ptlock' = ptlock
    BY <1>4 DEF SyscallEnter, locks
  <2>4. NextCalls(p) \cup {"exit"} \subseteq Points \ (Resume \cup Forking)
    BY UserCallsAssumption DEF Calls, NextCalls, Points, Resume, Forking
  <2>5. PICK l \in Points \ (Resume \cup Forking) : pc' = [pc EXCEPT ![p] = l]
    BY <1>4, <2>4 DEF SyscallEnter, Goto
  <2> QED
    BY <2>1, <2>2, <2>3, <2>5, Move
<1>5. CASE UserFault(c, p)
  <2>1. /\ stack[c] = p /\ state[p] = "RUNNING" /\ ~preempted[p] /\ irq[c] = "none"
        /\ pc[p] = "user"
        /\ UNCHANGED <<state, kstack, np, cproc, stack, spc, irq, preempted>>
        /\ preempted' = [preempted EXCEPT ![p] = FALSE]
    BY <1>5 DEF UserFault, At, Goto, cpus, locks, TypeOK
  <2>2. pc[p] \notin Forking
    BY <2>1 DEF Resume, Forking
  <2>3. ptlock' = ptlock \/ (ptlock' = Free /\ ptlock \in {c, Free})
    BY <1>5 DEF UserFault, Goto, cpus, locks
  <2>4. "exit" \in Points \ (Resume \cup Forking) /\ pc' = [pc EXCEPT ![p] = "exit"]
    BY <1>5 DEF UserFault, Goto, cpus, locks, Points, Resume, Forking
  <2> QED
    BY <1>5, <2>1, <2>2, <2>3, <2>4, Move DEF UserFault
<1>6. CASE ForkNoSlot(c, p)
  <2>1. /\ stack[c] = p /\ state[p] = "RUNNING" /\ ~preempted[p] /\ irq[c] = "none"
        /\ pc[p] = "fork"
        /\ UNCHANGED <<state, kstack, np, cproc, stack, spc, irq, preempted>>
        /\ preempted' = [preempted EXCEPT ![p] = FALSE]
    BY <1>6 DEF ForkNoSlot, At, Goto, Locked, ptable, cpus, TypeOK
  <2>2. pc[p] \notin Forking
    BY <2>1 DEF Resume, Forking
  <2>3. ptlock' = ptlock \/ (ptlock' = Free /\ ptlock \in {c, Free})
    BY <1>6 DEF ForkNoSlot, Goto, Locked, ptable, cpus
  <2>4. "sysret" \in Points \ (Resume \cup Forking) /\ pc' = [pc EXCEPT ![p] = "sysret"]
    BY <1>6 DEF ForkNoSlot, Goto, Locked, ptable, cpus, Points, Resume, Forking
  <2> QED
    BY <1>6, <2>1, <2>2, <2>3, <2>4, Move DEF ForkNoSlot
<1>7. CASE WaitFail(c, p)
  <2>1. /\ stack[c] = p /\ state[p] = "RUNNING" /\ ~preempted[p] /\ irq[c] = "none"
        /\ pc[p] \in {"wait", "waiting"}
        /\ UNCHANGED <<state, kstack, np, cproc, stack, spc, irq, preempted>>
        /\ preempted' = [preempted EXCEPT ![p] = FALSE]
    BY <1>7 DEF WaitFail, At, Goto, Scanning, cpus, TypeOK
  <2>2. pc[p] \notin Forking
    BY <2>1 DEF Resume, Forking
  <2>3. ptlock' = ptlock \/ (ptlock' = Free /\ ptlock \in {c, Free})
    BY <1>7 DEF WaitFail, Goto, Scanning, cpus
  <2>4. "sysret" \in Points \ (Resume \cup Forking) /\ pc' = [pc EXCEPT ![p] = "sysret"]
    BY <1>7 DEF WaitFail, Goto, Scanning, cpus, Points, Resume, Forking
  <2> QED
    BY <1>7, <2>1, <2>2, <2>3, <2>4, Move DEF WaitFail
<1>8. CASE SleepStart(c, p)
  <2>1. /\ stack[c] = p /\ state[p] = "RUNNING" /\ ~preempted[p] /\ irq[c] = "none"
        /\ pc[p] = "sleep"
        /\ UNCHANGED <<state, kstack, np, cproc, stack, spc, irq, preempted>>
        /\ preempted' = [preempted EXCEPT ![p] = FALSE]
    BY <1>8 DEF SleepStart, At, Goto, ptable, cpus, TypeOK
  <2>2. pc[p] \notin Forking
    BY <2>1 DEF Resume, Forking
  <2>3. ptlock' = ptlock \/ (ptlock' = Free /\ ptlock \in {c, Free})
    BY <1>8 DEF SleepStart, Goto, ptable, cpus
  <2>4. "sleepcheck" \in Points \ (Resume \cup Forking) /\ pc' = [pc EXCEPT ![p] = "sleepcheck"]
    BY <1>8 DEF SleepStart, Goto, Points, Resume, Forking
  <2> QED
    BY <1>8, <2>1, <2>2, <2>3, <2>4, Move DEF SleepStart
<1>9. CASE SleepDone(c, p)
  <2>1. /\ stack[c] = p /\ state[p] = "RUNNING" /\ ~preempted[p] /\ irq[c] = "none"
        /\ pc[p] = "sleepcheck"
        /\ UNCHANGED <<state, kstack, np, cproc, stack, spc, irq, preempted>>
        /\ preempted' = [preempted EXCEPT ![p] = FALSE]
    BY <1>9 DEF SleepDone, At, Goto, ptable, cpus, TypeOK
  <2>2. pc[p] \notin Forking
    BY <2>1 DEF Resume, Forking
  <2>3. ptlock' = ptlock \/ (ptlock' = Free /\ ptlock \in {c, Free})
    BY <1>9 DEF SleepDone, Goto, ptable, cpus
  <2>4. "sysret" \in Points \ (Resume \cup Forking) /\ pc' = [pc EXCEPT ![p] = "sysret"]
    BY <1>9 DEF SleepDone, Goto, ptable, cpus, Points, Resume, Forking
  <2> QED
    BY <1>9, <2>1, <2>2, <2>3, <2>4, Move DEF SleepDone
<1>10. CASE SleepMore(c, p)
  <2>1. /\ stack[c] = p /\ state[p] = "RUNNING" /\ ~preempted[p] /\ irq[c] = "none"
        /\ pc[p] = "sleepcheck"
        /\ UNCHANGED <<state, kstack, np, cproc, stack, spc, irq, preempted>>
        /\ preempted' = [preempted EXCEPT ![p] = FALSE]
    BY <1>10 DEF SleepMore, At, Goto, ptable, cpus, locks, TypeOK
  <2>2. pc[p] \notin Forking
    BY <2>1 DEF Resume, Forking
  <2>3. ptlock' = ptlock \/ (ptlock' = Free /\ ptlock \in {c, Free})
    BY <1>10 DEF SleepMore, Goto, ptable, cpus, locks
  <2>4. "gosleep" \in Points \ (Resume \cup Forking) /\ pc' = [pc EXCEPT ![p] = "gosleep"]
    BY <1>10 DEF SleepMore, Goto, ptable, cpus, locks, Points, Resume, Forking
  <2> QED
    BY <1>10, <2>1, <2>2, <2>3, <2>4, Move DEF SleepMore
<1>11. CASE SleepWoken(c, p)
  <2>1. /\ stack[c] = p /\ state[p] = "RUNNING" /\ ~preempted[p] /\ irq[c] = "none"
        /\ pc[p] = "asleep"
        /\ UNCHANGED <<state, kstack, np, cproc, stack, spc, irq, preempted>>
        /\ preempted' = [preempted EXCEPT ![p] = FALSE]
    BY <1>11 DEF SleepWoken, At, Goto, cpus, TypeOK
  <2>2. pc[p] \notin Forking /\ pc[p] \in Resume
    BY <2>1 DEF Resume, Forking
  <2>3. ptlock = c
    BY <2>1, <2>2 DEF HandOff, Parts, Procs, Null
  <2>4. "reacquire" \in Points \ (Resume \cup Forking) /\ pc' = [pc EXCEPT ![p] = "reacquire"]
    BY <1>11 DEF SleepWoken, Goto, cpus, Points, Resume, Forking
  <2> QED
    BY <1>11, <2>1, <2>2, <2>3, <2>4, Move DEF SleepWoken
<1>12. CASE SleepReacquire(c, p)
  <2>1. /\ stack[c] = p /\ state[p] = "RUNNING" /\ ~preempted[p] /\ irq[c] = "none"
        /\ pc[p] = "reacquire"
        /\ UNCHANGED <<state, kstack, np, cproc, stack, spc, irq, preempted>>
        /\ preempted' = [preempted EXCEPT ![p] = FALSE]
    BY <1>12 DEF SleepReacquire, At, Goto, ptable, cpus, TypeOK
  <2>2. pc[p] \notin Forking
    BY <2>1 DEF Resume, Forking
  <2>3. ptlock' = ptlock \/ (ptlock' = Free /\ ptlock \in {c, Free})
    BY <1>12 DEF SleepReacquire, Goto, ptable, cpus
  <2>4. "sleepcheck" \in Points \ (Resume \cup Forking) /\ pc' = [pc EXCEPT ![p] = "sleepcheck"]
    BY <1>12 DEF SleepReacquire, Goto, Points, Resume, Forking
  <2> QED
    BY <1>12, <2>1, <2>2, <2>3, <2>4, Move DEF SleepReacquire
<1>13. CASE Kill(c, p)
  <2>1. /\ stack[c] = p /\ state[p] = "RUNNING" /\ ~preempted[p] /\ irq[c] = "none"
        /\ pc[p] = "kill" /\ ptlock' = ptlock
        /\ UNCHANGED <<kstack, np, cproc, stack, spc, irq>>
        /\ preempted' = [preempted EXCEPT ![p] = FALSE]
    BY <1>13 DEF Kill, At, Locked, cpus, TypeOK
  <2>2. ASSUME NEW q \in Procs
        PROVE  state'[q] = state[q] \/ (state[q] = "SLEEPING" /\ state'[q] = "RUNNABLE")
    BY <1>13 DEF Kill, Matches, First, TypeOK
  <2>3. /\ "sysret" \in Points \ (Resume \cup Forking) /\ pc[p] \notin Forking
        /\ pc' = [pc EXCEPT ![p] = "sysret"]
    BY <1>13, <2>1 DEF Kill, Goto, Points, Resume, Forking
  <2> QED
    BY <2>1, <2>2, <2>3, Move
<1>14. CASE KillNobody(c, p)
  <2>1. /\ stack[c] = p /\ state[p] = "RUNNING" /\ ~preempted[p] /\ irq[c] = "none"
        /\ pc[p] = "kill"
        /\ UNCHANGED <<state, kstack, np, cproc, stack, spc, irq, preempted>>
        /\ preempted' = [preempted EXCEPT ![p] = FALSE]
    BY <1>14 DEF KillNobody, At, Goto, Locked, ptable, cpus, TypeOK
  <2>2. pc[p] \notin Forking
    BY <2>1 DEF Resume, Forking
  <2>3. ptlock' = ptlock \/ (ptlock' = Free /\ ptlock \in {c, Free})
    BY <1>14 DEF KillNobody, Goto, Locked, ptable, cpus
  <2>4. "sysret" \in Points \ (Resume \cup Forking) /\ pc' = [pc EXCEPT ![p] = "sysret"]
    BY <1>14 DEF KillNobody, Goto, Points, Resume, Forking
  <2> QED
    BY <1>14, <2>1, <2>2, <2>3, <2>4, Move DEF KillNobody
<1>15. CASE ExitClose(c, p)
  <2>1. /\ stack[c] = p /\ state[p] = "RUNNING" /\ ~preempted[p] /\ irq[c] = "none"
        /\ pc[p] = "exit"
        /\ UNCHANGED <<state, kstack, np, cproc, stack, spc, irq, preempted>>
        /\ preempted' = [preempted EXCEPT ![p] = FALSE]
    BY <1>15 DEF ExitClose, At, Goto, ptable, cpus, locks, TypeOK
  <2>2. pc[p] \notin Forking
    BY <2>1 DEF Resume, Forking
  <2>3. ptlock' = ptlock \/ (ptlock' = Free /\ ptlock \in {c, Free})
    BY <1>15 DEF ExitClose, Goto, ptable, cpus, locks
  <2>4. PICK l \in {"panic", "lastlock"} : pc' = [pc EXCEPT ![p] = l]
    BY <1>15 DEF ExitClose, Goto
  <2>5. l \in Points \ (Resume \cup Forking)
    BY DEF Points, Resume, Forking
  <2> QED
    BY <2>1, <2>2, <2>3, <2>4, <2>5, Move
<1> QED
  BY <1>1, <1>2, <1>3, <1>4, <1>5, <1>6, <1>7, <1>8, <1>9, <1>10, <1>11, <1>12, <1>13, <1>14, <1>15

\* The steps of a thread that ends in a call of sched().
LEMMA GivesUpCpu ==
  ASSUME TypeOK, TypeOK', Parts, NEW c \in CPUs, NEW p \in Procs,
         WaitSleep(c, p) \/ SleepTicks(c, p) \/ Exit(c, p)
  PROVE  Parts'
<1>1. CASE WaitSleep(c, p)
  <2>1. /\ stack[c] = p /\ state[p] = "RUNNING" /\ ~preempted[p] /\ irq[c] = "none"
        /\ pc[p] \in {"wait", "waiting"}
        /\ UNCHANGED <<kstack, np, cproc, stack, spc, irq, preempted>>
        /\ ptlock \in {c, Free} /\ ptlock' = c
    BY <1>1 DEF WaitSleep, Scanning, At, cpus, TypeOK
  <2>2. pc[p] \notin Forking
    BY <2>1 DEF Forking
  <2>3. state'[p] = "SLEEPING"
    BY <1>1 DEF WaitSleep, TypeOK
  <2>4. ASSUME NEW q \in Procs \ {p}
        PROVE  state'[q] = state[q] \/ (state[q] = "SLEEPING" /\ state'[q] = "RUNNABLE")
    BY <1>1 DEF WaitSleep, TypeOK
  <2>5. "waiting" \in Points \ Forking /\ pc' = [pc EXCEPT ![p] = "waiting"]
    BY <1>1 DEF WaitSleep, Goto, Points, Forking
  <2> QED
    BY <2>1, <2>2, <2>3, <2>4, <2>5, Leave
<1>2. CASE SleepTicks(c, p)
  <2>1. /\ stack[c] = p /\ state[p] = "RUNNING" /\ ~preempted[p] /\ irq[c] = "none"
        /\ pc[p] = "gosleep"
        /\ UNCHANGED <<kstack, np, cproc, stack, spc, irq, preempted>>
        /\ ptlock = Free /\ ptlock' = c
    BY <1>2 DEF SleepTicks, At, KeepLock, cpus, TypeOK
  <2>2. pc[p] \notin Forking
    BY <2>1 DEF Forking
  <2>3. state'[p] = "SLEEPING"
    BY <1>2 DEF SleepTicks, KeepLock, cpus, TypeOK
  <2>4. ASSUME NEW q \in Procs \ {p}
        PROVE  state'[q] = state[q] \/ (state[q] = "SLEEPING" /\ state'[q] = "RUNNABLE")
    BY <1>2 DEF SleepTicks, KeepLock, cpus, TypeOK
  <2>5. "asleep" \in Points \ Forking /\ pc' = [pc EXCEPT ![p] = "asleep"]
    BY <1>2 DEF SleepTicks, Goto, Points, Forking
  <2> QED
    BY <2>1, <2>2, <2>3, <2>4, <2>5, Leave
<1>3. CASE Exit(c, p)
  <2>1. /\ stack[c] = p /\ state[p] = "RUNNING" /\ ~preempted[p] /\ irq[c] = "none"
        /\ pc[p] = "lastlock"
        /\ UNCHANGED <<kstack, np, cproc, stack, spc, irq, preempted>>
        /\ ptlock = Free /\ ptlock' = c
    BY <1>3 DEF Exit, At, KeepLock, ExitStates, Wakeup1, cpus, TypeOK
  <2>2. pc[p] \notin Forking
    BY <2>1 DEF Forking
  <2>3. state'[p] = "ZOMBIE"
    BY <1>3 DEF Exit, KeepLock, ExitStates, Wakeup1, cpus, TypeOK
  <2>4. ASSUME NEW q \in Procs \ {p}
        PROVE  state'[q] = state[q] \/ (state[q] = "SLEEPING" /\ state'[q] = "RUNNABLE")
    BY <1>3 DEF Exit, KeepLock, ExitStates, Wakeup1, cpus, TypeOK
  <2>5. "dead" \in Points \ Forking /\ pc' = [pc EXCEPT ![p] = "dead"]
    BY <1>3 DEF Exit, Goto, Points, Forking
  <2> QED
    BY <2>1, <2>2, <2>3, <2>4, <2>5, Leave
<1> QED
  BY <1>1, <1>2, <1>3

\* A step of fork or wait: the running process p, outside any preemption, goes
\* on at a point where the lock is not needed and may give ptable.lock back; of
\* the other slots only r, which runs on no CPU, changes; r is afterwards the
\* slot that fork works on, or p works on none.
LEMMA OtherSlot ==
  ASSUME TypeOK, TypeOK', Parts, NEW c \in CPUs, NEW p \in Procs, NEW r \in Procs,
         stack[c] = p, state[p] = "RUNNING", ~preempted[p],
         state[r] \in {"UNUSED", "EMBRYO", "ZOMBIE"},
         np[p] = r \/ state[r] # "EMBRYO",
         ptlock \in {c, Free} \/ state[r] # "ZOMBIE",
         ptlock' = ptlock \/ (ptlock' = Free /\ ptlock \in {c, Free}),
         \A q \in Procs \ {r} : state'[q] = state[q] /\ kstack'[q] = kstack[q],
         state'[r] \in {"UNUSED", "EMBRYO", "RUNNABLE"},
         state'[r] = "UNUSED" => ~kstack'[r],
         state'[r] = "RUNNABLE" => kstack'[r],
         \A q \in Procs \ {p, r} : pc'[q] = pc[q],
         \A q \in Procs \ {p} : np'[q] = np[q],
         pc'[r] = pc[r] \/ pc'[r] \notin Forking,
         pc'[p] \notin Resume,
         np'[p] \in {Null, r},
         pc'[p] \in Forking <=> np'[p] = r,
         np'[p] = r => state'[r] = "EMBRYO" /\ (kstack'[r] <=> pc'[p] # "kstack"),
         UNCHANGED <<cproc, stack, spc, irq, preempted>>
  PROVE  Parts'
<1> USE DEF TypeOK, Procs, CPUs, Null, Free
<1>1. ASSUME NEW d \in CPUs, d # c, stack[d] # Null
      PROVE  /\ stack[d] \in Procs \ {p, r}
             /\ state'[stack[d]] = state[stack[d]]
             /\ pc'[stack[d]] = pc[stack[d]]
  <2>1. stack[d] \in Procs \ {p}
    <3>1. stack[d] \in Procs
      BY <1>1
    <3>2. stack[d] # p
      BY <1>1 DEF Parts, OnStack
    <3> QED
      BY <3>1, <3>2
  <2>2. /\ state[stack[d]] \notin {"UNUSED", "EMBRYO"}
        /\ state[stack[d]] = "RUNNING" \/ ptlock = d
    BY <1>1 DEF Parts, OnStack
  <2>3. stack[d] # r
    BY <1>1, <2>2
  <2> QED
    BY <2>1, <2>3
<1>2. p # r /\ state'[p] = "RUNNING"
  OBVIOUS
<1>3. \A d \in CPUs \ {c} : ptlock = d <=> ptlock' = d
  BY SMTT(30)
<1>4. OnStack'
  <2>1. ASSUME NEW d \in CPUs, stack'[d] # Null
        PROVE  /\ cproc'[d] = stack'[d] /\ spc'[d] = "scan"
               /\ state'[stack'[d]] \notin {"UNUSED", "EMBRYO"}
               /\ state'[stack'[d]] = "RUNNING" \/ ptlock' = d
               /\ \A e \in CPUs : stack'[e] = stack'[d] => e = d
    <3>1. CASE d = c
      <4>1. /\ cproc[c] = stack[c] /\ spc[c] = "scan" /\ stack[c] = p
            /\ \A e \in CPUs : stack[e] = stack[c] => e = c
        BY <2>1, <3>1 DEF Parts, OnStack
      <4> QED
        BY <1>2, <3>1, <4>1
    <3>2. CASE d # c
      <4>1. /\ cproc[d] = stack[d] /\ spc[d] = "scan"
            /\ state[stack[d]] \notin {"UNUSED", "EMBRYO"}
            /\ state[stack[d]] = "RUNNING" \/ ptlock = d
            /\ \A e \in CPUs : stack[e] = stack[d] => e = d
        BY <2>1 DEF Parts, OnStack
      <4> QED
        BY <1>1, <1>3, <2>1, <3>2, <4>1
    <3> QED
      BY <3>1, <3>2
  <2> QED
    BY <2>1 DEF OnStack
<1>5. OffStack'
  <2>1. ASSUME NEW d \in CPUs, stack[d] = Null
        PROVE  cproc[d] = Null /\ (spc[d] = "scan" => ptlock' = d)
    <3>1. d # c
      BY <2>1
    <3> QED
      BY <1>3, <2>1, <3>1 DEF Parts, OffStack
  <2> QED
    BY <2>1 DEF OffStack
<1>6. RunningOnCpu'
  <2>1. ASSUME NEW q \in Procs, state'[q] = "RUNNING" PROVE \E d \in CPUs : stack[d] = q
    <3>1. state[q] = "RUNNING"
      BY <2>1
    <3> QED
      BY <3>1 DEF Parts, RunningOnCpu
  <2> QED
    BY <2>1 DEF RunningOnCpu
<1>7. InTrap' /\ HandOff'
  <2>1. ASSUME NEW d \in CPUs, irq[d] # "none"
        PROVE  ptlock' # d /\ (irq[d] = "yield" => stack[d] # Null)
    BY <2>1 DEF Parts, InTrap
  <2>2. ASSUME NEW d \in CPUs, stack[d] # Null, state'[stack[d]] = "RUNNING",
               preempted[stack[d]] \/ pc'[stack[d]] \in Resume
        PROVE  ptlock' = d
    <3>1. CASE d = c
      BY <1>2, <2>2, <3>1
    <3>2. CASE d # c
      <4>1. ptlock = d
        BY <1>1, <2>2, <3>2 DEF Parts, HandOff
      <4> QED
        BY <1>3, <3>2, <4>1
    <3> QED
      BY <3>1, <3>2
  <2> QED
    BY <2>1, <2>2 DEF InTrap, HandOff
<1>8. PreemptedLive'
  <2>1. ASSUME NEW q \in Procs, preempted[q]
        PROVE  q \notin {p, r} /\ state[q] \in {"RUNNABLE", "RUNNING"} /\ pc[q] \notin Resume
    BY <2>1 DEF Parts, PreemptedLive
  <2> QED
    BY <2>1 DEF PreemptedLive
<1>9. ForkOwns'
  <2>1. np[r] = Null /\ pc[r] \notin Forking
    BY DEF Parts, ForkOwns
  <2>2. ASSUME NEW q \in Procs \ {p, r}
        PROVE  /\ pc'[q] \in Forking <=> np'[q] # Null
               /\ np'[q] # Null =>
                    /\ state'[q] \in {"RUNNABLE", "RUNNING"}
                    /\ np'[q] \in Procs \ {p, r}
                    /\ state'[np'[q]] = "EMBRYO"
                    /\ kstack'[np'[q]] <=> pc'[q] # "kstack"
    <3>1. pc'[q] = pc[q] /\ np'[q] = np[q] /\ state'[q] = state[q]
      OBVIOUS
    <3>2. pc[q] \in Forking <=> np[q] # Null
      BY DEF Parts, ForkOwns
    <3>3. ASSUME np[q] # Null
          PROVE  /\ state[q] \in {"RUNNABLE", "RUNNING"} /\ state[np[q]] = "EMBRYO"
                 /\ np[q] \in Procs \ {p, r}
                 /\ kstack[np[q]] <=> pc[q] # "kstack"
      <4>1. /\ state[q] \in {"RUNNABLE", "RUNNING"} /\ state[np[q]] = "EMBRYO"
            /\ \A q2 \in Procs : np[q2] = np[q] => q2 = q
            /\ kstack[np[q]] <=> pc[q] # "kstack"
        BY <3>3 DEF Parts, ForkOwns
      <4>2. np[q] \in Procs /\ np[q] # p
        BY <3>3, <4>1
      <4>3. np[q] # r
        BY <4>1
      <4> QED
        BY <4>1, <4>2, <4>3
    <3>4. np[q] # Null =>
            state'[np[q]] = "EMBRYO" /\ (kstack'[np[q]] <=> pc[q] # "kstack")
      BY <3>3
    <3> QED
      BY <3>1, <3>2, <3>3, <3>4
  <2>3. /\ pc'[p] \in Forking <=> np'[p] # Null
        /\ np'[p] # Null =>
             /\ np'[p] = r /\ state'[r] = "EMBRYO"
             /\ kstack'[r] <=> pc'[p] # "kstack"
    BY <1>2
  <2>4. pc'[r] \notin Forking /\ np'[r] = Null
    BY <2>1, <1>2
  <2>5. ASSUME NEW q \in Procs, NEW q2 \in Procs, np'[q] # Null, np'[q2] = np'[q]
        PROVE  q2 = q
    <3>1. q # r /\ q2 # r
      BY <2>4, <2>5
    <3>2. CASE q = p
      <4>1. np'[q2] = r
        BY <2>3, <2>5, <3>2
      <4> QED
        BY <2>2, <2>5, <3>1, <3>2, <4>1
    <3>3. CASE q # p /\ q2 = p
      <4>1. np'[q] = r
        BY <2>3, <2>5, <3>3
      <4> QED
        BY <2>2, <2>5, <3>1, <3>3, <4>1
    <3>4. CASE q # p /\ q2 # p
      <4>1. np[q] # Null /\ np[q2] = np[q]
        BY <2>5, <3>4
      <4> QED
        BY <4>1 DEF Parts, ForkOwns
    <3> QED
      BY <3>2, <3>3, <3>4
  <2> QED
    <3> SUFFICES ASSUME NEW q \in Procs
                 PROVE  /\ pc'[q] \in Forking <=> np'[q] # Null
                        /\ np'[q] # Null =>
                             /\ state'[q] \in {"RUNNABLE", "RUNNING"}
                             /\ state'[np'[q]] = "EMBRYO"
                             /\ \A q2 \in Procs : np'[q2] = np'[q] => q2 = q
                             /\ kstack'[np'[q]] <=> pc'[q] # "kstack"
      BY DEF ForkOwns
    <3>1. CASE q = p
      BY <1>2, <2>3, <2>5, <3>1
    <3>2. CASE q = r
      BY <2>4, <3>2
    <3>3. CASE q \notin {p, r}
      <4>1. q \in Procs \ {p, r}
        BY <3>3
      <4>2. np'[q] # Null => \A q2 \in Procs : np'[q2] = np'[q] => q2 = q
        BY <2>5
      <4> QED
        BY <2>2, <4>1, <4>2
    <3> QED
      BY <3>1, <3>2, <3>3
<1>10. StackAccounted'
  <2>1. ASSUME NEW q \in Procs
        PROVE  /\ state'[q] = "UNUSED" => ~kstack'[q]
               /\ state'[q] \notin {"UNUSED", "EMBRYO"} => kstack'[q]
    <3>1. CASE q = r
      BY <3>1
    <3>2. CASE q # r
      <4>1. state'[q] = state[q] /\ kstack'[q] = kstack[q]
        BY <3>2
      <4> QED
        BY <4>1 DEF Parts, StackAccounted
    <3> QED
      BY <3>1, <3>2
  <2> QED
    BY <2>1 DEF StackAccounted
<1> QED
  BY <1>4, <1>5, <1>6, <1>7, <1>8, <1>9, <1>10 DEF Parts

\* The steps that create and remove processes.
LEMMA ForkAndReap ==
  ASSUME TypeOK, TypeOK', Parts, NEW c \in CPUs, NEW p \in Procs,
         ForkAlloc(c, p) \/ ForkNoStack(c, p) \/ ForkStack(c, p)
         \/ ForkNoMemory(c, p) \/ ForkCopy(c, p) \/ ForkReady(c, p)
         \/ WaitReap(c, p) \/ Panic(c, p)
  PROVE  Parts'
<1>1. CASE ForkAlloc(c, p)
  <2>1. PICK r \in Procs : /\ state[r] = "UNUSED"
                           /\ state' = [state EXCEPT ![r] = "EMBRYO"]
                           /\ np' = [np EXCEPT ![p] = r]
    BY <1>1 DEF ForkAlloc, First
  <2>2. /\ stack[c] = p /\ state[p] = "RUNNING" /\ ~preempted[p] /\ ptlock = Free
        /\ UNCHANGED <<ptlock, cproc, stack, spc, irq, preempted, kstack>>
    BY <1>1 DEF ForkAlloc, At, Locked, cpus
  <2>3. /\ \A q \in Procs \ {r} : state'[q] = state[q] /\ kstack'[q] = kstack[q]
        /\ \A q \in Procs \ {p} : np'[q] = np[q]
        /\ state'[r] = "EMBRYO" /\ ~kstack'[r] /\ np'[p] = r
    BY <2>1, <2>2 DEF Parts, StackAccounted, TypeOK
  <2>4. /\ pc'[p] = "kstack" /\ \A q \in Procs \ {p, r} : pc'[q] = pc[q]
        /\ pc'[r] = pc[r]
    BY <1>1, <2>1, <2>2 DEF ForkAlloc, Goto, TypeOK
  <2>5. "kstack" \in Points \ Resume /\ "kstack" \in Forking
    BY DEF Points, Resume, Forking
  <2> QED
    BY <2>1, <2>2, <2>3, <2>4, <2>5, OtherSlot
<1>2. CASE ForkNoStack(c, p)
  <2> DEFINE r == np[p]
  <2>1. /\ stack[c] = p /\ state[p] = "RUNNING" /\ ~preempted[p] /\ pc[p] = "kstack"
        /\ UNCHANGED <<ptlock, cproc, stack, spc, irq, preempted>>
    BY <1>2 DEF ForkNoStack, At, cpus, locks
  <2>2. r \in Procs \ {p} /\ state[r] = "EMBRYO" /\ (kstack[r] <=> pc[p] # "kstack")
    BY <2>1 DEF Parts, ForkOwns, Forking, TypeOK
  <2>3. /\ \A q \in Procs \ {r} : state'[q] = state[q] /\ kstack'[q] = kstack[q]
        /\ \A q \in Procs \ {p} : np'[q] = np[q]
        /\ state'[r] = "UNUSED" /\ kstack'[r] = FALSE /\ np'[p] = Null
    BY <1>2, <2>1, <2>2 DEF ForkNoStack, cpus, locks, TypeOK
  <2>4. /\ pc'[p] = "sysret" /\ \A q \in Procs \ {p, r} : pc'[q] = pc[q]
        /\ pc'[r] = pc[r] \/ pc'[r] \notin Forking
    BY <1>2, <2>2 DEF ForkNoStack, Goto, TypeOK, Forking
  <2>5. "sysret" \in Points \ Resume /\ "sysret" \notin Forking /\ r # Null
    BY <2>2 DEF Points, Resume, Forking, Procs, Null
  <2>6. np[p] = r
    OBVIOUS
  <2> HIDE DEF r
  <2> QED
    BY <2>1, <2>2, <2>3, <2>4, <2>5, <2>6, OtherSlot
<1>3. CASE ForkStack(c, p)
  <2> DEFINE r == np[p]
  <2>1. /\ stack[c] = p /\ state[p] = "RUNNING" /\ ~preempted[p] /\ pc[p] = "kstack"
        /\ UNCHANGED <<ptlock, cproc, stack, spc, irq, preempted>>
    BY <1>3 DEF ForkStack, At, cpus, locks
  <2>2. r \in Procs \ {p} /\ state[r] = "EMBRYO" /\ (kstack[r] <=> pc[p] # "kstack")
    BY <2>1 DEF Parts, ForkOwns, Forking, TypeOK
  <2>3. /\ \A q \in Procs \ {r} : state'[q] = state[q] /\ kstack'[q] = kstack[q]
        /\ \A q \in Procs \ {p} : np'[q] = np[q]
        /\ state'[r] = "EMBRYO" /\ kstack'[r] = TRUE /\ np'[p] = r
    BY <1>3, <2>1, <2>2 DEF ForkStack, cpus, locks, TypeOK
  <2>4. /\ pc'[p] = "copyuvm" /\ \A q \in Procs \ {p, r} : pc'[q] = pc[q]
        /\ pc'[r] = pc[r] \/ pc'[r] \notin Forking
    BY <1>3, <2>2 DEF ForkStack, Goto, TypeOK, Forking
  <2>5. "copyuvm" \in Points \ Resume
    BY DEF Points, Resume
  <2> HIDE DEF r
  <2> QED
    BY <2>1, <2>2, <2>3, <2>4, <2>5, OtherSlot DEF r, Forking
<1>4. CASE ForkNoMemory(c, p)
  <2> DEFINE r == np[p]
  <2>1. /\ stack[c] = p /\ state[p] = "RUNNING" /\ ~preempted[p] /\ pc[p] = "copyuvm"
        /\ UNCHANGED <<ptlock, cproc, stack, spc, irq, preempted>>
    BY <1>4 DEF ForkNoMemory, At, cpus, locks
  <2>2. r \in Procs \ {p} /\ state[r] = "EMBRYO" /\ (kstack[r] <=> pc[p] # "kstack")
    BY <2>1 DEF Parts, ForkOwns, Forking, TypeOK
  <2>3. /\ \A q \in Procs \ {r} : state'[q] = state[q] /\ kstack'[q] = kstack[q]
        /\ \A q \in Procs \ {p} : np'[q] = np[q]
        /\ state'[r] = "UNUSED" /\ kstack'[r] = FALSE /\ np'[p] = Null
    BY <1>4, <2>1, <2>2 DEF ForkNoMemory, cpus, locks, TypeOK
  <2>4. /\ pc'[p] = "sysret" /\ \A q \in Procs \ {p, r} : pc'[q] = pc[q]
        /\ pc'[r] = pc[r] \/ pc'[r] \notin Forking
    BY <1>4, <2>2 DEF ForkNoMemory, Goto, TypeOK, Forking
  <2>5. "sysret" \in Points \ Resume /\ "sysret" \notin Forking /\ r # Null
    BY <2>2 DEF Points, Resume, Forking, Procs, Null
  <2>6. np[p] = r
    OBVIOUS
  <2> HIDE DEF r
  <2> QED
    BY <2>1, <2>2, <2>3, <2>4, <2>5, <2>6, OtherSlot
<1>5. CASE ForkCopy(c, p)
  <2> DEFINE r == np[p]
  <2>1. /\ stack[c] = p /\ state[p] = "RUNNING" /\ ~preempted[p] /\ pc[p] = "copyuvm"
        /\ UNCHANGED <<ptlock, cproc, stack, spc, irq, preempted>>
    BY <1>5 DEF ForkCopy, At, cpus, locks
  <2>2. r \in Procs \ {p} /\ state[r] = "EMBRYO" /\ (kstack[r] <=> pc[p] # "kstack")
    BY <2>1 DEF Parts, ForkOwns, Forking, TypeOK
  <2>3. /\ \A q \in Procs \ {r} : state'[q] = state[q] /\ kstack'[q] = kstack[q]
        /\ \A q \in Procs \ {p} : np'[q] = np[q]
        /\ state'[r] = "EMBRYO" /\ kstack'[r] = TRUE /\ np'[p] = r
    BY <1>5, <2>1, <2>2 DEF ForkCopy, cpus, locks, TypeOK
  <2>4. /\ pc'[p] = "ready" /\ \A q \in Procs \ {p, r} : pc'[q] = pc[q]
        /\ pc'[r] = pc[r] \/ pc'[r] \notin Forking
    BY <1>5, <2>2 DEF ForkCopy, Goto, TypeOK, Forking
  <2>5. "ready" \in Points \ Resume
    BY DEF Points, Resume
  <2> HIDE DEF r
  <2> QED
    BY <2>1, <2>2, <2>3, <2>4, <2>5, OtherSlot DEF r, Forking
<1>6. CASE ForkReady(c, p)
  <2> DEFINE r == np[p]
  <2>1. /\ stack[c] = p /\ state[p] = "RUNNING" /\ ~preempted[p] /\ pc[p] = "ready"
        /\ UNCHANGED <<ptlock, cproc, stack, spc, irq, preempted>>
    BY <1>6 DEF ForkReady, At, Locked, cpus
  <2>2. r \in Procs \ {p} /\ state[r] = "EMBRYO" /\ (kstack[r] <=> pc[p] # "kstack")
    BY <2>1 DEF Parts, ForkOwns, Forking, TypeOK
  <2>3. /\ \A q \in Procs \ {r} : state'[q] = state[q] /\ kstack'[q] = kstack[q]
        /\ \A q \in Procs \ {p} : np'[q] = np[q]
        /\ state'[r] = "RUNNABLE" /\ kstack'[r] = TRUE /\ np'[p] = Null
    BY <1>6, <2>1, <2>2 DEF ForkReady, Locked, cpus, TypeOK
  <2>4. /\ pc'[p] = "sysret" /\ \A q \in Procs \ {p, r} : pc'[q] = pc[q]
        /\ pc'[r] = pc[r] \/ pc'[r] \notin Forking
    BY <1>6, <2>2 DEF ForkReady, Goto, TypeOK, Forking
  <2>5. "sysret" \in Points \ Resume /\ "sysret" \notin Forking /\ r # Null
    BY <2>2 DEF Points, Resume, Forking, Procs, Null
  <2>6. np[p] = r
    OBVIOUS
  <2> HIDE DEF r
  <2> QED
    BY <2>1, <2>2, <2>3, <2>4, <2>5, <2>6, OtherSlot
<1>7. CASE WaitReap(c, p)
  <2>1. PICK r \in Procs : /\ state[r] = "ZOMBIE"
                           /\ state' = [state EXCEPT ![r] = "UNUSED"]
                           /\ kstack' = [kstack EXCEPT ![r] = FALSE]
    BY <1>7 DEF WaitReap, First, Zombies, Children
  <2>2. /\ stack[c] = p /\ state[p] = "RUNNING" /\ ~preempted[p]
        /\ pc[p] \in {"wait", "waiting"}
        /\ ptlock \in {c, Free} /\ ptlock' = Free
        /\ UNCHANGED <<cproc, stack, spc, irq, preempted, np>>
    BY <1>7 DEF WaitReap, Scanning, At, cpus
  <2>3. /\ \A q \in Procs \ {r} : state'[q] = state[q] /\ kstack'[q] = kstack[q]
        /\ \A q \in Procs \ {p} : np'[q] = np[q]
        /\ state'[r] = "UNUSED" /\ ~kstack'[r] /\ np'[p] = Null
    BY <2>1, <2>2 DEF Parts, ForkOwns, Forking, TypeOK
  <2>4. /\ pc'[p] = "sysret" /\ \A q \in Procs \ {p, r} : pc'[q] = pc[q]
        /\ pc'[r] = pc[r]
    BY <1>7, <2>1, <2>2 DEF WaitReap, Goto, TypeOK
  <2>5. "sysret" \in Points \ Resume /\ "sysret" \notin Forking /\ r # Null
    BY DEF Points, Resume, Forking, Procs, Null
  <2>6. /\ ptlock \in {c, Free} \/ state[r] # "ZOMBIE"
        /\ ptlock' = ptlock \/ (ptlock' = Free /\ ptlock \in {c, Free})
    BY <2>2
  <2>7. /\ state[r] \in {"UNUSED", "EMBRYO", "ZOMBIE"}
        /\ np[p] = r \/ state[r] # "EMBRYO"
    BY <2>1
  <2>8. /\ state'[r] \in {"UNUSED", "EMBRYO", "RUNNABLE"}
        /\ state'[r] = "UNUSED" => ~kstack'[r]
        /\ state'[r] = "RUNNABLE" => kstack'[r]
    BY <2>3
  <2>9. /\ pc'[r] = pc[r] \/ pc'[r] \notin Forking
        /\ pc'[p] \notin Resume /\ np'[p] \in {Null, r}
        /\ pc'[p] \in Forking <=> np'[p] = r
        /\ np'[p] = r => state'[r] = "EMBRYO" /\ (kstack'[r] <=> pc'[p] # "kstack")
    BY <2>3, <2>4, <2>5
  <2>10. /\ \A q \in Procs \ {r} : state'[q] = state[q] /\ kstack'[q] = kstack[q]
         /\ \A q \in Procs \ {p} : np'[q] = np[q]
         /\ \A q \in Procs \ {p, r} : pc'[q] = pc[q]
         /\ UNCHANGED <<cproc, stack, spc, irq, preempted>>
         /\ stack[c] = p /\ state[p] = "RUNNING" /\ ~preempted[p]
    BY <2>2, <2>3, <2>4
  <2> QED
    BY <2>6, <2>7, <2>8, <2>9, <2>10, OtherSlot
<1>8. CASE Panic(c, p)
  BY <1>8 DEF Panic, Parts, OnStack, OffStack, RunningOnCpu, InTrap, HandOff,
     PreemptedLive, ForkOwns, StackAccounted, vars, ptable, threads, cpus, locks
<1> QED
  BY <1>1, <1>2, <1>3, <1>4, <1>5, <1>6, <1>7, <1>8

\* Every step of a thread keeps the parts of the invariant.
LEMMA ThreadInv ==
  ASSUME TypeOK, TypeOK', Parts, NEW c \in CPUs, NEW p \in Procs,
         ThreadStep(c, p) \/ User(c, p) \/ Panic(c, p)
  PROVE  Parts'
BY InPlace, GivesUpCpu, ForkAndReap DEF ThreadStep, Syscall, User

\* The parts of the invariant hold when the CPUs enter the scheduler.
LEMMA InitParts == Init => Parts
<1> SUFFICES ASSUME Init PROVE Parts
  OBVIOUS
<1> USE DEF Init, Procs, CPUs, initproc, Null, Free
<1>1. OnStack /\ OffStack /\ RunningOnCpu
  BY DEF OnStack, OffStack, RunningOnCpu
<1>2. InTrap /\ HandOff /\ PreemptedLive
  BY DEF InTrap, HandOff, PreemptedLive
<1>3. ForkOwns
  BY DEF ForkOwns, Forking
<1>4. StackAccounted
  BY DEF StackAccounted
<1> QED
  BY <1>1, <1>2, <1>3, <1>4 DEF Parts

(***************************************************************************)
(* Parents and children.                                                   *)
(***************************************************************************)

Absent == {"UNUSED", "EMBRYO"}

\* A step that neither changes who is whose parent, nor starts or ends a
\* process, nor puts one to sleep in wait().
LEMMA FamilyKept ==
  ASSUME TypeOK, TypeOK', Family, Fresh', parent' = parent,
         \A q \in Procs : \/ state'[q] = state[q]
                          \/ {state[q], state'[q]} \subseteq Live
                          \/ {state[q], state'[q]} \subseteq Absent,
         \A q \in Procs : state'[q] = "SLEEPING" /\ chan'[q] = q =>
                            /\ state[q] = "SLEEPING" /\ chan[q] = q
                            /\ killed[q] = killed'[q],
         \A q \in Procs : \/ pc'[q] = pc[q]
                          \/ pc'[q] # "ready" /\ (q = initproc => pc'[q] \notin {"lastlock", "dead"}),
         \A q \in Procs : pc'[q] = "ready" => np'[q] = np[q]
  PROVE  Family'
<1> USE DEF Family
<1>1. initproc \in Procs /\ Live \cap Absent = {} /\ "ZOMBIE" \notin Live \cup Absent
  BY DEF initproc, Procs, Live, Absent
<1>2. \A q \in Procs : /\ state'[q] \in Live <=> state[q] \in Live
                       /\ state'[q] \in Absent <=> state[q] \in Absent
                       /\ state'[q] = "ZOMBIE" <=> state[q] = "ZOMBIE"
  BY <1>1
<1>3. InitLives'
  BY <1>1, <1>2 DEF InitLives
<1>4. Linked'
  BY <1>1 DEF Linked
<1>5. ParentAlive'
  BY <1>2 DEF ParentAlive, Live, Absent
<1>6. WaitersWait'
  <2>1. ASSUME NEW p \in Procs
        PROVE  Children(p)' = Children(p) /\ Zombies(p)' = Zombies(p)
    BY <1>2 DEF Children, Zombies
  <2> QED  BY <2>1 DEF WaitersWait
<1> QED  BY <1>3, <1>4, <1>5, <1>6

\* The same for a step that is not one of fork's.
LEMMA FamilyStays ==
  ASSUME TypeOK, TypeOK', Family, parent' = parent,
         \A q \in Procs : state'[q] = state[q] \/ {state[q], state'[q]} \subseteq Live,
         \A q \in Procs : state'[q] = "SLEEPING" /\ chan'[q] = q =>
                            /\ state[q] = "SLEEPING" /\ chan[q] = q
                            /\ killed[q] = killed'[q],
         \A q \in Procs : \/ pc'[q] = pc[q]
                          \/ pc'[q] \notin Forking /\ (q = initproc => pc'[q] \notin {"lastlock", "dead"}),
         \A q \in Procs : pc'[q] \in Forking => np'[q] = np[q]
  PROVE  Family'
<1>1. Fresh'
  <2>1. \A q \in Procs : state'[q] = "UNUSED" => state[q] = "UNUSED"
    BY DEF Live
  <2>2. \A q \in Procs : pc'[q] \in {"kstack", "copyuvm"} => pc'[q] = pc[q] /\ np'[q] = np[q]
    BY DEF Forking
  <2> QED  BY <2>1, <2>2 DEF Family, Fresh
<1> QED  BY <1>1, FamilyKept DEF Forking

\* The steps of a CPU: the scheduler, the timer trap, acquire.
LEMMA CpuFamily ==
  ASSUME TypeOK, TypeOK', Parts, Family, NEW c \in CPUs, CpuStep(c) \/ Timer(c)
  PROVE  Family'
<1> USE DEF TypeOK
<1>1. CASE Timer(c) \/ SchedHalt(c) \/ SchedAcquire(c) \/ SchedEnd(c) \/ Sched(c)
           \/ Tick(c) \/ TrapReturn(c) \/ TrapYield(c) \/ Spin(c)
  <2>1. UNCHANGED <<ptable, pc, np>>
    BY <1>1 DEF Timer, SchedHalt, SchedAcquire, SchedEnd, Sched, Tick, TrapReturn,
       TrapYield, Spin, threads
  <2> QED  BY <2>1, FamilyStays DEF ptable
<1>2. CASE SchedRun(c)
  <2>1. PICK p \in Procs : state[p] = "RUNNABLE" /\ state' = [state EXCEPT ![p] = "RUNNING"]
    BY <1>2 DEF SchedRun, First, Ahead
  <2>2. UNCHANGED <<parent, chan, killed, pc, np>>
    BY <1>2 DEF SchedRun, threads
  <2> QED  BY <2>1, <2>2, FamilyStays DEF Live
<1>3. CASE TickWakeup(c)
  <2>1. UNCHANGED <<parent, chan, killed, pc, np>> /\ state' = Wakeup1(state, Ticks)
    BY <1>3 DEF TickWakeup, threads
  <2> QED  BY <2>1, FamilyStays DEF Live, Wakeup1
<1>4. CASE TrapKilled(c)
  <2>1. UNCHANGED <<ptable, np>> /\ pc' = [pc EXCEPT ![cproc[c]] = "exit"]
    BY <1>4 DEF TrapKilled, Goto
  <2> QED  BY <2>1, FamilyStays DEF ptable, Forking
<1>5. CASE Yield(c)
  <2>1. cproc[c] = stack[c] /\ stack[c] \in Procs /\ ptlock = Free
    BY <1>5 DEF Yield, KeepLock, Parts, InTrap, OnStack
  <2>2. state[cproc[c]] = "RUNNING"
    BY <2>1 DEF Parts, OnStack, CPUs, Free, Null, Procs
  <2>3. UNCHANGED <<parent, chan, killed, pc, np>> /\ state' = [state EXCEPT ![cproc[c]] = "RUNNABLE"]
    BY <1>5 DEF Yield
  <2> QED  BY <2>1, <2>2, <2>3, FamilyStays DEF Live
<1> QED  BY <1>1, <1>2, <1>3, <1>4, <1>5 DEF CpuStep

\* What a thread does apart from fork, wait and exit.
LEMMA CallFamily ==
  ASSUME TypeOK, TypeOK', Family, NEW c \in CPUs, NEW p \in Procs,
         \/ YieldReturn(c, p) \/ Forkret(c, p) \/ SyscallReturn(c, p)
         \/ SyscallEnter(c, p) \/ UserFault(c, p) \/ Panic(c, p)
         \/ ForkNoSlot(c, p) \/ WaitFail(c, p)
         \/ SleepStart(c, p) \/ SleepDone(c, p) \/ SleepMore(c, p) \/ SleepTicks(c, p)
         \/ SleepWoken(c, p) \/ SleepReacquire(c, p)
         \/ Kill(c, p) \/ KillNobody(c, p) \/ ExitClose(c, p)
  PROVE  Family'
<1> USE DEF TypeOK
<1>1. CASE Panic(c, p)
  BY <1>1, FamilyStays DEF Panic, vars, ptable, threads
<1>2. CASE SyscallEnter(c, p)
  <2>1. NextCalls(p) \subseteq Points \ (Forking \cup {"lastlock", "dead"})
    BY UserCallsAssumption DEF Calls, NextCalls, Points, Forking
  <2>2. PICK l \in Points \ (Forking \cup {"lastlock", "dead"}) : pc' = [pc EXCEPT ![p] = l]
    BY <1>2, <2>1 DEF SyscallEnter, Goto, Points, Forking
  <2>3. UNCHANGED <<ptable, np>>
    BY <1>2 DEF SyscallEnter
  <2> QED  BY <2>2, <2>3, FamilyStays DEF ptable
<1>3. CASE UserFault(c, p)
  <2>1. state[p] = "RUNNING" /\ pc' = [pc EXCEPT ![p] = "exit"] /\ killed' = [killed EXCEPT ![p] = TRUE]
    BY <1>3 DEF UserFault, At, Goto
  <2> QED  BY <1>3, <2>1, FamilyStays DEF UserFault, Forking
<1>4. CASE Kill(c, p)
  <2>1. PICK q \in Procs :
          /\ killed' = [killed EXCEPT ![q] = TRUE]
          /\ state' = [state EXCEPT ![q] = IF @ = "SLEEPING" THEN "RUNNABLE" ELSE @]
    BY <1>4 DEF Kill, Matches, First
  <2>2. UNCHANGED <<parent, chan, np>> /\ pc' = [pc EXCEPT ![p] = "sysret"]
    BY <1>4 DEF Kill, Goto
  <2>3. \A r \in Procs : state'[r] = state[r] \/ {state[r], state'[r]} \subseteq Live
    BY <2>1 DEF Live
  <2>4. ASSUME NEW r \in Procs, state'[r] = "SLEEPING"
        PROVE  state[r] = "SLEEPING" /\ killed[r] = killed'[r]
    <3>1. r # q
      BY <2>1, <2>4
    <3> QED  BY <3>1, <2>1, <2>4
  <2> QED  BY <2>2, <2>3, <2>4, FamilyStays DEF Forking
<1>5. CASE SleepTicks(c, p)
  <2>1. /\ state[p] = "RUNNING" /\ pc' = [pc EXCEPT ![p] = "asleep"]
        /\ state' = [state EXCEPT ![p] = "SLEEPING"] /\ chan' = [chan EXCEPT ![p] = Ticks]
        /\ UNCHANGED <<parent, killed, np>>
    BY <1>5 DEF SleepTicks, At, Goto
  <2>2. \A r \in Procs : state'[r] = state[r] \/ {state[r], state'[r]} \subseteq Live
    BY <2>1 DEF Live
  <2>3. \A r \in Procs : state'[r] = "SLEEPING" /\ chan'[r] = r => r # p
    BY <2>1 DEF Ticks, Procs
  <2>4. \A r \in Procs : state'[r] = "SLEEPING" /\ chan'[r] = r =>
          state[r] = "SLEEPING" /\ chan[r] = r /\ killed[r] = killed'[r]
    BY <2>1, <2>3
  <2>5. \A r \in Procs : \/ pc'[r] = pc[r]
                         \/ pc'[r] \notin Forking /\ pc'[r] \notin {"lastlock", "dead"}
    BY <2>1 DEF Forking
  <2> QED  BY <2>1, <2>2, <2>4, <2>5, FamilyStays
<1>6. CASE SleepWoken(c, p) \/ WaitFail(c, p)
  <2>1. /\ state[p] = "RUNNING" /\ (\E l \in {"reacquire", "sysret"} : pc' = [pc EXCEPT ![p] = l])
        /\ chan' = [chan EXCEPT ![p] = Null]
        /\ UNCHANGED <<state, parent, killed, np>>
    BY <1>6 DEF SleepWoken, WaitFail, Scanning, At, Goto
  <2> QED  BY <2>1, FamilyStays DEF Forking
<1>7. CASE \/ YieldReturn(c, p) \/ Forkret(c, p) \/ SyscallReturn(c, p)
           \/ ForkNoSlot(c, p) \/ SleepStart(c, p) \/ SleepDone(c, p) \/ SleepMore(c, p)
           \/ SleepReacquire(c, p) \/ KillNobody(c, p) \/ ExitClose(c, p)
  <2>1. UNCHANGED <<state, parent, chan, killed, np>>
    BY <1>7 DEF YieldReturn, Forkret, SyscallReturn, ForkNoSlot, SleepStart, SleepDone,
       SleepMore, SleepReacquire, KillNobody, ExitClose, ptable
  <2>2. \A q \in Procs : \/ pc'[q] = pc[q]
                         \/ pc'[q] \notin Forking /\ (q = initproc => pc'[q] \notin {"lastlock", "dead"})
    BY <1>7 DEF YieldReturn, Forkret, SyscallReturn, ForkNoSlot, SleepStart, SleepDone,
       SleepMore, SleepReacquire, KillNobody, ExitClose, Goto, Forking
  <2> QED  BY <2>1, <2>2, FamilyStays
<1> QED  BY <1>1, <1>2, <1>3, <1>4, <1>5, <1>6, <1>7

\* fork, up to the moment the child is a process.
LEMMA ForkFamily ==
  ASSUME TypeOK, TypeOK', Parts, Family, NEW c \in CPUs, NEW p \in Procs,
         \/ ForkAlloc(c, p) \/ ForkNoStack(c, p) \/ ForkStack(c, p)
         \/ ForkNoMemory(c, p) \/ ForkCopy(c, p) \/ ForkReady(c, p)
  PROVE  Family'
<1> USE DEF TypeOK
<1>0. initproc \in Procs /\ state[initproc] \notin {"UNUSED", "EMBRYO"}
  BY DEF initproc, Procs, Family, InitLives, Live
<1>1. CASE ForkAlloc(c, p)
  <2>1. PICK q \in Procs : /\ state[q] = "UNUSED"
                           /\ state' = [state EXCEPT ![q] = "EMBRYO"]
                           /\ np' = [np EXCEPT ![p] = q]
    BY <1>1 DEF ForkAlloc, First
  <2>2. UNCHANGED <<parent, chan, killed>> /\ pc' = [pc EXCEPT ![p] = "kstack"]
    BY <1>1 DEF ForkAlloc, Goto
  <2>3. Fresh'
    BY <2>1, <2>2 DEF Family, Fresh
  <2> QED  BY <2>1, <2>2, <2>3, FamilyKept DEF Absent
<1>2. ASSUME pc[p] \in Forking
      PROVE  np[p] \in Procs \ {p, initproc} /\ state[np[p]] = "EMBRYO" /\ state[p] \in Live
             /\ \A q \in Procs \ {p} : np[q] = Null \/ np[q] # np[p]
  BY <1>0, <1>2 DEF Parts, ForkOwns, Live, Null
<1>3. CASE ForkNoStack(c, p) \/ ForkNoMemory(c, p)
  <2>1. np[p] \in Procs \ {p, initproc} /\ state[np[p]] = "EMBRYO"
    BY <1>2, <1>3 DEF ForkNoStack, ForkNoMemory, At, Forking
  <2>2. /\ state' = [state EXCEPT ![np[p]] = "UNUSED"] /\ np' = [np EXCEPT ![p] = Null]
        /\ UNCHANGED <<parent, chan, killed>>
    BY <1>3 DEF ForkNoStack, ForkNoMemory
  <2>3. /\ pc'[p] = "sysret" /\ \A q \in Procs \ {p, np[p]} : pc'[q] = pc[q]
        /\ pc'[np[p]] \in {pc[np[p]], "dead"}
    BY <1>3, <2>1 DEF ForkNoStack, ForkNoMemory, Goto
  <2>4. parent[np[p]] = Null
    BY <1>3 DEF ForkNoStack, ForkNoMemory, At, Family, Fresh
  <2>5. Fresh'
    BY <2>1, <2>2, <2>3, <2>4 DEF Family, Fresh
  <2> QED  BY <2>1, <2>2, <2>3, <2>5, FamilyKept DEF Absent
<1>4. CASE ForkStack(c, p)
  <2>1. np[p] \in Procs \ {p, initproc}
    BY <1>2, <1>4 DEF ForkStack, At, Forking
  <2>2. UNCHANGED <<state, parent, chan, killed, np>>
    BY <1>4 DEF ForkStack
  <2>3. pc' = [pc EXCEPT ![p] = "copyuvm", ![np[p]] = "forkret"]
    BY <1>4 DEF ForkStack
  <2>4. parent[np[p]] = Null
    BY <1>4 DEF ForkStack, At, Family, Fresh
  <2>5. Fresh'
    BY <2>1, <2>2, <2>3, <2>4 DEF Family, Fresh
  <2> QED  BY <2>1, <2>2, <2>3, <2>5, FamilyKept
<1>5. CASE ForkCopy(c, p)
  <2>1. pc[p] = "copyuvm" /\ np[p] \in Procs \ {p, initproc} /\ state[np[p]] = "EMBRYO"
        /\ (\A q \in Procs \ {p} : np[q] = Null \/ np[q] # np[p]) /\ parent[np[p]] = Null
    BY <1>2, <1>5 DEF ForkCopy, At, Forking, Family, Fresh
  <2>2. /\ UNCHANGED <<state, chan, killed, np>> /\ parent' = [parent EXCEPT ![np[p]] = p]
        /\ pc' = [pc EXCEPT ![p] = "ready"] /\ state[p] = "RUNNING"
    BY <1>5 DEF ForkCopy, At, Goto
  <2>3. InitLives'
    BY <2>2, <1>0 DEF Family, InitLives
  <2>4. Linked'
    <3>1. ASSUME NEW q \in Procs, pc'[q] = "ready"  PROVE parent'[np'[q]] = q
      <4>1. CASE q = p
        BY <4>1, <2>1, <2>2
      <4>2. CASE q # p
        <5>1. pc[q] = "ready" /\ np[q] # Null
          BY <4>2, <3>1, <2>2 DEF Parts, ForkOwns, Forking
        <5> QED  BY <4>2, <5>1, <2>1, <2>2 DEF Family, Linked
      <4> QED  BY <4>1, <4>2
    <3> QED  BY <3>1 DEF Linked
  <2>5. ParentAlive'
    BY <2>1, <2>2 DEF Family, ParentAlive
  <2>6. WaitersWait'
    <3>1. ASSUME NEW q \in Procs, state[q] = "SLEEPING", chan[q] = q
          PROVE  Children(q)' # {} /\ Zombies(q)' = {}
      <4>1. PICK r \in Procs : parent[r] = q
        BY <3>1 DEF Family, WaitersWait, Children
      <4>2. \A s \in Procs : ~ (parent[s] = q /\ state[s] = "ZOMBIE")
        BY <3>1 DEF Family, WaitersWait, Zombies, Children
      <4>3. Zombies(q)' = {}
        BY <2>1, <2>2, <4>2 DEF Zombies, Children
      <4>4. r # np[p]
        BY <4>1, <2>1 DEF Procs, Null
      <4>5. parent'[r] = q
        BY <4>1, <4>4, <2>2
      <4> QED  BY <4>3, <4>5 DEF Children
    <3> QED  BY <3>1, <2>2 DEF WaitersWait, Family
  <2>7. Fresh'
    <3>1. ASSUME NEW q \in Procs, pc'[q] \in {"kstack", "copyuvm"}  PROVE parent'[np'[q]] = Null
      <4>1. q # p /\ pc[q] \in {"kstack", "copyuvm"}
        BY <3>1, <2>2
      <4>2. np[q] \in Procs \ {np[p]}
        BY <4>1, <2>1 DEF Parts, ForkOwns, Forking
      <4> QED  BY <4>1, <4>2, <2>2 DEF Family, Fresh
    <3> QED  BY <3>1, <2>1, <2>2 DEF Family, Fresh
  <2> QED  BY <2>3, <2>4, <2>5, <2>6, <2>7 DEF Family
<1>6. CASE ForkReady(c, p)
  <2>1. pc[p] = "ready" /\ np[p] \in Procs \ {p, initproc} /\ state[np[p]] = "EMBRYO"
        /\ \A q \in Procs \ {p} : np[q] = Null \/ np[q] # np[p]
    BY <1>2, <1>6 DEF ForkReady, At, Forking
  <2>2. /\ UNCHANGED <<parent, chan, killed>> /\ state' = [state EXCEPT ![np[p]] = "RUNNABLE"]
        /\ pc' = [pc EXCEPT ![p] = "sysret"] /\ state[p] = "RUNNING"
        /\ np' = [np EXCEPT ![p] = Null] /\ parent[np[p]] = p
    BY <1>6 DEF ForkReady, At, Goto, Family, Linked
  <2>3. InitLives'
    BY <2>1, <2>2, <1>0 DEF Family, InitLives
  <2>4. Linked'
    BY <2>2 DEF Family, Linked
  <2>5. ParentAlive'
    BY <2>1, <2>2 DEF Family, ParentAlive
  <2>6. \A q \in Procs : Children(q)' = Children(q) /\ Zombies(q)' = Zombies(q)
    BY <2>1, <2>2 DEF Children, Zombies
  <2>7. WaitersWait'
    BY <2>1, <2>2, <2>6 DEF Family, WaitersWait
  <2>8. Fresh'
    BY <2>2 DEF Family, Fresh
  <2> QED  BY <2>3, <2>4, <2>5, <2>7, <2>8 DEF Family
<1> QED  BY <1>1, <1>3, <1>4, <1>5, <1>6

\* wait() takes a zombie away, or sleeps while there is none.
LEMMA WaitFamily ==
  ASSUME TypeOK, TypeOK', Parts, Family, NEW c \in CPUs, NEW p \in Procs,
         WaitReap(c, p) \/ WaitSleep(c, p)
  PROVE  Family'
<1> USE DEF TypeOK
<1>0. initproc \in Procs /\ state[initproc] \in Live
  BY DEF initproc, Procs, Family, InitLives
<1>1. CASE WaitReap(c, p)
  <2>1. PICK q \in Procs : /\ parent[q] = p /\ state[q] = "ZOMBIE"
                           /\ parent' = [parent EXCEPT ![q] = Null]
                           /\ killed' = [killed EXCEPT ![q] = FALSE]
                           /\ state' = [state EXCEPT ![q] = "UNUSED"]
    BY <1>1 DEF WaitReap, First, Zombies, Children
  <2>2. /\ state[p] = "RUNNING" /\ pc' = [pc EXCEPT ![p] = "sysret"]
        /\ chan' = [chan EXCEPT ![p] = Null] /\ np' = np
    BY <1>1 DEF WaitReap, Scanning, At, Goto
  <2>3. ASSUME NEW r \in Procs, pc[r] \in Forking  PROVE np[r] \in Procs \ {q}
    BY <2>1, <2>3 DEF Parts, ForkOwns
  <2>4. InitLives'
    BY <2>1, <2>2, <1>0 DEF Family, InitLives, Live
  <2>5. Linked'
    BY <2>1, <2>2, <2>3 DEF Family, Linked, Forking
  <2>6. Fresh'
    BY <2>1, <2>2, <2>3 DEF Family, Fresh, Forking
  <2>7. ParentAlive'
    BY <2>1 DEF Family, ParentAlive
  <2>8. WaitersWait'
    <3>1. ASSUME NEW r \in Procs, state'[r] = "SLEEPING", chan'[r] = r
          PROVE  Children(r)' # {} /\ Zombies(r)' = {} /\ ~killed'[r]
      <4>1. r # p /\ r # q /\ state[r] = "SLEEPING" /\ chan[r] = r
        BY <3>1, <2>1, <2>2
      <4>2. PICK s \in Procs : parent[s] = r
        BY <4>1 DEF Family, WaitersWait, Children
      <4>3. parent'[s] = r
        BY <4>1, <4>2, <2>1
      <4>4. \A t \in Procs : ~ (parent[t] = r /\ state[t] = "ZOMBIE")
        BY <4>1 DEF Family, WaitersWait, Zombies, Children
      <4>5. Zombies(r)' = {}
        BY <4>4, <2>1 DEF Zombies, Children, Procs, Null
      <4>6. ~killed[r]
        BY <4>1 DEF Family, WaitersWait
      <4> QED  BY <4>1, <4>3, <4>5, <4>6, <2>1 DEF Children
    <3> QED  BY <3>1 DEF WaitersWait
  <2> QED  BY <2>4, <2>5, <2>6, <2>7, <2>8 DEF Family
<1>2. CASE WaitSleep(c, p)
  <2>1. /\ Zombies(p) = {} /\ Children(p) # {} /\ ~killed[p] /\ state[p] = "RUNNING"
        /\ chan' = [chan EXCEPT ![p] = p] /\ state' = [state EXCEPT ![p] = "SLEEPING"]
        /\ pc' = [pc EXCEPT ![p] = "waiting"] /\ UNCHANGED <<parent, killed, np>>
    BY <1>2 DEF WaitSleep, Scanning, At, Goto
  <2>2. InitLives'
    BY <2>1, <1>0 DEF Family, InitLives, Live
  <2>3. Linked' /\ Fresh'
    BY <2>1 DEF Family, Linked, Fresh
  <2>4. ParentAlive'
    BY <2>1 DEF Family, ParentAlive
  <2>5. \A q \in Procs : Children(q)' = Children(q) /\ Zombies(q)' = Zombies(q)
    BY <2>1 DEF Children, Zombies
  <2>6. WaitersWait'
    BY <2>1, <2>5 DEF Family, WaitersWait
  <2> QED  BY <2>2, <2>3, <2>4, <2>6 DEF Family
<1> QED  BY <1>1, <1>2

\* exit() wakes the parent, hands the children to init, and wakes init if one
\* of them is a zombie.
LEMMA ExitFamily ==
  ASSUME TypeOK, TypeOK', Parts, Family, NEW c \in CPUs, NEW p \in Procs, Exit(c, p)
  PROVE  Family'
<1> USE DEF TypeOK
<1>1. /\ state[p] = "RUNNING" /\ pc[p] = "lastlock" /\ pc' = [pc EXCEPT ![p] = "dead"]
      /\ UNCHANGED <<chan, killed, np>>
      /\ parent' = [q \in Procs |-> IF parent[q] = p THEN initproc ELSE parent[q]]
  BY DEF Exit, At, Goto
<1>2. initproc \in Procs /\ state[initproc] \in Live /\ p # initproc
  BY <1>1 DEF initproc, Procs, Family, InitLives
<1>3. parent[p] \in Procs \ {p} /\ state[parent[p]] \in Live
  BY <1>1, <1>2 DEF Family, ParentAlive, Live
<1>4. /\ state'[p] = "ZOMBIE"
      /\ \A q \in Procs \ {p} :
           \/ state'[q] = state[q]
           \/ state[q] = "SLEEPING" /\ state'[q] = "RUNNABLE"
      /\ \A q \in Procs \ {p} : chan[q] = parent[p] => state'[q] # "SLEEPING"
      /\ \A q \in Procs \ {p} : Zombies(p) # {} /\ chan[q] = initproc => state'[q] # "SLEEPING"
  <2>1. state' = ExitStates(p)
    BY DEF Exit
  <2>2. CASE Zombies(p) = {}
    BY <2>1, <2>2 DEF ExitStates, Wakeup1
  <2>3. CASE Zombies(p) # {}
    BY <2>1, <2>3 DEF ExitStates, Wakeup1
  <2> QED  BY <2>2, <2>3
<1>5. InitLives'
  BY <1>1, <1>2, <1>4 DEF Family, InitLives, Live
<1>6. Linked'
  BY <1>1 DEF Family, Linked, Parts, ForkOwns, Forking
<1>7. Fresh'
  <2>1. \A q \in Procs : parent[q] = Null => parent'[q] = Null
    BY <1>1 DEF Procs, Null
  <2>2. \A q \in Procs : state'[q] = "UNUSED" => state[q] = "UNUSED"
    BY <1>4
  <2>3. ASSUME NEW q \in Procs, pc'[q] \in {"kstack", "copyuvm"}
        PROVE  pc[q] = pc'[q] /\ np[q] \in Procs
    <3>1. pc[q] = pc'[q]
      BY <2>3, <1>1
    <3> QED  BY <3>1, <2>3 DEF Parts, ForkOwns, Forking
  <2>4. \A q \in Procs : state'[q] = "UNUSED" => parent'[q] = Null
    BY <2>1, <2>2 DEF Family, Fresh
  <2>5. \A q \in Procs : pc'[q] \in {"kstack", "copyuvm"} => parent'[np'[q]] = Null
    BY <2>1, <2>3, <1>1 DEF Family, Fresh
  <2> QED  BY <2>4, <2>5 DEF Fresh
<1>8. ParentAlive'
  <2>1. ASSUME NEW q \in Procs \ {initproc}, state'[q] \notin {"UNUSED", "EMBRYO"}
        PROVE  parent'[q] \in Procs \ {q} /\ state'[parent'[q]] \in {"SLEEPING", "RUNNABLE", "RUNNING"}
    <3>1. state[q] \notin {"UNUSED", "EMBRYO"}
      BY <2>1, <1>1, <1>4
    <3>2. parent[q] \in Procs \ {q} /\ state[parent[q]] \in Live
      BY <3>1 DEF Family, ParentAlive, Live
    <3>3. CASE parent[q] = p
      BY <3>3, <1>1, <1>2, <1>4 DEF Live
    <3>4. CASE parent[q] # p
      BY <3>2, <3>4, <1>1, <1>4 DEF Live
    <3> QED  BY <3>3, <3>4
  <2> QED  BY <2>1 DEF ParentAlive
<1>9. WaitersWait'
  <2>1. ASSUME NEW r \in Procs, state'[r] = "SLEEPING", chan'[r] = r
        PROVE  Children(r)' # {} /\ Zombies(r)' = {} /\ ~killed'[r]
    <3>1. r # p /\ state[r] = "SLEEPING" /\ chan[r] = r
      BY <2>1, <1>1, <1>4
    <3>2. r # parent[p] /\ (r = initproc => Zombies(p) = {})
      BY <2>1, <1>4, <3>1
    <3>3. PICK s \in Procs : parent[s] = r
      BY <3>1 DEF Family, WaitersWait, Children
    <3>4. parent'[s] = r
      BY <3>1, <3>3, <1>1
    <3>5. \A t \in Procs : ~ (parent[t] = r /\ state[t] = "ZOMBIE")
      BY <3>1 DEF Family, WaitersWait, Zombies, Children
    <3>6. ASSUME NEW t \in Procs, parent'[t] = r  PROVE state'[t] # "ZOMBIE"
      <4>1. CASE parent[t] = p
        <5>1. r = initproc
          BY <4>1, <3>6, <1>1
        <5>2. t # p /\ state[t] # "ZOMBIE"
          BY <4>1, <5>1, <3>2, <1>3 DEF Zombies, Children
        <5> QED  BY <5>2, <1>4
      <4>2. CASE parent[t] # p
        <5>1. parent[t] = r /\ t # p
          BY <4>2, <3>6, <3>2, <1>1
        <5> QED  BY <5>1, <3>5, <1>4
      <4> QED  BY <4>1, <4>2
    <3>7. ~killed[r]
      BY <3>1 DEF Family, WaitersWait
    <3> QED  BY <3>4, <3>6, <3>7, <1>1 DEF Children, Zombies
  <2> QED  BY <2>1 DEF WaitersWait
<1> QED  BY <1>5, <1>6, <1>7, <1>8, <1>9 DEF Family

\* Every step of a thread keeps the family.
LEMMA ThreadFamily ==
  ASSUME TypeOK, TypeOK', Parts, Family, NEW c \in CPUs, NEW p \in Procs,
         ThreadStep(c, p) \/ User(c, p) \/ Panic(c, p)
  PROVE  Family'
BY CallFamily, ForkFamily, WaitFamily, ExitFamily DEF ThreadStep, Syscall, User

\* In the beginning there is init.
LEMMA InitFamily == Init => Family
<1> SUFFICES ASSUME Init PROVE Family
  OBVIOUS
<1> USE DEF Init, initproc
<1>1. InitLives
  BY DEF InitLives, Live, Procs
<1>2. Linked /\ Fresh
  BY DEF Linked, Fresh
<1>3. ParentAlive /\ WaitersWait
  BY DEF ParentAlive, WaitersWait
<1> QED  BY <1>1, <1>2, <1>3 DEF Family

(***************************************************************************)
(* The ticks.                                                              *)
(***************************************************************************)

\* A thread that neither takes nor gives back tickslock, nor gets to or leaves
\* the points it is held at, nor falls asleep for it.
LEMMA SleepersStay ==
  ASSUME TypeOK, TypeOK', Sleepers, UNCHANGED <<stack, irq, tklock, left>>,
         \A q \in Procs : pc'[q] \in Deciding =>
           pc'[q] = pc[q] /\ (state[q] = "RUNNING" => state'[q] = "RUNNING")
             /\ (preempted'[q] => preempted[q]),
         \A q \in Procs : state'[q] = "SLEEPING" /\ chan'[q] = Ticks =>
           state[q] = "SLEEPING" /\ chan[q] = Ticks
  PROVE  Sleepers'
<1>1. DecidesLocked'
  BY DEF Sleepers, DecidesLocked
<1>2. TickLocked'
  BY DEF Sleepers, TickLocked
<1>3. TimeLeft'
  BY DEF Sleepers, TimeLeft, Deciding
<1>4. NoLostTick'
  BY DEF Sleepers, NoLostTick
<1> QED  BY <1>1, <1>2, <1>3, <1>4 DEF Sleepers

\* The CPU of a process that decides is at no other step.
LEMMA DeciderIsBusy ==
  ASSUME TypeOK, Parts, Sleepers, NEW p \in Procs, pc[p] \in Deciding,
         NEW c \in CPUs, stack[c] = p \/ tklock \in {c, Free} \/ cproc[c] = p
  PROVE  /\ stack[c] = p /\ irq[c] = "none" /\ tklock = c
         /\ state[p] = "RUNNING" /\ ~preempted[p]
<1>1. PICK d \in CPUs : stack[d] = p /\ irq[d] = "none" /\ tklock = d
  BY DEF Sleepers, DecidesLocked
<1>2. tklock # Free /\ p # Null
  BY <1>1 DEF CPUs, Free, Procs, Null
<1>3. cproc[c] = p => stack[c] = p
  BY <1>2 DEF Parts, OnStack, OffStack
<1>4. stack[c] = p => c = d
  BY <1>1, <1>2 DEF Parts, OnStack
<1>5. c = d
  BY <1>1, <1>2, <1>3, <1>4
<1> QED  BY <1>1, <1>5 DEF Sleepers, DecidesLocked

\* The steps of a CPU.
LEMMA CpuSleepers ==
  ASSUME TypeOK, TypeOK', Parts, Sleepers, NEW c \in CPUs, CpuStep(c) \/ Timer(c)
  PROVE  Sleepers'
<1> USE DEF TypeOK
<1>1. CASE SchedHalt(c) \/ SchedAcquire(c) \/ SchedEnd(c) \/ Spin(c)
  <2>1. UNCHANGED <<state, chan, pc, preempted, left, stack, irq, tklock>>
    BY <1>1 DEF SchedHalt, SchedAcquire, SchedEnd, Spin, KeepLock, ptable, threads, cpus, locks
  <2> QED  BY <2>1, SleepersStay
<1>2. CASE SchedRun(c) \/ Sched(c)
  <2>1. /\ UNCHANGED <<chan, pc, preempted, left, irq, tklock>>
        /\ \A q \in Procs : state'[q] = state[q] \/ (state[q] = "RUNNABLE" /\ state'[q] = "RUNNING")
        /\ stack[c] = Null \/ state[stack[c]] # "RUNNING"
        /\ \A d \in CPUs \ {c} : stack'[d] = stack[d]
    BY <1>2 DEF SchedRun, Sched, InScheduler, First, Ahead, ptable, threads, locks
  <2>2. DecidesLocked'
    <3>1. ASSUME NEW p \in Procs, pc[p] \in Deciding
          PROVE  /\ state'[p] = "RUNNING" /\ ~preempted'[p]
                 /\ \E d \in CPUs : stack'[d] = p /\ irq'[d] = "none" /\ tklock' = d
      <4>1. PICK d \in CPUs : stack[d] = p /\ irq[d] = "none" /\ tklock = d
        BY <3>1 DEF Sleepers, DecidesLocked
      <4>2. state[p] = "RUNNING" /\ ~preempted[p]
        BY <3>1 DEF Sleepers, DecidesLocked
      <4>3. d # c
        BY <4>1, <4>2, <2>1 DEF Procs, Null
      <4> QED  BY <4>1, <4>2, <4>3, <2>1
    <3> QED  BY <3>1, <2>1 DEF DecidesLocked
  <2>3. TickLocked' /\ TimeLeft' /\ NoLostTick'
    BY <2>1 DEF Sleepers, TickLocked, TimeLeft, NoLostTick
  <2> QED  BY <2>2, <2>3 DEF Sleepers
<1>3. CASE Timer(c) \/ TrapReturn(c) \/ TrapYield(c) \/ TrapKilled(c)
  <2>1. /\ UNCHANGED <<state, chan, preempted, left, stack, tklock>>
        /\ \A q \in Procs : pc'[q] = pc[q] \/ pc'[q] = "exit"
        /\ \A d \in CPUs \ {c} : irq'[d] = irq[d]
        /\ irq[c] # "wakeup" /\ irq'[c] # "wakeup"
        /\ irq'[c] = "tick" => c = 0
        /\ tklock # c \/ irq[c] # "none"
    BY <1>3 DEF Timer, InterruptsOn, TrapReturn, TrapYield, TrapKilled, Goto, ptable,
       threads, locks
  <2>2. DecidesLocked'
    <3>1. ASSUME NEW p \in Procs, pc'[p] \in Deciding
          PROVE  /\ state'[p] = "RUNNING" /\ ~preempted'[p]
                 /\ \E d \in CPUs : stack'[d] = p /\ irq'[d] = "none" /\ tklock' = d
      <4>0. pc[p] \in Deciding
        BY <3>1, <2>1 DEF Deciding
      <4>1. PICK d \in CPUs : stack[d] = p /\ irq[d] = "none" /\ tklock = d
        BY <4>0 DEF Sleepers, DecidesLocked
      <4>2. state[p] = "RUNNING" /\ ~preempted[p]
        BY <4>0 DEF Sleepers, DecidesLocked
      <4>3. d # c
        BY <4>1, <2>1
      <4> QED  BY <4>1, <4>2, <4>3, <2>1
    <3> QED  BY <3>1 DEF DecidesLocked
  <2>3. TickLocked'
    BY <2>1 DEF Sleepers, TickLocked
  <2>4. TimeLeft'
    BY <2>1 DEF Sleepers, TimeLeft
  <2>5. NoLostTick'
    BY <2>1 DEF Sleepers, NoLostTick, CPUs
  <2> QED  BY <2>2, <2>3, <2>4, <2>5 DEF Sleepers
<1>4. CASE Tick(c)
  <2>1. /\ tklock = Free /\ tklock' = c /\ irq[c] = "tick" /\ irq' = [irq EXCEPT ![c] = "wakeup"]
        /\ UNCHANGED <<state, chan, pc, preempted, stack>>
    BY <1>4 DEF Tick, ptable
  <2>2. \A p \in Procs : pc[p] \notin Deciding
    BY <2>1, DeciderIsBusy
  <2>3. c = 0
    BY <2>1 DEF Sleepers, TickLocked
  <2>4. DecidesLocked' /\ TimeLeft'
    BY <2>1, <2>2 DEF DecidesLocked, TimeLeft, Deciding
  <2>5. TickLocked'
    BY <2>1, <2>3 DEF Sleepers, TickLocked, CPUs, Free
  <2>6. NoLostTick'
    BY <2>1, <2>3 DEF NoLostTick
  <2> QED  BY <2>4, <2>5, <2>6 DEF Sleepers
<1>5. CASE TickWakeup(c)
  <2>1. /\ irq[c] = "wakeup" /\ tklock' = Free /\ irq' = [irq EXCEPT ![c] = "check"]
        /\ state' = Wakeup1(state, Ticks)
        /\ UNCHANGED <<chan, pc, preempted, left, stack>>
    BY <1>5 DEF TickWakeup, threads
  <2>2. tklock = c /\ c = 0
    BY <2>1 DEF Sleepers, TickLocked
  <2>3. \A p \in Procs : pc[p] \notin Deciding
    BY <2>1, <2>2, DeciderIsBusy
  <2>4. DecidesLocked' /\ TimeLeft'
    BY <2>1, <2>3 DEF DecidesLocked, TimeLeft, Deciding
  <2>5. TickLocked'
    BY <2>1, <2>2 DEF Sleepers, TickLocked
  <2>6. NoLostTick'
    BY <2>1 DEF NoLostTick, Wakeup1
  <2> QED  BY <2>4, <2>5, <2>6 DEF Sleepers
<1>6. CASE Yield(c)
  <2>1. /\ irq[c] = "yield" /\ irq' = [irq EXCEPT ![c] = "none"]
        /\ state' = [state EXCEPT ![cproc[c]] = "RUNNABLE"]
        /\ preempted' = [preempted EXCEPT ![cproc[c]] = TRUE]
        /\ UNCHANGED <<chan, pc, left, stack, tklock>>
    BY <1>6 DEF Yield
  <2>2. \A p \in Procs : pc[p] \in Deciding => p # cproc[c] /\ stack[c] # p
    BY <2>1, DeciderIsBusy
  <2>3. DecidesLocked'
    <3>1. ASSUME NEW p \in Procs, pc[p] \in Deciding
          PROVE  /\ state'[p] = "RUNNING" /\ ~preempted'[p]
                 /\ \E d \in CPUs : stack'[d] = p /\ irq'[d] = "none" /\ tklock' = d
      <4>1. PICK d \in CPUs : stack[d] = p /\ irq[d] = "none" /\ tklock = d
        BY <3>1 DEF Sleepers, DecidesLocked
      <4>2. state[p] = "RUNNING" /\ ~preempted[p]
        BY <3>1 DEF Sleepers, DecidesLocked
      <4>3. state'[p] = "RUNNING" /\ preempted'[p] = preempted[p]
        BY <4>2, <3>1, <2>1, <2>2
      <4> QED  BY <4>1, <4>2, <4>3, <2>1
    <3> QED  BY <3>1, <2>1 DEF DecidesLocked
  <2>4. TickLocked' /\ TimeLeft'
    BY <2>1 DEF Sleepers, TickLocked, TimeLeft
  <2>5. NoLostTick'
    BY <2>1 DEF Sleepers, NoLostTick, CPUs
  <2> QED  BY <2>3, <2>4, <2>5 DEF Sleepers
<1> QED  BY <1>1, <1>2, <1>3, <1>4, <1>5, <1>6 DEF CpuStep

\* sys_sleep: the decision is made and kept under tickslock.
LEMMA SleepSleepers ==
  ASSUME TypeOK, TypeOK', Parts, Sleepers, NEW c \in CPUs, NEW p \in Procs,
         \/ SleepStart(c, p) \/ SleepDone(c, p) \/ SleepMore(c, p)
         \/ SleepTicks(c, p) \/ SleepReacquire(c, p)
  PROVE  Sleepers'
<1> USE DEF TypeOK
<1>1. stack[c] = p /\ irq[c] = "none" /\ state[p] = "RUNNING" /\ ~preempted[p]
      /\ UNCHANGED <<preempted, stack, irq>>
  BY DEF SleepStart, SleepDone, SleepMore, SleepTicks, SleepReacquire, At, cpus, threads
<1>2. \A q \in Procs \ {p} : pc[q] \in Deciding => tklock \notin {c, Free}
  BY <1>1, DeciderIsBusy
<1>3. tklock \in {c, Free} /\ \A q \in Procs \ {p} : pc[q] \notin Deciding
  <2>1. tklock \in {c, Free}
    BY DEF SleepStart, SleepDone, SleepMore, SleepTicks, SleepReacquire
  <2> QED  BY <2>1, <1>2
<1>4. \A q \in Procs \ {p} : pc'[q] = pc[q] /\ left'[q] = left[q] /\ chan'[q] = chan[q] /\ state'[q] = state[q]
  BY DEF SleepStart, SleepDone, SleepMore, SleepTicks, SleepReacquire, Goto, ptable
<1>5. /\ pc'[p] \in Deciding => state'[p] = "RUNNING" /\ tklock' = c
      /\ pc'[p] = "gosleep" => left'[p] > 0
      /\ state'[p] = "SLEEPING" => left'[p] > 0
  <2>1. CASE SleepStart(c, p) \/ SleepReacquire(c, p)
    BY <2>1, <1>1 DEF SleepStart, SleepReacquire, Goto, ptable
  <2>2. CASE SleepDone(c, p)
    BY <2>2, <1>1 DEF SleepDone, Goto, ptable, Deciding
  <2>3. CASE SleepMore(c, p)
    BY <2>3, <1>1 DEF SleepMore, Goto, ptable, locks
  <2>4. CASE SleepTicks(c, p)
    BY <2>4, <1>1 DEF SleepTicks, At, Goto, Deciding, Sleepers, TimeLeft
  <2> QED  BY <2>1, <2>2, <2>3, <2>4
<1>6. tklock' \in {c, Free}
  BY <1>3 DEF SleepStart, SleepDone, SleepMore, SleepTicks, SleepReacquire, locks
<1>7. DecidesLocked'
  BY <1>1, <1>3, <1>4, <1>5 DEF DecidesLocked
<1>8. TickLocked'
  BY <1>1, <1>3, <1>6 DEF Sleepers, TickLocked, CPUs, Free
<1>9. TimeLeft'
  BY <1>3, <1>4, <1>5 DEF TimeLeft, Deciding
<1>10. NoLostTick'
  BY <1>1, <1>4, <1>5 DEF Sleepers, NoLostTick
<1> QED  BY <1>7, <1>8, <1>9, <1>10 DEF Sleepers

\* The other steps of a thread have nothing to do with tickslock.
LEMMA ThreadSleepers ==
  ASSUME TypeOK, TypeOK', Parts, Sleepers, NEW c \in CPUs, NEW p \in Procs,
         ThreadStep(c, p) \/ User(c, p) \/ Panic(c, p)
  PROVE  Sleepers'
<1> USE DEF TypeOK
<1>1. CASE \/ SleepStart(c, p) \/ SleepDone(c, p) \/ SleepMore(c, p)
           \/ SleepTicks(c, p) \/ SleepReacquire(c, p)
  BY <1>1, SleepSleepers
<1>2. CASE Panic(c, p)
  BY <1>2, SleepersStay DEF Panic, vars, ptable, threads, cpus, locks
<1>3. CASE YieldReturn(c, p) \/ Forkret(c, p) \/ SyscallReturn(c, p)
           \/ UserFault(c, p) \/ KillNobody(c, p) \/ ExitClose(c, p)
           \/ ForkNoSlot(c, p) \/ ForkCopy(c, p) \/ WaitFail(c, p) \/ SleepWoken(c, p)
  <2>1. /\ UNCHANGED <<state, stack, irq, tklock, left>>
        /\ \A q \in Procs : preempted'[q] => preempted[q]
    BY <1>3 DEF YieldReturn, Forkret, SyscallReturn, UserFault, KillNobody, ExitClose,
       ForkNoSlot, ForkCopy, WaitFail, SleepWoken, ptable, cpus, locks, Locked
  <2>2. \A q \in Procs : pc'[q] = pc[q] \/ pc'[q] \notin Deciding
    BY <1>3 DEF YieldReturn, Forkret, SyscallReturn, UserFault, KillNobody, ExitClose,
       ForkNoSlot, ForkCopy, WaitFail, SleepWoken, Goto, Deciding
  <2>3. \A q \in Procs : chan'[q] = chan[q] \/ chan'[q] = Null
    BY <1>3 DEF YieldReturn, Forkret, SyscallReturn, UserFault, KillNobody, ExitClose,
       ForkNoSlot, ForkCopy, WaitFail, SleepWoken, ptable
  <2> QED  BY <2>1, <2>2, <2>3, SleepersStay DEF Ticks, Null
<1>4. CASE SyscallEnter(c, p)
  <2>1. NextCalls(p) \subseteq Points \ Deciding
    BY UserCallsAssumption DEF Calls, NextCalls, Points, Deciding
  <2>2. PICK l \in Points \ Deciding : pc' = [pc EXCEPT ![p] = l]
    BY <1>4, <2>1 DEF SyscallEnter, Goto, Points, Deciding
  <2>3. UNCHANGED <<state, chan, preempted, stack, irq, tklock, left>>
    BY <1>4 DEF SyscallEnter, ptable, cpus, locks
  <2> QED  BY <2>2, <2>3, SleepersStay
<1>5. CASE ForkAlloc(c, p) \/ ForkNoStack(c, p) \/ ForkStack(c, p)
           \/ ForkNoMemory(c, p) \/ ForkReady(c, p) \/ WaitReap(c, p)
  <2>1. UNCHANGED <<stack, irq, tklock, left, preempted>>
    BY <1>5 DEF ForkAlloc, ForkNoStack, ForkStack, ForkNoMemory, ForkReady, WaitReap,
       cpus, locks, Locked
  <2>2. pc[p] \in Forking /\ ~WaitReap(c, p) => np[p] \in Procs /\ state[np[p]] = "EMBRYO"
    BY DEF Parts, ForkOwns
  <2>3. \A q \in Procs : state'[q] = state[q] \/ (state[q] # "RUNNING" /\ state'[q] # "SLEEPING")
    BY <1>5, <2>2 DEF ForkAlloc, ForkNoStack, ForkStack, ForkNoMemory, ForkReady, WaitReap,
       First, Zombies, Children, At, Forking
  <2>4. \A q \in Procs : pc'[q] = pc[q] \/ pc'[q] \notin Deciding
    BY <1>5 DEF ForkAlloc, ForkNoStack, ForkStack, ForkNoMemory, ForkReady, WaitReap,
       Goto, Deciding
  <2>5. \A q \in Procs : chan'[q] = chan[q] \/ chan'[q] = Null
    BY <1>5 DEF ForkAlloc, ForkNoStack, ForkStack, ForkNoMemory, ForkReady, WaitReap
  <2> QED  BY <2>1, <2>3, <2>4, <2>5, SleepersStay DEF Ticks, Null, Sleepers, DecidesLocked
<1>6. CASE WaitSleep(c, p) \/ Kill(c, p) \/ Exit(c, p)
  <2>1. UNCHANGED <<stack, irq, tklock, left, preempted>>
    BY <1>6 DEF WaitSleep, Kill, Exit, Locked, cpus
  <2>2. \A q \in Procs : pc'[q] = pc[q] \/ pc'[q] \notin Deciding
    BY <1>6 DEF WaitSleep, Kill, Exit, Goto, Deciding
  <2>3. pc'[p] \notin Deciding
    BY <1>6 DEF WaitSleep, Kill, Exit, Goto, Deciding
  <2>4. /\ \A q \in Procs \ {p} : state[q] = "RUNNING" => state'[q] = "RUNNING"
        /\ \A q \in Procs : state'[q] = "SLEEPING" /\ chan'[q] = Ticks =>
             state[q] = "SLEEPING" /\ chan[q] = Ticks
    <3>1. CASE WaitSleep(c, p)
      BY <3>1 DEF WaitSleep, Ticks, Procs
    <3>2. CASE Kill(c, p)
      BY <3>2 DEF Kill, Matches, First
    <3>3. CASE Exit(c, p)
      BY <3>3 DEF Exit, ExitStates, Wakeup1
    <3> QED  BY <1>6, <3>1, <3>2, <3>3
  <2> QED  BY <2>1, <2>2, <2>3, <2>4, SleepersStay
<1> QED  BY <1>1, <1>2, <1>3, <1>4, <1>5, <1>6 DEF ThreadStep, Syscall, User

\* Nobody sleeps in the beginning.
LEMMA InitSleepers == Init => Sleepers
BY DEF Init, Sleepers, DecidesLocked, TickLocked, TimeLeft, NoLostTick, Deciding

\* IInv is inductive.
LEMMA NextInv == IInv /\ [Next]_vars => IInv'
<1> SUFFICES ASSUME IInv, [Next]_vars PROVE IInv'
  OBVIOUS
<1>1. TypeOK /\ Parts /\ Family /\ Sleepers
  BY DEF IInv, Parts
<1>2. CASE Next
  <2>1. PICK c \in CPUs : \/ CpuStep(c) \/ Timer(c)
                          \/ \E p \in Procs :
                               ThreadStep(c, p) \/ User(c, p) \/ Panic(c, p)
    BY <1>2 DEF Next
  <2>2. CASE CpuStep(c) \/ Timer(c)
    <3>1. TypeOK'
      BY <1>1, <2>2, CpuType
    <3>2. Parts'
      BY <1>1, <2>2, <3>1, CpuInv
    <3>3. Family' /\ Sleepers'
      BY <1>1, <2>2, <3>1, CpuFamily, CpuSleepers
    <3> QED
      BY <3>1, <3>2, <3>3 DEF IInv, Parts
  <2>3. ASSUME NEW p \in Procs, ThreadStep(c, p) \/ User(c, p) \/ Panic(c, p)
        PROVE  IInv'
    <3>1. TypeOK'
      BY <1>1, <2>3, ThreadType
    <3>2. Parts'
      BY <1>1, <2>3, <3>1, ThreadInv
    <3>3. Family' /\ Sleepers'
      BY <1>1, <2>3, <3>1, ThreadFamily, ThreadSleepers
    <3> QED
      BY <3>1, <3>2, <3>3 DEF IInv, Parts
  <2> QED
    BY <2>1, <2>2, <2>3
<1>3. CASE UNCHANGED vars
  <2>1. TypeOK' /\ Parts'
    BY <1>1, <1>3 DEF Parts, TypeOK, OnStack, OffStack, RunningOnCpu, InTrap,
       HandOff, PreemptedLive, ForkOwns, StackAccounted, vars, ptable, threads,
       cpus, locks
  <2>2. UNCHANGED <<state, parent, chan, killed, pc, np, left, preempted, stack, irq, tklock>>
    BY <1>3 DEF vars, ptable, threads, cpus, locks
  <2>3. Family' /\ Sleepers'
    BY <1>1, <2>1, <2>2, FamilyStays, SleepersStay
  <2> QED
    BY <2>1, <2>3 DEF IInv, Parts
<1> QED
  BY <1>2, <1>3

\* The inductive invariant holds in every reachable state, for every number of
\* slots, CPUs and whatever the user programs call.
THEOREM Invariance == Spec => []IInv
<1>1. Init => IInv
  BY InitType, InitParts, InitFamily, InitSleepers DEF IInv, Parts
<1> QED
  BY <1>1, NextInv, PTL DEF Spec

\* Every variable of the process table, the CPUs and the locks has its type.
THEOREM TypeCorrect == Spec => []TypeOK
<1>1. IInv => TypeOK
  BY DEF IInv
<1> QED
  BY <1>1, Invariance, PTL

\* The kernel stack a CPU runs on is never freed nor shared: sched()'s rule to
\* keep ptable.lock until the CPU is on another stack is sufficient.
THEOREM StacksAreSafe == Spec => []StackSafe
<1>1. IInv => StackSafe
  <2> SUFFICES ASSUME IInv, NEW c \in CPUs, stack[c] # Null
               PROVE  /\ kstack[stack[c]]
                      /\ cproc[c] = stack[c]
                      /\ state[stack[c]] = "RUNNING" \/ ptlock = c
                      /\ \A d \in CPUs : stack[d] = stack[c] => d = c
    BY DEF StackSafe
  <2>1. stack[c] \in Procs
    BY DEF IInv, TypeOK
  <2>2. state[stack[c]] \notin {"UNUSED", "EMBRYO"}
    BY DEF IInv, OnStack
  <2>3. kstack[stack[c]]
    BY <2>1, <2>2 DEF IInv, StackAccounted
  <2> QED
    BY <2>3 DEF IInv, OnStack
<1> QED
  BY <1>1, Invariance, PTL

\* fork's failure paths and wait leave no kernel stack behind, and no process
\* is without one.
THEOREM StacksAreAccounted == Spec => []StackAccounted
<1>1. IInv => StackAccounted
  BY DEF IInv
<1> QED
  BY <1>1, Invariance, PTL

\* Every process but init has a live parent: exit leaves no orphan, and init
\* does not exit.
THEOREM ParentsAreAlive == Spec => []ParentAlive
<1>1. IInv => ParentAlive
  BY DEF IInv, Family
<1> QED
  BY <1>1, Invariance, PTL

\* A process that sleeps in wait() has a child, and no zombie, and is not killed.
THEOREM NoChildIsLost == Spec => []NoLostChild
<1>1. IInv => NoLostChild
  BY DEF IInv, Family, WaitersWait, NoLostChild
<1> QED
  BY <1>1, Invariance, PTL

\* A process that sleeps in sys_sleep has time left, or is about to be woken.
THEOREM NoTickIsLost == Spec => []NoLostTick
<1>1. IInv => NoLostTick
  BY DEF IInv, Sleepers
<1> QED
  BY <1>1, Invariance, PTL

\* Only wait() of the parent, on a CPU, takes a zombie away.
LEMMA ZombieStep ==
  ASSUME IInv, NEW p \in Procs, Next, state[p] = "ZOMBIE", state'[p] # "ZOMBIE"
  PROVE  /\ state'[p] = "UNUSED"
         /\ \E c \in CPUs : stack[c] = parent[p]
         /\ pc[parent[p]] \in {"wait", "waiting"}
<1> USE DEF TypeOK
<1>1. TypeOK /\ Parts
  BY DEF IInv, Parts
<1>2. state'[p] # state[p]
  OBVIOUS
<1>3. PICK c \in CPUs : CpuStep(c) \/ Timer(c) \/ \E q \in Procs : ThreadStep(c, q) \/ User(c, q) \/ Panic(c, q)
  BY DEF Next
<1>4. ~ (CpuStep(c) \/ Timer(c))
  <2>1. CASE Timer(c) \/ SchedHalt(c) \/ SchedAcquire(c) \/ SchedEnd(c) \/ Sched(c)
             \/ Tick(c) \/ TrapReturn(c) \/ TrapYield(c) \/ TrapKilled(c) \/ Spin(c)
    BY <2>1, <1>2 DEF Timer, SchedHalt, SchedAcquire, SchedEnd, Sched, Tick, TrapReturn,
       TrapYield, TrapKilled, Spin, ptable
  <2>2. CASE SchedRun(c)
    BY <2>2, <1>1, <1>2 DEF SchedRun, First, Ahead
  <2>3. CASE TickWakeup(c)
    BY <2>3, <1>1, <1>2 DEF TickWakeup, Wakeup1
  <2>4. CASE Yield(c)
    <3>1. cproc[c] = stack[c] /\ stack[c] \in Procs /\ ptlock = Free
      BY <2>4, <1>1 DEF Yield, KeepLock, Parts, InTrap, OnStack
    <3>2. state[cproc[c]] = "RUNNING"
      BY <3>1, <1>1 DEF Parts, OnStack, CPUs, Free, Null, Procs
    <3>3. state' = [state EXCEPT ![cproc[c]] = "RUNNABLE"]
      BY <2>4 DEF Yield
    <3> QED  BY <3>1, <3>2, <3>3, <1>1, <1>2
  <2> QED  BY <2>1, <2>2, <2>3, <2>4 DEF CpuStep
<1>5. PICK q \in Procs : ThreadStep(c, q) \/ User(c, q) \/ Panic(c, q)
  BY <1>3, <1>4
<1>6. WaitReap(c, q)
  <2>1. CASE \/ YieldReturn(c, q) \/ Forkret(c, q) \/ SyscallReturn(c, q) \/ SyscallEnter(c, q)
             \/ UserFault(c, q) \/ Panic(c, q) \/ KillNobody(c, q) \/ ExitClose(c, q)
             \/ ForkNoSlot(c, q) \/ ForkStack(c, q) \/ ForkCopy(c, q) \/ WaitFail(c, q)
             \/ SleepStart(c, q) \/ SleepDone(c, q) \/ SleepMore(c, q)
             \/ SleepWoken(c, q) \/ SleepReacquire(c, q)
    BY <2>1, <1>2 DEF YieldReturn, Forkret, SyscallReturn, SyscallEnter, UserFault, Panic,
       KillNobody, ExitClose, ForkNoSlot, ForkStack, ForkCopy, WaitFail, SleepStart,
       SleepDone, SleepMore, SleepWoken, SleepReacquire, ptable, vars
  <2>2. CASE ForkAlloc(c, q)
    BY <2>2, <1>1, <1>2 DEF ForkAlloc, First
  <2>3. CASE ForkNoStack(c, q) \/ ForkNoMemory(c, q) \/ ForkReady(c, q)
    <3>1. state[np[q]] = "EMBRYO"
      BY <2>3, <1>1 DEF ForkNoStack, ForkNoMemory, ForkReady, At, Parts, ForkOwns, Forking
    <3> QED  BY <2>3, <3>1, <1>1, <1>2 DEF ForkNoStack, ForkNoMemory, ForkReady
  <2>4. CASE WaitSleep(c, q) \/ SleepTicks(c, q)
    BY <2>4, <1>1, <1>2 DEF WaitSleep, Scanning, SleepTicks, At
  <2>5. CASE Kill(c, q)
    BY <2>5, <1>1, <1>2 DEF Kill, Matches, First
  <2>6. CASE Exit(c, q)
    BY <2>6, <1>1, <1>2 DEF Exit, ExitStates, Wakeup1, At
  <2> QED  BY <1>5, <2>1, <2>2, <2>3, <2>4, <2>5, <2>6 DEF ThreadStep, Syscall, User
<1>7. PICK r \in Procs : parent[r] = q /\ state' = [state EXCEPT ![r] = "UNUSED"]
  BY <1>6 DEF WaitReap, First, Zombies, Children
<1>8. p = r
  BY <1>1, <1>2, <1>7
<1>9. stack[c] = q /\ pc[q] \in {"wait", "waiting"}
  BY <1>6 DEF WaitReap, Scanning, At
<1> QED  BY <1>1, <1>7, <1>8, <1>9

\* A zombie's slot is only freed by its parent, inside wait().
THEOREM ZombiesStay == Spec => ZombieStays
<1>1. IInv /\ [Next]_vars =>
        [\A p \in Procs : state[p] = "ZOMBIE" /\ state'[p] # "ZOMBIE" =>
           /\ state'[p] = "UNUSED"
           /\ \E c \in CPUs : stack[c] = parent[p]
           /\ pc[parent[p]] \in {"wait", "waiting"}]_vars
  BY ZombieStep
<1> QED
  BY <1>1, Invariance, PTL DEF Spec, ZombieStays

=============================================================================
