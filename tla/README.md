# A TLA+ model of the xv6 kernel of this repository

The repository holds three copies of one teaching kernel, xv6 for x86, as it
goes through three assignments (`comp3300-lab2`, `-lab3`, `-lab4`).  The model
is of the last one, `comp3300-lab4/xv6`; all file names below are relative to
it.  The kernels of labs 2 and 3 are earlier copies: `fs.c`, `log.c`, `bio.c`,
`file.c`, `pipe.c`, `exec.c`, `sleeplock.c`, `spinlock.c`, `ide.c` and `kalloc.c`
are the same in all three.  `proc.c` and `console.c` of lab 2, `sysfile.c` and
`vm.c` of labs 2 and 3, and `trap.c`, `sysproc.c` and `syscall.c` of both differ from
those of lab 4; only lab 4's are modelled.

## 1. The system

| Part | State | Operations | Talks to |
|---|---|---|---|
| Process table, scheduler (`kernel/proc.c`) | `ptable.proc[]`, one kernel stack and saved context per slot, `cpu.proc`, `ptable.lock` | `rr_scheduler`, `sched`, `yield`, `fork`, `exit`, `wait`, `sleep`, `wakeup`, `kill` | everybody: `sleep`/`wakeup` are the only way to wait |
| Traps (`kernel/trap.c`, `sysproc.c`) | `ticks`, `tickslock` | timer, system call entry and exit, faults | `yield`, `exit`, `wakeup(&ticks)` |
| Spinlocks (`kernel/spinlock.c`) | `locked`, `cpu`; `ncli`, `intena` per CPU | `acquire`, `release`, `pushcli`, `popcli` | interrupts off while held |
| Sleep locks (`kernel/sleeplock.c`) | `locked`, `pid` | `acquiresleep`, `releasesleep` | `sleep`, `wakeup` |
| Log (`kernel/log.c`) | `log.lh`, `outstanding`, `committing`; the log region on disk | `begin_op`, `log_write`, `end_op`, `commit`, recovery | buffer cache |
| Buffer cache (`kernel/bio.c`) | buffers with `flags`, `refcnt`, LRU list | `bread`, `bwrite`, `brelse` | IDE driver, log |
| IDE driver (`kernel/ide.c`) | `idequeue` | `iderw`, `ideintr` | `sleep`, `wakeup` |
| Inodes, blocks (`kernel/fs.c`) | inode cache (`ref`, `valid`, lock), bitmap | `iget`, `iput`, `ilock`, `ialloc`, `balloc`, `bmap`, `readi`, `writei`, path lookup | buffer cache, log |
| File system calls (`kernel/sysfile.c`) | descriptors | `open`, `link`, `unlink`, `mkdir`, ... | inodes, log, file table |
| File table (`kernel/file.c`) | `ftable.file[]`, `ref` | `filealloc`, `filedup`, `fileclose`, read, write | inodes, pipes |
| Pipes (`kernel/pipe.c`) | `struct pipe` | `pipealloc`, `pipeclose`, `pipewrite`, `piperead` | file table, `sleep`, `wakeup`, `kill` |
| Memory (`kernel/kalloc.c`, `vm.c`) | free list, page tables | `kalloc`, `kfree`, `allocuvm`, `deallocuvm`, `copyuvm`, `freevm` | `fork`, `exec`, `sbrk` |
| `exec` (`kernel/exec.c`) | the process image | `exec` | memory, inodes, log |
| Console (`kernel/console.c`, `kbd.c`, `uart.c`) | input ring `r`, `w`, `e` | `consoleintr`, `consoleread`, `consolewrite` | `sleep`, `wakeup` |
| Boot, `mkfs`, user programs | | run once, or sequential | |

What is hard in it: several CPUs and the timer interrupt interleave everywhere
that no lock is held; `sched()` hands `ptable.lock` from one stack to another;
every wait is a condition, a lock and a channel, and `kill` cuts across all of
them with another lock; the log must survive a crash at any instant; and
resources (slots, stacks, log space, pipe bytes) are taken and given back on
many failure paths.  `PROJECT.json` lists these hazards line by line.

What makes each part correct:

* processes: no stack shared or freed in use; no lost wakeup; no orphan and no
  zombie without somebody who can wait for it; nobody starves; a killed process
  exits;
* log: system calls are atomic with respect to crashes, finished calls are
  durable once no call is open, the log keeps to what is reserved and to its
  region of the disk, nobody waits for ever;
* buffer cache and driver: one buffer per block, used by one process at a time;
  a user finds what the last one left, wherever the block was meanwhile; every
  request is answered;
* inodes and directories: references are given back on every path, an inode is
  freed when nobody can reach it and not before, link counts match the entries;
* file data: no block lost or shared, contents as the offsets say, whole
  transactions after a crash;
* pipe: a FIFO with a correct end of file, freed once, no lost wakeup;
* memory: every page has one owner whatever fails half-way, no CPU runs on a
  page directory that is free;
* console: committed lines reach one reader each, in order.

## 2. The modules

| Module | What it is |
|---|---|
| `Proc` | process table, scheduler, timer, fork, wait, exit, kill, sleep |
| `ProcInv`, `ProcProofs` | the inductive invariant of `Proc`; theorems |
| `TxnStore` | abstract: a block store with atomic operations and crashes |
| `Log`, `LogProofs` | `log.c` and the cache it needs; implements `TxnStore`; theorems |
| `BlockCache` | abstract: blocks that one process at a time uses |
| `Bcache`, `BcacheProofs` | `bio.c`, `sleeplock.c`, `ide.c`; implements `BlockCache`; theorems |
| `Fs`, `FsProofs` | inode cache and directories of `fs.c` under the calls of `sysfile.c`; open files and current directories over `exec`, `fork` and `exit`; theorems |
| `ByteFile` | abstract: files as sequences of bytes, chunks, crashes |
| `FileData`, `FileDataProofs` | `filewrite`, `fileread`, `writei`, `readi`, `bmap`, `itrunc`, `balloc`, `bfree`; implements `ByteFile`; theorems |
| `Fifo` | abstract: a bounded byte queue with ends that close |
| `Pipe` | `pipe.c` with `fileclose`, `sleep` and `kill`; implements `Fifo` |
| `PipeProofs` | theorems about `Pipe` |
| `Memory`, `MemoryProofs` | `kalloc.c`, `vm.c` and the address spaces of fork, sbrk, exec, exit, wait; theorems |
| `LineBuffer` | abstract: a line discipline |
| `Console`, `ConsoleProofs` | the input side of `console.c`; implements `LineBuffer`; theorems |
| `MCProc`, `MCLog`, `MCBcache`, `MCFs`, `MCFileData`, `MCPipe` | values for the runs |

The components meet at their interfaces, and each model carries as much of its
neighbours as it needs to be closed: every module that waits has the
sleep/wakeup protocol of `Proc` in it; `Log` has the part of the buffer cache it
relies on, and `Bcache` has the dirty buffers the log leaves and nothing else of
it; `Fs` and `FileData` take the log as `TxnStore` promises it (calls are
atomic, a crash goes back to a moment when no call was open).

Definitions whose comment begins with "Mutant" are altered copies of the action
or helper that follows them.  They are no part of the model; each shows that a
property notices the mistake its comment names.

### Proc

Atomicity: a section that takes and releases a spinlock is one step, enabled
when the lock is free.  A section that ends in `sched()` (yield, sleep, exit)
leaves the lock held by the CPU (`ptlock`), and later steps (`YieldReturn`,
`Forkret`, `WaitReap`, `WaitFail`, `SleepWoken`, `SchedEnd`) release it, as in
the code.  What the code does without a lock is a step of its own: giving a
slot back when `fork` fails, setting `parent`, the killed checks of `trap`, the
decision of `sys_sleep` to sleep.  `Spin` is the state of a CPU that waits in
`acquire()`: its interrupts are off, so no timer interrupt is handled.

Per slot the model keeps `struct proc` (`state`, `parent`, `chan`, `killed`,
whether `pid` is 0, whether `kstack` is a page) and the saved kernel thread
(`pc`, fork's `np`, `sys_sleep`'s remaining time, "inside yield").  Per CPU it
keeps `c->proc`, the stack it runs on, the place in the scheduler loop, the last
slot of the pass, and the stage of the timer trap.  A pid is represented by its
slot: `nextpid` does not wrap within the runs.  Slot 1 is init with the loop of
`user/init.c`; the other programs call what `UserCalls` allows and may fault at
any moment.  Allocation of a stack or of a memory image may fail at any time.

`kill` takes any pid: `Matches` is every slot that has a pid, and the first
that has none (`kill(0)`); the table is not filtered by state, as in the code.

### Log

A critical section of `log.lock` is a step, and so is a sector written to disk
(a block is one sector, `BSIZE` = 512, so a write is atomic).  A call takes a
buffer, changes it (`Modify`), and then logs it (`LogWrite`).  The test at the
head of `log_write` is part of `Modify`, because the code makes it without the
lock.  `Evict` is `bget` recycling a buffer for some other block; `dirty` is
`B_DIRTY`.  `Crash` may come between any two steps, also in the recovery, any
number of times, and clears everything but the disk.

`LogBlocks` is `log.size`, which counts the header: the region has `LogBlocks - 1`
data blocks, while the header has room for `LOGSIZE` entries, and `mkfs.c` makes
the two numbers equal.  The block behind the region is the first inode block
(`InodeBlock`).  A commit of `log.size` blocks therefore writes its last copy
there: `WriteBehind`, through the buffer of that inode block and with `bwrite`
clearing its `B_DIRTY`.  If the last entry is the first inode block itself, the
two `bread`s of `write_log` ask for one buffer and the process waits for its own lock
(`WriteStuck`).  The history variable `overrun` remembers that either has
happened.

The refinement `StoreSpec` maps the disk to what a recovery would make of it
(`Durable`) and the cache to what calls read (`Current`).  It says that a crash
takes the store back to a moment when no call was open.  `StoreSpec`,
`QuiescentDurable` and `Pinned` make their claims until `overrun`: after it the
disk is damaged.  `InRegion` says when it cannot happen: if every call logs fewer
than the `MAXOPBLOCKS` blocks reserved for it, or if the region were larger.

### Bcache

A section of `bcache.lock`, of a sleep lock's own spinlock or of `idelock` is
one step.  A process asks for a block (`Bread`: `bget` with its two scans, the
recycling from the end of the LRU list and the panic), then gets the sleep lock
(`acquiresleep`, which sleeps and tries again when woken), reads the block if
the buffer is not valid, may write it or mark it dirty as `log_write` does, and
releases it (`releasesleep`, then the section of `brelse` that moves the buffer
to the front).  The disk finishes the request at the head of the queue
(`DiskDone`), and its interrupt comes some time later (`Ideintr`).

The callers are constrained as `fs.c` and `log.c` are: a second block is taken
only from `Inner` (bitmap blocks, while an indirect block is held), and at most
`MaxPinned` buffers are dirty at once (`log.size - 1`; one more after the race in
`log_write`, section 4).  Without the first
constraint two processes could deadlock on two blocks.

The refinement `CacheSpec` reads a block from its valid buffer, or else from the
disk: whoever gets a block finds what its last user left.

### Fs

A step is what a process does between two operations on inode locks.  Local
variables of a call (`at`, `dp`, `ip`, `put`) are part of the state, because
each is a counted reference, and so is the continuation `ret` of the `iput` that
a path ends with.  `namex` takes one path element per step; `iput` is three steps
(`IputCheck` reads `valid` and `nlink` under the sleep lock and `ref` under
`icache.lock`; `IputFree` is `itrunc`, the write of type 0 and the invalidation;
`IputRef` drops the reference), as the code has it, for the window between them
is where two processes race.  `create` is `ialloc`, `iget`, the fields and the
entry as separate steps, and `ialloc` looks at one inode per step, because it
releases each block before it reads the next: an `iput` may free an inode that the
scan has passed.

A directory is a function from names to inode numbers, so the place of an entry
in its blocks is abstracted, and file contents are in `FileData`.  Calls are
transactions: `Crash` is enabled between calls and clears all that is not on
disk.  Deadlock is a state of interest (see the findings), so a process that
waits for an inode lock waits in the model, too.

`ftable` is the table of open files, which processes share after a `fork`; a
process has one descriptor.  `filealloc` takes the lowest free entry, and may
fail at any time, for other processes open files, too.  `FileClose` is one step
up to the `iput` of the last close, since nobody else has the entry then.
`Exit` closes the file and then puts the current directory, each with its own
transaction; `cwd[p] = 0` stands for a slot without a process, which `Fork` fills.
`exec` is here what it is to an inode: a lookup, a read with the lock held, and a
put on every path.

Four history variables, which no guard reads, record what the claims do
not survive: `lost`, the inodes that were entries of a directory when it was
freed; `stale`, the directories whose ".." leads to an inode that `iput` has
begun to free since; `strayed`, whether a lookup has followed such a ".."; and
`missed`, for each process in `ialloc`, the inodes freed behind its scan.

### FileData

A round of the loop of `writei` is one step, and so is the freeing of one block
in `itrunc`.  Two processes share the offset of a file, the inode lock and the
bitmap; `filewrite` cuts a write into chunks of one transaction each.  `balloc`
takes the first free block of the bitmap, as in the code.
The disk becomes equal to memory when the last open transaction ends (that is
what `Log` proves of commits); `Crash` comes at any point and forgets memory.
`logged` collects the blocks a transaction passes to `log_write`, to compare
their number with `MAXOPBLOCKS`.

The refinement `FileSpec` reads the contents through `bmap`, in memory and on
disk.  A transaction under way counts as far as it has got.

### Memory

A `kalloc()` is a step, because other processes take pages in between; the
`kfree()` calls of one function are one step together, because nobody can look
at a page directory that is being freed, apart from the CPU that runs on it, which is
what `Cr3Owned` is about.  Addresses and sizes are in pages.  `exec` builds a new
directory next to the old one, then commits, switches and frees the old one.

### Console

A section of `cons.lock` is a step, except that `sleep` is two, as in `Pipe`.
`Typed` is what the interrupt handler distinguishes: a character, a line end,
the end of file mark, kill line, erase.  The indices `r`, `w`, `e` wrap at
`UintMod`.  The refinement `LinesSpec` reads the committed characters and the
line being typed out of the ring.

### Pipe

A section of `p->lock` is a step.  `sleep(chan, &p->lock)` is two: the decision,
after which `lock` is still held, and the move to the channel, because `kill`
takes `ptable.lock` only and fits in between.  `refs` are the reference counts
of the two file structures, by holder.  The contents of a write are free; its length, and that
of a read, is 1 to `MaxN`: calls that ask for no byte are left out.
The refinement `ChannelSpec` reads the queue out of the ring between the wrapped
counters `nread` and `nwrite`.

## 3. The runs

| Run | Instance | Properties |
|---|---|---|
| `proc_smp` | 3 slots, 2 CPUs; slot 2 forks and waits, slot 3 sleeps | `StackSafe`, `NoLostChild`, `ParentAlive`, `NoLostTick`, `IInv` |
| `proc_live` | 3 slots, 1 CPU; slot 2 forks and waits, the others may kill it | `ZombieStays`, `KilledExits`, `RunnableRuns`, `WaitReturns` |
| `log_crash` | 2 processes, 3 blocks, 2 contents, any number of crashes; calls log all they reserve | `TypeOK`, `QuiescentDurable`, `Pinned`, `Reserved`, `StoreSpec`, `CallsBegin` |
| `log_full` | 3 processes, 3 blocks, 1 content | violation of `NoPanic` |
| `bcache` | 2 processes, 3 blocks (one of them inner), 2 buffers | `OneCopy`, `QueueOwned`, `RefsAccounted`, `CacheSpec`, `IoReturns` |
| `fs` | 2 processes, 3 inodes, 1 name, 2 open files, 4 calls, crashes | `RefsCounted`, `Coherent`, `LinksCover`, `LinksExact`, `PanicsAfterScan` |
| `fs_deadlock` | the same, 3 calls | violation of `NoDeadlock` |
| `fs_leak` | the same, 4 calls | violation of `NoOrphan` |
| `filedata` | 2 processes, 2 files of up to 3 blocks, 5 blocks, 3 calls, 1 crash | `BlocksOwned`, `NoHoles`, `TxnFits`, `FileSpec` |
| `pipe_fifo` | 2 processes, 2 bytes, ring of 2, counters modulo 4 | `FreedUnused`, `NoLostWakeup`, `ChannelSpec`, `ClosedEnds` |
| `memory` | 2 slots, 12 pages, addresses of 3 pages, 2 pages per table | `OneOwner`, `Cr3Owned`, `SizeMapped` |
| `console` | 2 readers, ring of 3, indices modulo 6 | `TypeOK`, `NoLostWakeup`, `LinesSpec`, `InputRead` |

What the properties say is written above each in its module.  Every property of
a passing run has a mutant of the code in `PROJECT.json` that violates it.

Why the bounds are enough for the cases that matter:

* `NPROC` = 3 is init, a parent and its child, so orphans, zombies handed to
  init and a full table occur.  Two CPUs are what any race needs, and the one
  that counts ticks is one of them.  `MaxSleep` = 1 tick already separates
  "still waiting" from "over".  Two forks at the same time (of init and of
  an orphan) are beyond this run; the theorem `Invariance` covers them.
* Log: `LOGSIZE` = `LogBlocks` = 3, as `mkfs.c` makes them equal, with
  `MAXOPBLOCKS` = 1: the header has three entries and the region two data blocks.
  Two processes with one block each fill the region over several calls, a third call
  must wait for a commit, and two calls that pass `log_write`'s test together
  at `n` = 1 make the third entry, so that a commit writes over the inode block `b1`
  or waits for it.  Three home blocks are needed for three entries; the inode
  block is among them.  Crashes are not bounded, so one comes in the recovery from
  another.
* Bcache: two buffers for three blocks make every read of the third recycle
  one; a held block, an inner block and a pinned buffer fill the cache, which
  reaches the panic.  One block has two contents, the others one: a block's
  contents do not depend on another's.
* Fs: three inodes are the root, a directory or file, and one below it; paths of
  two elements and ".." reach each of them from another.  Four calls with a
  path, and any number of `close`, `fork` and `exit`, let two processes hold an
  inode open, or share it, unlink it, reuse the number and close it.
* FileData: blocks of two cells, one direct and two indirect addresses: lengths
  1 and 3 give writes that are aligned or not, within one block or across two,
  direct or indirect; the chunk is one block, as it is a few blocks in the
  code; the disk is full before both files are.
* Pipe: a ring of 2 with writes of up to 3 bytes fills, blocks and wraps;
  counters modulo 4 wrap at a multiple of the ring, as 2^32 is one of 512.
* Memory: a process needs 6 pages at 1 page of memory and 8 at 3 (stack,
  directory, table of the kernel, one or two tables, pages), so that with 12
  pages a fork of a larger process, an exec or an sbrk runs out at each of its
  allocations.
* Console: a ring of 3 is full after one line of two characters and its end.

Symmetry (`Symmetry`, `Processes`) is used where no liveness is checked:
processes, files and blocks have no order in `Fs`, `FileData` and `Log` (but
for the inode block of `log_full`, which `Symmetry` leaves alone).

`CHECK_DEADLOCK FALSE` stands where the system may stop: a program may read a
pipe whose write end it holds itself; in the `fs` runs and `filedata` the
bound on calls is used up, `fs` contains the deadlock of the findings, and a
panic stops the machine.

### Fairness

*Proc.*  The LAPIC timer is periodic and a pending interrupt is delivered when
interrupts come on, so each CPU's `Timer` is strongly fair; its steps inside a
trap, on the way through `sched` and in the scheduler loop are fair because a
CPU executes instructions between two ticks.  A spinlock that is free again and
again is won in the end (strong fairness): a CPU that spins retries without
pause and each section is short, while a failed try is bounded by the holder.
`Spin` matters here: without it the timer would preempt a process between two
tries, and fairness would have to promise more than the hardware does.  User
programs are not fair: they may loop for ever.

*Log.*  Running processes go on and the disk answers (weak fairness); `BeginOp`
is strongly fair, for the same reason as above: `log.lock` is free infinitely
often and a woken caller competes for it.  A call that is open ends.  `CallsBegin`
excepts a panic of `log_write` and a commit that waits for itself.

*Bcache.*  The disk answers and its interrupt comes (weak fairness).  A sleep
lock that is free again and again is won.  A holder releases its buffer, as the
comment at the head of `bio.c` demands ("do not keep them longer than
necessary"): strongly fair, because in between it may read or write.  `IoReturns`
excludes the panic of `bget`, after which nothing runs.

*Pipe.*  Sections of `p->lock` are strongly fair; killed processes close their
files in `exit`; nobody else has to call anything.

*Console.*  A running reader goes on and wins the lock; nobody has to type.

`Fs`, `FileData` and `Memory` have no liveness properties: what must happen
eventually there is that locks are released, which `fs_deadlock` refutes.

## 4. Findings

Three runs end in a violation:

* `log_full`: `begin_op` reserves against `LOGSIZE`, but the region `mkfs` lays
  out holds `LOGSIZE - 1` data blocks; three calls of `MAXOPBLOCKS` distinct
  blocks make `log_write` panic.  Or worse, when the last two pass its test together
  (see below).
* `fs_deadlock`: `create` puts the directory while it holds the lock of the new
  inode, and `iput` takes the directory's lock again; `unlink` of the new name
  holds the directory and waits for the inode.  Two processes wait for each
  other, against the comment in `fs.c` that the separation of `iget` and `ilock`
  helps to avoid it.
* `fs_leak`: `iput` reads `ref` while it holds only the sleep lock of the inode
  and drops its reference later; two processes that drop the last two references
  of an unlinked inode each see the other's, and neither frees it.

Further facts that the models contain and no run of this project claims
otherwise:

* `log_write` tests `log.lh.n` before it takes `log.lock`.  Two calls may both
  pass at `n = log.size - 2`; the header then lists `log.size` blocks, and
  `write_log` overwrites the first inode block with a copy of the last one, or stops
  for ever in its own buffer lock when that one is the inode block.  It
  takes calls that log all the `MAXOPBLOCKS` blocks reserved for them; one block less
  for each, and `StaysInRegion` excludes it.
* `ialloc` may panic with a free inode on the disk: its scan releases every block,
  and an inode it has passed may be freed before it comes to the end.
  `PanicsAfterScan` says that there is no other way.
* `kill(0)`, or a pid left by a failed `fork`, marks a free slot; `allocproc`
  does not reset `killed`, and a later child is born killed (`KillNobody`).
* A kill between the killed test of `piperead` or `consoleread` and its sleep is
  lost until something else wakes the process; in `sys_sleep` it only delays
  the exit to the next tick.  `ClosedEnds` and `NoLostWakeup` allow for it.
* A killed writer that has filled the pipe returns without waking the reader,
  which sleeps beside available bytes.
* `create` in a directory that another process has removed meanwhile leaves an
  inode that no path reaches; `lost` collects these, and `LinksExact` leaves
  them out.  A lookup of ".." there reaches a freed inode, and `ilock` panics.
* The number that ".." of a removed directory keeps may have been taken by a new
  inode meanwhile, also by one that `create` has not given its fields yet: the
  lookup then ends in another directory, or in a file.  So an entry may lead to
  an inode by two names of which `nlink` counts one (mkdir /x and /x/x, chdir
  there, unlink both, and use "..").  From such a lookup on (`strayed`), which
  takes more calls than the run `fs` has, `LinksCover`, `LinksExact` and
  `PanicsAfterScan` say nothing; the references and the cache stay correct.
* An inode that is unlinked while open is freed at the last close only: a crash
  before it leaves it allocated, and there is no scan at boot.
* A call returns from `end_op` before its blocks are committed when other calls
  are open: a crash may lose it.  `StoreSpec` and `FileSpec` say how much.
* `filewrite` returns -1 when a later chunk fails, although the earlier ones are
  in the file, and a full disk panics in `balloc`.
* `sbrk` with a negative argument as large as the whole size frees the pages,
  reports a failure and leaves `sz` as it was (`deallocuvm` returns 0).

## 5. What is proved

No proof rests on anything but the named assumptions of the modules on their
constants.

### Proc

`ProcProofs` proves, for every number of slots (at least 2), every number of
CPUs (at least 1), every `MaxSleep` and every choice of programs:

* `TypeCorrect`: `Spec => []TypeOK`;
* `StacksAreSafe`: `Spec => []StackSafe`: no two CPUs run on one kernel stack,
  none runs on a freed one, and a CPU on the stack of a process that is not
  RUNNING holds `ptable.lock`;
* `StacksAreAccounted`: `Spec => []StackAccounted`;
* `Invariance`: `Spec => []IInv`.

`StackSafe` is not inductive: it says nothing of a process that is *about* to
run.  `IInv` adds what the code's comments only hint at.  `OnStack` and
`OffStack`: a CPU is on one process's stack with `c->proc` pointing to it, or in
its scheduler, which holds `ptable.lock` while it scans.  `RunningOnCpu`: a
RUNNING process is on a CPU, so no other CPU may pick it up.  `HandOff`: a
thread that comes back from `swtch` and still has to release the lock runs on
the CPU that holds it; this is the hand-over that the comments in
`rr_scheduler` and `forkret` describe.  `InTrap` and `PreemptedLive`: a trap is
taken without the lock and never at a point that expects it.  `ForkOwns`: the
slots in fork's hands are EMBRYOs, each of one process, so that giving one back
without the lock disturbs nobody.

Two more parts carry the theorems about waiting.  `Family` (`ParentsAreAlive`,
`NoChildIsLost`): orphans go to init, which never exits (`InitLives`); a slot
that is free or freshly taken has no parent (`Fresh`), so that nobody counts it
as a child before fork links it (`Linked`); and who waits has a child, none of
them a zombie, and is not killed (`WaitersWait`).  The last one is stronger than
`NoLostChild`, since it also holds between the `exit` that makes a zombie and
its release of `ptable.lock`: `exit` wakes the parent first.  `Sleepers`
(`NoTickIsLost`): who decides to sleep for a time holds `tickslock` on a CPU
that no interrupt takes away from it (`DecidesLocked`), and CPU 0 counts a tick
and wakes the sleepers under that lock (`TickLocked`).

`ZombiesStay` proves the action property `ZombieStays` from `IInv`: what makes a
process RUNNABLE (wakeup, kill, the end of fork) finds it SLEEPING or EMBRYO, and
what puts a process back on the table finds it RUNNING, by `RunningOnCpu`.

The steps fall into classes with a lemma each: steps of a CPU (`CpuInv`), steps
that only move a thread (`Move`), that leave the stack's state alone
(`InPlace`), that give up the CPU (`GivesUpCpu`), that change another slot
(`OtherSlot`), and fork and reap (`ForkAndReap`).  `NextInv` puts them
together, and `Invariance` is the induction over behaviours.

### Log

`LogProofs` proves, for any processes, blocks and contents, any `LOGSIZE`, any
`MAXOPBLOCKS` and `OpBlocks` up to it, any log region of at least `LOGSIZE` blocks
with its header, and any number of crashes:

* `TypeCorrect`: `TypeOK`;
* `SpaceIsReserved`: `Reserved`;
* `StaysInRegion`: `InRegion`: no commit writes behind the log region if
  every call stays below `MAXOPBLOCKS`, or if the region is larger than `LOGSIZE`;
* `ChangedIsPinned`: `Pinned`;
* `LogIsStore`: `StoreSpec`, the refinement of `TxnStore`;
* `QuietIsDurable`: `QuiescentDurable`.

The last three hold until a commit writes behind the region, as their statements
say; with the condition of `StaysInRegion`, without exception.  The invariant is

    IInv == Structure /\ (~overrun => Contents)

where `Structure` is about the header, the calls and the space, and survives the
overflow, and `Contents` is about the blocks and does not.

`Reserved` counts claims: pairs of an open call and a number up to what that
call may still log, so that the sum over the calls is the cardinality of a set,
and a `log_write` exchanges a claim for an entry of the header.  The rest of the
invariant: `Runners` (one process commits, while no call is open; one recovers,
while no other runs; `outstanding` counts the open calls), `Calls` (a call has a
buffer locked from its change to its `log_write`), `Header` (the header on disk
is empty but between the commit point and the erasure, and in a recovery; no
block is in it twice), `Buffers` (the dirty buffers are those of the blocks
logged and not installed), `Region` (what `write_log` has copied is what the
cache holds, what `install_trans` has copied is at home).

In the refinement, `Durable` is a function of the header on disk, the log
region and the home blocks.  `write_log` changes blocks of the region that
the (empty) header on disk does not name; `write_head` is the one step of a
commit that changes `Durable`, and makes it equal to the cache, when no call is
open; each copy of `install_trans` and the erasure leave it alone, in a
recovery too, by `Region`.  So a crash anywhere is the crash of `TxnStore`.

### Pipe

`PipeProofs` proves, for any set of processes, any `PIPESIZE`, any width of the
counters that is a multiple of it, and any bytes:

* `TypeCorrect`: `TypeOK`, of which the part that matters is that `nwrite` is at
  most `PIPESIZE` ahead of `nread`, also when one of them has wrapped;
* `FreedOnce`: `FreedUnused`;
* `NoWakeupIsLost`: `NoLostWakeup`;
* `PipeIsFifo`: `ChannelSpec`, the refinement of `Fifo`.

The invariant is `TypeOK /\ Calls /\ Descriptors /\ Sleepers`.  `Calls` ties the
local variables of a call to its place in the code; `Descriptors` says that who
is inside a call has the end open that it uses, from which follows that a pipe
is freed with nobody inside; `Sleepers` strengthens `NoLostWakeup` for the
decision to sleep that is not yet carried out.  `PipeProofs` begins with the
arithmetic: distances modulo a multiple of the ring size, and that the slot after the
newest byte is not one of those in use.  With it each step of `PipeIsFifo`
compares two sequences position by position.

### Bcache

`BcacheProofs` proves, for any processes, blocks and number of buffers:

* `BlockHasOneCopy`: `OneCopy`;
* `RequestsHaveOwners`: `QueueOwned`;
* `ReferencesAreCounted`: `RefsAccounted`;
* `CacheIsCoherent`: `CacheSpec`, the refinement of `BlockCache`.

The invariant is `TypeOK /\ OneCopy /\ Calls /\ Counted /\ Loaded /\
QueueOwned /\ Queue /\ Stored`.  `Calls` says that a process inside `iderw`
holds its buffer and one that still has to lock it, or has released it, does
not; `Counted` that `refcnt` is the number of users, so that `bget` recycles a
buffer only when nobody can be about to lock it; `Loaded` that a held buffer is
valid unless its holder waits for the disk; `Queue` that a request is
unanswered while it is queued; `Stored` that a clean valid buffer is equal to
its block on the disk, already when the disk has finished and the interrupt is
still to come.  From `Stored` follows the refinement: to recycle a buffer is
invisible because it is clean, a write to the disk because the buffer hides the
block, and the interrupt because it copies what the disk has.  The visible
steps are the lock that makes a process the user of a valid buffer (or the
read that makes its buffer valid), the changes before `bwrite` and `log_write`,
and `releasesleep`.

### Console

`ConsoleProofs` proves, for any number of readers, any size of the ring and any
width of its indices that is a multiple of it:

* `NoWakeupIsLost`: `NoLostWakeup`: a process that has decided to sleep still
  holds `cons.lock`, and the only step that commits characters wakes everybody;
* `TypeCorrect`: `TypeOK`: `w` is between `r` and `e`, and `e` at most a ring
  ahead of `r`, also when some of them have wrapped;
* `ConsoleIsLineBuffer`: `LinesSpec`, the refinement of `LineBuffer`.

The proof sees the ring as a text, the characters from `r` on (`At`), of which
the first `Committed` are readable.  `Calls` says what a call under way has and
has not taken; `Editing` that the line being typed has no line end, so that
erasing stops at `w` and a commit gives the readers exactly one line more.  The
handler changes the text at its end only, in a slot that no character in use
occupies (`PlacesDiffer`, from the same
arithmetic).  What `consoleread` copies in
one go is the text up to the first line end: `MinProperties` derives from
well-founded induction that a nonempty set of numbers has a least element.

### Memory

`MemoryProofs` proves, for any number of processes, pages and page tables:

* `PagesHaveOneOwner`: `OneOwner`;
* `CpusRunOnOwnedDirectories`: `Cr3Owned`;
* `AddressSpacesAreMapped`: `SizeMapped`.

`OneOwner` counts the slots that hold a page: four fields of each process and
its calls, and the entries of every directory.  The proof turns it into three
facts about slots (`Unfree`, `Unshared`, `Unlost`) and reduces every step to one
of three ways to change slots: a free page is taken into an empty slot
(`TakePage`), two slots exchange what they hold (`MovePage`), the pages of some
slots are freed (`GivePages`).

The rest of the invariant says which slots are empty when.  `LifeOf` ties stack
and directory to the state of a process, `ChildOf` the child of a fork to its
parent, `CallOf` what a call has in hand to its place in the code.  `SizeOf`
says which pages are mapped at each point of the loops of `allocuvm` and
`copyuvm`; `Emptied` that a page which is no directory has no entries, so that a
new directory starts empty (`setupkvm` clears it) and a freed one leaves none
behind.  A process that a step does not mention keeps its part of the invariant because
its directories are its own (`Apart`, from `OneOwner`), which is why the parts
have to be proved together.

### Fs

`FsProofs` proves, for any number of processes, inodes and open files, any names
and paths, and any number of calls and crashes:

* `TypeCorrect`: `TypeOK`;
* `ReferencesAreCounted`: `RefsCounted`: `ip->ref` and `f->ref` are the numbers of
  pointers there are, in the middle of a call and on the paths that fail, too;
* `CacheIsCoherent`: `Coherent`: a valid entry of the inode cache is equal to the
  inode on the disk;
* `LinksAreCovered`: `LinksCover`: `nlink` is at least the number of links at every
  step, and no free inode is open or the current directory of a process;
* `LinksAreExact`: `LinksExact`: between calls it is the number of links;
* `PanicsOnlyAfterScan`: `PanicsAfterScan`: "ilock: no type" and "unlink: nlink < 1"
  are never reached, and `ialloc` panics only when its scan has passed every
  inode and each of them was in use then, or was freed behind the scan.

The last three have the condition `~strayed` (section 4).  The first three need
each other: an entry is recycled, and an inode freed, when `ref`
says that nobody else points to it, and a call goes on with an inode only because
its reference keeps the entry.  The invariant is

    TypeOK /\ (\A p : Live(p)) /\ Truncating /\ FilesOpen /\ Cached /\ RefsCounted

`Live(p)` says of each place in a call, the `iput` on the way to it left aside
(`Place`), which local variables are references (`Local`), which of them the
call has locked (`Locked`), and which it will use without looking again whether
they are valid (`Used`).  `Truncating` is the argument for `iput`: it decides to free an
inode when it holds the inode's lock and the only reference, so no `link` is between
its two locks with that inode; and none gets there before `iput` is done, since
`link` must first lock the inode to count its link.
`FilesOpen` says that a free entry of `ftable` points to nothing.  `Cached` adds
to `Coherent` that no valid entry is of a free inode: `ialloc` writes the disk and not
the cache, so such an entry would be stale from then on.  It holds until a
call panics, and after a panic nothing runs.  TLC checked this invariant on the
instance of `fs` before it was proved.

Counting goes by sets: the pointers to an inode are those of processes, at most
five each (`Held`), and those of open files.  `ProcessStep` and `FileStep` say how
the cardinality changes when one process or one file changes, and `StepInv`,
`ReadInv`, `EndPutInv`, `EndPutDisk` and `StepInvFiles` prove the invariant for a
step of one process from what the step does to the pointers, the locks and the
inode it has; each action then has a lemma of its own.  `FreshInv` is the same
for `Init` and `Crash`, after which only current directories are referenced.

The link counts have an invariant of their own on top of this one,

    LinkInv == LinksCover /\ PanicsAfterScan /\ (~strayed /\ NoPanic => Sound /\ Scans)

where `Scans` says of every scan under way what `PanicsAfterScan` says of one that
has ended, and `Sound` has six parts:

* `Counted(i)`: `nlink` of an inode that is not lost is the number of its links
  and of the calls that have counted a link `link` has not made yet, or that
  `unlink` has erased already (`Pends`).  The inequality alone would not be
  inductive: the decrement in `linkbad` and `unlinked` needs the exact number, which
  the inodes of a removed directory do not have, so for these it is at least that.
* `Firmly`: what a call, a process, an open file or a ".." that is not stale leads
  to is `Firm`: it has a type, `create` has linked it, and no `iput` is freeing
  it.  So whatever `ilock` reads has a type.  The new inode of a `create` is the
  exception, and an `iput` past its decision is another.
* `Unlinking`: an inode that `iput` is freeing has no links, so no entry names it,
  and every ".." to it is stale.  This follows from `nlink = 0` by `Counted`, and
  from `ref = 1` by `RefsCounted`: this is where the two invariants meet.
* `Allocated`: the inodes that `ialloc` has given to calls differ, and have the type
  asked for and no links.
* `Named(th[p])`: what a call has found in the directory whose lock it holds is still so:
  the name that `create` enters is free, the one that `unlink` erases is there.  So
  `create` overwrites no entry, which would be a link that nobody uncounts.
* `Shape`: only directories have entries, a free inode has no links, and a directory
  in use has a "..".

`EntryStep`, `PendStep` and `CountStep` say how the two sides of `Counted` change
when one entry is written and one call goes on; `StepSound` and `QuietStep` prove
`Sound` for a step of one process, and each action has a lemma again.  `WorkRuns`
proves that of the steps that may panic only `ialloc`'s does, at the end of its scan;
`WorkScans` that the freeing of an inode is recorded in every scan that has passed it.  TLC checked `LinkInv`
on the instance of `fs`, and on one of a single process with seven calls, which
is enough for a lookup to stray.

### FileData

`FileDataProofs` proves, for any number of processes, files and inodes, any size
of the disk, of its blocks and of an inode's addresses, and any bytes:

* `BlocksAreOwned`: `BlocksOwned`: each block is free or at one place of one inode,
  on the disk always, in memory unless somebody is inside `writei` or `itrunc`;
* `FilesHaveNoHoles`: `NoHoles`;
* `TransactionsFit`: `TxnFits`;
* `FilesAreBytes`: `FileSpec`, the refinement of `ByteFile`.

`BlocksOwned` counts places and says nothing while an inode is locked, and
`NoHoles` nothing while a transaction is open; neither is inductive.  The
invariant says what holds in the middle of the loops.  `Exact` is counting
without numbers: every address is of a used block, no two places have the same,
every used block has a place.  For memory the places are `Kept`: those that
`itrunc` has freed already still have their addresses, and are not counted.
`CallShape` says how far a loop has got: in `writei` the blocks reach to the
larger of the size and the position (`Filled`), in `itrunc` the blocks from the
next one on are still there.  `Locks` says that the inode lock keeps everybody
else out.  For every other inode memory is whole (`Shape`).  On the disk all of this
holds for every inode, because memory is copied when no call is open.

A step of `bmap` takes one block or two; `BmapEffect` says what it does to the
places (`PutAt`: one or two empty ones are filled, the others stay) and to the
log, from `AddressEffect` and `EntryEffect`.  A place that points into the block
of addresses moves when that block changes, so each lemma needs that the blocks of
addresses of different inodes are different, which is `Exact` again.

For `TransactionsFit`, `ChunkLog(p)` is the set of blocks that a chunk may have
logged: data blocks it touches, bitmap blocks of those it has allocated, the
block of addresses with its bitmap block.  `ChunkFits` counts it: with c blocks
in a chunk, c + 1 are touched and c allocated, 2 * c + 3 with the block of
addresses, and the chunk of `filewrite`, ((MAXOPBLOCKS-1-1-2) / 2) blocks, leaves one
for the inode.  For `itrunc` the bitmap itself must fit: `LayoutAssumption` asks
for `NBlocks \div BPB - 1 \div BPB + 2 <= MAXOPBLOCKS` (the blocks of the bitmap, and
the inode), which the layout of `mkfs.c` meets (`nbitmap` is 2 for 8000 blocks), and
no line of the kernel checks.

`FilesAreBytes` compares files position by position.  `TextAt` says that position
i of a file is in the block of its place in the inode; the place is one of
`Kept`, so a step on another inode, or `bmap` taking blocks, changes no byte
(`SameText`, from `BmapCells` and `CopiedCells`).  A round of `writei` is then
`Put` of the abstract file: `RoundText` compares each position with `Overlay`,
before the chunk, in it, and after it.  `View` says what a process that looks at
an inode may see: free, or in its own chunk, or empty, which is why `itrunc` is
invisible, the length being 0 before its first step.  A commit makes the
contents stable at a moment at which nobody is inside a call (`LastEnds`), which
is what lets a crash be a return to the stable contents.  The proof uses
`SourceAssumption`: the buffer that a process writes holds the bytes it asks to
write, as `argptr` in `sys_write` checks.

TLC checked the invariant on the instance of `filedata` before it was proved.

### Only model-checked

All liveness properties (`KilledExits`, `RunnableRuns`, `WaitReturns`,
`CallsBegin`, `IoReturns`, `ClosedEnds`, `InputRead`): fairness and ENABLED are out
of the prover's reach.  Every invariant and every refinement that a passing run
checks is also a theorem.

## 6. What is not modelled

`PROJECT.json` gives the reason for each component.  In short:

* Labs 2 and 3 are earlier copies of the kernel.  The user programs of all three
  are sequential, `usertests.c` being a test of the kernel.  Together they are
  most of the repository's lines.
* Boot, interrupt controllers and `mkfs` run once, in order.
* Display, serial output, key maps and the port protocol of the disk are I/O.
* The lottery and hybrid schedulers, `mmap`, `mprotect`, `trace`, `procinfo` and
  `set_priority` are empty in the repository.
* `Proc`: `exit`'s closing of files is in `Fs` and has no effect on the table;
  `procdump` and `getprocstat` only read; the handlers of devices do no more to
  the process table than `wakeup`, which the model of each device has.  The
  counting of `ncli` and `intena` is replaced by "interrupts are off while a
  lock is held or awaited".
* `Bcache`: a read error of the disk (`ideintr` then leaves the buffer valid
  with its old bytes), and the second disk.
* `Fs`: `fstat` (it reads), more than one descriptor of a process (so `dup` and
  `NOFILE`), the blocks of directories.  The inode cache is as large as it has to be:
  the limit `NINODE` and the panic "iget: no inodes" (`fs.c:262`) are left out, so
  `PanicsAfterScan` is not about that panic.
* `Memory`: permissions, segments, and the copying of contents.

`wait` reaps in table order, so an orphan zombie in a high slot can wait for
ever while lower slots end again and again; nothing in the repository promises
otherwise, so no property says it.

## 7. Plan

1. Composition of `Log` with `Bcache`: commits that read and write through the
   buffers they pin.
2. `Spinlock`: `ncli` and `intena` across `sched`.
