# A TLA+ model of the kernel

This directory models the xv6 kernel of this repository (`src/kernel`), its
additions (CPU budgets, the ECO power mode, usage limits, process cost, system
health), and the shell. TLC checks the models on small machines. For six of
them (the log, sleep-locks, processes, the scheduler, accounting and the
console) TLAPS proves the safety properties for machines of any size.

`PROJECT.json` lists every component, run, mutant, hazard, finding and theorem,
and maps each definition to the lines of C it stands for.

## 1. The system

| Part | Source | State | Operations | What makes it hard |
|---|---|---|---|---|
| Redo log | `log.c` | on-disk header and log blocks, `log.lh`, `outstanding`, `committing` | `begin_op`, `log_write`, `end_op`, `commit`, recovery | crashes between disk writes, group commit, space, sleepers |
| Buffer cache | `bio.c` | buffers, reference counts, LRU list | `bread`, `bwrite`, `brelse`, `bpin`, `bunpin` | a fixed pool, recycling while others wait for a buffer |
| Disk driver | `virtio_disk.c` | descriptors, rings | `virtio_disk_rw`, `virtio_disk_intr` | descriptors running out, completion order |
| Inodes, directories | `fs.c`, `sysfile.c` | inode table, link counts, bitmap | `create`, `link`, `unlink`, `iput`, `ireclaim` | error paths, orphans, lock order, power failure |
| Files, pipes | `file.c`, `pipe.c`, `sysfile.c` | reference counts, descriptors, ring | `dup`, `close`, `read`, `write`, `pipe` | closing ends, full and empty, kill, running out |
| Shell | `user/sh.c` | commands, descriptors of its children | `parsecmd`, `runcmd` | a pipeline whose ends must all be closed |
| Spinlocks, sleep-locks | `spinlock.c`, `sleeplock.c` | lock words, `noff`, `intena` | `acquire`, `release`, `acquiresleep`, `releasesleep` | interrupts, nesting |
| Sleep and wakeup | `proc.c`, `swtch.S` | `state`, `chan`, `c->proc` | `sleep`, `wakeup`, `yield`, `sched` | lost wakeups, a stack in use on two harts |
| Process life cycle | `proc.c`, `user/init.c` | process table, `wait_lock`, `nextpid` | `kfork`, `kexit`, `kwait`, `kkill`, `reparent` | parent and child exiting together, reused slots |
| Scheduler | `proc.c`, `trap.c` | budgets, windows, ECO counters, `ticks` | passes, timer interrupts, `setcpulimit`, `setpowermode` | an old clock reading, wraparound, starvation |
| Time and accounting | `trap.c`, `sysproc.c` | clock, tick and switch counters, limits | `clockintr`, `setusagelimit`, `pause`, `proccost`, `getsyshealth` | counters with no common lock, reports that walk a moving table |
| Console, UART | `console.c`, `uart.c` | input ring, `tx_busy` | `consoleread`, `consolewrite`, `consoleintr`, `uartintr` | interrupt against reader and writer |
| Memory | `kalloc.c`, `vm.c`, `exec.c`, `sysfile.c` | free list, page tables | `kalloc`, `uvmalloc`, `uvmcopy`, `vmfault`, `exec`, `sbrk` | failure halfway, ownership of pages |

How the parts interact: file system calls run inside log transactions; the log
pins buffers and sleeps with `sleep`/`wakeup`; buffers and inodes carry
sleep-locks; the cache reads and writes through the disk driver; every sleep is
a context switch under `p->lock`; timer interrupts move the clock, charge
processes, test limits and hand the hart to the scheduler; the shell drives
descriptors, pipes and processes.

## 2. Modules

| Module | Models | Granularity |
|---|---|---|
| `AtomicDisk` | what the log promises: a crash keeps the blocks of one quiescent moment | abstract |
| `Log` | `log.c`, and of `bio.c` what the log relies on | a critical section of `log.lock`, or one disk write |
| `Virtio` | `virtio_disk.c`, `virtio.h`, and of `kill` that it wakes a sleeper; the device is external | a critical section of `vdisk_lock`, from one sleep to the next; the interrupt handler one ring entry at a time |
| `Bcache` | `bio.c`, on top of `Virtio` | a critical section of `bcache.lock`, a transfer |
| `FileSystem` | `fs.c`, the naming calls of `sysfile.c`, `file.c` for inodes; the log is taken as `AtomicDisk` | from one sleep-lock or `itable.lock` to the next |
| `Files` | `file.c`, `pipe.c`, the descriptor calls of `sysfile.c`, `fork`/`exit`/`wait` as far as files go | a critical section of `ftable.lock` or `pi->lock`; a byte in `pipewrite` |
| `Parser` | the parser of `sh.c`, as recursive operators, and the grammar it is compared with | a function |
| `Shell` | `runcmd` and `main` of `sh.c`, on top of `Files` and `Parser` | the steps of `Files` |
| `SleepLock` | `sleeplock.c`, `spinlock.c`, `sleep`, `wakeup`, `yield`, `sched`, the switch in `scheduler` | one lock operation |
| `Proc` | fork, exit, wait, kill, `init.c` | a critical section of `wait_lock` or `p->lock` |
| `Sched` | `scheduler` with budgets and ECO mode, timer traps | a look at one slot; of a timer trap the clock, the charge and the yield apart |
| `Accounting` | clock, tick counters, usage limit, `context_switches`, `pause`, `getsyshealth`, `proccost` | an interrupt; one slot of a report; load and store of `context_switches` apart |
| `Terminal` | what the console promises of its input: edited lines, read in the order typed | abstract |
| `Console` | `console.c`, `uart.c`; the 16550 is external | a critical section of `cons.lock` or `tx_lock`; the interrupt handler character by character |
| `Memory` | `kalloc.c`, the user half of `vm.c`, `exec.c`, and the memory side of fork, exit, `sys_exec`, `sbrk` | a system call, any of whose allocations may fail |
| `LogProofs`, `LogRefinement`, `SleepLockProofs`, `ProcProofs`, `SchedProofs`, `AccountingSteps`, `AccountingProofs`, `ConsoleProofs` | theorems (section 5) | |
| `MC*` | instances for TLC | |

Variables and actions carry the names of the C fields and functions. An action
`f_part` is a part of function `f`. History variables are marked in their
declarations. Definitions marked "Mutant" before an operator are deliberately
wrong forms of it; TLC must refute the property when one replaces the operator.

A `panic` stops the kernel. In `Log`, `SleepLock` and `Proc` its condition
guards the action that would panic, and an invariant says that it does not
arise: `CommitIsQuiescent` for `end_op`, which run `log` checks; `SpinDiscipline`
for `sched` and `pop_off`, and `LogHasRoom` for `log_write`, which theorems
`NoInterruptUnderSpinlock` and `LogNeverFull` prove. init's exit in `Proc` is a
state of its own. `FileSystem` and `Memory` record a panic in a variable; their
`NoPanic` is part of `Consistent` and `SpacesSound`. `free_desc` panics on a
descriptor that is free, which `ChainsDisjoint` excludes, and `virtio_disk_intr`
on a status that the modelled device does not report.

### What is abstracted

- A block's content is a value. A disk write of one block is atomic.
- `Proc` leaves memory, files and registers out; a failed allocation is a
  choice. It uses RUNNABLE for both RUNNABLE and RUNNING; who runs is in
  `Sched`.
- `Sched` and `Accounting` have exit and the parent's wait in one step; their
  clocks count modulo `TickMod`, standing for 2^32.
- `Accounting` leaves the choice of process open. What the programs of one
  behaviour call is chosen at the start (`Workloads`), a bound. One report is
  under way at a time, another bound, and the clock does not go all the way
  round during one `pause()`.
- In `FileSystem` a free block is as good as any other, so the bitmap is a
  number; of a file only its size is kept; an inode has its own table entry, so
  the table is never full.
- In `Memory` a free page is as good as any other. Other harts may take pages
  at any time, so each allocation of a call may fail, and a call is one step.
- The device of `Virtio` reports success; ring slots that nobody reads again
  are reset.
- `sys_pipe` in `Files` fails with both descriptors or neither: the setting and
  clearing of one of them in between is seen by the process itself only.
- Of `printf`, which writes to the UART on its own, `Console` has nothing; the
  echo uses the same `uartputc_sync`.
- `Parser` works on tokens. Wrong characters inside words do not exist in it.

## 3. Runs

| Run | Instance | Distinct states | Properties |
|---|---|---|---|
| `log` | 3 processes, 2 blocks, 2 values, log of 4, 2 blocks per call | 56 000 | `CommitIsQuiescent`; the refinement `CallsAreAtomic` (`Log` implements `AtomicDisk`); `SleepersWoken` |
| `sleeplock` | 4 processes, 2 harts | 170 000 | `SleepMutex`, `NoSleeperForgotten`, `OneCpuPerProcess`, `SleeperWoken`; no deadlock |
| `proc` | 3 slots, 4 forks, `kill` of 0 (a free slot), of init and of one process | 160 000 | `ParentAlive`, `StackInUse`, `KilledOnRequest`, `WaitReturns` |
| `sched` | 2 harts, 2 slots, window 1, budget 1, ECO 2, clock modulo 3, 2 calls | 329 000 | `NoOverdraft`, `BudgetUnlessStale`, `RunnableRuns`; no deadlock |
| `accounting` | 2 harts, 3 slots, clock modulo 3, 3 ticks per process, 3 switches | 297 000 | `UserTicksCapped`, `PauseKept`, `PauseLasts`, `ReportSound` |
| `shell` | 5 processes, 4 files, 4 descriptors, 1 pipe of 2 bytes with counters modulo 4, 1 kill; 6 lines run, every line of up to 4 tokens parsed | 147 000 | `FilesAccounted`, `ParserAgrees`, `RingIsFifo`, `ExecInherits`, `LineEnds` |
| `bcache` | 2 processes, 4 blocks, 3 buffers, 1 pinned block, 4 descriptors | 196 000 | `BuffersShared`, `ListLinked`, `CacheCoherent`; no deadlock |
| `virtio` | 3 processes and buffers, the 8 descriptors of the code, ring indices modulo 16 | 385 000 | `ChainsDisjoint`, `RequestsTracked`, `WaitersServed`; no deadlock |
| `fs` | 2 processes, 3 inodes, 4 blocks, power failure; one process works by relative paths and `..` in `/a` and `/a/a`, which the other removes | 774 000 | `Consistent`, `OrphansHeld`, `LocksGranted` |
| `fs_orphan` | 2 processes that make and remove one file | | refutes `OrphansFreed` (section 4) |
| `memory` | 2 processes, 13 pages, two-level page tables, 5 programs, 4 argument vectors | 15 600 | `SpacesSound`, `PagesAccounted`, `MemoryKept`, `ForkCopies` |
| `console` | 1 reader, 1 writer, ring of 2 with indices modulo 4 | 273 000 | `HandshakesKept`; the refinement `TerminalInput` (`Console` implements `Terminal`); `EofIsZeroRead`, `CallsEnd` |

Some of these properties are conjunctions of what belongs together, defined
beside them: `Consistent` has the link counts, the entries, the blocks, the
cached inodes and `NoPanic`; `LocksGranted` that `iput()` does not block and
that nobody waits in a circle; `FilesAccounted` reference counts, pipe ends and
sleepers; `BuffersShared` that a block is cached once and a buffer in use is
kept; `HandshakesKept` the transmitter's state and both wakeups; `SpacesSound`
`NoPanic` and that nothing is mapped beyond the size. `BuffersShared`,
`Consistent`, `FilesAccounted`, `HandshakesKept` and `SpacesSound` contain the
type invariant of their module. The type invariants of `Log`, `SleepLock`,
`Proc`, `Sched` and `Accounting` are proved (section 5) and not checked again;
`Virtio`'s is part of `Bcache`'s.

Why the bounds suffice.

- `log`: two calls fit in the log and a third must wait, a transaction has
  several blocks, and blocks are logged again in the next one; the space of the
  log is left to theorem `LogNeverFull`.
- `sleeplock`: a holder, a waker and two sleepers, with preemption between any
  two of their steps.
- `proc`: init, a parent and a child can all exit, with slots reused, marked by
  `kill(0)` while free, and the table full.
- `sched`: passes of the two harts overlap with windows between them, each hart
  having a reading older than the other's, and the clock wraps. Theorem
  `BudgetKept` covers larger windows and budgets.
- `accounting`: the clock wraps during a pause, a process is over its limit
  while another reports, slots before and after the one a report is at change
  hands.
- `shell`: files, descriptors and the pipe all run out, a reader or a writer
  leaves early, and a writer of five bytes takes the counters of its pipe past
  their modulus.
- `bcache`: the list has an inner buffer, a fourth block forces recycling, and
  with one descriptor over after a request a second process gives it back and
  waits. Two requests in flight are the business of `virtio`.
- `virtio`: two requests take six of eight descriptors, so that a third takes
  two, gives them back and waits; ring indices wrap. States are compared without
  the data, on which no guard depends (`View`).
- `fs`: inodes and blocks both run out, a directory is removed while a process
  works in it and in one below it, and `..` is followed out of it. Both the
  panic of section 4 and an inode lost in a removed directory are reached.
- `memory`: two processes cannot both have what they ask for; a segment's end
  overflows; an argument vector does not fit on the stack, has no end, or names
  an unreadable string.
- `console`: the ring fills within a line and its indices wrap.

`MaxPid`, `MaxTicks`, `MaxCalls`, `MaxSwitches` and `MaxKills` are bounds of
the instance and appear only in guards. `Sched` also stops counting a process's
ticks beyond the largest budget, and the age of a window where it is due by any
reading of the clock (`AgeMax`); no comparison can tell the difference.

Deadlock is not checked in `proc`, `accounting` and `shell`, where a bound on
pids, ticks, switches or lines, or init's panic, ends the behaviour. In `log`,
`fs` and `memory`, where power may always fail or a call always be made, the
check of deadlock says little; what excludes calls that wait for each other is
`SleepersWoken` in `log` and `LocksGranted` in `fs`.

The liveness properties say that something holds again and again (`[]<>`) or in
the end for good (`<>[]`), or that one thing leads to another: `SleepersWoken`,
`SleeperWoken`, `WaitReturns`, `RunnableRuns`, `LineEnds`, `CallsEnd`.

### Fairness

- `Log`: a process that is not asleep is scheduled again, and a call reaches
  its `end_op`. Weak fairness of the steps inside a call, none of entering one.
- `SleepLock`: every hart keeps executing (weak), and a hart spinning in
  `wakeup` gets a lock that is released again and again (strong): `acquire`
  spins with an atomic swap and holders are bounded, with interrupts off.
- `Proc`: weak fairness of a process's way out, strong fairness of its steps in
  `kwait`, which contend for `wait_lock`. None for a program's own choices.
- `Sched`: weak for the loop of `scheduler`; strong for the timer, which
  `clockintr` sets again at every interrupt and which is taken only where
  interrupts are on.
- `Shell`: weak for every process: it is scheduled again (`RunnableRuns`) and
  its programs are finite.
- `Console`: weak for the handler, the UART and processes inside a call; none
  for the user who types.

## 4. Where code and comments disagree

Run `fs_orphan` refutes what `fs.c:333-334` says of `iput()`: "If that was the
last reference and the inode has no links to it, free the inode (and its
content) on disk." `iput()` frees the inode, releases its lock, and drops the
reference without looking again. In between `ialloc()` can give the inode to
another process, which finds the same table entry with a reference more than
its own; when that process has removed its file, its `iput()` finds the other
reference and leaves the freeing to it. The inode stays allocated until
`ireclaim()` at the next boot. `OrphansHeld`, which run `fs` checks, is the
property that holds: an inode without links is held, is about to be freed, or
is one of these (`stray`).

Three more statements of the code hold with an exception, which the property
names and the run reaches:

- `proc.c:680` says of `kkill()` "Kill the process with the given pid." It does
  not look at the state, and a free slot has pid 0: `kill(0)` marks a free slot
  as killed, `allocproc()` leaves the mark, and the next process of that slot is
  dead at birth. `KilledOnRequest` excepts the slots that were marked while free
  (`marked`), and no others.
- `proc.h:115` says of `cpu_budget` "budget in ticks per window". `scheduler()`
  reads the clock once per pass and subtracts unsigned numbers. A hart that
  comes to a process with a reading older than the window another hart has just
  opened takes that window for a very old one, resets `ticks_used`, and the
  process gets a second budget. `BudgetUnlessStale` excepts the processes whose
  window was replaced in this way (`stale`), until their next window that is
  due. `NoOverdraft` needs no exception.
- `fs.c:315` has `ilock()` panic on an inode without a type. A process whose
  working directory was removed, and its parent after it, can look up `..` in
  it, an entry that names a freed inode. `NoPanic` excepts the processes whose
  path took the `..` of a removed directory (`misled`).

Limits that the models make visible, each noted where it matters:

- `log_write()` tests for a full log before it looks whether the block is
  already logged, so calls that use all `MAXOPBLOCKS` blocks can panic it. One
  block less is safe: `LogNeverFull`.
- `create()` looks up its parent, lets go of it, and does not look again whether
  it still has links: an entry made in a directory that was removed meanwhile
  is lost, and its inode with it (`stray`, as in `fs_orphan`).
- Only `usertrap()` tests the usage limit. Ticks in the kernel are counted and
  never tested, which is why `UserTicksCapped` speaks of charged ticks.
- Two harts can lose an increment of `context_switches`: `SwitchCount` is an
  inequality.
- `active_ticks` counts the ticks in which hart 0 had a process.
- `setcpulimit()` dates the window with a tick it read before it had the lock of
  the process, so that the first window may end early.

## 5. Proofs

Each theorem is about `Spec` (for the console without use of its fairness) and
holds for all values of the constants that satisfy the assumption named, which
TLC evaluates in the run of the module.

| Module | Assumption | Theorems |
|---|---|---|
| `LogProofs` | `LogAssumption`: finitely many processes, `MAXOPBLOCKS <= LOGBLOCKS` | `LogTypeCorrect`, `CommitQuiescent`, `NoLostWakeup`, `PinDiscipline` |
| `LogRefinement` | the same | `LogIsAtomic`; `LogNeverFull`, if calls log fewer than `MAXOPBLOCKS` blocks |
| `SleepLockProofs` | `SleepLockAssumption`: finitely many harts | `SleepLockTypeCorrect`, `SleepLockExcludes`, `NoSleeperLost`, `OneHartPerProcess`, `NoInterruptUnderSpinlock` |
| `ProcProofs` | `ProcAssumption`: a table with a slot for init, any pids to kill | `ProcTypeCorrect`, `PidsNeverShared`, `ParentsOutlive`, `NoExitMissed`, `StackNotFreed`, `KilledForCause` |
| `SchedProofs` | `SchedAssumption`: any number of slots and harts, any window, budgets and clock width | `SchedTypeCorrect`, `RunsOnOneHart`, `BudgetNotOverdrawn`, `BudgetKept` |
| `AccountingSteps`, `AccountingProofs` | `AccountingAssumption`: any number of slots and harts; pauses shorter than a turn of the clock | `AccountingTypeCorrect`, `TicksAgree`, `UsageCapped`, `SwitchCount`, `PauseIsExact`, `PauseNotShort`, `ReportsAreSound` |
| `ConsoleProofs` | `ConsoleAssumption`: a ring whose size divides the range of its indices and is smaller | `ConsoleIsTerminal`, `EndOfFileRead`, `ConsoleHandshakes` |

`SleepMutex`, `NoSleeperForgotten`, `ParentAlive` and most of the others are not
inductive: a step can break them from a state that is never reached. Each
module therefore proves a stronger invariant, with one lemma per action.

`LogInv` adds to the properties of the log

- `CountInv`: `outstanding` is the number of running calls;
- `QuietInv`: one committer, no calls beside it, nobody before recovery ends;
- `WaitInv`: when nothing runs, the log in memory is empty (so a caller that
  finds no space is never alone);
- `HeadInv`: no block is logged twice, and the on-disk header is either empty
  or the one in memory;
- `CopyInv`: how far `write_log` and `install_trans` have copied;
- `CacheInv`: the log pins exactly the pending blocks, other buffers are clean.

For `LogIsAtomic` each action is a step of `AtomicDisk` or a stutter. `durable`
maps to what recovery would bring back (`Recovered`), `view` to what a read
through the cache returns, so the header write is the abstract `Commit` and all
other disk writes are invisible. `LogNeverFull` counts the places that running
calls may still claim (`RoomInv`): the log and the claims together fit.

`SleepLockInv` says where processes are: `CpuInv` which hart runs what,
`PlaceInv` where a process that does not run has stopped, `LockInv` which
spinlocks a hart holds, all from the places of its process, and `WaitInv` that
a process on its way into `sleep()` sees the lock held or has a waker to come.
The lock on which exclusion rests is `lk->lk`, and who holds it is known from
`LockInv` only.

`ProcInv` has `PlaceInv` (state against place), `ForkInv` (a slot being filled
has one owner), `ChildInv` (parents are alive and before `reparent()`),
`WaitInv` (what `wait_lock` protects: a scan that found no zombie still holds at
the sleep) and `KillInv` (a mark belongs to the process of the slot, or was made
while the slot was free, free slots included).

`SchedInv` is `TypeOK`, `RunningOnce` and `NoOverdraft`, which need one another.
`BudgetKept` adds `WindowInv`: `LedgerInv`, that what was charged since the last
window that was due is in `ticks_used`, unless a stale reading replaced the
window; and `AgeInv`, that the age of a window is what the wrapping clock shows,
or that and a turn of it, so that a window found over with a reading not older
than itself is over.

`AccountingInv` has `RunInv` (who runs where), `UsageInv` (only a process marked
killed has been charged the tick beyond its limit), `SwitchInv` (increments
under way, stored last, do not overtake the switches), `NapInv` (what a sleeper
in `pause()` found under `tickslock`) and `ReportInv` (a report has an entry for
each slot it has passed whose process is still there).

`ConsoleInv` has `RingInv` (the indices are in order and no line end is in the
line being edited), `ReadersInv` and `WritersInv` (what sleepers wait for),
`UartInv` (whose characters are in the transmitter), `HandlerInv`, and
`WriterSignalled`. `ConsoleIsTerminal` maps the ring between the indices `r`,
`w` and `e` to the two sequences of `Terminal`; most of the module is about
sequences cut from a ring with unsigned indices.

What is model-checked only:

- all liveness properties, since the prover does not handle fairness;
- `Parser`, `Shell`, `FileSystem` and `Memory`, which use recursive operators,
  out of the reach of the prover's SMT backend;
- `Files`, `Virtio` and `Bcache`, for which no inductive invariant has been
  worked out.

## 6. Not modelled

Boot and assembly, PLIC and register access, `printf` and string functions, the
small utilities and front ends, the user memory allocator and the test
programs: pure I/O, formatting or sequential code with no shared state. `mkfs`
appears as the initial image. `sched_count`, `disk_writes` and `getusagestats`
are only counted and printed. File contents, `read()` on files and `stat()`
change no state that the properties speak of.
