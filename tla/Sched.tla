------------------------------- MODULE Sched --------------------------------
(***************************************************************************)
(* The per-CPU scheduler of kernel/proc.c with CPU budgets and the ECO     *)
(* power mode, the timer interrupts that charge a process for its ticks    *)
(* (kernel/trap.c), and the calls that set budgets and modes.              *)
(*                                                                         *)
(* A pass of scheduler() reads ticks once, into now, and then looks at one *)
(* slot per step; running the processes it picks is part of the pass, so   *)
(* now grows old.  p->lock makes a look at a slot one action.  Exit and    *)
(* the parent's wait are one step here; Proc has their inside.             *)
(***************************************************************************)
EXTENDS Integers, FiniteSets, FiniteSetsExt

CONSTANTS
  NPROC,                      \* size of the process table
  NCPU,                       \* number of harts; hart 0 keeps the clock
  CPU_BUDGET_WINDOW_TICKS,
  ECO_SKIP_INTERVAL,
  Limits,                     \* arguments of setcpulimit()
  TickMod,                    \* the clock counts modulo this (2^32 in the code)
  MaxCalls                    \* bound: calls that sleep, fork or set a budget or mode

ASSUME SchedAssumption ==
  /\ NPROC \in Nat \ {0}
  /\ NCPU \in Nat \ {0}
  /\ CPU_BUDGET_WINDOW_TICKS \in Nat
  /\ ECO_SKIP_INTERVAL \in Nat \ {0}
  /\ Limits \subseteq Nat
  /\ TickMod \in Nat \ {0}
  /\ MaxCalls \in Nat

Slots == 1..NPROC
CPUs == 0..NCPU - 1
None == -1

VARIABLES
  state,                \* p->state
  cpu_budget,           \* p->cpu_budget, 0 for none
  ticks_used,           \* p->ticks_used
  budget_window_start,  \* p->budget_window_start
  power_mode,           \* p->power_mode
  eco_skip_counter,     \* p->eco_skip_counter
  snap,                 \* [Slots]: setcpulimit_pid()'s now, None outside the call
  ticks,                \* ticks
  at,                   \* [CPUs]: where scheduler(), or the process that it runs, is
  now,                  \* [CPUs]: scheduler()'s now
  p,                    \* [CPUs]: scheduler()'s loop variable
  found,                \* [CPUs]: scheduler()'s found
  calls,                \* calls made so far
  ledger,               \* history: ticks charged since the last window that was due
  age,                  \* history: ticks since the start of the window, up to AgeMax
  stale                 \* history: a reading older than the window has replaced it since then

history == <<ledger, age, stale>>
budget == <<cpu_budget, ticks_used, budget_window_start, history>>
eco == <<power_mode, eco_skip_counter>>
pass == <<now, p, found>>
vars == <<state, budget, eco, snap, ticks, at, pass, calls>>

\* userinit() has made the first process; it has no budget and normal mode.
Init ==
  /\ state = [q \in Slots |-> IF q = 1 THEN "RUNNABLE" ELSE "UNUSED"]
  /\ cpu_budget = [q \in Slots |-> 0]
  /\ ticks_used = [q \in Slots |-> 0]
  /\ budget_window_start = [q \in Slots |-> 0]
  /\ power_mode = [q \in Slots |-> "NORMAL"]
  /\ eco_skip_counter = [q \in Slots |-> 0]
  /\ snap = [q \in Slots |-> None]
  /\ ticks = 0
  /\ at = [c \in CPUs |-> "start"]
  /\ now = [c \in CPUs |-> 0]
  /\ p = [c \in CPUs |-> 1]
  /\ found = [c \in CPUs |-> FALSE]
  /\ calls = 0
  /\ ledger = [q \in Slots |-> 0]
  /\ age = [q \in Slots |-> 0]
  /\ stale = [q \in Slots |-> FALSE]

-----------------------------------------------------------------------------
(* scheduler()                                                             *)

\* The head of the loop: interrupts on and off again, then read the clock.
scheduler_start(c) ==
  /\ at[c] \in {"start", "interrupted"}
  /\ now' = [now EXCEPT ![c] = ticks]
  /\ p' = [p EXCEPT ![c] = 1]
  /\ found' = [found EXCEPT ![c] = FALSE]
  /\ at' = [at EXCEPT ![c] = "scan"]
  /\ UNCHANGED <<state, budget, eco, snap, ticks, calls>>

\* Unsigned subtraction: a window that starts after now looks very old.
Elapsed(t, start) == (t - start) % TickMod

\* Mutant: budgeted processes get a new window at every look.
WindowOver_Always(c, q) == cpu_budget[q] > 0

WindowOver(c, q) ==
  cpu_budget[q] > 0 /\ Elapsed(now[c], budget_window_start[q]) >= CPU_BUDGET_WINDOW_TICKS

\* Mutant: one tick more than the budget.
Exhausted_Late(q, used) == cpu_budget[q] > 0 /\ used > cpu_budget[q]

Exhausted(q, used) == cpu_budget[q] > 0 /\ used >= cpu_budget[q]

\* Mutant: an ECO process is passed over without being counted.
EcoCount_Stuck(q) == eco_skip_counter[q]

EcoCount(q) == eco_skip_counter[q] + 1

EcoNext(q) == IF EcoCount(q) < ECO_SKIP_INTERVAL THEN EcoCount(q) ELSE 0

Runnable(q) == state[q] = "RUNNABLE"

\* scheduler() looks at a runnable process: it opens a new budget window when
\* the old one is over, passes the process over, or runs it.
Consider(c, q) ==
  LET over == WindowOver(c, q)
      used == IF over THEN 0 ELSE ticks_used[q]
      exhausted == Exhausted(q, used)
      skip == power_mode[q] = "ECO" /\ EcoCount(q) < ECO_SKIP_INTERVAL
      lag == Elapsed(ticks, now[c])
      due == age[q] - lag >= CPU_BUDGET_WINDOW_TICKS
  IN
  /\ ticks_used' = [ticks_used EXCEPT ![q] = used]
  /\ budget_window_start' = [budget_window_start EXCEPT ![q] = IF over THEN now[c] ELSE @]
  /\ ledger' = [ledger EXCEPT ![q] = IF over /\ due THEN 0 ELSE @]
  /\ age' = [age EXCEPT ![q] = IF over THEN lag ELSE @]
  /\ stale' = [stale EXCEPT ![q] = IF over THEN ~due /\ (@ \/ age[q] < lag) ELSE @]
  /\ eco_skip_counter' =
       [eco_skip_counter EXCEPT ![q] =
          IF exhausted \/ power_mode[q] # "ECO" THEN @ ELSE EcoNext(q)]
  /\ \/ /\ exhausted \/ skip
        /\ p' = [p EXCEPT ![c] = q + 1]
        /\ UNCHANGED <<state, at>>
     \/ /\ ~exhausted /\ ~skip
        /\ state' = [state EXCEPT ![q] = "RUNNING"]
        /\ at' = [at EXCEPT ![c] = "run"]
        /\ UNCHANGED p
  /\ UNCHANGED <<cpu_budget, power_mode, snap, ticks, now, found, calls>>

\* One turn of the loop.
scheduler_look(c) ==
  /\ at[c] = "scan"
  /\ p[c] \in Slots
  /\ \/ /\ Runnable(p[c])
        /\ Consider(c, p[c])
     \/ /\ ~Runnable(p[c])
        /\ p' = [p EXCEPT ![c] = @ + 1]
        /\ UNCHANGED <<state, budget, eco, snap, ticks, at, now, found, calls>>

\* The end of a pass, and of its variables: another one, or wfi when no process
\* ran.
scheduler_end(c) ==
  /\ at[c] = "scan"
  /\ p[c] \notin Slots
  /\ at' = [at EXCEPT ![c] = IF found[c] THEN "start" ELSE "wfi"]
  /\ now' = [now EXCEPT ![c] = 0]
  /\ p' = [p EXCEPT ![c] = 1]
  /\ found' = [found EXCEPT ![c] = FALSE]
  /\ UNCHANGED <<state, budget, eco, snap, ticks, calls>>

\* The process that c runs gives up the CPU in state s; the pass goes on.
Back(c, s) ==
  /\ state' = [state EXCEPT ![p[c]] = s]
  /\ at' = [at EXCEPT ![c] = "scan"]
  /\ p' = [p EXCEPT ![c] = @ + 1]
  /\ found' = [found EXCEPT ![c] = TRUE]
  /\ UNCHANGED now

-----------------------------------------------------------------------------
(* Timer interrupts.                                                       *)

\* A window that is as old as this is due, however old a scheduler's now.
AgeMax == CPU_BUDGET_WINDOW_TICKS + TickMod - 1

\* clockintr(): hart 0 advances the clock.
Tick(c) ==
  /\ ticks' = IF c = 0 THEN (ticks + 1) % TickMod ELSE ticks
  /\ age' = [q \in Slots |-> IF c = 0 /\ cpu_budget[q] > 0 /\ age[q] < AgeMax THEN age[q] + 1 ELSE age[q]]

\* ticks_used is compared with budgets only, and starts again with each: it may
\* stop beyond them all, and while there is none.
Count(q, n) == IF cpu_budget[q] = 0 \/ n > Max(Limits \cup {0}) THEN n ELSE n + 1

\* In user mode: the clock interrupt of usertrap(), which has interrupts off ...
usertrap_timer(c) ==
  /\ at[c] = "run"
  /\ snap[p[c]] = None
  /\ Tick(c)
  /\ at' = [at EXCEPT ![c] = "charge"]
  /\ UNCHANGED <<state, cpu_budget, ticks_used, budget_window_start, ledger, stale, eco, snap, pass, calls>>

\* ... then charges the tick to the process, under its lock ...
usertrap_charge(c) ==
  /\ at[c] = "charge"
  /\ ticks_used' = [ticks_used EXCEPT ![p[c]] = Count(p[c], @)]
  /\ ledger' = [ledger EXCEPT ![p[c]] = Count(p[c], @)]
  /\ at' = [at EXCEPT ![c] = "yield"]
  /\ UNCHANGED <<state, cpu_budget, budget_window_start, age, stale, eco, snap, ticks, pass, calls>>

\* ... and takes the lock again to give up the CPU.
yield(c) ==
  /\ at[c] = "yield"
  /\ Back(c, "RUNNABLE")
  /\ UNCHANGED <<budget, eco, snap, ticks, calls>>

\* In the kernel: kerneltrap() only yields.
kerneltrap_timer(c) ==
  /\ at[c] = "run"
  /\ Tick(c)
  /\ at' = [at EXCEPT ![c] = "yield"]
  /\ UNCHANGED <<state, cpu_budget, ticks_used, budget_window_start, ledger, stale, eco, snap, pass, calls>>

\* In scheduler(): wfi ends, and the interrupt is taken at the head of the
\* loop, where at most one is pending.
scheduler_timer(c) ==
  /\ at[c] \in {"start", "wfi"}
  /\ Tick(c)
  /\ at' = [at EXCEPT ![c] = "interrupted"]
  /\ UNCHANGED <<state, cpu_budget, ticks_used, budget_window_start, ledger, stale, eco, snap, pass, calls>>

\* A device interrupt ends wfi, and may wake up a process.
device(c, q) ==
  /\ at[c] \in {"start", "wfi"}
  /\ state[q] = "SLEEPING"
  /\ state' = [state EXCEPT ![q] = "RUNNABLE"]
  /\ at' = [at EXCEPT ![c] = "start"]
  /\ UNCHANGED <<budget, eco, snap, ticks, pass, calls>>

-----------------------------------------------------------------------------
(* What a running process does.                                            *)

Calls(c) == at[c] = "run" /\ snap[p[c]] = None /\ calls < MaxCalls /\ calls' = calls + 1

\* sleep(): the process waits for a device.
sleep(c) ==
  /\ Calls(c)
  /\ Back(c, "SLEEPING")
  /\ UNCHANGED <<budget, eco, snap, ticks>>

\* kexit(), also of a killed process on its way through usertrap(), and freeproc()
\* by the parent.
exit(c) ==
  LET q == p[c] IN
  /\ at[c] \in {"run", "charge"}
  /\ q # 1 /\ snap[q] = None
  /\ cpu_budget' = [cpu_budget EXCEPT ![q] = 0]
  /\ ticks_used' = [ticks_used EXCEPT ![q] = 0]
  /\ budget_window_start' = [budget_window_start EXCEPT ![q] = 0]
  /\ ledger' = [ledger EXCEPT ![q] = 0]
  /\ age' = [age EXCEPT ![q] = 0]
  /\ stale' = [stale EXCEPT ![q] = FALSE]
  /\ power_mode' = [power_mode EXCEPT ![q] = "NORMAL"]
  /\ eco_skip_counter' = [eco_skip_counter EXCEPT ![q] = 0]
  /\ Back(c, "UNUSED")
  /\ UNCHANGED <<snap, ticks, calls>>

\* kfork(): the child inherits budget, window and mode, not the ticks used.
kfork(c) ==
  LET q == p[c]
      np == Min({k \in Slots : state[k] = "UNUSED"})
  IN
  /\ Calls(c)
  /\ \E k \in Slots : state[k] = "UNUSED"
  /\ state' = [state EXCEPT ![np] = "RUNNABLE"]
  /\ cpu_budget' = [cpu_budget EXCEPT ![np] = cpu_budget[q]]
  /\ ticks_used' = [ticks_used EXCEPT ![np] = 0]
  /\ budget_window_start' = [budget_window_start EXCEPT ![np] = budget_window_start[q]]
  /\ ledger' = [ledger EXCEPT ![np] = 0]
  /\ age' = [age EXCEPT ![np] = age[q]]
  /\ stale' = [stale EXCEPT ![np] = FALSE]
  /\ power_mode' = [power_mode EXCEPT ![np] = power_mode[q]]
  /\ eco_skip_counter' = [eco_skip_counter EXCEPT ![np] = 0]
  /\ UNCHANGED <<snap, ticks, at, pass>>

\* setcpulimit_pid() reads the clock ...
setcpulimit_now(c) ==
  /\ Calls(c)
  /\ snap' = [snap EXCEPT ![p[c]] = ticks]
  /\ UNCHANGED <<state, budget, eco, ticks, at, pass>>

\* ... and then, maybe much later, sets the budget of the process it finds.
setcpulimit(c, q, limit) ==
  /\ at[c] = "run"
  /\ snap[p[c]] # None
  /\ state[q] # "UNUSED"
  /\ cpu_budget' = [cpu_budget EXCEPT ![q] = limit]
  /\ ticks_used' = [ticks_used EXCEPT ![q] = 0]
  /\ budget_window_start' = [budget_window_start EXCEPT ![q] = snap[p[c]]]
  /\ ledger' = [ledger EXCEPT ![q] = 0]
  /\ age' = [age EXCEPT ![q] = IF limit = 0 THEN 0 ELSE Elapsed(ticks, snap[p[c]])]
  /\ stale' = [stale EXCEPT ![q] = FALSE]
  /\ snap' = [snap EXCEPT ![p[c]] = None]
  /\ UNCHANGED <<state, eco, ticks, at, pass, calls>>

setpowermode(c, q, mode) ==
  /\ Calls(c)
  /\ state[q] # "UNUSED"
  /\ power_mode' = [power_mode EXCEPT ![q] = mode]
  /\ eco_skip_counter' = [eco_skip_counter EXCEPT ![q] = 0]
  /\ UNCHANGED <<state, budget, snap, ticks, at, pass>>

-----------------------------------------------------------------------------
Scheduler(c) == scheduler_start(c) \/ scheduler_look(c) \/ scheduler_end(c)

Timer(c) ==
  \/ usertrap_timer(c) \/ usertrap_charge(c) \/ kerneltrap_timer(c) \/ yield(c)
  \/ scheduler_timer(c)

Syscall(c) ==
  \/ sleep(c) \/ exit(c) \/ kfork(c) \/ setcpulimit_now(c)
  \/ \E q \in Slots, limit \in Limits : setcpulimit(c, q, limit)
  \/ \E q \in Slots, mode \in {"NORMAL", "ECO"} : setpowermode(c, q, mode)

Next ==
  \E c \in CPUs : Scheduler(c) \/ Timer(c) \/ Syscall(c) \/ \E q \in Slots : device(c, q)

Spec == Init /\ [][Next]_vars

\* Every CPU executes scheduler(), and its timer, which clockintr() sets
\* again each time, interrupts it as often as it has interrupts on.
Fairness == \A c \in CPUs : WF_vars(Scheduler(c)) /\ SF_vars(Timer(c))

FairSpec == Spec /\ Fairness

-----------------------------------------------------------------------------
(* Properties.                                                             *)

TypeOK ==
  /\ state \in [Slots -> {"UNUSED", "RUNNABLE", "RUNNING", "SLEEPING"}]
  /\ cpu_budget \in [Slots -> Limits \cup {0}]
  /\ ticks_used \in [Slots -> Nat]
  /\ budget_window_start \in [Slots -> 0..TickMod - 1]
  /\ power_mode \in [Slots -> {"NORMAL", "ECO"}]
  /\ eco_skip_counter \in [Slots -> 0..ECO_SKIP_INTERVAL - 1]
  /\ snap \in [Slots -> 0..TickMod - 1 \cup {None}]
  /\ ticks \in 0..TickMod - 1
  /\ at \in [CPUs -> {"start", "interrupted", "scan", "run", "charge", "yield", "wfi"}]
  /\ now \in [CPUs -> 0..TickMod - 1]
  /\ p \in [CPUs -> 1..NPROC + 1]
  /\ found \in [CPUs -> BOOLEAN]
  /\ calls \in 0..MaxCalls
  /\ ledger \in [Slots -> Nat]
  /\ age \in [Slots -> 0..AgeMax]
  /\ stale \in [Slots -> BOOLEAN]

\* A CPU in a process's stretch of a pass and the process it runs agree, and
\* no process is run by two CPUs.
Runs(c, q) == at[c] \in {"run", "charge", "yield"} /\ p[c] = q

RunningOnce ==
  /\ \A c \in CPUs : Runs(c, p[c]) => p[c] \in Slots /\ state[p[c]] = "RUNNING"
  /\ \A c, d \in CPUs, q \in Slots : Runs(c, q) /\ Runs(d, q) => c = d
  /\ \A q \in Slots : state[q] = "RUNNING" => \E c \in CPUs : Runs(c, q)

\* ticks_used never passes the budget, and a process that has used it up goes
\* no further on a CPU than from the charge to yield(): whatever calls change
\* budgets while processes run, a tick is charged before the next look of a
\* scheduler.
NoOverdraft ==
  \A q \in Slots : cpu_budget[q] > 0 =>
    /\ ticks_used[q] <= cpu_budget[q]
    /\ \A c \in CPUs : Runs(c, q) /\ at[c] # "yield" => ticks_used[q] < cpu_budget[q]

\* proc.h:115 "budget in ticks per window": a process is charged no more ticks
\* than its budget until a window opens CPU_BUDGET_WINDOW_TICKS or more after
\* the one it replaces, or the budget is set again.  Windows have the dates of
\* the readings of the clock they are opened with.  The exception is a hart
\* that comes to the process with a reading older than the window, as another
\* hart has opened that meanwhile: it takes the window for a very old one
\* (proc.c:501) and opens a second one.  Nothing else opens a window early.
BudgetUnlessStale ==
  \A q \in Slots : cpu_budget[q] > 0 /\ ~stale[q] => ledger[q] <= cpu_budget[q]

\* A runnable process is run in the end: a budget that is used up is renewed,
\* and ECO mode delays a process without starving it.
RunnableRuns ==
  \A q \in Slots : []<>(state[q] # "RUNNABLE")
=============================================================================
