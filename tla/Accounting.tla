----------------------------- MODULE Accounting -----------------------------
(***************************************************************************)
(* Time and resource accounting: the tick counters of clockintr() and      *)
(* usertrap() (kernel/trap.c), the scheduler's count of switches           *)
(* (kernel/proc.c), and the calls of kernel/sysproc.c that limit, report   *)
(* and wait for them: setusagelimit, getsyshealth, proccost and pause.     *)
(*                                                                         *)
(* context_switches is incremented under no common lock, so its load and   *)
(* its store are two steps.  The two reports walk the process table slot   *)
(* by slot while other harts run.  Whom the scheduler picks is left open;  *)
(* sched_count and disk_writes, which are only counted and printed, are    *)
(* left out.  The clock and its parts are uints that wrap at TickMod.      *)
(***************************************************************************)
EXTENDS Integers, FiniteSets, FiniteSetsExt

CONSTANTS
  NPROC,        \* size of the process table
  NCPU,         \* number of harts; hart 0 keeps the clock
  Limits,       \* arguments of setusagelimit()
  Naps,         \* arguments of pause()
  Entries,      \* room for entries given to proccost()
  Workloads,    \* sets of calls that the programs of one behaviour make
  TickMod,      \* values of ticks, active_ticks and idle_ticks (2^32)
  MaxTicks,     \* bound on each process's cpu_ticks
  MaxSwitches   \* bound on context switches

ASSUME AccountingAssumption ==
  /\ NPROC \in Nat \ {0}
  /\ NCPU \in Nat \ {0}
  /\ Limits \subseteq Int
  /\ TickMod \in Nat \ {0}
  /\ \A n \in Naps : n \in Int /\ n < TickMod
  /\ Entries \subseteq Int
  /\ MaxTicks \in Nat
  /\ MaxSwitches \in Nat

Slots == 1..NPROC
CPUs == 0..NCPU - 1
None == 0

VARIABLES
  state,             \* p->state
  killed,            \* p->killed
  call,              \* [Slots]: the system call it is in, or "none"
  cpu_ticks,         \* p->cpu_ticks
  cpu_ticks_limit,   \* p->cpu_ticks_limit, 0 for none
  ticks_total,       \* p->ticks_total
  proc,              \* [CPUs]: c->proc
  loaded,            \* [CPUs]: context_switches as loaded for the increment, or -1
  context_switches,
  ticks, active_ticks, idle_ticks,
  tickslock,         \* the process in pause() that holds it, or None
  nap,               \* [Slots]: ticks0 and n of pause()
  workload,          \* the calls of this behaviour's programs: a bound
  report,            \* locals of the getsyshealth() or proccost() under way
  set_at,            \* history: [Slots]: cpu_ticks when the limit was set
  switches,          \* history: swtch() calls of all schedulers
  slept,             \* history: [Slots]: ticks since pause() began
  lived              \* history: processes alive since the report began

usage == <<cpu_ticks, cpu_ticks_limit, ticks_total, set_at>>
counts == <<loaded, context_switches, switches>>
clock == <<ticks, active_ticks, idle_ticks, slept>>
pausing == <<tickslock, nap>>
reports == <<report, lived, workload>>
vars == <<state, killed, call, usage, proc, counts, clock, pausing, reports>>

NoNap == [ticks0 |-> 0, n |-> 0]

\* by: the caller; next: the slot to look at; entry: per slot, what the
\* report says of it, -1 for nothing.
NoReport == [by |-> None, kind |-> "none", next |-> 0, max |-> 0, uptime |-> 0,
             active |-> 0, idle |-> 0, entry |-> [p \in Slots |-> -1]]

Init ==
  /\ state = [p \in Slots |-> IF p = 1 THEN "RUNNABLE" ELSE "UNUSED"]
  /\ killed = [p \in Slots |-> FALSE]
  /\ call = [p \in Slots |-> "none"]
  /\ cpu_ticks = [p \in Slots |-> 0]
  /\ cpu_ticks_limit = [p \in Slots |-> 0]
  /\ ticks_total = [p \in Slots |-> 0]
  /\ proc = [c \in CPUs |-> None]
  /\ loaded = [c \in CPUs |-> -1]
  /\ context_switches = 0
  /\ ticks = 0 /\ active_ticks = 0 /\ idle_ticks = 0
  /\ tickslock = None
  /\ nap = [p \in Slots |-> NoNap]
  /\ workload \in Workloads
  /\ report = NoReport
  /\ set_at = [p \in Slots |-> 0]
  /\ switches = 0
  /\ slept = [p \in Slots |-> 0]
  /\ lived = {}

-----------------------------------------------------------------------------
(* scheduler()                                                             *)

\* p->state = RUNNING, c->proc = p, and the load of context_switches++.
scheduler_run(c, p) ==
  /\ proc[c] = None
  /\ state[p] = "RUNNABLE"
  /\ switches < MaxSwitches
  /\ state' = [state EXCEPT ![p] = "RUNNING"]
  /\ proc' = [proc EXCEPT ![c] = p]
  /\ loaded' = [loaded EXCEPT ![c] = context_switches]
  /\ switches' = switches + 1
  /\ UNCHANGED <<killed, call, usage, context_switches, clock, pausing, reports>>

\* The store of context_switches++, then swtch().
scheduler_count(c) ==
  /\ loaded[c] # -1
  /\ context_switches' = loaded[c] + 1
  /\ loaded' = [loaded EXCEPT ![c] = -1]
  /\ UNCHANGED <<state, killed, call, usage, proc, switches, clock, pausing, reports>>

\* The process leaves the CPU in state s; states are st otherwise.
Leave(c, st, s) ==
  /\ state' = [st EXCEPT ![proc[c]] = s]
  /\ proc' = [proc EXCEPT ![c] = None]

Runs(c) == proc[c] # None /\ loaded[c] = -1

-----------------------------------------------------------------------------
(* Timer interrupts                                                        *)

Minus(m, n) == (m - n) % TickMod
Plus(m, n) == (m + n) % TickMod

\* Mutant: nobody is woken.
Wake_None(c) == state

\* wakeup(&ticks), by hart 0.
Wake(c) ==
  IF c # 0 THEN state
  ELSE [p \in Slots |-> IF state[p] = "SLEEPING" THEN "RUNNABLE" ELSE state[p]]

\* if(cpuid() == 0) ... if(mycpu()->proc != 0) active_ticks++
Active(c) == c = 0 /\ proc[c] # None

\* clockintr() on hart c: the clock, on hart 0 only.  tickslock keeps it out
\* while pause() is between its test and its sleep.  A bound: the clock does
\* not go all the way round (13 years) during one pause().
clock_tick(c) ==
  /\ c = 0 => tickslock = None /\ \A p \in Slots : slept[p] < TickMod - 1
  /\ ticks' = IF c = 0 THEN Plus(ticks, 1) ELSE ticks
  /\ active_ticks' = IF Active(c) THEN Plus(active_ticks, 1) ELSE active_ticks
  /\ idle_ticks' = IF c = 0 /\ ~Active(c) THEN Plus(idle_ticks, 1) ELSE idle_ticks
  /\ slept' = IF c # 0 THEN slept
              ELSE [p \in Slots |-> IF call[p] = "sleep" THEN slept[p] + 1 ELSE 0]

\* A timer interrupt finds the process outside tickslock's critical section.
Interruptible(c) == Runs(c) /\ tickslock # proc[c]

\* clockintr(): one tick for the process that hart c runs.
CountTick(p) ==
  /\ cpu_ticks[p] < MaxTicks
  /\ cpu_ticks' = [cpu_ticks EXCEPT ![p] = @ + 1]

\* Mutant: the test comes a tick late.
OverLimit_Late(p, used) == cpu_ticks_limit[p] > 0 /\ used > cpu_ticks_limit[p] + 1

OverLimit(p, used) == cpu_ticks_limit[p] > 0 /\ used > cpu_ticks_limit[p]

freeproc(p) ==
  /\ killed' = [killed EXCEPT ![p] = FALSE]
  /\ call' = [call EXCEPT ![p] = "none"]
  /\ nap' = [nap EXCEPT ![p] = NoNap]
  /\ cpu_ticks' = [cpu_ticks EXCEPT ![p] = 0]
  /\ cpu_ticks_limit' = [cpu_ticks_limit EXCEPT ![p] = 0]
  /\ ticks_total' = [ticks_total EXCEPT ![p] = 0]
  /\ set_at' = [set_at EXCEPT ![p] = 0]
  /\ lived' = lived \ {p}

\* A timer interrupt in user mode.  A killed process exits before anything is
\* charged; another is charged, tested against its limit, and yields.
usertrap_timer(c) ==
  LET p == proc[c] IN
  /\ Runs(c)
  /\ call[p] = "none"
  /\ clock_tick(c)
  /\ \/ /\ killed[p]
        /\ p # 1                            \* panic("init exiting")
        /\ freeproc(p)
        /\ Leave(c, Wake(c), "UNUSED")
     \/ /\ ~killed[p]
        /\ CountTick(p)
        /\ ticks_total' = [ticks_total EXCEPT ![p] = @ + 1]
        /\ killed' = [killed EXCEPT ![p] = OverLimit(p, cpu_ticks[p] + 1)]
        /\ Leave(c, Wake(c), "RUNNABLE")
        /\ UNCHANGED <<call, nap, cpu_ticks_limit, set_at, lived>>
  /\ UNCHANGED <<counts, tickslock, report, workload>>

\* A timer interrupt in the kernel: counted, nothing else.
kerneltrap_timer(c) ==
  /\ Interruptible(c)
  /\ call[proc[c]] # "none"
  /\ clock_tick(c)
  /\ CountTick(proc[c])
  /\ Leave(c, Wake(c), "RUNNABLE")
  /\ UNCHANGED <<killed, call, cpu_ticks_limit, ticks_total, set_at, counts, pausing, reports>>

\* A timer interrupt in scheduler().
scheduler_timer(c) ==
  /\ proc[c] = None
  /\ c = 0
  /\ clock_tick(c)
  /\ state' = Wake(c)
  /\ UNCHANGED <<killed, call, usage, proc, counts, pausing, reports>>

-----------------------------------------------------------------------------
(* System calls of a running process; a killed one only exits.             *)

\* exit(), or the killed test on the way into and out of a system call, and
\* the parent's wait(), which frees the slot.
exit(c) ==
  /\ Runs(c)
  /\ proc[c] # 1                           \* panic("init exiting")
  /\ call[proc[c]] = "none"
  /\ freeproc(proc[c])
  /\ Leave(c, state, "UNUSED")
  /\ UNCHANGED <<counts, clock, tickslock, report, workload>>

\* The process that hart c runs makes the system call.
Calls(c, syscall) ==
  syscall \in workload /\ Runs(c) /\ ~killed[proc[c]] /\ call[proc[c]] = "none"

\* kfork(): the child inherits the limit and starts from zero.
kfork(c) ==
  LET np == Min({q \in Slots : state[q] = "UNUSED"})
      limit == cpu_ticks_limit[proc[c]]
  IN
  /\ Calls(c, "fork")
  /\ \E q \in Slots : state[q] = "UNUSED"
  /\ state' = [state EXCEPT ![np] = "RUNNABLE"]
  /\ cpu_ticks_limit' = [cpu_ticks_limit EXCEPT ![np] = limit]
  /\ UNCHANGED <<killed, call, cpu_ticks, ticks_total, set_at, proc, counts, clock, pausing, reports>>

UsageLimit(max) == IF max < 0 THEN 0 ELSE max

sys_setusagelimit(c, p, max) ==
  /\ Calls(c, "setusagelimit")
  /\ state[p] # "UNUSED"
  /\ cpu_ticks_limit' = [cpu_ticks_limit EXCEPT ![p] = UsageLimit(max)]
  /\ set_at' = [set_at EXCEPT ![p] = cpu_ticks[p]]
  /\ UNCHANGED <<state, killed, call, cpu_ticks, ticks_total, proc, counts, clock, pausing, reports>>

\* kkill(): the victim is marked, and woken if it sleeps.
kkill(c, p) ==
  /\ Calls(c, "kill")
  /\ p # 1 /\ state[p] # "UNUSED"
  /\ killed' = [killed EXCEPT ![p] = TRUE]
  /\ state' = [state EXCEPT ![p] = IF @ = "SLEEPING" THEN "RUNNABLE" ELSE @]
  /\ UNCHANGED <<call, usage, proc, counts, clock, pausing, reports>>

-----------------------------------------------------------------------------
(* sys_pause()                                                             *)

\* Mutant: an if for the while, so that the first tick ends the call.
Elapsed_FirstTick(t) == ticks # t.ticks0 \/ t.n = 0

\* !(ticks - ticks0 < n), on unsigned numbers.
Elapsed(t) == Minus(ticks, t.ticks0) >= t.n

\* The loop's two tests, under tickslock: on to sleep(), or out of the call
\* with 0 or -1.
pause_test(p, t) ==
  LET stay == ~Elapsed(t) /\ ~killed[p] IN
  /\ call' = [call EXCEPT ![p] = IF stay THEN "sleep" ELSE "none"]
  /\ nap' = [nap EXCEPT ![p] = IF stay THEN t ELSE NoNap]
  /\ tickslock' = IF stay THEN p ELSE None
  /\ slept' = [slept EXCEPT ![p] = IF stay THEN @ ELSE 0]

sys_pause(c, n) ==
  /\ Calls(c, "pause")
  /\ tickslock = None
  /\ pause_test(proc[c], [ticks0 |-> ticks, n |-> IF n < 0 THEN 0 ELSE n])
  /\ UNCHANGED <<state, killed, usage, proc, counts, ticks, active_ticks, idle_ticks, reports>>

\* sleep(&ticks, &tickslock).
pause_sleep(c) ==
  /\ Runs(c)
  /\ call[proc[c]] = "sleep"
  /\ tickslock = proc[c]
  /\ Leave(c, state, "SLEEPING")
  /\ tickslock' = None
  /\ UNCHANGED <<killed, call, usage, counts, clock, nap, reports>>

\* sleep() returns and takes tickslock again.
pause_woken(c) ==
  /\ Runs(c)
  /\ call[proc[c]] = "sleep"
  /\ tickslock = None
  /\ pause_test(proc[c], nap[proc[c]])
  /\ UNCHANGED <<state, killed, usage, proc, counts, ticks, active_ticks, idle_ticks, reports>>

-----------------------------------------------------------------------------
(* Reports.  At most one is under way: a bound on the model.               *)

Begin(c, r) ==
  /\ Calls(c, r.kind)
  /\ report.by = None
  /\ report' = r
  /\ lived' = {p \in Slots : state[p] # "UNUSED"}
  /\ call' = [call EXCEPT ![proc[c]] = "report"]
  /\ UNCHANGED <<state, killed, usage, proc, counts, clock, pausing, workload>>

\* sys_getsyshealth(): the clock, under tickslock.
sys_getsyshealth(c) ==
  /\ tickslock = None
  /\ Begin(c, [NoReport EXCEPT !.by = proc[c], !.kind = "getsyshealth", !.next = 1, !.max = NPROC,
                               !.uptime = ticks, !.active = active_ticks, !.idle = idle_ticks])

sys_proccost(c, max) ==
  /\ max > 0
  /\ Begin(c, [NoReport EXCEPT !.by = proc[c], !.kind = "proccost", !.next = 1, !.max = max])

Reported(r) == {p \in Slots : r.entry[p] # -1}

\* q < &proc[NPROC] && count < max.
Walking(r) == r.next <= NPROC /\ Cardinality(Reported(r)) < r.max

\* Mutant: the walk ends at the first free slot.
After_Break(p) == IF state[p] = "UNUSED" THEN NPROC + 1 ELSE p + 1

\* The slot after p; a free one is passed over.
After(p) == p + 1

\* One slot of the walk: whether the process is running or ready, for
\* getsyshealth(); its ticks, for proccost().
report_slot(c) ==
  LET p == report.next
      says == IF state[p] = "UNUSED" THEN -1
              ELSE IF report.kind = "proccost" THEN cpu_ticks[p]
              ELSE IF state[p] \in {"RUNNING", "RUNNABLE"} THEN 1 ELSE 0
  IN
  /\ Runs(c)
  /\ report.by = proc[c]
  /\ Walking(report)
  /\ report' = [report EXCEPT !.next = After(p), !.entry = [@ EXCEPT ![p] = says]]
  /\ UNCHANGED <<state, killed, call, usage, proc, counts, clock, pausing, lived, workload>>

\* The call returns what it has gathered.
report_return(c) ==
  /\ Runs(c)
  /\ report.by = proc[c]
  /\ ~Walking(report)
  /\ report' = NoReport
  /\ lived' = {}
  /\ call' = [call EXCEPT ![proc[c]] = "none"]
  /\ UNCHANGED <<state, killed, usage, proc, counts, clock, pausing, workload>>

Next ==
  \E c \in CPUs :
    \/ \E p \in Slots : scheduler_run(c, p)
    \/ scheduler_count(c)
    \/ usertrap_timer(c) \/ kerneltrap_timer(c) \/ scheduler_timer(c)
    \/ exit(c) \/ kfork(c)
    \/ \E p \in Slots, max \in Limits : sys_setusagelimit(c, p, max)
    \/ \E p \in Slots : kkill(c, p)
    \/ \E n \in Naps : sys_pause(c, n)
    \/ pause_sleep(c) \/ pause_woken(c)
    \/ sys_getsyshealth(c) \/ report_slot(c) \/ report_return(c)
    \/ \E max \in Entries : sys_proccost(c, max)

Spec == Init /\ [][Next]_vars

-----------------------------------------------------------------------------
(* Properties.                                                             *)

TypeOK ==
  /\ state \in [Slots -> {"UNUSED", "RUNNABLE", "RUNNING", "SLEEPING"}]
  /\ killed \in [Slots -> BOOLEAN]
  /\ call \in [Slots -> {"none", "sleep", "report"}]
  /\ cpu_ticks \in [Slots -> Nat]
  /\ cpu_ticks_limit \in [Slots -> Nat]
  /\ ticks_total \in [Slots -> Nat]
  /\ proc \in [CPUs -> Slots \cup {None}]
  /\ loaded \in [CPUs -> Nat \cup {-1}]
  /\ context_switches \in Nat
  /\ {ticks, active_ticks, idle_ticks} \subseteq 0..TickMod - 1
  /\ tickslock \in Slots \cup {None}
  /\ nap \in [Slots -> [ticks0 : 0..TickMod - 1, n : Nat]]
  /\ report.by \in Slots \cup {None} /\ lived \subseteq Slots
  /\ set_at \in [Slots -> Nat] /\ slept \in [Slots -> Nat]
  /\ switches \in Nat

\* Every tick that usertrap() charges clockintr() has counted, though one
\* counts without p->lock: getcputicks() never reports more than usagestat.
ChargedTicksCounted == \A p \in Slots : ticks_total[p] <= cpu_ticks[p]

Larger(m, n) == IF m > n THEN m ELSE n

\* In user mode the usage limit holds to within one tick: no process is
\* charged more than the limit, or than what it had used when the limit was
\* set, and the one tick after which usertrap() marks it killed.
UserTicksCapped ==
  \A p \in Slots : cpu_ticks_limit[p] > 0 =>
    ticks_total[p] <= Larger(cpu_ticks_limit[p], set_at[p]) + 1

\* context_switches, incremented by every scheduler under no common lock, may
\* lose increments; with those under way it never exceeds the switches made.
SwitchesNotOvercounted ==
  context_switches + Cardinality({c \in CPUs : loaded[c] # -1}) <= switches

\* pause(n) is exact to the tick, also where ticks wraps: no process sleeps on
\* once n ticks have passed since it called.
PauseKept == \A p \in Slots : state[p] = "SLEEPING" => slept[p] < nap[p].n

\* No process leaves pause(n) before n ticks have passed, unless it was killed.
PauseLasts ==
  [][\A p \in Slots : call[p] = "sleep" /\ call'[p] = "none" =>
       slept[p] >= nap[p].n \/ killed[p]]_vars

\* What a report says when it is returned, though other harts tick, fork and
\* exit during its walk: the ticks of getsyshealth() are split into active
\* and idle without rest; no process that lived throughout is missing, unless
\* proccost() ran out of room; and proccost() gives none more ticks than it has.
ReportSound ==
  report.by # None /\ ~Walking(report) =>
    /\ report.uptime = Plus(report.active, report.idle)
    /\ lived \subseteq Reported(report) \/ Cardinality(Reported(report)) = report.max
    /\ report.kind = "proccost" => \A p \in lived : report.entry[p] <= cpu_ticks[p]
=============================================================================
