-------------------------- MODULE AccountingSteps ---------------------------
(***************************************************************************)
(* The inductive invariant of the clock and the accounting of the kernel,  *)
(* and the steps of the clock, the limits and the pauses, each of which    *)
(* preserves it.  AccountingProofs has the steps that count and report,    *)
(* and the theorems.                                                       *)
(***************************************************************************)
EXTENDS Accounting, TLAPS

-----------------------------------------------------------------------------
(* Unsigned arithmetic, as the kernel does on its clock.                   *)

\* A uint in range is itself.
LEMMA ModSmall ==
  ASSUME NEW M \in Nat \ {0}, NEW x \in 0..M - 1
  PROVE  x % M = x
BY SMT

\* A difference that goes below zero wraps around.
LEMMA ModBelow ==
  ASSUME NEW M \in Nat \ {0}, NEW x \in Int, -M <= x, x < 0
  PROVE  x % M = x + M
BY SMT

\* A sum that reaches the range wraps around.
LEMMA ModAbove ==
  ASSUME NEW M \in Nat \ {0}, NEW x \in Int, M <= x, x < 2 * M
  PROVE  x % M = x - M
BY SMT

\* The result is a uint again.
LEMMA ModRange ==
  ASSUME NEW M \in Nat \ {0}, NEW x \in Int
  PROVE  x % M \in 0..M - 1
BY SMT

\* One more tick after a start is one more tick elapsed, also when the clock
\* wraps, as long as it does not come round to the start.
LEMMA TickElapses ==
  ASSUME NEW M \in Nat \ {0}, NEW t \in 0..M - 1, NEW s \in 0..M - 1,
         (t - s) % M < M - 1
  PROVE  (((t + 1) % M) - s) % M = ((t - s) % M) + 1
<1>1. CASE t + 1 < M
  <2>1. (t + 1) % M = t + 1
    BY <1>1, ModSmall
  <2>2. CASE s <= t
    <3>1. (t - s) % M = t - s
      BY <2>2, ModSmall
    <3>2. (t + 1 - s) % M = t + 1 - s
      BY <2>2, <3>1, ModSmall
    <3> QED
      BY <2>1, <3>1, <3>2
  <2>3. CASE s > t
    <3>1. (t - s) % M = t - s + M
      BY <2>3, ModBelow
    <3>2. t + 1 - s < 0
      BY <3>1
    <3>3. (t + 1 - s) % M = t + 1 - s + M
      BY <3>2, ModBelow
    <3> QED
      BY <2>1, <3>1, <3>3
  <2> QED
    BY <2>2, <2>3
<1>2. CASE t + 1 = M
  <2>1. (t + 1) % M = 0
    <3>1. M \in Int /\ M <= M /\ M < 2 * M
      OBVIOUS
    <3>2. M % M = M - M
      BY <3>1, ModAbove, Zenon
    <3> QED
      BY <1>2, <3>2
  <2>2. (t - s) % M = t - s
    BY <1>2, ModSmall
  <2>3. s > 0
    BY <1>2, <2>2
  <2>4. (0 - s) % M = M - s
    BY <2>3, ModBelow
  <2> QED
    BY <1>2, <2>1, <2>2, <2>4
<1> QED
  BY <1>1, <1>2

\* Adding one to a part adds one to the sum, also when either wraps.
LEMMA TickAdds ==
  ASSUME NEW M \in Nat \ {0}, NEW a \in 0..M - 1, NEW i \in 0..M - 1
  PROVE  /\ (((a + i) % M) + 1) % M = (((a + 1) % M) + i) % M
         /\ (((a + i) % M) + 1) % M = (a + ((i + 1) % M)) % M
<1>1. \A x \in 0..M - 1 : (x + 1) % M = IF x + 1 = M THEN 0 ELSE x + 1
  <2> TAKE x \in 0..M - 1
  <2>1. CASE x + 1 = M
    <3>1. M \in Int /\ M <= M /\ M < 2 * M
      OBVIOUS
    <3> QED
      BY <2>1, <3>1, ModAbove
  <2>2. CASE x + 1 # M
    <3>1. x + 1 \in 0..M - 1
      BY <2>2
    <3> QED
      BY <2>2, <3>1, ModSmall, Zenon
  <2> QED
    BY <2>1, <2>2, Zenon
<1>2. \A x, y \in 0..M - 1 : (x + y) % M = IF x + y < M THEN x + y ELSE x + y - M
  <2> TAKE x, y \in 0..M - 1
  <2>1. CASE x + y < M
    <3>1. x + y \in 0..M - 1
      BY <2>1
    <3> QED
      BY <2>1, <3>1, ModSmall, Zenon
  <2>2. CASE x + y >= M
    <3>1. x + y \in Int /\ M <= x + y /\ x + y < 2 * M
      BY <2>2
    <3> QED
      BY <2>2, <3>1, ModAbove
  <2> QED
    BY <2>1, <2>2
<1>3. (a + i) % M \in 0..M - 1 /\ (a + 1) % M \in 0..M - 1 /\ (i + 1) % M \in 0..M - 1
  BY ModRange
<1>4. (((a + i) % M) + 1) % M = IF ((a + i) % M) + 1 = M THEN 0 ELSE ((a + i) % M) + 1
  BY <1>1, <1>3, Zenon
<1>5. (((a + 1) % M) + i) % M
        = IF ((a + 1) % M) + i < M THEN ((a + 1) % M) + i ELSE ((a + 1) % M) + i - M
  BY <1>2, <1>3, Zenon
<1>6. (a + ((i + 1) % M)) % M
        = IF a + ((i + 1) % M) < M THEN a + ((i + 1) % M) ELSE a + ((i + 1) % M) - M
  BY <1>2, <1>3, Zenon
<1>7. /\ (a + i) % M = IF a + i < M THEN a + i ELSE a + i - M
      /\ (a + 1) % M = IF a + 1 = M THEN 0 ELSE a + 1
      /\ (i + 1) % M = IF i + 1 = M THEN 0 ELSE i + 1
  BY <1>1, <1>2, Zenon
<1> QED
  BY <1>4, <1>5, <1>6, <1>7

-----------------------------------------------------------------------------
(* The inductive invariant.                                                *)

USE AccountingAssumption

Uints == 0..TickMod - 1

Reports ==
  [by : Slots \cup {None}, kind : {"none", "getsyshealth", "proccost"}, next : Nat, max : Int,
   uptime : Uints, active : Uints, idle : Uints, entry : [Slots -> Int]]

TypeInv == TypeOK /\ report \in Reports

\* A hart has a running process, and has it alone; a switch that is being
\* counted has its process already.
RunInv ==
  /\ \A c \in CPUs : proc[c] # None => state[proc[c]] = "RUNNING"
  /\ \A c, d \in CPUs : proc[c] # None /\ proc[c] = proc[d] => c = d
  /\ \A c \in CPUs : loaded[c] # -1 => proc[c] # None

\* Free slots start from zero, and only a process that was marked killed has
\* been charged the tick beyond its limit.
UsageInv ==
  \A p \in Slots :
    /\ ticks_total[p] <= cpu_ticks[p]
    /\ state[p] = "UNUSED" => cpu_ticks[p] = 0
    /\ cpu_ticks_limit[p] > 0 =>
         ticks_total[p] <= Larger(cpu_ticks_limit[p], set_at[p]) + (IF killed[p] THEN 1 ELSE 0)

Counting == {c \in CPUs : loaded[c] # -1}

\* Each increment under way, stored last, would still not overtake the switches.
SwitchInv ==
  /\ context_switches + Cardinality(Counting) <= switches
  /\ \A c \in Counting : loaded[c] + Cardinality(Counting) <= switches

\* slept is what pause() computes from the clock, and the holder of tickslock
\* has found that its time is not over.
NapInv ==
  /\ \A p \in Slots : call[p] # "sleep" => slept[p] = 0
  /\ \A p \in Slots : call[p] = "sleep" => slept[p] = Minus(ticks, nap[p].ticks0)
  /\ \A p \in Slots : state[p] = "SLEEPING" \/ tickslock = p =>
                        call[p] = "sleep" /\ slept[p] < nap[p].n

\* The clock is the sum of its parts; a report has something to say of every
\* slot that it has passed and whose process is still there.
ReportInv ==
  /\ ticks = Plus(active_ticks, idle_ticks)
  /\ report.by # None =>
       /\ call[report.by] = "report" /\ report.next >= 1
       /\ report.uptime = Plus(report.active, report.idle)
       /\ Cardinality(Reported(report)) <= report.max
       /\ \A p \in lived :
            /\ state[p] # "UNUSED"
            /\ p < report.next => report.entry[p] # -1
            /\ report.kind = "proccost" => report.entry[p] <= cpu_ticks[p]

AccountingInv == TypeInv /\ RunInv /\ UsageInv /\ SwitchInv /\ NapInv /\ ReportInv

-----------------------------------------------------------------------------
(* Lemmas about the parts of the steps.                                    *)

\* A step that leaves the counters of switches alone keeps their invariant.
LEMMA SwitchKept ==
  ASSUME SwitchInv, UNCHANGED <<loaded, context_switches, switches>>
  PROVE  SwitchInv'
BY Zenon DEF SwitchInv, Counting

\* A step that leaves alone what one of the other invariants is about keeps it.
LEMMA RunKept ==
  ASSUME RunInv, UNCHANGED <<state, proc, loaded>>
  PROVE  RunInv'
BY Zenon DEF RunInv

LEMMA UsageKept ==
  ASSUME UsageInv, UNCHANGED <<state, killed, cpu_ticks, cpu_ticks_limit, ticks_total, set_at>>
  PROVE  UsageInv'
BY Zenon DEF UsageInv, Larger

LEMMA NapKept ==
  ASSUME NapInv, UNCHANGED <<state, call, ticks, slept, tickslock, nap>>
  PROVE  NapInv'
BY Zenon DEF NapInv, Minus

LEMMA ReportKept ==
  ASSUME ReportInv, UNCHANGED <<state, call, cpu_ticks, ticks, active_ticks, idle_ticks, report, lived>>
  PROVE  ReportInv'
BY Zenon DEF ReportInv, Plus, Reported

\* No process has the number that stands for none.
LEMMA NoneIsNoSlot == None \notin Slots
BY DEF None, Slots

\* The types that each of the invariants needs.
LEMMA RunTypes ==
  ASSUME TypeInv
  PROVE  /\ state \in [Slots -> {"UNUSED", "RUNNABLE", "RUNNING", "SLEEPING"}]
         /\ proc \in [CPUs -> Slots \cup {None}] /\ loaded \in [CPUs -> Nat \cup {-1}]
BY Zenon DEF TypeInv, TypeOK

LEMMA UsageTypes ==
  ASSUME TypeInv
  PROVE  /\ state \in [Slots -> {"UNUSED", "RUNNABLE", "RUNNING", "SLEEPING"}]
         /\ killed \in [Slots -> BOOLEAN] /\ cpu_ticks \in [Slots -> Nat]
         /\ cpu_ticks_limit \in [Slots -> Nat] /\ ticks_total \in [Slots -> Nat]
         /\ set_at \in [Slots -> Nat]
BY Zenon DEF TypeInv, TypeOK

LEMMA NapTypes ==
  ASSUME TypeInv
  PROVE  /\ state \in [Slots -> {"UNUSED", "RUNNABLE", "RUNNING", "SLEEPING"}]
         /\ call \in [Slots -> {"none", "sleep", "report"}]
         /\ nap \in [Slots -> [ticks0 : 0..TickMod - 1, n : Nat]]
BY Zenon DEF TypeInv, TypeOK

LEMMA ReportTypes ==
  ASSUME TypeInv
  PROVE  /\ state \in [Slots -> {"UNUSED", "RUNNABLE", "RUNNING", "SLEEPING"}]
         /\ call \in [Slots -> {"none", "sleep", "report"}]
         /\ cpu_ticks \in [Slots -> Nat] /\ lived \subseteq Slots
         /\ report.by \in Slots \cup {None} /\ report.entry \in [Slots -> Int]
BY Zenon DEF TypeInv, TypeOK, Reports

LEMMA ClockTypes ==
  ASSUME TypeInv
  PROVE  /\ ticks \in Uints /\ active_ticks \in Uints /\ idle_ticks \in Uints
         /\ slept \in [Slots -> Nat] /\ tickslock \in Slots \cup {None}
BY Zenon DEF TypeInv, TypeOK, Uints

\* The process that a hart runs is on no other hart.
LEMMA Running ==
  ASSUME TypeInv, RunInv, NEW c \in CPUs, Runs(c)
  PROVE  /\ proc[c] \in Slots /\ state[proc[c]] = "RUNNING" /\ loaded[c] = -1
         /\ \A d \in CPUs : proc[d] = proc[c] => d = c
BY RunTypes, Zenon DEF RunInv, Runs

\* What a tick of the clock does to the clock and to those in pause().
LEMMA TickFacts ==
  ASSUME TypeInv, NapInv, ReportInv, NEW c \in CPUs, clock_tick(c)
  PROVE  /\ ticks' \in Uints /\ active_ticks' \in Uints /\ idle_ticks' \in Uints
         /\ slept' \in [Slots -> Nat]
         /\ ticks' = Plus(active_ticks', idle_ticks')
         /\ \A p \in Slots : call[p] # "sleep" => slept'[p] = 0
         /\ \A p \in Slots : call[p] = "sleep" => slept'[p] = Minus(ticks', nap[p].ticks0)
         /\ \A p \in Slots : Wake(c)[p] = "SLEEPING" \/ tickslock = p =>
                               call[p] = "sleep" /\ slept'[p] < nap[p].n
<1>1. TickMod \in Nat \ {0} /\ ticks \in Uints /\ active_ticks \in Uints /\ idle_ticks \in Uints
  BY ClockTypes, Zenon
<1>2. CASE c # 0
  <2>1. UNCHANGED <<ticks, active_ticks, idle_ticks, slept>> /\ Wake(c) = state
    BY <1>2, Zenon DEF clock_tick, Active, Wake
  <2> QED
    BY <1>1, <2>1, ClockTypes, Zenon DEF NapInv, ReportInv
<1>3. CASE c = 0
  <2>1. /\ ticks' = Plus(ticks, 1)
        /\ slept' = [p \in Slots |-> IF call[p] = "sleep" THEN slept[p] + 1 ELSE 0]
        /\ tickslock = None /\ \A p \in Slots : slept[p] < TickMod - 1
        /\ \/ active_ticks' = Plus(active_ticks, 1) /\ idle_ticks' = idle_ticks
           \/ active_ticks' = active_ticks /\ idle_ticks' = Plus(idle_ticks, 1)
    BY <1>3, Zenon DEF clock_tick, Active
  <2>2. ticks' \in Uints /\ active_ticks' \in Uints /\ idle_ticks' \in Uints
    BY <1>1, <2>1, ModRange DEF Uints, Plus
  <2>3. ticks' = Plus(active_ticks', idle_ticks')
    <3>1. ticks = Plus(active_ticks, idle_ticks)
      BY Zenon DEF ReportInv
    <3>2. CASE active_ticks' = Plus(active_ticks, 1) /\ idle_ticks' = idle_ticks
      BY <1>1, <2>1, <3>1, <3>2, TickAdds, Zenon DEF Uints, Plus
    <3>3. CASE active_ticks' = active_ticks /\ idle_ticks' = Plus(idle_ticks, 1)
      BY <1>1, <2>1, <3>1, <3>3, TickAdds, Zenon DEF Uints, Plus
    <3> QED
      BY <2>1, <3>2, <3>3, Zenon
  <2>4. ASSUME NEW p \in Slots, call[p] = "sleep"
        PROVE  slept'[p] = Minus(ticks', nap[p].ticks0)
    <3>1. nap[p].ticks0 \in Uints
      BY NapTypes, Zenon DEF Uints
    <3>2. Minus(ticks, nap[p].ticks0) = slept[p] /\ slept[p] < TickMod - 1
      BY <2>1, <2>4, Zenon DEF NapInv
    <3>3. Minus(ticks', nap[p].ticks0) = Minus(ticks, nap[p].ticks0) + 1
      BY <1>1, <2>1, <3>1, <3>2, TickElapses, Zenon DEF Uints, Plus, Minus
    <3> QED
      BY <2>1, <2>4, <3>2, <3>3, Zenon
  <2>5. \A p \in Slots : Wake(c)[p] # "SLEEPING"
    BY <1>3, RunTypes, Zenon DEF Wake
  <2>6. slept' \in [Slots -> Nat] /\ \A p \in Slots : call[p] # "sleep" => slept'[p] = 0
    BY <2>1, ClockTypes
  <2> QED
    BY <2>1, <2>2, <2>3, <2>4, <2>5, <2>6, NoneIsNoSlot, Zenon
<1> QED
  BY <1>2, <1>3, Zenon

\* wakeup(&ticks) makes sleepers runnable and changes nothing else.
LEMMA WakeFacts ==
  ASSUME TypeInv, NEW c \in CPUs
  PROVE  /\ Wake(c) \in [Slots -> {"UNUSED", "RUNNABLE", "RUNNING", "SLEEPING"}]
         /\ \A p \in Slots : /\ Wake(c)[p] = "UNUSED" <=> state[p] = "UNUSED"
                             /\ Wake(c)[p] = "RUNNING" <=> state[p] = "RUNNING"
BY RunTypes, Zenon DEF Wake

\* The clock after a tick.
LEMMA TickTypes ==
  ASSUME TypeInv, NapInv, ReportInv, NEW c \in CPUs, clock_tick(c)
  PROVE  /\ ticks' \in Uints /\ active_ticks' \in Uints /\ idle_ticks' \in Uints
         /\ slept' \in [Slots -> Nat]
BY TickFacts, Zenon

LEMMA TickSum ==
  ASSUME TypeInv, NapInv, ReportInv, NEW c \in CPUs, clock_tick(c)
  PROVE  ticks' = Plus(active_ticks', idle_ticks')
BY TickFacts, Zenon

\* A tick wakes those in pause() whose time may be over, so that no one sleeps
\* on, as long as the rest of the step leaves those in pause() alone.
LEMMA TickNaps ==
  ASSUME TypeInv, NapInv, ReportInv, NEW c \in CPUs, clock_tick(c), UNCHANGED <<call, tickslock>>,
         \A q \in Slots : call[q] = "sleep" => nap'[q] = nap[q],
         \A q \in Slots : state'[q] = "SLEEPING" => Wake(c)[q] = "SLEEPING"
  PROVE  NapInv'
BY TickFacts, Zenon DEF NapInv, Minus

\* A report stays sound when no process that it lists is freed or loses ticks.
LEMMA ReportMoves ==
  ASSUME ReportInv, ticks' = Plus(active_ticks', idle_ticks'), report' = report, lived' \subseteq lived,
         report.by # None =>
           /\ call'[report.by] = call[report.by]
           /\ \A q \in lived' : /\ state'[q] # "UNUSED"
                                /\ report.entry[q] <= cpu_ticks[q] => report.entry[q] <= cpu_ticks'[q]
  PROVE  ReportInv'
BY Zenon DEF ReportInv, Plus, Reported

-----------------------------------------------------------------------------
(* Every step preserves the invariant: one lemma for each action.          *)

\* A timer interrupt in user mode preserves the invariant.
LEMMA Inv_usertrap_timer ==
  ASSUME AccountingInv, NEW c \in CPUs, usertrap_timer(c)
  PROVE  AccountingInv'
<1> USE DEF AccountingInv, counts
<1>run. /\ proc[c] \in Slots /\ state[proc[c]] = "RUNNING" /\ loaded[c] = -1
        /\ \A d \in CPUs : proc[d] = proc[c] => d = c
  BY Running, Zenon DEF usertrap_timer
<1>tick. /\ clock_tick(c)
         /\ UNCHANGED <<counts, tickslock, report, workload>>
  BY Zenon DEF usertrap_timer
<1>1. CASE killed[proc[c]]
  <2> DEFINE p == proc[c]
  <2>act. /\ call[p] = "none"
          /\ state' = [Wake(c) EXCEPT ![p] = "UNUSED"]
          /\ proc' = [proc EXCEPT ![c] = None]
          /\ killed' = [killed EXCEPT ![p] = FALSE]
          /\ call' = [call EXCEPT ![p] = "none"]
          /\ nap' = [nap EXCEPT ![p] = NoNap]
          /\ cpu_ticks' = [cpu_ticks EXCEPT ![p] = 0]
          /\ cpu_ticks_limit' = [cpu_ticks_limit EXCEPT ![p] = 0]
          /\ ticks_total' = [ticks_total EXCEPT ![p] = 0]
          /\ set_at' = [set_at EXCEPT ![p] = 0]
          /\ lived' = lived \ {p}
    BY <1>1, Zenon DEF usertrap_timer, freeproc, Leave, CountTick
  <2> HIDE DEF p
  <2>run. /\ p \in Slots /\ state[p] = "RUNNING" /\ p = proc[c]
          /\ \A d \in CPUs : proc[d] = p => d = c
    BY <1>run, Zenon DEF p
  <2>1. TypeInv'
    <3>1. /\ state' \in [Slots -> {"UNUSED", "RUNNABLE", "RUNNING", "SLEEPING"}]
          /\ killed' \in [Slots -> BOOLEAN] /\ cpu_ticks' \in [Slots -> Nat]
          /\ cpu_ticks_limit' \in [Slots -> Nat] /\ ticks_total' \in [Slots -> Nat]
          /\ set_at' \in [Slots -> Nat]
      BY <1>tick, <2>act, <2>run, UsageTypes, WakeFacts, Zenon DEF OverLimit
    <3>2. /\ call' \in [Slots -> {"none", "sleep", "report"}]
          /\ nap' \in [Slots -> [ticks0 : 0..TickMod - 1, n : Nat]]
          /\ proc' \in [CPUs -> Slots \cup {None}]
      BY <1>tick, <2>act, <2>run, NapTypes, RunTypes DEF NoNap
    <3>3. UNCHANGED <<loaded, context_switches, switches, tickslock, report>> /\ lived' \subseteq Slots
      BY <1>tick, <2>act, ReportTypes, Zenon
    <3>4. ticks' \in Uints /\ active_ticks' \in Uints /\ idle_ticks' \in Uints /\ slept' \in [Slots -> Nat]
      BY <1>tick, TickTypes, Zenon
    <3> QED
      BY <3>1, <3>2, <3>3, <3>4, Zenon DEF TypeInv, TypeOK, Uints
  <2>2. RunInv'
    BY <1>run, <1>tick, <2>act, <2>run, WakeFacts, RunTypes, NoneIsNoSlot, SMTT(30) DEF RunInv
  <2>3. UsageInv'
    BY <1>tick, <2>act, <2>run, WakeFacts, UsageTypes DEF UsageInv, Larger, OverLimit
  <2>4. SwitchInv'
    BY <1>tick, SwitchKept, Zenon
  <2>5. NapInv'
    <3>1. /\ UNCHANGED <<call, tickslock>>
          /\ \A q \in Slots : call[q] = "sleep" => nap'[q] = nap[q]
          /\ \A q \in Slots : state'[q] = "SLEEPING" => Wake(c)[q] = "SLEEPING"
      BY <1>tick, <2>act, <2>run, NapTypes, WakeFacts
    <3> QED
      BY <1>tick, <3>1, TickNaps, Zenon
  <2>6. ReportInv'
    <3>1. /\ report' = report /\ lived' \subseteq lived
          /\ report.by # None =>
              /\ call'[report.by] = call[report.by]
              /\ \A q \in lived' : /\ state'[q] # "UNUSED"
                                   /\ report.entry[q] <= cpu_ticks[q] => report.entry[q] <= cpu_ticks'[q]
      BY <1>tick, <2>act, <2>run, ReportTypes, WakeFacts, SMTT(30) DEF ReportInv
    <3> QED
      BY <1>tick, <3>1, TickSum, ReportMoves, Zenon
  <2> QED
    BY <2>1, <2>2, <2>3, <2>4, <2>5, <2>6, Zenon
<1>2. CASE ~killed[proc[c]]
  <2> DEFINE p == proc[c]
  <2>act. /\ call[p] = "none"
          /\ state' = [Wake(c) EXCEPT ![p] = "RUNNABLE"]
          /\ proc' = [proc EXCEPT ![c] = None]
          /\ killed' = [killed EXCEPT ![p] = OverLimit(p, cpu_ticks[p] + 1)]
          /\ cpu_ticks' = [cpu_ticks EXCEPT ![p] = cpu_ticks[p] + 1]
          /\ ticks_total' = [ticks_total EXCEPT ![p] = ticks_total[p] + 1]
          /\ UNCHANGED <<call, nap, cpu_ticks_limit, set_at, lived>>
    BY <1>2, Zenon DEF usertrap_timer, freeproc, Leave, CountTick
  <2> HIDE DEF p
  <2>run. /\ p \in Slots /\ state[p] = "RUNNING" /\ p = proc[c]
          /\ \A d \in CPUs : proc[d] = p => d = c
    BY <1>run, Zenon DEF p
  <2>1. TypeInv'
    <3>1. /\ state' \in [Slots -> {"UNUSED", "RUNNABLE", "RUNNING", "SLEEPING"}]
          /\ killed' \in [Slots -> BOOLEAN] /\ cpu_ticks' \in [Slots -> Nat]
          /\ cpu_ticks_limit' \in [Slots -> Nat] /\ ticks_total' \in [Slots -> Nat]
          /\ set_at' \in [Slots -> Nat]
      BY <1>tick, <2>act, <2>run, UsageTypes, WakeFacts DEF OverLimit
    <3>2. /\ call' \in [Slots -> {"none", "sleep", "report"}]
          /\ nap' \in [Slots -> [ticks0 : 0..TickMod - 1, n : Nat]]
          /\ proc' \in [CPUs -> Slots \cup {None}]
      BY <1>tick, <2>act, <2>run, NapTypes, RunTypes, Zenon DEF NoNap
    <3>3. UNCHANGED <<loaded, context_switches, switches, tickslock, report>> /\ lived' \subseteq Slots
      BY <1>tick, <2>act, ReportTypes, Zenon
    <3>4. ticks' \in Uints /\ active_ticks' \in Uints /\ idle_ticks' \in Uints /\ slept' \in [Slots -> Nat]
      BY <1>tick, TickTypes, Zenon
    <3> QED
      BY <3>1, <3>2, <3>3, <3>4, Zenon DEF TypeInv, TypeOK, Uints
  <2>2. RunInv'
    BY <1>run, <1>tick, <2>act, <2>run, WakeFacts, RunTypes, NoneIsNoSlot, SMTT(30) DEF RunInv
  <2>3. UsageInv'
    <3>1. ASSUME NEW q \in Slots, q # p
          PROVE  /\ state'[q] = "UNUSED" <=> state[q] = "UNUSED"
                 /\ cpu_ticks'[q] = cpu_ticks[q] /\ ticks_total'[q] = ticks_total[q]
                 /\ killed'[q] = killed[q] /\ cpu_ticks_limit'[q] = cpu_ticks_limit[q] /\ set_at'[q] = set_at[q]
      BY <2>act, <2>run, <3>1, WakeFacts, UsageTypes, SMTT(30)
    <3>2. /\ state'[p] = "RUNNABLE" /\ cpu_ticks'[p] = cpu_ticks[p] + 1
          /\ ticks_total'[p] = ticks_total[p] + 1
          /\ killed'[p] = OverLimit(p, cpu_ticks[p] + 1) /\ cpu_ticks_limit'[p] = cpu_ticks_limit[p] /\ set_at'[p] = set_at[p]
      BY <2>act, <2>run, WakeFacts, UsageTypes, Zenon
    <3>3. /\ cpu_ticks[p] \in Nat /\ ticks_total[p] \in Nat /\ cpu_ticks_limit[p] \in Nat /\ set_at[p] \in Nat
          /\ ~killed[p]
      BY <1>2, <2>run, UsageTypes, Zenon
    <3>4. /\ ticks_total'[p] <= cpu_ticks'[p]
          /\ cpu_ticks_limit'[p] > 0 =>
               ticks_total'[p] <= Larger(cpu_ticks_limit'[p], set_at'[p]) + (IF killed'[p] THEN 1 ELSE 0)
      <4>1. ticks_total[p] <= cpu_ticks[p] /\ (cpu_ticks_limit[p] > 0 => ticks_total[p] <= Larger(cpu_ticks_limit[p], set_at[p]))
        BY <2>run, <3>3 DEF UsageInv, Larger
      <4>2. CASE killed'[p] = TRUE
        BY <3>2, <3>3, <4>1, <4>2 DEF Larger
      <4>3. CASE killed'[p] = FALSE
        <5>1. ~OverLimit(p, cpu_ticks[p] + 1)
          BY <3>2, <4>3, Zenon DEF OverLimit
        <5>2. cpu_ticks_limit[p] > 0 => cpu_ticks[p] + 1 <= cpu_ticks_limit[p]
          BY <3>3, <5>1, SMTT(30) DEF OverLimit
        <5> QED
          BY <3>2, <3>3, <4>1, <4>3, <5>2 DEF Larger
      <4> QED
        BY <3>2, <4>2, <4>3, Zenon DEF OverLimit
    <3> QED
      BY <3>1, <3>2, <3>4, Zenon DEF UsageInv
  <2>4. SwitchInv'
    BY <1>tick, SwitchKept, Zenon
  <2>5. NapInv'
    <3>1. /\ UNCHANGED <<call, tickslock>>
          /\ \A q \in Slots : call[q] = "sleep" => nap'[q] = nap[q]
          /\ \A q \in Slots : state'[q] = "SLEEPING" => Wake(c)[q] = "SLEEPING"
      BY <1>tick, <2>act, <2>run, NapTypes, WakeFacts
    <3> QED
      BY <1>tick, <3>1, TickNaps, Zenon
  <2>6. ReportInv'
    <3>1. /\ report' = report /\ lived' \subseteq lived
          /\ report.by # None =>
              /\ call'[report.by] = call[report.by]
              /\ \A q \in lived' : /\ state'[q] # "UNUSED"
                                   /\ report.entry[q] <= cpu_ticks[q] => report.entry[q] <= cpu_ticks'[q]
      BY <1>tick, <2>act, <2>run, ReportTypes, WakeFacts, SMTT(30) DEF ReportInv
    <3> QED
      BY <1>tick, <3>1, TickSum, ReportMoves, Zenon
  <2> QED
    BY <2>1, <2>2, <2>3, <2>4, <2>5, <2>6, Zenon
<1> QED
  BY <1>1, <1>2, Zenon

\* A timer interrupt in the kernel preserves the invariant.
LEMMA Inv_kerneltrap_timer ==
  ASSUME AccountingInv, NEW c \in CPUs, kerneltrap_timer(c)
  PROVE  AccountingInv'
<1> USE DEF AccountingInv, counts
<1>tick. /\ clock_tick(c)
         /\ UNCHANGED <<killed, call, cpu_ticks_limit, ticks_total, set_at, counts, nap, tickslock,
                        report, workload>>
  BY Zenon DEF kerneltrap_timer, pausing, reports
<1> DEFINE p == proc[c]
<1>act. /\ call[p] # "none" /\ tickslock # p
        /\ state' = [Wake(c) EXCEPT ![p] = "RUNNABLE"]
        /\ proc' = [proc EXCEPT ![c] = None]
        /\ cpu_ticks' = [cpu_ticks EXCEPT ![p] = cpu_ticks[p] + 1]
        /\ lived' = lived
  BY Zenon DEF kerneltrap_timer, Interruptible, CountTick, Leave, usage, reports
<1>run. /\ p \in Slots /\ state[p] = "RUNNING" /\ loaded[c] = -1
        /\ \A d \in CPUs : proc[d] = p => d = c
  BY Running, Zenon DEF kerneltrap_timer, Interruptible
<1> HIDE DEF p
<1>1. TypeInv'
  <2>1. /\ state' \in [Slots -> {"UNUSED", "RUNNABLE", "RUNNING", "SLEEPING"}]
        /\ killed' \in [Slots -> BOOLEAN] /\ cpu_ticks' \in [Slots -> Nat]
        /\ cpu_ticks_limit' \in [Slots -> Nat] /\ ticks_total' \in [Slots -> Nat]
        /\ set_at' \in [Slots -> Nat]
    BY <1>tick, <1>act, <1>run, UsageTypes, WakeFacts
  <2>2. /\ call' \in [Slots -> {"none", "sleep", "report"}]
        /\ nap' \in [Slots -> [ticks0 : 0..TickMod - 1, n : Nat]]
        /\ proc' \in [CPUs -> Slots \cup {None}]
    BY <1>tick, <1>act, <1>run, NapTypes, RunTypes, Zenon DEF NoNap
  <2>3. UNCHANGED <<loaded, context_switches, switches, tickslock, report>> /\ lived' \subseteq Slots
    BY <1>tick, <1>act, ReportTypes, Zenon
  <2>4. ticks' \in Uints /\ active_ticks' \in Uints /\ idle_ticks' \in Uints /\ slept' \in [Slots -> Nat]
    BY <1>tick, TickTypes, Zenon
  <2> QED
    BY <2>1, <2>2, <2>3, <2>4, Zenon DEF TypeInv, TypeOK, Uints
<1>2. RunInv'
  BY <1>tick, <1>act, <1>run, WakeFacts, RunTypes, NoneIsNoSlot, SMTT(30) DEF RunInv, p
<1>3. UsageInv'
  BY <1>tick, <1>act, <1>run, WakeFacts, UsageTypes, SMTT(30) DEF UsageInv, Larger
<1>4. SwitchInv'
  BY <1>tick, SwitchKept, Zenon
<1>5. NapInv'
  <2>1. /\ UNCHANGED <<call, tickslock>>
        /\ \A q \in Slots : call[q] = "sleep" => nap'[q] = nap[q]
        /\ \A q \in Slots : state'[q] = "SLEEPING" => Wake(c)[q] = "SLEEPING"
    BY <1>tick, <1>act, <1>run, NapTypes, WakeFacts, Zenon
  <2> QED
    BY <1>tick, <2>1, TickNaps, Zenon
<1>6. ReportInv'
  <2>1. /\ report' = report /\ lived' \subseteq lived
        /\ report.by # None =>
            /\ call'[report.by] = call[report.by]
            /\ \A q \in lived' : /\ state'[q] # "UNUSED"
                                 /\ report.entry[q] <= cpu_ticks[q] => report.entry[q] <= cpu_ticks'[q]
    BY <1>tick, <1>act, <1>run, ReportTypes, WakeFacts, SMTT(30) DEF ReportInv
  <2> QED
    BY <1>tick, <2>1, TickSum, ReportMoves, Zenon
<1> QED
  BY <1>1, <1>2, <1>3, <1>4, <1>5, <1>6, Zenon

\* A timer interrupt in scheduler() preserves the invariant.
LEMMA Inv_scheduler_timer ==
  ASSUME AccountingInv, NEW c \in CPUs, scheduler_timer(c)
  PROVE  AccountingInv'
<1> USE DEF AccountingInv
<1>act. /\ clock_tick(c) /\ state' = Wake(c)
        /\ UNCHANGED <<killed, call, cpu_ticks, cpu_ticks_limit, ticks_total, set_at, proc>>
        /\ UNCHANGED <<loaded, context_switches, switches, tickslock, nap, report, lived, workload>>
  BY Zenon DEF scheduler_timer, usage, counts, clock, pausing, reports
<1>1. TypeInv'
  <2>1. ticks' \in Uints /\ active_ticks' \in Uints /\ idle_ticks' \in Uints /\ slept' \in [Slots -> Nat]
    BY <1>act, TickTypes, Zenon
  <2>2. state' \in [Slots -> {"UNUSED", "RUNNABLE", "RUNNING", "SLEEPING"}]
    BY <1>act, WakeFacts, Zenon
  <2> QED
    BY <1>act, <2>1, <2>2, Zenon DEF TypeInv, TypeOK, Uints
<1>2. RunInv'
  BY <1>act, WakeFacts, RunTypes, NoneIsNoSlot, SMTT(30) DEF RunInv
<1>3. UsageInv'
  BY <1>act, WakeFacts, UsageTypes, Zenon DEF UsageInv, Larger
<1>4. SwitchInv'
  BY <1>act, SwitchKept, Zenon
<1>5. NapInv'
  <2>1. /\ UNCHANGED <<call, tickslock>>
        /\ \A q \in Slots : call[q] = "sleep" => nap'[q] = nap[q]
        /\ \A q \in Slots : state'[q] = "SLEEPING" => Wake(c)[q] = "SLEEPING"
    BY <1>act, NapTypes, WakeFacts, Zenon
  <2> QED
    BY <1>act, <2>1, TickNaps, Zenon
<1>6. ReportInv'
  <2>1. /\ report' = report /\ lived' \subseteq lived
        /\ report.by # None =>
            /\ call'[report.by] = call[report.by]
            /\ \A q \in lived' : /\ state'[q] # "UNUSED"
                                 /\ report.entry[q] <= cpu_ticks[q] => report.entry[q] <= cpu_ticks'[q]
    BY <1>act, ReportTypes, WakeFacts, Zenon DEF ReportInv
  <2> QED
    BY <1>act, <2>1, TickSum, ReportMoves, Zenon
<1> QED
  BY <1>1, <1>2, <1>3, <1>4, <1>5, <1>6, Zenon

\* exit() preserves the invariant.
LEMMA Inv_exit ==
  ASSUME AccountingInv, NEW c \in CPUs, exit(c)
  PROVE  AccountingInv'
<1> USE DEF AccountingInv
<1>act. /\ proc[c] # 1 /\ call[proc[c]] = "none"
        /\ killed' = [killed EXCEPT ![proc[c]] = FALSE] /\ call' = [call EXCEPT ![proc[c]] = "none"]
        /\ nap' = [nap EXCEPT ![proc[c]] = NoNap] /\ cpu_ticks' = [cpu_ticks EXCEPT ![proc[c]] = 0]
        /\ cpu_ticks_limit' = [cpu_ticks_limit EXCEPT ![proc[c]] = 0]
        /\ ticks_total' = [ticks_total EXCEPT ![proc[c]] = 0] /\ set_at' = [set_at EXCEPT ![proc[c]] = 0]
        /\ lived' = lived \ {proc[c]} /\ state' = [state EXCEPT ![proc[c]] = "UNUSED"]
        /\ proc' = [proc EXCEPT ![c] = None]
        /\ UNCHANGED <<loaded, context_switches, switches, ticks, active_ticks, idle_ticks, slept>>
        /\ UNCHANGED <<tickslock, report, workload>>
  BY Zenon DEF exit, freeproc, Leave, usage, counts, clock, pausing, reports
<1>run. /\ proc[c] \in Slots /\ state[proc[c]] = "RUNNING" /\ loaded[c] = -1
        /\ \A d \in CPUs : proc[d] = proc[c] => d = c
  BY Running, Zenon DEF exit
<1>1. TypeInv'
  <2>1. /\ state' \in [Slots -> {"UNUSED", "RUNNABLE", "RUNNING", "SLEEPING"}]
        /\ killed' \in [Slots -> BOOLEAN] /\ cpu_ticks' \in [Slots -> Nat]
        /\ cpu_ticks_limit' \in [Slots -> Nat] /\ ticks_total' \in [Slots -> Nat]
        /\ set_at' \in [Slots -> Nat]
    BY <1>act, <1>run, UsageTypes, Zenon
  <2>2. /\ call' \in [Slots -> {"none", "sleep", "report"}]
        /\ nap' \in [Slots -> [ticks0 : 0..TickMod - 1, n : Nat]]
        /\ proc' \in [CPUs -> Slots \cup {None}]
    BY <1>act, <1>run, NapTypes, RunTypes DEF NoNap
  <2> QED
    BY <1>act, <2>1, <2>2, Zenon DEF TypeInv, TypeOK, Uints
<1>2. RunInv'
  BY <1>act, <1>run, NoneIsNoSlot, RunTypes, Zenon DEF RunInv
<1>3. UsageInv'
  BY <1>act, <1>run, UsageTypes DEF UsageInv, Larger
<1>4. SwitchInv'
  BY <1>act, SwitchKept, Zenon
<1>5. NapInv'
  BY <1>act, <1>run, NapTypes, Zenon DEF NapInv
<1>6. ReportInv'
  <2>1. /\ ticks' = Plus(active_ticks', idle_ticks') /\ report' = report /\ lived' \subseteq lived
        /\ report.by # None =>
             /\ call'[report.by] = call[report.by]
             /\ \A q \in lived' : /\ state'[q] # "UNUSED"
                                  /\ report.entry[q] <= cpu_ticks[q] => report.entry[q] <= cpu_ticks'[q]
    BY <1>act, <1>run, ReportTypes, Zenon DEF ReportInv, Plus
  <2> QED
    BY <2>1, ReportMoves, Zenon
<1> QED
  BY <1>1, <1>2, <1>3, <1>4, <1>5, <1>6, Zenon

\* setusagelimit() preserves the invariant.
LEMMA Inv_sys_setusagelimit ==
  ASSUME AccountingInv, NEW c \in CPUs, NEW p \in Slots, NEW max \in Limits, sys_setusagelimit(c, p, max)
  PROVE  AccountingInv'
<1> USE DEF AccountingInv
<1>act. /\ state[p] # "UNUSED"
        /\ cpu_ticks_limit' = [cpu_ticks_limit EXCEPT ![p] = IF max < 0 THEN 0 ELSE max]
        /\ set_at' = [set_at EXCEPT ![p] = cpu_ticks[p]]
        /\ UNCHANGED <<state, killed, call, cpu_ticks, ticks_total, proc, loaded, context_switches, switches>>
        /\ UNCHANGED <<ticks, active_ticks, idle_ticks, slept, tickslock, nap, report, lived, workload>>
  BY Zenon DEF sys_setusagelimit, UsageLimit, usage, counts, clock, pausing, reports
<1>1. TypeInv'
  <2>1. cpu_ticks_limit' \in [Slots -> Nat] /\ set_at' \in [Slots -> Nat]
    BY <1>act, UsageTypes
  <2> QED
    BY <1>act, <2>1, Zenon DEF TypeInv, TypeOK
<1>2. RunInv'
  BY <1>act, RunKept, Zenon
<1>3. UsageInv'
  BY <1>act, UsageTypes DEF UsageInv, Larger
<1>4. SwitchInv'
  BY <1>act, SwitchKept, Zenon
<1>5. NapInv'
  BY <1>act, NapKept, Zenon
<1>6. ReportInv'
  BY <1>act, ReportKept, Zenon
<1> QED
  BY <1>1, <1>2, <1>3, <1>4, <1>5, <1>6, Zenon

\* kill() preserves the invariant.
LEMMA Inv_kkill ==
  ASSUME AccountingInv, NEW c \in CPUs, NEW p \in Slots, kkill(c, p)
  PROVE  AccountingInv'
<1> USE DEF AccountingInv
<1>act. /\ p # 1 /\ state[p] # "UNUSED" /\ killed' = [killed EXCEPT ![p] = TRUE]
        /\ state' = [state EXCEPT ![p] = IF state[p] = "SLEEPING" THEN "RUNNABLE" ELSE state[p]]
        /\ UNCHANGED <<call, cpu_ticks, cpu_ticks_limit, ticks_total, set_at, proc>>
        /\ UNCHANGED <<loaded, context_switches, switches, ticks, active_ticks, idle_ticks, slept>>
        /\ UNCHANGED <<tickslock, nap, report, lived, workload>>
  BY Zenon DEF kkill, usage, counts, clock, pausing, reports
<1>1. TypeInv'
  <2>1. state' \in [Slots -> {"UNUSED", "RUNNABLE", "RUNNING", "SLEEPING"}] /\ killed' \in [Slots -> BOOLEAN]
    BY <1>act, UsageTypes, Zenon
  <2> QED
    BY <1>act, <2>1, Zenon DEF TypeInv, TypeOK
<1>2. RunInv'
  BY <1>act, NoneIsNoSlot, RunTypes, Zenon DEF RunInv
<1>3. UsageInv'
  BY <1>act, UsageTypes DEF UsageInv, Larger
<1>4. SwitchInv'
  BY <1>act, SwitchKept, Zenon
<1>5. NapInv'
  BY <1>act, NapTypes, Zenon DEF NapInv, Minus
<1>6. ReportInv'
  <2>1. /\ ticks' = Plus(active_ticks', idle_ticks') /\ report' = report /\ lived' \subseteq lived
        /\ report.by # None =>
             /\ call'[report.by] = call[report.by]
             /\ \A q \in lived' : /\ state'[q] # "UNUSED"
                                  /\ report.entry[q] <= cpu_ticks[q] => report.entry[q] <= cpu_ticks'[q]
    BY <1>act, ReportTypes, Zenon DEF ReportInv, Plus
  <2> QED
    BY <2>1, ReportMoves, Zenon
<1> QED
  BY <1>1, <1>2, <1>3, <1>4, <1>5, <1>6, Zenon

\* The start of pause() preserves the invariant.
LEMMA Inv_sys_pause ==
  ASSUME AccountingInv, NEW c \in CPUs, NEW n \in Naps, sys_pause(c, n)
  PROVE  AccountingInv'
<1> USE DEF AccountingInv, usage, counts, clock, pausing, reports, sys_pause, pause_test, Elapsed, Calls
<1>run. proc[c] \in Slots /\ state[proc[c]] = "RUNNING"
  BY Running, Zenon DEF Calls
<1>1. TypeInv'
  <2>1. /\ call' \in [Slots -> {"none", "sleep", "report"}] /\ tickslock' \in Slots \cup {None}
        /\ nap' \in [Slots -> [ticks0 : 0..TickMod - 1, n : Nat]] /\ slept' \in [Slots -> Nat]
    BY <1>run, NapTypes, ClockTypes DEF NoNap, Uints
  <2> QED
    BY <2>1, Zenon DEF TypeInv, TypeOK
<1>2. RunInv'
  BY RunKept, Zenon
<1>3. UsageInv'
  BY UsageKept, Zenon
<1>4. SwitchInv'
  BY SwitchKept, Zenon
<1>5. NapInv'
  <2>1. Minus(ticks, ticks) = 0
    BY ModSmall, ClockTypes, SMTT(30) DEF Minus, Uints
  <2> QED
    BY <1>run, <2>1, NapTypes, SMTT(30) DEF NapInv, NoNap
<1>6. ReportInv'
  BY Zenon DEF ReportInv, RunInv, TypeInv, TypeOK, Plus, Reported
<1> QED
  BY <1>1, <1>2, <1>3, <1>4, <1>5, <1>6, Zenon

\* Going to sleep in pause() preserves the invariant.
LEMMA Inv_pause_sleep ==
  ASSUME AccountingInv, NEW c \in CPUs, pause_sleep(c)
  PROVE  AccountingInv'
<1> USE DEF AccountingInv
<1>act. /\ call[proc[c]] = "sleep" /\ tickslock = proc[c] /\ tickslock' = None
        /\ state' = [state EXCEPT ![proc[c]] = "SLEEPING"] /\ proc' = [proc EXCEPT ![c] = None]
        /\ UNCHANGED <<killed, call, cpu_ticks, cpu_ticks_limit, ticks_total, set_at>>
        /\ UNCHANGED <<loaded, context_switches, switches, ticks, active_ticks, idle_ticks, slept>>
        /\ UNCHANGED <<nap, report, lived, workload>>
  BY Zenon DEF pause_sleep, Leave, usage, counts, clock, pausing, reports
<1>run. /\ proc[c] \in Slots /\ state[proc[c]] = "RUNNING" /\ loaded[c] = -1
        /\ \A d \in CPUs : proc[d] = proc[c] => d = c
  BY Running, Zenon DEF pause_sleep
<1>1. TypeInv'
  BY <1>act, Zenon DEF TypeInv, TypeOK
<1>2. RunInv'
  BY <1>act, <1>run, NoneIsNoSlot, RunTypes, Zenon DEF RunInv
<1>3. UsageInv'
  BY <1>act, UsageTypes, Zenon DEF UsageInv, Larger
<1>4. SwitchInv'
  BY <1>act, SwitchKept, Zenon
<1>5. NapInv'
  BY <1>act, <1>run, NoneIsNoSlot, NapTypes, Zenon DEF NapInv, Minus
<1>6. ReportInv'
  <2>1. /\ ticks' = Plus(active_ticks', idle_ticks') /\ report' = report /\ lived' \subseteq lived
        /\ report.by # None =>
             /\ call'[report.by] = call[report.by]
             /\ \A q \in lived' : /\ state'[q] # "UNUSED"
                                  /\ report.entry[q] <= cpu_ticks[q] => report.entry[q] <= cpu_ticks'[q]
    BY <1>act, <1>run, ReportTypes, Zenon DEF ReportInv, Plus
  <2> QED
    BY <2>1, ReportMoves, Zenon
<1> QED
  BY <1>1, <1>2, <1>3, <1>4, <1>5, <1>6, Zenon

\* Waking up in pause() preserves the invariant.
LEMMA Inv_pause_woken ==
  ASSUME AccountingInv, NEW c \in CPUs, pause_woken(c)
  PROVE  AccountingInv'
<1> USE DEF AccountingInv, usage, counts, clock, pausing, reports, pause_woken, pause_test, Elapsed
<1>run. proc[c] \in Slots /\ state[proc[c]] = "RUNNING"
  BY Running, Zenon DEF Calls
<1>1. TypeInv'
  <2>1. /\ call' \in [Slots -> {"none", "sleep", "report"}] /\ tickslock' \in Slots \cup {None}
        /\ nap' \in [Slots -> [ticks0 : 0..TickMod - 1, n : Nat]] /\ slept' \in [Slots -> Nat]
    BY <1>run, NapTypes, ClockTypes DEF NoNap
  <2> QED
    BY <2>1, Zenon DEF TypeInv, TypeOK
<1>2. RunInv'
  BY RunKept, Zenon
<1>3. UsageInv'
  BY UsageKept, Zenon
<1>4. SwitchInv'
  BY SwitchKept, Zenon
<1>5. NapInv'
  BY <1>run, NoneIsNoSlot, NapTypes, ClockTypes, SMTT(30) DEF NapInv, NoNap
<1>6. ReportInv'
  BY Zenon DEF ReportInv, RunInv, TypeInv, TypeOK, Plus, Reported
<1> QED
  BY <1>1, <1>2, <1>3, <1>4, <1>5, <1>6, Zenon

\* The end of a report preserves the invariant.
LEMMA Inv_report_return ==
  ASSUME AccountingInv, NEW c \in CPUs, report_return(c)
  PROVE  AccountingInv'
<1> USE DEF AccountingInv
<1>act. /\ report.by = proc[c] /\ report' = NoReport /\ lived' = {}
        /\ call' = [call EXCEPT ![proc[c]] = "none"]
        /\ UNCHANGED <<state, killed, cpu_ticks, cpu_ticks_limit, ticks_total, set_at, proc>>
        /\ UNCHANGED <<loaded, context_switches, switches, ticks, active_ticks, idle_ticks, slept>>
        /\ UNCHANGED <<tickslock, nap, workload>>
  BY Zenon DEF report_return, usage, counts, clock, pausing, reports
<1>run. proc[c] \in Slots /\ state[proc[c]] = "RUNNING"
  BY Running, Zenon DEF report_return
<1>1. TypeInv'
  <2>1. report' \in Reports
    BY <1>act, SMTT(30) DEF Reports, NoReport, Uints
  <2>2. TypeOK'
    BY <1>act, <1>run, <2>1, Zenon DEF TypeInv, TypeOK, Reports
  <2> QED
    BY <1>act, <2>1, <2>2, Zenon DEF TypeInv
<1>2. RunInv'
  BY <1>act, RunKept, Zenon
<1>3. UsageInv'
  BY <1>act, UsageKept, Zenon
<1>4. SwitchInv'
  BY <1>act, SwitchKept, Zenon
<1>5. NapInv'
  <2>1. call[proc[c]] = "report"
    BY <1>act, <1>run, NoneIsNoSlot, ZenonT(30) DEF ReportInv
  <2> QED
    BY <1>act, <1>run, <2>1, NapTypes, Zenon DEF NapInv, Minus
<1>6. ReportInv'
  BY <1>act, Zenon DEF ReportInv, TypeInv, TypeOK, NoReport, Plus
<1> QED
  BY <1>1, <1>2, <1>3, <1>4, <1>5, <1>6, Zenon

\* Only the test of pause() against the clock, or a kill, ends a pause().
LEMMA PauseEnds ==
  ASSUME AccountingInv, [Next]_vars, NEW p \in Slots, call[p] = "sleep", call'[p] = "none"
  PROVE  slept[p] >= nap[p].n \/ killed[p]
<1>0. TypeInv /\ RunInv /\ NapInv /\ ReportInv
  BY Zenon DEF AccountingInv
<1>1. ASSUME NEW c \in CPUs, usertrap_timer(c)
      PROVE  FALSE
  BY <1>1, <1>0, Zenon DEF usertrap_timer, freeproc, TypeInv, TypeOK
<1>2. ASSUME NEW c \in CPUs, exit(c)
      PROVE  FALSE
  BY <1>2, <1>0, Zenon DEF exit, freeproc, TypeInv, TypeOK
<1>3. ASSUME NEW c \in CPUs, NEW n \in Naps, sys_pause(c, n)
      PROVE  FALSE
  BY <1>3, <1>0, Zenon DEF sys_pause, pause_test, Calls, TypeInv, TypeOK
<1>4. ASSUME NEW c \in CPUs, pause_woken(c)
      PROVE  slept[p] >= nap[p].n \/ killed[p]
  <2>1. p = proc[c]
    BY <1>4, <1>0, Zenon DEF pause_woken, pause_test, TypeInv, TypeOK
  <2>2. Elapsed(nap[p]) \/ killed[p]
    BY <1>4, <1>0, <2>1, Zenon DEF pause_woken, pause_test, TypeInv, TypeOK
  <2> QED
    BY <1>0, <2>2, Zenon DEF Elapsed, NapInv
<1>5. ASSUME NEW c \in CPUs, report_return(c)
      PROVE  FALSE
  <2>0. Runs(c) /\ report.by = proc[c]
    BY <1>5, Zenon DEF report_return
  <2>1. proc[c] \in Slots /\ call[proc[c]] = "report"
    BY <1>0, <2>0, Running, NoneIsNoSlot, Zenon DEF ReportInv
  <2> QED
    BY <1>5, <1>0, <2>1, Zenon DEF report_return, TypeInv, TypeOK
<1>6. ASSUME NEW c \in CPUs, NEW r, Begin(c, r)
      PROVE  FALSE
  BY <1>6, <1>0, Zenon DEF Begin, TypeInv, TypeOK
<1>7. CASE UNCHANGED call
  BY <1>7, Zenon
<1>8. CASE Next
  <2>1. PICK c \in CPUs : \/ usertrap_timer(c) \/ exit(c) \/ pause_woken(c) \/ report_return(c)
                          \/ \E n \in Naps : sys_pause(c, n)
                          \/ \E r : Begin(c, r)
                          \/ UNCHANGED call
    <3>1. PICK c \in CPUs : \/ \E s \in Slots : scheduler_run(c, s) \/ kkill(c, s)
                            \/ \E s \in Slots, max \in Limits : sys_setusagelimit(c, s, max)
                            \/ scheduler_count(c) \/ usertrap_timer(c) \/ kerneltrap_timer(c) \/ scheduler_timer(c)
                            \/ exit(c) \/ kfork(c) \/ \E n \in Naps : sys_pause(c, n)
                            \/ pause_sleep(c) \/ pause_woken(c)
                            \/ sys_getsyshealth(c) \/ \E max \in Entries : sys_proccost(c, max)
                            \/ report_slot(c) \/ report_return(c)
      BY <1>8, Zenon DEF Next
    <3>2. /\ \A s \in Slots : scheduler_run(c, s) \/ kkill(c, s) => UNCHANGED call
          /\ \A s \in Slots, max \in Limits : sys_setusagelimit(c, s, max) => UNCHANGED call
      BY Zenon DEF scheduler_run, kkill, sys_setusagelimit
    <3>3. /\ scheduler_count(c) => UNCHANGED call
          /\ kerneltrap_timer(c) => UNCHANGED call
          /\ scheduler_timer(c) => UNCHANGED call
          /\ kfork(c) => UNCHANGED call
          /\ pause_sleep(c) => UNCHANGED call
          /\ report_slot(c) => UNCHANGED call
      BY Zenon DEF scheduler_count, kerneltrap_timer, scheduler_timer, kfork, pause_sleep, report_slot
    <3>4. sys_getsyshealth(c) => \E r : Begin(c, r)
      BY Zenon DEF sys_getsyshealth
    <3>5. \A max \in Entries : sys_proccost(c, max) => \E r : Begin(c, r)
      BY Zenon DEF sys_proccost
    <3> QED
      BY <3>1, <3>2, <3>3, <3>4, <3>5, Zenon
  <2> QED
    BY <2>1, <1>1, <1>2, <1>3, <1>4, <1>5, <1>6, <1>7, Zenon
<1> QED
  BY <1>7, <1>8, Zenon DEF vars
=============================================================================
