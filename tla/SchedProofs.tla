---------------------------- MODULE SchedProofs -----------------------------
(***************************************************************************)
(* Proofs about the scheduler for any number of processes and harts, any   *)
(* budgets and window, and a clock of any width.                           *)
(***************************************************************************)
EXTENDS Sched, TLAPS

USE SchedAssumption

-----------------------------------------------------------------------------
(* The inductive invariant: the two properties need one another's facts    *)
(* about RUNNING processes, and nothing else.                              *)

SchedInv == TypeOK /\ RunningOnce /\ NoOverdraft

-----------------------------------------------------------------------------
(* Lemmas about the parts of the steps.                                    *)

\* Unsigned arithmetic gives a uint.
LEMMA ModRange ==
  ASSUME NEW M \in Nat \ {0}, NEW x \in Int
  PROVE  x % M \in 0..M - 1
BY SMT

\* Unsigned subtraction gives a uint, which is an age.
LEMMA ElapsedRange ==
  ASSUME NEW t \in Int, NEW start \in Int
  PROVE  Elapsed(t, start) \in 0..TickMod - 1 /\ Elapsed(t, start) \in 0..AgeMax
<1>1. (t - start) % TickMod \in 0..TickMod - 1
  BY ModRange
<1> QED
  BY <1>1 DEF Elapsed, AgeMax

\* The ranges that the steps compute with.
LEMMA Ranges ==
  ASSUME TypeOK
  PROVE  /\ AgeMax \in Nat /\ ticks \in 0..TickMod - 1 /\ 1 \in 1..NPROC + 1
         /\ \A q \in Slots : cpu_budget[q] \in Nat /\ q + 1 \in 1..NPROC + 1
         /\ \A c \in CPUs : now[c] \in 0..TickMod - 1
<1>1. AgeMax \in Nat /\ 1 \in 1..NPROC + 1 /\ \A q \in Slots : q + 1 \in 1..NPROC + 1
  BY DEF AgeMax, Slots
<1>2. \A q \in Slots : cpu_budget[q] \in Limits \cup {0}
  BY Zenon DEF TypeOK
<1>3. ASSUME NEW q \in Slots
      PROVE  cpu_budget[q] \in Nat
  <2>1. CASE cpu_budget[q] \in Limits
    BY <2>1, Zenon
  <2>2. CASE cpu_budget[q] = 0
    BY <2>2
  <2> QED
    BY <1>2, <2>1, <2>2, Zenon
<1> QED
  BY <1>1, <1>3, Zenon DEF TypeOK

\* A tick of the clock keeps clock and ages in range.
LEMMA TickTypes ==
  ASSUME TypeOK, NEW c \in CPUs, Tick(c)
  PROVE  ticks' \in 0..TickMod - 1 /\ age' \in [Slots -> 0..AgeMax]
<1>1. (ticks + 1) % TickMod \in 0..TickMod - 1
  <2>1. ticks + 1 \in Int
    BY Ranges
  <2> QED
    BY <2>1, ModRange, Zenon
<1>2. AgeMax \in Nat
  BY Ranges, Zenon
<1>3. \A q \in Slots : age[q] \in 0..AgeMax
  BY Zenon DEF TypeOK
<1>4. \A q \in Slots : (IF c = 0 /\ cpu_budget[q] > 0 /\ age[q] < AgeMax THEN age[q] + 1 ELSE age[q]) \in 0..AgeMax
  BY <1>2, <1>3
<1> QED
  BY <1>1, <1>4, Zenon DEF Tick, TypeOK

\* A charge adds at most one tick.
LEMMA CountAdds ==
  ASSUME NEW q, NEW n \in Nat
  PROVE  Count(q, n) \in Nat /\ Count(q, n) <= n + 1
BY DEF Count

\* The process that a hart runs, which no other hart runs.
LEMMA Running ==
  ASSUME SchedInv, NEW c \in CPUs, at[c] \in {"run", "charge", "yield"}
  PROVE  /\ p[c] \in Slots /\ state[p[c]] = "RUNNING"
         /\ \A d \in CPUs : Runs(d, p[c]) => d = c
BY Zenon DEF SchedInv, TypeOK, RunningOnce, Runs

\* Giving up the CPU in a state other than RUNNING.
LEMMA BackRuns ==
  ASSUME SchedInv, NEW c \in CPUs, at[c] \in {"run", "charge", "yield"},
         NEW s \in {"UNUSED", "RUNNABLE", "SLEEPING"}, Back(c, s)
  PROVE  /\ RunningOnce'
         /\ state' \in [Slots -> {"UNUSED", "RUNNABLE", "RUNNING", "SLEEPING"}]
         /\ at' \in [CPUs -> {"start", "interrupted", "scan", "run", "charge", "yield", "wfi"}]
         /\ now' \in [CPUs -> 0..TickMod - 1]
         /\ p' \in [CPUs -> 1..NPROC + 1]
         /\ found' \in [CPUs -> BOOLEAN]
         /\ state'[p[c]] = s /\ \A q \in Slots : q # p[c] => state'[q] = state[q]
         /\ \A d \in CPUs, q \in Slots : Runs(d, q)' => Runs(d, q) /\ at'[d] = at[d] /\ q # p[c]
<1>1. /\ p[c] \in Slots /\ state[p[c]] = "RUNNING"
      /\ \A d \in CPUs : Runs(d, p[c]) => d = c
  BY Running, Zenon
<1>2. /\ state' = [state EXCEPT ![p[c]] = s]
      /\ at' = [at EXCEPT ![c] = "scan"]
      /\ p' = [p EXCEPT ![c] = p[c] + 1]
      /\ found' = [found EXCEPT ![c] = TRUE]
      /\ now' = now
  BY Zenon DEF Back
<1>3. /\ state' \in [Slots -> {"UNUSED", "RUNNABLE", "RUNNING", "SLEEPING"}]
      /\ at' \in [CPUs -> {"start", "interrupted", "scan", "run", "charge", "yield", "wfi"}]
      /\ now' \in [CPUs -> 0..TickMod - 1]
      /\ found' \in [CPUs -> BOOLEAN]
      /\ state'[p[c]] = s /\ \A q \in Slots : q # p[c] => state'[q] = state[q]
  BY <1>1, <1>2, Zenon DEF SchedInv, TypeOK
<1>4. p' \in [CPUs -> 1..NPROC + 1]
  <2>1. p[c] + 1 \in 1..NPROC + 1
    BY <1>1, Ranges, Zenon DEF SchedInv
  <2> QED
    BY <1>2, <2>1, Zenon DEF SchedInv, TypeOK
<1>5. \A d \in CPUs, q \in Slots : Runs(d, q)' => Runs(d, q) /\ at'[d] = at[d] /\ q # p[c]
  <2>1. /\ \A d \in CPUs : d # c => at'[d] = at[d] /\ p'[d] = p[d]
        /\ at'[c] = "scan"
    BY <1>2, Zenon DEF SchedInv, TypeOK
  <2>2. \A d \in CPUs, q \in Slots : Runs(d, q)' => d # c
    BY <2>1, Zenon DEF Runs
  <2> QED
    BY <1>1, <2>1, <2>2, Zenon DEF Runs
<1>6. RunningOnce'
  BY <1>1, <1>2 DEF SchedInv, TypeOK, RunningOnce, Runs
<1> QED
  BY <1>3, <1>4, <1>5, <1>6, Zenon

\* No charge is made, no budget is set and no process is put on a CPU.
LEMMA StillWithin ==
  ASSUME NoOverdraft, UNCHANGED <<cpu_budget, ticks_used>>,
         \A d \in CPUs, q \in Slots : Runs(d, q)' /\ at'[d] # "yield" => Runs(d, q) /\ at[d] # "yield"
  PROVE  NoOverdraft'
BY Zenon DEF NoOverdraft

\* A process goes on to another place on its CPU.
LEMMA MoveRuns ==
  ASSUME SchedInv, NEW c \in CPUs, NEW place \in {"charge", "yield"}, at[c] \in {"run", "charge"},
         at' = [at EXCEPT ![c] = place], UNCHANGED <<state, p>>
  PROVE  /\ RunningOnce'
         /\ at' \in [CPUs -> {"start", "interrupted", "scan", "run", "charge", "yield", "wfi"}]
         /\ \A d \in CPUs, q \in Slots :
              Runs(d, q)' => /\ Runs(d, q)
                             /\ d # c => at'[d] = at[d] /\ q # p[c]
                             /\ d = c => at'[d] = place
<1>0. \A d \in CPUs : Runs(d, p[c]) => d = c
  BY Running, Zenon
<1>1. /\ \A d \in CPUs : d # c => at'[d] = at[d]
      /\ at'[c] = place
      /\ at' \in [CPUs -> {"start", "interrupted", "scan", "run", "charge", "yield", "wfi"}]
  BY Zenon DEF SchedInv, TypeOK
<1>2. \A d \in CPUs : (\A q \in Slots : Runs(d, q)' <=> Runs(d, q)) /\ (Runs(d, p[d])' <=> Runs(d, p[d]))
  BY <1>1, Zenon DEF Runs
<1>3. RunningOnce'
  BY <1>2, Zenon DEF SchedInv, RunningOnce
<1>4. ASSUME NEW d \in CPUs, NEW q \in Slots, Runs(d, q)'
      PROVE  Runs(d, q) /\ (d # c => at'[d] = at[d] /\ q # p[c]) /\ (d = c => at'[d] = place)
  <2>1. Runs(d, q)
    BY <1>2, <1>4, Zenon
  <2>2. q = p[c] => d = c
    BY <1>0, <2>1, Zenon
  <2> QED
    BY <1>1, <2>1, <2>2, Zenon
<1> QED
  BY <1>1, <1>3, <1>4, Zenon

-----------------------------------------------------------------------------
(* Every step preserves the invariant: one lemma for each action.          *)

\* The head of the loop preserves the invariant.
LEMMA Inv_scheduler_start ==
  ASSUME SchedInv, NEW c \in CPUs, scheduler_start(c)
  PROVE  SchedInv'
<1> USE DEF SchedInv, budget, history, eco, pass, scheduler_start
<1>1. TypeOK'
  BY Ranges, Zenon DEF TypeOK
<1>2. RunningOnce'
  BY DEF TypeOK, RunningOnce, Runs
<1>3. NoOverdraft'
  BY Zenon DEF TypeOK, NoOverdraft, Runs
<1> QED
  BY <1>1, <1>2, <1>3, Zenon

\* A look at a runnable process preserves the invariant.
LEMMA Inv_Consider ==
  ASSUME SchedInv, NEW c \in CPUs, at[c] = "scan", NEW q \in Slots, p[c] = q, Runnable(q), Consider(c, q)
  PROVE  SchedInv'
<1> USE DEF SchedInv
<1> DEFINE over == WindowOver(c, q)
           used == IF over THEN 0 ELSE ticks_used[q]
           exhausted == Exhausted(q, used)
           skip == power_mode[q] = "ECO" /\ EcoCount(q) < ECO_SKIP_INTERVAL
           lag == Elapsed(ticks, now[c])
           due == age[q] - lag >= CPU_BUDGET_WINDOW_TICKS
<1>1. /\ ticks_used' = [ticks_used EXCEPT ![q] = used]
      /\ budget_window_start' = [budget_window_start EXCEPT ![q] = IF over THEN now[c] ELSE budget_window_start[q]]
      /\ ledger' = [ledger EXCEPT ![q] = IF over /\ due THEN 0 ELSE ledger[q]]
      /\ age' = [age EXCEPT ![q] = IF over THEN lag ELSE age[q]]
      /\ stale' = [stale EXCEPT ![q] = IF over THEN ~due /\ (stale[q] \/ age[q] < lag) ELSE stale[q]]
      /\ eco_skip_counter' =
           [eco_skip_counter EXCEPT ![q] =
              IF exhausted \/ power_mode[q] # "ECO" THEN eco_skip_counter[q] ELSE EcoNext(q)]
      /\ UNCHANGED <<cpu_budget, power_mode, snap, ticks, now, found, calls>>
  BY Zenon DEF Consider
<1>2. \/ exhausted /\ p' = [p EXCEPT ![c] = q + 1] /\ UNCHANGED <<state, at>>
      \/ ~exhausted /\ p' = [p EXCEPT ![c] = q + 1] /\ UNCHANGED <<state, at>>
      \/ ~exhausted /\ state' = [state EXCEPT ![q] = "RUNNING"] /\ at' = [at EXCEPT ![c] = "run"] /\ UNCHANGED p
  BY Zenon DEF Consider
<1>3. used \in Nat /\ used <= ticks_used[q] /\ ticks_used[q] \in Nat
  BY DEF TypeOK
<1>4. EcoNext(q) \in 0..ECO_SKIP_INTERVAL - 1
  BY DEF EcoNext, EcoCount, TypeOK
<1>5. lag \in 0..AgeMax
  <2>1. ticks \in Int /\ now[c] \in Int
    BY Ranges
  <2> QED
    BY <2>1, ElapsedRange, Zenon
<1>6. cpu_budget[q] \in Nat
  BY Ranges, Zenon
<1>7. ~exhausted => (cpu_budget[q] > 0 => used < cpu_budget[q])
  BY <1>3, <1>6 DEF Exhausted
<1> HIDE DEF over, used, exhausted, skip, due, lag
<1>8. TypeOK'
  <2>1. /\ ticks_used' \in [Slots -> Nat] /\ ledger' \in [Slots -> Nat]
        /\ budget_window_start' \in [Slots -> 0..TickMod - 1]
    BY <1>1, <1>3, Zenon DEF TypeOK
  <2>2. age' \in [Slots -> 0..AgeMax] /\ stale' \in [Slots -> BOOLEAN]
    BY <1>1, <1>5, Zenon DEF TypeOK
  <2>3. eco_skip_counter' \in [Slots -> 0..ECO_SKIP_INTERVAL - 1]
    BY <1>1, <1>4, Zenon DEF TypeOK
  <2>4. /\ state' \in [Slots -> {"UNUSED", "RUNNABLE", "RUNNING", "SLEEPING"}]
        /\ at' \in [CPUs -> {"start", "interrupted", "scan", "run", "charge", "yield", "wfi"}]
        /\ p' \in [CPUs -> 1..NPROC + 1]
    BY <1>2, Ranges DEF TypeOK
  <2> QED
    BY <1>1, <2>1, <2>2, <2>3, <2>4, Zenon DEF TypeOK
<1>9. RunningOnce'
  <2>1. CASE UNCHANGED <<state, at>> /\ p' = [p EXCEPT ![c] = q + 1]
    BY <2>1 DEF TypeOK, RunningOnce, Runs
  <2>2. CASE state' = [state EXCEPT ![q] = "RUNNING"] /\ at' = [at EXCEPT ![c] = "run"] /\ UNCHANGED p
    BY <2>2 DEF TypeOK, RunningOnce, Runs, Runnable
  <2> QED
    BY <1>2, <2>1, <2>2, Zenon
<1>10. NoOverdraft'
  <2>1. ASSUME NEW k \in Slots, k # q
        PROVE  ticks_used'[k] = ticks_used[k] /\ cpu_budget'[k] = cpu_budget[k]
    BY <1>1, <2>1, Zenon DEF TypeOK
  <2>2. ticks_used'[q] = used /\ cpu_budget'[q] = cpu_budget[q]
    BY <1>1, Zenon DEF TypeOK
  <2>3. \A d \in CPUs, k \in Slots : Runs(d, k)' => (k = q /\ ~exhausted) \/ (Runs(d, k) /\ at'[d] = at[d])
    <3>1. \A d \in CPUs : d # c => at'[d] = at[d] /\ p'[d] = p[d]
      BY <1>2, Zenon DEF TypeOK
    <3>2. at'[c] = "scan" \/ (at'[c] = "run" /\ p'[c] = q /\ ~exhausted)
      BY <1>2, Zenon DEF TypeOK
    <3>3. \A k \in Slots : Runs(c, k)' => k = q /\ ~exhausted
      BY <3>2, Zenon DEF Runs
    <3> QED
      BY <3>1, <3>3, Zenon DEF Runs
  <2>4. \A d \in CPUs : ~Runs(d, q)
    BY Zenon DEF RunningOnce, Runnable, Runs
  <2>5. cpu_budget[q] > 0 => used <= cpu_budget[q] /\ (~exhausted => used < cpu_budget[q])
    BY <1>3, <1>6, <1>7 DEF NoOverdraft
  <2> QED
    BY <2>1, <2>2, <2>3, <2>4, <2>5, Zenon DEF NoOverdraft
<1> QED
  BY <1>8, <1>9, <1>10, Zenon

\* A turn of the loop preserves the invariant.
LEMMA Inv_scheduler_look ==
  ASSUME SchedInv, NEW c \in CPUs, scheduler_look(c)
  PROVE  SchedInv'
<1>1. CASE Runnable(p[c]) /\ Consider(c, p[c])
  BY <1>1, Inv_Consider, Zenon DEF scheduler_look
<1>2. CASE /\ p' = [p EXCEPT ![c] = @ + 1]
           /\ UNCHANGED <<state, budget, eco, snap, ticks, at, now, found, calls>>
  <2> USE <1>2 DEF SchedInv, budget, history, eco, scheduler_look
  <2>1. p' \in [CPUs -> 1..NPROC + 1]
    BY Ranges, Zenon DEF TypeOK
  <2>2. TypeOK'
    BY <2>1, Zenon DEF TypeOK
  <2>3. RunningOnce' /\ NoOverdraft'
    BY DEF TypeOK, RunningOnce, NoOverdraft, Runs
  <2> QED
    BY <2>2, <2>3, Zenon
<1> QED
  BY <1>1, <1>2, Zenon DEF scheduler_look

\* The end of a pass preserves the invariant.
LEMMA Inv_scheduler_end ==
  ASSUME SchedInv, NEW c \in CPUs, scheduler_end(c)
  PROVE  SchedInv'
<1> USE DEF SchedInv, budget, history, eco, pass, scheduler_end
<1>0. 0 \in 0..TickMod - 1
  OBVIOUS
<1>1. TypeOK'
  BY <1>0, Ranges, Zenon DEF TypeOK
<1>2. RunningOnce'
  BY DEF TypeOK, RunningOnce, Runs
<1>3. NoOverdraft'
  BY Zenon DEF TypeOK, NoOverdraft, Runs
<1> QED
  BY <1>1, <1>2, <1>3, Zenon

\* A timer interrupt in user mode preserves the invariant.
LEMMA Inv_usertrap_timer ==
  ASSUME SchedInv, NEW c \in CPUs, usertrap_timer(c)
  PROVE  SchedInv'
<1> USE DEF SchedInv, pass, eco, usertrap_timer
<1>move. /\ RunningOnce'
         /\ at' \in [CPUs -> {"start", "interrupted", "scan", "run", "charge", "yield", "wfi"}]
         /\ \A d \in CPUs, q \in Slots :
              Runs(d, q)' => /\ Runs(d, q)
                             /\ d # c => at'[d] = at[d] /\ q # p[c]
                             /\ d = c => at'[d] = "charge"
  BY MoveRuns, Zenon
<1>1. TypeOK'
  BY <1>move, TickTypes, Zenon DEF TypeOK
<1>2. NoOverdraft'
  <2>1. \A d \in CPUs, q \in Slots : Runs(d, q)' /\ at'[d] # "yield" => Runs(d, q) /\ at[d] # "yield"
    BY <1>move, Zenon
  <2> QED
    BY <2>1, StillWithin, Zenon
<1> QED
  BY <1>move, <1>1, <1>2, Zenon

\* A timer interrupt in the kernel preserves the invariant.
LEMMA Inv_kerneltrap_timer ==
  ASSUME SchedInv, NEW c \in CPUs, kerneltrap_timer(c)
  PROVE  SchedInv'
<1> USE DEF SchedInv, pass, eco, kerneltrap_timer
<1>move. /\ RunningOnce'
         /\ at' \in [CPUs -> {"start", "interrupted", "scan", "run", "charge", "yield", "wfi"}]
         /\ \A d \in CPUs, q \in Slots :
              Runs(d, q)' => /\ Runs(d, q)
                             /\ d # c => at'[d] = at[d] /\ q # p[c]
                             /\ d = c => at'[d] = "yield"
  BY MoveRuns, Zenon
<1>1. TypeOK'
  BY <1>move, TickTypes, Zenon DEF TypeOK
<1>2. NoOverdraft'
  <2>1. \A d \in CPUs, q \in Slots : Runs(d, q)' /\ at'[d] # "yield" => Runs(d, q) /\ at[d] # "yield"
    BY <1>move, Zenon
  <2> QED
    BY <2>1, StillWithin, Zenon
<1> QED
  BY <1>move, <1>1, <1>2, Zenon

\* The charge preserves the invariant.
LEMMA Inv_usertrap_charge ==
  ASSUME SchedInv, NEW c \in CPUs, usertrap_charge(c)
  PROVE  SchedInv'
<1> USE DEF SchedInv, pass, eco, usertrap_charge
<1>run. p[c] \in Slots
  BY Running, Zenon
<1>move. /\ RunningOnce'
         /\ at' \in [CPUs -> {"start", "interrupted", "scan", "run", "charge", "yield", "wfi"}]
         /\ \A d \in CPUs, q \in Slots :
              Runs(d, q)' => /\ Runs(d, q)
                             /\ d # c => at'[d] = at[d] /\ q # p[c]
                             /\ d = c => at'[d] = "yield"
  BY MoveRuns, Zenon
<1>charge. /\ ticks_used' \in [Slots -> Nat] /\ ledger' \in [Slots -> Nat]
           /\ ticks_used'[p[c]] <= ticks_used[p[c]] + 1
           /\ \A q \in Slots : q # p[c] => ticks_used'[q] = ticks_used[q]
  <2>1. ticks_used[p[c]] \in Nat /\ ledger[p[c]] \in Nat
    BY <1>run, Zenon DEF TypeOK
  <2> QED
    BY <1>run, <2>1, CountAdds, Zenon DEF TypeOK
<1>1. TypeOK'
  BY <1>move, <1>charge, Zenon DEF TypeOK
<1>2. NoOverdraft'
  <2>1. /\ ticks_used[p[c]] \in Nat /\ ticks_used'[p[c]] \in Nat /\ cpu_budget[p[c]] \in Nat
        /\ cpu_budget[p[c]] > 0 => ticks_used[p[c]] < cpu_budget[p[c]]
    BY <1>run, <1>charge, Ranges, Zenon DEF TypeOK, NoOverdraft, Runs
  <2>2. cpu_budget[p[c]] > 0 => ticks_used'[p[c]] <= cpu_budget[p[c]]
    BY <1>charge, <2>1
  <2>3. \A d \in CPUs, q \in Slots : Runs(d, q)' /\ at'[d] # "yield" =>
          q # p[c] /\ Runs(d, q) /\ at[d] # "yield"
    BY <1>move, Zenon
  <2> QED
    BY <1>charge, <2>2, <2>3, Zenon DEF NoOverdraft
<1> QED
  BY <1>move, <1>1, <1>2, Zenon

\* yield() preserves the invariant.
LEMMA Inv_yield ==
  ASSUME SchedInv, NEW c \in CPUs, yield(c)
  PROVE  SchedInv'
<1> USE DEF SchedInv, budget, history, eco, pass, yield
<1>back. /\ RunningOnce'
         /\ state' \in [Slots -> {"UNUSED", "RUNNABLE", "RUNNING", "SLEEPING"}]
         /\ at' \in [CPUs -> {"start", "interrupted", "scan", "run", "charge", "yield", "wfi"}]
         /\ now' \in [CPUs -> 0..TickMod - 1]
         /\ p' \in [CPUs -> 1..NPROC + 1]
         /\ found' \in [CPUs -> BOOLEAN]
         /\ \A d \in CPUs, q \in Slots : Runs(d, q)' => Runs(d, q) /\ at'[d] = at[d] /\ q # p[c]
  BY BackRuns, Zenon
<1>1. TypeOK'
  BY <1>back, Zenon DEF TypeOK
<1>2. NoOverdraft'
  BY <1>back, StillWithin, Zenon
<1> QED
  BY <1>back, <1>1, <1>2, Zenon

\* A timer interrupt in scheduler() preserves the invariant.
LEMMA Inv_scheduler_timer ==
  ASSUME SchedInv, NEW c \in CPUs, scheduler_timer(c)
  PROVE  SchedInv'
<1> USE DEF SchedInv, budget, history, eco, pass, scheduler_timer
<1>1. TypeOK'
  BY TickTypes, Zenon DEF TypeOK
<1>2. RunningOnce'
  BY DEF TypeOK, RunningOnce, Runs
<1>3. NoOverdraft'
  BY Zenon DEF TypeOK, NoOverdraft, Runs
<1> QED
  BY <1>1, <1>2, <1>3, Zenon

\* A device interrupt preserves the invariant.
LEMMA Inv_device ==
  ASSUME SchedInv, NEW c \in CPUs, NEW q \in Slots, device(c, q)
  PROVE  SchedInv'
<1> USE DEF SchedInv, budget, history, eco, pass, device
<1>1. TypeOK'
  BY Zenon DEF TypeOK
<1>2. RunningOnce'
  BY DEF TypeOK, RunningOnce, Runs
<1>3. NoOverdraft'
  BY Zenon DEF TypeOK, NoOverdraft, Runs
<1> QED
  BY <1>1, <1>2, <1>3, Zenon

\* Going to sleep preserves the invariant.
LEMMA Inv_sleep ==
  ASSUME SchedInv, NEW c \in CPUs, sleep(c)
  PROVE  SchedInv'
<1> USE DEF SchedInv, budget, history, eco, pass, sleep, Calls
<1>calls. calls' \in 0..MaxCalls
  BY DEF TypeOK
<1>back. /\ RunningOnce'
         /\ state' \in [Slots -> {"UNUSED", "RUNNABLE", "RUNNING", "SLEEPING"}]
         /\ at' \in [CPUs -> {"start", "interrupted", "scan", "run", "charge", "yield", "wfi"}]
         /\ now' \in [CPUs -> 0..TickMod - 1]
         /\ p' \in [CPUs -> 1..NPROC + 1]
         /\ found' \in [CPUs -> BOOLEAN]
         /\ \A d \in CPUs, q \in Slots : Runs(d, q)' => Runs(d, q) /\ at'[d] = at[d] /\ q # p[c]
  BY BackRuns, Zenon
<1>1. TypeOK'
  BY <1>calls, <1>back, Zenon DEF TypeOK
<1>2. RunningOnce'
  BY <1>back, Zenon
<1>3. NoOverdraft'
  BY <1>back, StillWithin, Zenon
<1> QED
  BY <1>1, <1>2, <1>3, Zenon

\* exit() preserves the invariant.
LEMMA Inv_exit ==
  ASSUME SchedInv, NEW c \in CPUs, exit(c)
  PROVE  SchedInv'
<1> USE DEF SchedInv, budget, history, eco, pass, exit
<1>run. /\ p[c] \in Slots /\ state[p[c]] = "RUNNING"
        /\ \A d \in CPUs : Runs(d, p[c]) => d = c
  BY Running, Zenon
<1>back. /\ RunningOnce'
         /\ state' \in [Slots -> {"UNUSED", "RUNNABLE", "RUNNING", "SLEEPING"}]
         /\ at' \in [CPUs -> {"start", "interrupted", "scan", "run", "charge", "yield", "wfi"}]
         /\ now' \in [CPUs -> 0..TickMod - 1]
         /\ p' \in [CPUs -> 1..NPROC + 1]
         /\ found' \in [CPUs -> BOOLEAN]
         /\ \A d \in CPUs, q \in Slots : Runs(d, q)' => Runs(d, q) /\ at'[d] = at[d] /\ q # p[c]
  BY BackRuns, Zenon
<1>1. TypeOK'
  <2>1. /\ cpu_budget' \in [Slots -> Limits \cup {0}]
        /\ ticks_used' \in [Slots -> Nat] /\ ledger' \in [Slots -> Nat]
        /\ budget_window_start' \in [Slots -> 0..TickMod - 1]
    BY <1>run DEF TypeOK
  <2>2. /\ age' \in [Slots -> 0..AgeMax] /\ stale' \in [Slots -> BOOLEAN]
        /\ power_mode' \in [Slots -> {"NORMAL", "ECO"}]
        /\ eco_skip_counter' \in [Slots -> 0..ECO_SKIP_INTERVAL - 1]
    BY <1>run, Ranges DEF TypeOK
  <2> HIDE DEF exit
  <2>3. UNCHANGED <<snap, ticks, calls>>
    BY Zenon DEF exit
  <2> QED
    BY <1>back, <2>1, <2>2, <2>3, Zenon DEF TypeOK
<1>2. RunningOnce'
  BY <1>back, Zenon
<1>3. NoOverdraft'
  BY <1>run, <1>back DEF NoOverdraft, TypeOK
<1> QED
  BY <1>1, <1>2, <1>3, Zenon

\* Reading the clock in setcpulimit_pid() preserves the invariant.
LEMMA Inv_setcpulimit_now ==
  ASSUME SchedInv, NEW c \in CPUs, setcpulimit_now(c)
  PROVE  SchedInv'
<1> USE DEF SchedInv, budget, history, eco, pass, setcpulimit_now, Calls
<1>run. /\ p[c] \in Slots /\ state[p[c]] = "RUNNING"
        /\ \A d \in CPUs : Runs(d, p[c]) => d = c
  BY Running, Zenon
<1>1. TypeOK'
  BY <1>run DEF TypeOK
<1>2. RunningOnce'
  BY <1>run DEF TypeOK, RunningOnce, Runs
<1>3. NoOverdraft'
  BY <1>run, Zenon DEF TypeOK, NoOverdraft, Runs
<1> QED
  BY <1>1, <1>2, <1>3, Zenon

\* Setting a budget preserves the invariant.
LEMMA Inv_setcpulimit ==
  ASSUME SchedInv, NEW c \in CPUs, NEW q \in Slots, NEW limit \in Limits, setcpulimit(c, q, limit)
  PROVE  SchedInv'
<1> USE DEF SchedInv, budget, history, eco, pass, setcpulimit
<1>run. /\ p[c] \in Slots /\ state[p[c]] = "RUNNING"
        /\ \A d \in CPUs : Runs(d, p[c]) => d = c
  BY Running, Zenon
<1>snap. snap[p[c]] \in 0..TickMod - 1
  BY <1>run, Zenon DEF TypeOK
<1>age. (IF limit = 0 THEN 0 ELSE Elapsed(ticks, snap[p[c]])) \in 0..AgeMax
  <2>1. ticks \in Int /\ snap[p[c]] \in Int /\ 0 \in 0..AgeMax
    BY <1>snap, Ranges
  <2>2. Elapsed(ticks, snap[p[c]]) \in 0..AgeMax
    BY <2>1, ElapsedRange, Zenon
  <2> QED
    BY <2>1, <2>2, Zenon
<1>1. TypeOK'
  <2>1. age' \in [Slots -> 0..AgeMax]
    BY <1>age, Zenon DEF TypeOK
  <2> QED
    BY <1>run, <1>snap, <2>1, Zenon DEF TypeOK
<1>2. RunningOnce'
  BY <1>run DEF TypeOK, RunningOnce, Runs
<1>3. NoOverdraft'
  <2>1. ASSUME NEW k \in Slots, k # q
        PROVE  ticks_used'[k] = ticks_used[k] /\ state'[k] = state[k] /\ cpu_budget'[k] = cpu_budget[k]
    BY <2>1, Zenon DEF TypeOK
  <2>2. ticks_used'[q] = 0 /\ cpu_budget'[q] \in Nat
    BY Zenon DEF TypeOK
  <2> QED
    BY <2>1, <2>2 DEF NoOverdraft, Runs
<1> QED
  BY <1>1, <1>2, <1>3, Zenon

\* setpowermode() preserves the invariant.
LEMMA Inv_setpowermode ==
  ASSUME SchedInv, NEW c \in CPUs, NEW q \in Slots, NEW mode \in {"NORMAL", "ECO"}, setpowermode(c, q, mode)
  PROVE  SchedInv'
<1> USE DEF SchedInv, budget, history, eco, pass, setpowermode, Calls
<1>1. TypeOK'
  BY DEF TypeOK
<1>2. RunningOnce'
  BY DEF TypeOK, RunningOnce, Runs
<1>3. NoOverdraft'
  BY Zenon DEF TypeOK, NoOverdraft, Runs
<1> QED
  BY <1>1, <1>2, <1>3, Zenon

-----------------------------------------------------------------------------
(* fork(), which looks for the first free slot.                            *)

Orders == INSTANCE WellFoundedInduction

\* Min of a set of slot numbers is the first of them.
LEMMA MinOfNaturals ==
  ASSUME NEW S, S \subseteq Nat, S # {}
  PROVE  Min(S) \in S /\ \A y \in S : Min(S) <= y
<1>1. PICK x \in S : \A y \in S : <<y, x>> \notin Orders!OpToRel(<, Nat)
  BY Orders!NatLessThanWellFounded, Orders!WFMin, Zenon
<1>2. ASSUME NEW y \in S
      PROVE  x <= y
  <2>1. ~(y < x)
    BY <1>1, Zenon DEF Orders!OpToRel
  <2> QED
    BY <2>1
<1> QED
  BY <1>2, Zenon DEF Min

\* fork() preserves the invariant.
LEMMA Inv_kfork ==
  ASSUME SchedInv, NEW c \in CPUs, kfork(c)
  PROVE  SchedInv'
<1> USE DEF SchedInv, budget, history, eco, pass, kfork, Calls
<1>run. /\ p[c] \in Slots /\ state[p[c]] = "RUNNING"
        /\ \A d \in CPUs : Runs(d, p[c]) => d = c
  BY Running, Zenon
<1> DEFINE np == Min({k \in Slots : state[k] = "UNUSED"})
<1>np. np \in Slots /\ state[np] = "UNUSED"
  <2>1. {k \in Slots : state[k] = "UNUSED"} \subseteq Nat
    BY DEF Slots
  <2> QED
    BY <2>1, MinOfNaturals, Zenon
<1>child. /\ state' = [state EXCEPT ![np] = "RUNNABLE"]
          /\ cpu_budget' = [cpu_budget EXCEPT ![np] = cpu_budget[p[c]]]
          /\ ticks_used' = [ticks_used EXCEPT ![np] = 0]
          /\ budget_window_start' = [budget_window_start EXCEPT ![np] = budget_window_start[p[c]]]
          /\ ledger' = [ledger EXCEPT ![np] = 0]
          /\ age' = [age EXCEPT ![np] = age[p[c]]]
          /\ stale' = [stale EXCEPT ![np] = FALSE]
          /\ power_mode' = [power_mode EXCEPT ![np] = power_mode[p[c]]]
          /\ eco_skip_counter' = [eco_skip_counter EXCEPT ![np] = 0]
          /\ calls' = calls + 1 /\ calls < MaxCalls
          /\ UNCHANGED <<snap, ticks, at, now, p, found>>
  BY Zenon
<1> HIDE DEF np, kfork
<1>1. TypeOK'
  <2>1. /\ state' \in [Slots -> {"UNUSED", "RUNNABLE", "RUNNING", "SLEEPING"}]
        /\ cpu_budget' \in [Slots -> Limits \cup {0}]
        /\ ticks_used' \in [Slots -> Nat] /\ ledger' \in [Slots -> Nat]
    BY <1>run, <1>np, <1>child, Zenon DEF TypeOK
  <2>2. /\ budget_window_start' \in [Slots -> 0..TickMod - 1]
        /\ power_mode' \in [Slots -> {"NORMAL", "ECO"}]
        /\ eco_skip_counter' \in [Slots -> 0..ECO_SKIP_INTERVAL - 1]
    BY <1>run, <1>np, <1>child DEF TypeOK
  <2>3. age' \in [Slots -> 0..AgeMax] /\ stale' \in [Slots -> BOOLEAN] /\ calls' \in 0..MaxCalls
    BY <1>run, <1>np, <1>child DEF TypeOK
  <2> QED
    BY <1>child, <2>1, <2>2, <2>3, Zenon DEF TypeOK
<1>2. RunningOnce'
  BY <1>run, <1>np, <1>child DEF TypeOK, RunningOnce, Runs
<1>3. NoOverdraft'
  <2>1. ASSUME NEW k \in Slots, k # np
        PROVE  ticks_used'[k] = ticks_used[k] /\ cpu_budget'[k] = cpu_budget[k]
    BY <1>child, <2>1, Zenon DEF TypeOK
  <2>2. ticks_used'[np] = 0 /\ cpu_budget'[np] \in Nat
    BY <1>run, <1>np, <1>child, Ranges, Zenon DEF TypeOK
  <2>3. cpu_budget'[np] > 0 => ticks_used'[np] <= cpu_budget'[np] /\ ticks_used'[np] < cpu_budget'[np]
    BY <2>2
  <2>4. \A d \in CPUs, k \in Slots : Runs(d, k)' <=> Runs(d, k)
    BY <1>child, Zenon DEF Runs
  <2> QED
    BY <1>child, <2>1, <2>3, <2>4, Zenon DEF NoOverdraft
<1> QED
  BY <1>1, <1>2, <1>3, Zenon

-----------------------------------------------------------------------------
(* The invariant, and what follows from it.                                *)

\* The boot state satisfies the invariant.
LEMMA Inv_Init ==
  ASSUME Init
  PROVE  SchedInv
<1> USE DEF Init
<1>1. AgeMax \in Nat
  BY DEF AgeMax
<1>2. TypeOK
  BY <1>1 DEF TypeOK, Slots
<1>3. RunningOnce /\ NoOverdraft
  BY DEF RunningOnce, NoOverdraft, Runs
<1> QED
  BY <1>2, <1>3, Zenon DEF SchedInv

\* Every step, and every step that changes nothing, preserves the invariant.
LEMMA Inv_Next ==
  ASSUME SchedInv, [Next]_vars
  PROVE  SchedInv'
<1>1. CASE Next
  <2>1. PICK c \in CPUs : Scheduler(c) \/ Timer(c) \/ Syscall(c) \/ \E q \in Slots : device(c, q)
    BY <1>1, Zenon DEF Next
  <2>2. CASE Scheduler(c)
    BY <2>2, Inv_scheduler_start, Inv_scheduler_look, Inv_scheduler_end, Zenon DEF Scheduler
  <2>3. CASE Timer(c)
    BY <2>3, Inv_usertrap_timer, Inv_usertrap_charge, Inv_yield, Inv_kerneltrap_timer,
       Inv_scheduler_timer, Zenon DEF Timer
  <2>4. CASE Syscall(c)
    BY <2>4, Inv_sleep, Inv_exit, Inv_kfork, Inv_setcpulimit_now, Inv_setcpulimit, Inv_setpowermode, Zenon DEF Syscall
  <2> QED
    BY <2>1, <2>2, <2>3, <2>4, Inv_device, Zenon
<1>2. CASE UNCHANGED vars
  BY <1>2, Zenon DEF vars, budget, history, eco, pass, SchedInv, TypeOK, RunningOnce, NoOverdraft, Runs
<1> QED
  BY <1>1, <1>2, Zenon

\* The invariant holds throughout.
THEOREM SchedInvariant == Spec => []SchedInv
BY Inv_Init, Inv_Next, PTL DEF Spec

\* Type correctness of what scheduler() and the calls on budgets keep.
THEOREM SchedTypeCorrect == Spec => []TypeOK
BY SchedInvariant, PTL DEF SchedInv

\* scheduler() and the process table agree on who runs, on any number of
\* harts: p->state = RUNNING under p->lock keeps a process on one hart.
THEOREM RunsOnOneHart == Spec => []RunningOnce
BY SchedInvariant, PTL DEF SchedInv

\* A process is never charged beyond its budget, nor run when it is used up,
\* with any number of harts, whatever reading of the clock each works with.
THEOREM BudgetNotOverdrawn == Spec => []NoOverdraft
BY SchedInvariant, PTL DEF SchedInv

-----------------------------------------------------------------------------
(* The budget per window.  What has been charged since the last window     *)
(* that was due is in ticks_used, unless the window was replaced by a      *)
(* stale one.  That no other window is early needs the ages: a window as   *)
(* old as the clock can tell has the age that the clock shows, up to a     *)
(* turn of it.                                                             *)

LedgerInv == \A q \in Slots : ~stale[q] => ledger[q] <= ticks_used[q]

\* The age is the unsigned difference, or that and a turn of the clock.
AgeShown(q) == age[q] \in {Elapsed(ticks, budget_window_start[q]),
                           Elapsed(ticks, budget_window_start[q]) + TickMod}

\* An age beyond which Tick does not count, or beyond two turns, is not shown.
Young(q) == age[q] < AgeMax /\ age[q] < 2 * TickMod - 1

AgeInv == \A q \in Slots : cpu_budget[q] > 0 /\ Young(q) => AgeShown(q)

WindowInv == LedgerInv /\ AgeInv

\* The numbers that the invariant compares.
LEMMA Numbers ==
  ASSUME TypeOK
  PROVE  /\ ticks \in 0..TickMod - 1
         /\ \A c \in CPUs : now[c] \in 0..TickMod - 1
         /\ \A q \in Slots : /\ ledger[q] \in Nat /\ ticks_used[q] \in Nat /\ age[q] \in 0..AgeMax
                             /\ budget_window_start[q] \in 0..TickMod - 1
BY Zenon DEF TypeOK

\* Unsigned differences of two readings of the clock.
LEMMA Differences ==
  ASSUME NEW t \in 0..TickMod - 1, NEW s \in 0..TickMod - 1
  PROVE  /\ s <= t => Elapsed(t, s) = t - s
         /\ s > t => Elapsed(t, s) = t - s + TickMod
<1>1. ASSUME NEW M \in Nat \ {0}, NEW x \in Int
      PROVE  /\ 0 <= x /\ x < M => x % M = x
             /\ -M <= x /\ x < 0 => x % M = x + M
  BY SMT
<1>2. t - s \in Int /\ TickMod \in Nat \ {0}
  OBVIOUS
<1>3. /\ 0 <= t - s /\ t - s < TickMod => (t - s) % TickMod = t - s
      /\ -TickMod <= t - s /\ t - s < 0 => (t - s) % TickMod = t - s + TickMod
  BY <1>1, <1>2, Zenon
<1> QED
  BY <1>3 DEF Elapsed

\* One more tick of the clock is one more tick elapsed, or a turn has passed.
LEMMA ElapsedTick ==
  ASSUME NEW t \in 0..TickMod - 1, NEW s \in 0..TickMod - 1
  PROVE  LET e == Elapsed(t, s)
             f == Elapsed((t + 1) % TickMod, s)
         IN  (e < TickMod - 1 /\ f = e + 1) \/ (e = TickMod - 1 /\ f = 0)
<1>1. CASE t + 1 < TickMod
  <2>1. (t + 1) % TickMod = t + 1 /\ t + 1 \in 0..TickMod - 1
    BY <1>1, SMT
  <2> QED
    BY <2>1, Differences
<1>2. CASE t + 1 = TickMod
  <2>1. (t + 1) % TickMod = 0 /\ 0 \in 0..TickMod - 1
    BY <1>2, SMT
  <2> QED
    BY <1>2, <2>1, Differences
<1> QED
  BY <1>1, <1>2

\* Two differences with the same reading give the difference of the other two.
LEMMA ElapsedSplit ==
  ASSUME NEW t \in 0..TickMod - 1, NEW n \in 0..TickMod - 1, NEW s \in 0..TickMod - 1
  PROVE  /\ Elapsed(t, s) >= Elapsed(t, n) => Elapsed(n, s) = Elapsed(t, s) - Elapsed(t, n)
         /\ Elapsed(t, s) < Elapsed(t, n) => Elapsed(n, s) = Elapsed(t, s) - Elapsed(t, n) + TickMod
BY Differences

\* The arithmetic of a window that is opened early: with an age of the window
\* that is no less than that of the reading, it is not.
LEMMA EarlyWindow ==
  ASSUME NEW T \in Nat \ {0}, NEW W \in Nat, NEW a \in Nat, NEW lag \in 0..T - 1, NEW e \in 0..T - 1,
         NEW d \in 0..T - 1, a = e \/ a = e + T, a >= lag, a - lag < W,
         e >= lag => d = e - lag, e < lag => d = e - lag + T
  PROVE  d < W
BY SMT

\* Windows grow older as the clock ticks.
LEMMA TickAges ==
  ASSUME TypeOK, AgeInv, NEW c \in CPUs, Tick(c), UNCHANGED <<cpu_budget, budget_window_start>>
  PROVE  AgeInv'
<1>1. CASE c # 0
  <2>1. ticks' = ticks /\ \A q \in Slots : age'[q] = age[q]
    BY <1>1, Zenon DEF Tick, TypeOK
  <2> QED
    BY <2>1, Zenon DEF AgeInv, AgeShown, Young
<1>2. CASE c = 0
  <2> SUFFICES ASSUME NEW q \in Slots, cpu_budget[q] > 0, Young(q)'
               PROVE  AgeShown(q)'
    BY Zenon DEF AgeInv
  <2> DEFINE w == budget_window_start[q]
             e == Elapsed(ticks, w)
             f == Elapsed((ticks + 1) % TickMod, w)
  <2>1. ticks' = (ticks + 1) % TickMod /\ age'[q] = IF age[q] < AgeMax THEN age[q] + 1 ELSE age[q]
    BY <1>2, Zenon DEF Tick
  <2>2. age[q] \in 0..AgeMax /\ e \in 0..TickMod - 1
    <3>1. ticks \in Int /\ w \in Int /\ age[q] \in 0..AgeMax
      BY Numbers
    <3> QED
      BY <3>1, ElapsedRange, Zenon
  <2>3. (e < TickMod - 1 /\ f = e + 1) \/ (e = TickMod - 1 /\ f = 0)
    BY Numbers, ElapsedTick, Zenon
  <2>4. Young(q) /\ age'[q] = age[q] + 1
    BY <2>1, <2>2 DEF Young, AgeMax
  <2>5. age[q] \in {e, e + TickMod}
    BY <2>4, Zenon DEF AgeInv, AgeShown
  <2>6. age'[q] < 2 * TickMod - 1
    BY Zenon DEF Young
  <2> HIDE DEF e, f
  <2>7. age[q] + 1 \in {f, f + TickMod}
    BY <2>2, <2>3, <2>4, <2>5, <2>6
  <2> QED
    BY <2>1, <2>4, <2>7, Zenon DEF AgeShown, f
<1> QED
  BY <1>1, <1>2

\* Both counts of a process go up together.
LEMMA CountMonotone ==
  ASSUME NEW q, NEW m \in Nat, NEW n \in Nat, m <= n
  PROVE  Count(q, m) <= Count(q, n)
<1>1. CASE m = n
  BY <1>1, CountAdds
<1>2. CASE m < n
  BY <1>2 DEF Count
<1> QED
  BY <1>1, <1>2

-----------------------------------------------------------------------------
(* Every step preserves the windows: one lemma for each kind of step.      *)

\* What does not touch the budgets or the clock.
LEMMA WindowKept ==
  ASSUME WindowInv, UNCHANGED <<budget, ticks>>
  PROVE  WindowInv'
BY Zenon DEF WindowInv, LedgerInv, AgeInv, Young, AgeShown, budget, history

\* A clock interrupt.
LEMMA Window_timer ==
  ASSUME SchedInv, WindowInv, NEW c \in CPUs,
         usertrap_timer(c) \/ kerneltrap_timer(c) \/ scheduler_timer(c)
  PROVE  WindowInv'
<1>1. Tick(c) /\ UNCHANGED <<cpu_budget, ticks_used, budget_window_start, ledger, stale>>
  BY Zenon DEF usertrap_timer, kerneltrap_timer, scheduler_timer
<1>2. LedgerInv'
  BY <1>1, Zenon DEF WindowInv, LedgerInv
<1>3. AgeInv'
  BY <1>1, TickAges, Zenon DEF SchedInv, WindowInv
<1> QED
  BY <1>2, <1>3, Zenon DEF WindowInv

\* A charge.
LEMMA Window_usertrap_charge ==
  ASSUME SchedInv, WindowInv, NEW c \in CPUs, usertrap_charge(c)
  PROVE  WindowInv'
<1> USE DEF SchedInv, WindowInv
<1>1. /\ UNCHANGED <<cpu_budget, budget_window_start, age, stale, ticks>>
      /\ ticks_used' = [ticks_used EXCEPT ![p[c]] = Count(p[c], ticks_used[p[c]])]
      /\ ledger' = [ledger EXCEPT ![p[c]] = Count(p[c], ledger[p[c]])]
  BY Zenon DEF usertrap_charge
<1>2. p[c] \in Slots
  BY Running, Zenon DEF usertrap_charge
<1>3. ~stale[p[c]] => Count(p[c], ledger[p[c]]) <= Count(p[c], ticks_used[p[c]])
  BY <1>2, Numbers, CountMonotone, Zenon DEF LedgerInv
<1>4. LedgerInv'
  BY <1>1, <1>2, <1>3, Zenon DEF LedgerInv, TypeOK
<1>5. AgeInv'
  BY <1>1, Zenon DEF AgeInv, Young, AgeShown
<1> QED
  BY <1>4, <1>5, Zenon

\* One slot starts a window with no charges, or is given up.
LEMMA WindowOpened ==
  ASSUME WindowInv, NEW q \in Slots, UNCHANGED ticks,
         \A k \in Slots : k # q =>
           /\ cpu_budget'[k] = cpu_budget[k] /\ ticks_used'[k] = ticks_used[k] /\ ledger'[k] = ledger[k]
           /\ age'[k] = age[k] /\ stale'[k] = stale[k] /\ budget_window_start'[k] = budget_window_start[k],
         ledger'[q] = 0, ticks_used'[q] = 0,
         cpu_budget'[q] > 0 /\ Young(q)' => AgeShown(q)'
  PROVE  WindowInv'
<1>1. 0 <= 0
  OBVIOUS
<1>2. LedgerInv'
  BY <1>1, Zenon DEF WindowInv, LedgerInv
<1>3. AgeInv'
  BY Zenon DEF WindowInv, AgeInv, Young, AgeShown
<1> QED
  BY <1>2, <1>3, Zenon DEF WindowInv

\* Setting a budget.
LEMMA Window_setcpulimit ==
  ASSUME SchedInv, WindowInv, NEW c \in CPUs, NEW q \in Slots, NEW limit \in Limits,
         setcpulimit(c, q, limit)
  PROVE  WindowInv'
<1>1. /\ UNCHANGED ticks
      /\ \A k \in Slots : k # q =>
           /\ cpu_budget'[k] = cpu_budget[k] /\ ticks_used'[k] = ticks_used[k] /\ ledger'[k] = ledger[k]
           /\ age'[k] = age[k] /\ stale'[k] = stale[k] /\ budget_window_start'[k] = budget_window_start[k]
      /\ ledger'[q] = 0 /\ ticks_used'[q] = 0
  BY Zenon DEF setcpulimit, SchedInv, TypeOK
<1>2. /\ cpu_budget'[q] = limit /\ budget_window_start'[q] = snap[p[c]]
      /\ age'[q] = IF limit = 0 THEN 0 ELSE Elapsed(ticks, snap[p[c]])
  BY Zenon DEF setcpulimit, SchedInv, TypeOK
<1>3. ~(0 > 0)
  OBVIOUS
<1>4. cpu_budget'[q] > 0 => AgeShown(q)'
  BY <1>1, <1>2, <1>3, Zenon DEF AgeShown
<1> QED
  BY <1>1, <1>4, WindowOpened, Zenon

\* fork(): the child has its parent's window and none of its charges.
LEMMA Window_kfork ==
  ASSUME SchedInv, WindowInv, NEW c \in CPUs, kfork(c)
  PROVE  WindowInv'
<1> DEFINE np == Min({k \in Slots : state[k] = "UNUSED"})
<1>0. p[c] \in Slots
  BY Running, Zenon DEF kfork, Calls
<1>1. PICK n \in Slots : n = np
  <2>1. {k \in Slots : state[k] = "UNUSED"} \subseteq Nat
    BY DEF Slots
  <2>2. {k \in Slots : state[k] = "UNUSED"} # {}
    BY Zenon DEF kfork
  <2> QED
    BY <2>1, <2>2, MinOfNaturals, Zenon
<1>2. /\ cpu_budget' = [cpu_budget EXCEPT ![n] = cpu_budget[p[c]]]
      /\ ticks_used' = [ticks_used EXCEPT ![n] = 0]
      /\ budget_window_start' = [budget_window_start EXCEPT ![n] = budget_window_start[p[c]]]
      /\ ledger' = [ledger EXCEPT ![n] = 0]
      /\ age' = [age EXCEPT ![n] = age[p[c]]]
      /\ stale' = [stale EXCEPT ![n] = FALSE]
      /\ UNCHANGED ticks
  BY <1>1, Zenon DEF kfork
<1> HIDE DEF np
<1>3. /\ \A k \in Slots : k # n =>
           /\ cpu_budget'[k] = cpu_budget[k] /\ ticks_used'[k] = ticks_used[k] /\ ledger'[k] = ledger[k]
           /\ age'[k] = age[k] /\ stale'[k] = stale[k] /\ budget_window_start'[k] = budget_window_start[k]
      /\ ledger'[n] = 0 /\ ticks_used'[n] = 0
      /\ cpu_budget'[n] = cpu_budget[p[c]] /\ age'[n] = age[p[c]]
      /\ budget_window_start'[n] = budget_window_start[p[c]]
  BY <1>1, <1>2, Zenon DEF SchedInv, TypeOK
<1>4. cpu_budget'[n] > 0 /\ Young(n)' => AgeShown(n)'
  BY <1>0, <1>2, <1>3, Zenon DEF WindowInv, AgeInv, Young, AgeShown
<1> QED
  BY <1>1, <1>2, <1>3, <1>4, WindowOpened, Zenon

\* The slot of a process that exits starts again.
LEMMA Window_exit ==
  ASSUME SchedInv, WindowInv, NEW c \in CPUs, exit(c)
  PROVE  WindowInv'
<1>1. p[c] \in Slots
  BY Running, Zenon DEF exit
<1>2. /\ UNCHANGED ticks
      /\ \A k \in Slots : k # p[c] =>
           /\ cpu_budget'[k] = cpu_budget[k] /\ ticks_used'[k] = ticks_used[k] /\ ledger'[k] = ledger[k]
           /\ age'[k] = age[k] /\ stale'[k] = stale[k] /\ budget_window_start'[k] = budget_window_start[k]
      /\ cpu_budget'[p[c]] = 0 /\ ledger'[p[c]] = 0 /\ ticks_used'[p[c]] = 0
  BY <1>1, Zenon DEF exit, SchedInv, TypeOK
<1>3. ~(0 > 0)
  OBVIOUS
<1> QED
  BY <1>1, <1>2, <1>3, WindowOpened, Zenon

\* A look at a runnable process: a window that is opened early is replaced by
\* an older reading.
LEMMA Window_Consider ==
  ASSUME SchedInv, WindowInv, NEW c \in CPUs, NEW q \in Slots, Consider(c, q)
  PROVE  WindowInv'
<1> USE DEF SchedInv, WindowInv
<1> DEFINE over == WindowOver(c, q)
           lag == Elapsed(ticks, now[c])
           due == age[q] - lag >= CPU_BUDGET_WINDOW_TICKS
           w == budget_window_start[q]
<1>1. /\ ticks_used' = [ticks_used EXCEPT ![q] = IF over THEN 0 ELSE ticks_used[q]]
      /\ budget_window_start' = [budget_window_start EXCEPT ![q] = IF over THEN now[c] ELSE w]
      /\ ledger' = [ledger EXCEPT ![q] = IF over /\ due THEN 0 ELSE ledger[q]]
      /\ age' = [age EXCEPT ![q] = IF over THEN lag ELSE age[q]]
      /\ stale' = [stale EXCEPT ![q] = IF over THEN ~due /\ (stale[q] \/ age[q] < lag) ELSE stale[q]]
      /\ UNCHANGED <<cpu_budget, ticks>>
  BY Zenon DEF Consider
<1>2. /\ \A k \in Slots : k # q =>
           /\ ticks_used'[k] = ticks_used[k] /\ ledger'[k] = ledger[k] /\ stale'[k] = stale[k]
           /\ age'[k] = age[k] /\ budget_window_start'[k] = budget_window_start[k]
      /\ ticks_used'[q] = (IF over THEN 0 ELSE ticks_used[q])
      /\ ledger'[q] = (IF over /\ due THEN 0 ELSE ledger[q])
      /\ stale'[q] = (IF over THEN ~due /\ (stale[q] \/ age[q] < lag) ELSE stale[q])
      /\ age'[q] = (IF over THEN lag ELSE age[q])
      /\ budget_window_start'[q] = (IF over THEN now[c] ELSE w)
  BY <1>1, Zenon DEF TypeOK
<1>3. over /\ ~due => age[q] < lag
  <2> SUFFICES ASSUME over, ~due, ~(age[q] < lag)
               PROVE  FALSE
    BY Zenon
  <2>1. ticks \in 0..TickMod - 1 /\ now[c] \in 0..TickMod - 1 /\ w \in 0..TickMod - 1 /\ age[q] \in 0..AgeMax
    BY Numbers, Zenon
  <2>2. /\ lag \in 0..TickMod - 1 /\ Elapsed(ticks, w) \in 0..TickMod - 1
        /\ Elapsed(now[c], w) \in 0..TickMod - 1
    <3>1. ticks \in Int /\ now[c] \in Int /\ w \in Int
      BY <2>1
    <3> QED
      BY <3>1, ElapsedRange, Zenon
  <2>3. /\ Elapsed(ticks, w) >= lag => Elapsed(now[c], w) = Elapsed(ticks, w) - lag
        /\ Elapsed(ticks, w) < lag => Elapsed(now[c], w) = Elapsed(ticks, w) - lag + TickMod
    BY <2>1, ElapsedSplit, Zenon
  <2>4. cpu_budget[q] > 0 /\ Elapsed(now[c], w) >= CPU_BUDGET_WINDOW_TICKS
    BY Zenon DEF WindowOver
  <2> HIDE DEF lag, w, over
  <2>5. age[q] \in Nat /\ age[q] >= lag /\ age[q] - lag < CPU_BUDGET_WINDOW_TICKS /\ Young(q)
    BY <2>1, <2>2, <2>4 DEF Young, AgeMax
  <2>6. age[q] = Elapsed(ticks, w) \/ age[q] = Elapsed(ticks, w) + TickMod
    BY <2>4, <2>5, Zenon DEF AgeInv, AgeShown, w
  <2>7. Elapsed(now[c], w) < CPU_BUDGET_WINDOW_TICKS
    BY <2>2, <2>3, <2>5, <2>6, EarlyWindow
  <2> QED
    BY <2>2, <2>4, <2>7
<1> HIDE DEF over, due, w
<1>4. LedgerInv'
  <2>1. ~stale'[q] => ledger'[q] <= ticks_used'[q]
    <3>1. CASE over /\ due
      <4>1. ledger'[q] = 0 /\ ticks_used'[q] = 0
        BY <1>2, <3>1, Zenon
      <4> QED
        BY <4>1
    <3>2. CASE over /\ ~due
      BY <1>2, <1>3, <3>2, Zenon
    <3>3. CASE ~over
      BY <1>2, <3>3, Zenon DEF LedgerInv
    <3> QED
      BY <3>1, <3>2, <3>3, Zenon
  <2> QED
    BY <1>2, <2>1, Zenon DEF LedgerInv
<1>5. AgeInv'
  <2>1. ASSUME cpu_budget[q] > 0, Young(q)'
        PROVE  AgeShown(q)'
    <3>1. CASE over
      BY <1>1, <1>2, <3>1, Zenon DEF AgeShown
    <3>2. CASE ~over
      BY <1>1, <1>2, <2>1, <3>2, Zenon DEF AgeInv, Young, AgeShown, w
    <3> QED
      BY <3>1, <3>2, Zenon
  <2> QED
    BY <1>1, <1>2, <2>1, Zenon DEF AgeInv, Young, AgeShown
<1> QED
  BY <1>4, <1>5, Zenon

\* The boot state: no budget and no charges.
LEMMA Window_Init ==
  ASSUME Init
  PROVE  WindowInv
<1>1. 0 <= 0 /\ ~(0 > 0)
  OBVIOUS
<1> QED
  BY <1>1, Zenon DEF Init, WindowInv, LedgerInv, AgeInv

\* Every step.
LEMMA Window_Next ==
  ASSUME SchedInv, WindowInv, [Next]_vars
  PROVE  WindowInv'
<1>1. CASE Next
  <2>1. PICK c \in CPUs : Scheduler(c) \/ Timer(c) \/ Syscall(c) \/ \E q \in Slots : device(c, q)
    BY <1>1, Zenon DEF Next
  <2>2. CASE scheduler_look(c)
    BY <2>2, Window_Consider, WindowKept, Zenon DEF scheduler_look
  <2>3. CASE scheduler_start(c) \/ scheduler_end(c) \/ \E q \in Slots : device(c, q)
    BY <2>3, WindowKept, Zenon DEF scheduler_start, scheduler_end, device
  <2>4. yield(c) => WindowInv'
    BY WindowKept, Zenon DEF yield
  <2>5. CASE Timer(c)
    BY <2>4, <2>5, Window_timer, Window_usertrap_charge, Zenon DEF Timer
  <2>6. sleep(c) \/ setcpulimit_now(c) => WindowInv'
    BY WindowKept, Zenon DEF sleep, setcpulimit_now
  <2>7. \A q \in Slots, mode \in {"NORMAL", "ECO"} : setpowermode(c, q, mode) => WindowInv'
    BY WindowKept, Zenon DEF setpowermode
  <2>8. CASE Syscall(c)
    BY <2>6, <2>7, <2>8, Window_exit, Window_kfork, Window_setcpulimit, Zenon DEF Syscall
  <2> QED
    BY <2>1, <2>2, <2>3, <2>5, <2>8, Zenon DEF Scheduler
<1>2. CASE UNCHANGED vars
  BY <1>2, WindowKept, Zenon DEF vars
<1> QED
  BY <1>1, <1>2, Zenon

\* A process is charged no more ticks than its budget from one window to the
\* next that lies a whole window later, for any number of harts, processes and
\* budgets and a clock of any width, unless a hart has replaced its window with
\* an older reading of the clock.
THEOREM BudgetKept == Spec => []BudgetUnlessStale
<1>1. SchedInv /\ WindowInv /\ [Next]_vars => WindowInv'
  BY Window_Next
<1>2. SchedInv /\ WindowInv => BudgetUnlessStale
  <2> SUFFICES ASSUME SchedInv, WindowInv, NEW q \in Slots, cpu_budget[q] > 0, ~stale[q]
               PROVE  ledger[q] <= cpu_budget[q]
    BY Zenon DEF BudgetUnlessStale
  <2>1. ledger[q] \in Nat /\ ticks_used[q] \in Nat /\ cpu_budget[q] \in Nat
    BY Numbers, Ranges, Zenon DEF SchedInv
  <2>2. ledger[q] <= ticks_used[q] /\ ticks_used[q] <= cpu_budget[q]
    BY Zenon DEF SchedInv, WindowInv, LedgerInv, NoOverdraft
  <2> QED
    BY <2>1, <2>2
<1> QED
  BY <1>1, <1>2, Window_Init, SchedInvariant, PTL DEF Spec
=============================================================================
