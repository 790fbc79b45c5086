-------------------------- MODULE AccountingProofs --------------------------
(***************************************************************************)
(* Theorems about the clock and the accounting of the kernel for any       *)
(* number of processes and harts, any limits and pauses, and a clock of    *)
(* any width.  AccountingSteps has their inductive invariant.              *)
(***************************************************************************)
EXTENDS AccountingSteps

USE AccountingAssumption

-----------------------------------------------------------------------------
(* Sets and how many elements they have.                                   *)

\* What the proofs use of the library of finite sets.  The last section takes
\* it from there; the lemmas before it assume it, and so do without the library.
SetRules ==
  /\ IsFiniteSet({}) /\ Cardinality({}) = 0
  /\ \A S : IsFiniteSet(S) => Cardinality(S) \in Nat
  /\ \A S, x : IsFiniteSet(S) =>
       /\ IsFiniteSet(S \cup {x})
       /\ Cardinality(S \cup {x}) = IF x \in S THEN Cardinality(S) ELSE Cardinality(S) + 1
       /\ Cardinality(S \ {x}) = IF x \in S THEN Cardinality(S) - 1 ELSE Cardinality(S)
  /\ \A S, T : IsFiniteSet(S) /\ T \subseteq S => IsFiniteSet(T) /\ Cardinality(T) <= Cardinality(S)
  /\ \A a, b \in Int : IsFiniteSet(a..b)
  /\ \A S : S \subseteq Nat /\ S # {} => \E x \in S : \A y \in S : x <= y

\* Min of a set of slot numbers is the first of them.
LEMMA MinOfNaturals ==
  ASSUME SetRules, NEW S, S \subseteq Nat, S # {}
  PROVE  Min(S) \in S /\ \A y \in S : Min(S) <= y
BY Zenon DEF SetRules, Min

\* A set with at most one element more than another is at most one larger.
LEMMA OneMore ==
  ASSUME SetRules, NEW S, NEW T, NEW x, IsFiniteSet(S), T \subseteq S \cup {x}
  PROVE  Cardinality(T) \in Nat /\ Cardinality(T) <= Cardinality(S) + 1
<1>1. IsFiniteSet(S \cup {x}) /\ (Cardinality(S \cup {x}) = IF x \in S THEN Cardinality(S) ELSE Cardinality(S) + 1)
  BY Zenon DEF SetRules
<1>2. IsFiniteSet(T) /\ Cardinality(T) <= Cardinality(S \cup {x})
  BY <1>1, Zenon DEF SetRules
<1>3. Cardinality(T) \in Nat /\ Cardinality(S) \in Nat
  BY <1>2, Zenon DEF SetRules
<1> QED
  BY <1>1, <1>2, <1>3

\* Harts and slots are finitely many.
LEMMA FiniteHarts ==
  ASSUME SetRules, TypeInv
  PROVE  /\ IsFiniteSet(Counting) /\ Cardinality(Counting) \in Nat
         /\ \A r \in Reports : IsFiniteSet(Reported(r)) /\ Cardinality(Reported(r)) \in Nat
<1>1. IsFiniteSet(CPUs) /\ IsFiniteSet(Slots)
  <2>1. \A a, b \in Int : IsFiniteSet(a..b)
    BY Zenon DEF SetRules
  <2>2. 0 \in Int /\ 1 \in Int /\ NPROC \in Int /\ NCPU - 1 \in Int
    OBVIOUS
  <2> QED
    BY <2>1, <2>2, Zenon DEF CPUs, Slots
<1>2. Counting \subseteq CPUs
  BY Zenon DEF Counting
<1>3. \A r \in Reports : Reported(r) \subseteq Slots
  BY Zenon DEF Reported
<1> QED
  BY <1>1, <1>2, <1>3, Zenon DEF SetRules

-----------------------------------------------------------------------------
(* The steps that count switches or walk the table, and fork().            *)

\* Running a process preserves the invariant.
LEMMA Inv_scheduler_run ==
  ASSUME SetRules, AccountingInv, NEW c \in CPUs, NEW p \in Slots, scheduler_run(c, p)
  PROVE  AccountingInv'
<1> USE DEF AccountingInv
<1>act. /\ proc[c] = None /\ state[p] = "RUNNABLE" /\ switches < MaxSwitches
        /\ state' = [state EXCEPT ![p] = "RUNNING"] /\ proc' = [proc EXCEPT ![c] = p]
        /\ loaded' = [loaded EXCEPT ![c] = context_switches] /\ switches' = switches + 1
        /\ UNCHANGED <<killed, call, cpu_ticks, cpu_ticks_limit, ticks_total, set_at, context_switches>>
        /\ UNCHANGED <<ticks, active_ticks, idle_ticks, slept, tickslock, nap, report, lived, workload>>
  BY Zenon DEF scheduler_run, usage, counts, clock, pausing, reports
<1>1. TypeInv'
  BY <1>act DEF TypeInv, TypeOK
<1>2. RunInv'
  BY <1>act, NoneIsNoSlot DEF RunInv, TypeInv, TypeOK
<1>3. UsageInv'
  BY <1>act, Zenon DEF UsageInv, RunInv, TypeInv, TypeOK, Larger
<1>4. SwitchInv'
  <2>1. c \notin Counting /\ Counting' = Counting \cup {c}
    BY <1>act DEF Counting, RunInv, TypeInv, TypeOK
  <2>2. Cardinality(Counting') = Cardinality(Counting) + 1 /\ Cardinality(Counting) \in Nat
    BY <1>act, <2>1, FiniteHarts, Zenon DEF SetRules
  <2>3. \A d \in Counting' : loaded'[d] = IF d = c THEN context_switches ELSE loaded[d]
    BY <1>act, <2>1, Zenon DEF Counting, TypeInv, TypeOK
  <2>4. switches \in Nat /\ context_switches \in Nat /\ \A d \in Counting : loaded[d] \in Nat
    BY <1>act, Zenon DEF Counting, TypeInv, TypeOK
  <2> QED
    BY <1>act, <2>1, <2>2, <2>3, <2>4, SMTT(30) DEF SwitchInv
<1>5. NapInv'
  BY <1>act, Zenon DEF NapInv, RunInv, TypeInv, TypeOK, Minus
<1>6. ReportInv'
  BY <1>act, Zenon DEF ReportInv, RunInv, TypeInv, TypeOK, Plus, Reported
<1> QED
  BY <1>1, <1>2, <1>3, <1>4, <1>5, <1>6, Zenon

\* Counting a switch preserves the invariant.
LEMMA Inv_scheduler_count ==
  ASSUME SetRules, AccountingInv, NEW c \in CPUs, scheduler_count(c)
  PROVE  AccountingInv'
<1> USE DEF AccountingInv
<1>act. /\ loaded[c] # -1 /\ context_switches' = loaded[c] + 1
        /\ loaded' = [loaded EXCEPT ![c] = -1]
        /\ UNCHANGED <<state, killed, call, cpu_ticks, cpu_ticks_limit, ticks_total, set_at, proc, switches>>
        /\ UNCHANGED <<ticks, active_ticks, idle_ticks, slept, tickslock, nap, report, lived, workload>>
  BY Zenon DEF scheduler_count, usage, counts, clock, pausing, reports
<1>1. TypeInv'
  BY <1>act DEF TypeInv, TypeOK
<1>2. RunInv'
  BY <1>act, NoneIsNoSlot DEF RunInv, TypeInv, TypeOK
<1>3. UsageInv'
  BY <1>act, UsageKept, Zenon
<1>4. SwitchInv'
  <2>1. c \in Counting /\ Counting' = Counting \ {c}
    BY <1>act, Zenon DEF Counting, TypeInv, TypeOK
  <2>2. Cardinality(Counting') = Cardinality(Counting) - 1 /\ Cardinality(Counting) \in Nat
    BY <1>act, <2>1, FiniteHarts, Zenon DEF SetRules
  <2>3. \A d \in Counting' : loaded'[d] = loaded[d]
    BY <1>act, <2>1, Zenon DEF Counting, TypeInv, TypeOK
  <2>4. switches \in Nat /\ context_switches \in Nat /\ \A d \in Counting : loaded[d] \in Nat
    BY <1>act, Zenon DEF Counting, TypeInv, TypeOK
  <2>5. loaded[c] + Cardinality(Counting) <= switches
    BY <1>act, <2>1, Zenon DEF SwitchInv
  <2>6. ASSUME NEW d \in Counting'
        PROVE  loaded'[d] + Cardinality(Counting') <= switches'
    BY <1>act, <2>1, <2>2, <2>3, <2>4 DEF SwitchInv
  <2>7. context_switches' + Cardinality(Counting') <= switches'
    BY <1>act, <2>1, <2>2, <2>4, <2>5
  <2> QED
    BY <1>act, <2>6, <2>7, Zenon DEF SwitchInv
<1>5. NapInv'
  BY <1>act, NapKept, Zenon
<1>6. ReportInv'
  BY <1>act, ReportKept, Zenon
<1> QED
  BY <1>1, <1>2, <1>3, <1>4, <1>5, <1>6, Zenon

\* fork() preserves the invariant.
LEMMA Inv_kfork ==
  ASSUME SetRules, AccountingInv, NEW c \in CPUs, kfork(c)
  PROVE  AccountingInv'
<1> USE DEF AccountingInv, usage, counts, clock, pausing, reports
<1>run. proc[c] \in Slots /\ state[proc[c]] = "RUNNING"
  BY Running, Zenon DEF kfork, Calls
<1> DEFINE np == Min({q \in Slots : state[q] = "UNUSED"})
<1>np. np \in Slots /\ state[np] = "UNUSED"
  <2>1. {q \in Slots : state[q] = "UNUSED"} \subseteq Nat
    BY DEF Slots
  <2> QED
    BY <2>1, MinOfNaturals DEF kfork
<1> HIDE DEF np
<1>child. /\ state' = [state EXCEPT ![np] = "RUNNABLE"]
      /\ cpu_ticks_limit' = [cpu_ticks_limit EXCEPT ![np] = cpu_ticks_limit[proc[c]]]
      /\ UNCHANGED <<killed, call, cpu_ticks, ticks_total, set_at, proc, counts, clock, pausing, reports>>
  BY Zenon DEF np, kfork
<1>1. TypeInv'
  <2>1. state' \in [Slots -> {"UNUSED", "RUNNABLE", "RUNNING", "SLEEPING"}] /\ cpu_ticks_limit' \in [Slots -> Nat]
    BY <1>run, <1>np, <1>child, Zenon DEF TypeInv, TypeOK
  <2> QED
    BY <1>child, <2>1, Zenon DEF TypeInv, TypeOK
<1>2. RunInv'
  BY <1>run, <1>np, <1>child, Zenon DEF RunInv, TypeInv, TypeOK
<1>3. UsageInv'
  BY <1>run, <1>np, <1>child DEF UsageInv, TypeInv, TypeOK, Larger
<1>4. SwitchInv'
  BY <1>child, SwitchKept, Zenon DEF counts
<1>5. NapInv'
  BY <1>run, <1>np, <1>child, Zenon DEF NapInv, TypeInv, TypeOK, Minus
<1>6. ReportInv'
  BY <1>run, <1>np, <1>child, ZenonT(30) DEF ReportInv, TypeInv, TypeOK, Reported
<1> QED
  BY <1>1, <1>2, <1>3, <1>4, <1>5, <1>6, Zenon

\* The start of getsyshealth() preserves the invariant.
LEMMA Inv_sys_getsyshealth ==
  ASSUME SetRules, AccountingInv, NEW c \in CPUs, sys_getsyshealth(c)
  PROVE  AccountingInv'
<1> USE DEF AccountingInv
<1>act. /\ call[proc[c]] = "none"
        /\ call' = [call EXCEPT ![proc[c]] = "report"] /\ lived' = {p \in Slots : state[p] # "UNUSED"}
        /\ UNCHANGED <<state, killed, cpu_ticks, cpu_ticks_limit, ticks_total, set_at, proc>>
        /\ UNCHANGED <<loaded, context_switches, switches, ticks, active_ticks, idle_ticks, slept>>
        /\ UNCHANGED <<tickslock, nap, workload>>
  BY Zenon DEF sys_getsyshealth, Begin, Calls, usage, counts, clock, pausing, reports
<1>run. proc[c] \in Slots /\ state[proc[c]] = "RUNNING"
  BY Running, Zenon DEF sys_getsyshealth, Begin, Calls
<1>new. report' = [by |-> proc[c], kind |-> "getsyshealth", next |-> 1, max |-> NPROC, uptime |-> ticks,
                   active |-> active_ticks, idle |-> idle_ticks, entry |-> [p \in Slots |-> -1]]
  BY Zenon DEF NoReport, sys_getsyshealth, Begin
<1>1. TypeInv'
  <2>1. report' \in Reports
    BY <1>act, <1>run, <1>new DEF Reports, Uints, TypeInv, TypeOK
  <2>2. TypeOK'
    BY <1>act, <1>run, <2>1, Zenon DEF TypeInv, TypeOK, Reports
  <2> QED
    BY <1>act, <2>1, <2>2, Zenon DEF TypeInv
<1>2. RunInv'
  BY <1>act, RunKept, Zenon
<1>3. UsageInv'
  BY <1>act, UsageKept, Zenon
<1>4. SwitchInv'
  BY <1>act, SwitchKept, Zenon
<1>5. NapInv'
  BY <1>act DEF NapInv, RunInv, TypeInv, TypeOK, Minus
<1>6. ReportInv'
  <2>entry. /\ report'.entry = [p \in Slots |-> -1]
            /\ \A p \in Slots : report'.entry[p] = -1
    <3>1. report'.entry = [p \in Slots |-> -1]
      BY <1>act, <1>new, Zenon
    <3> QED
      BY <1>act, <3>1, Zenon
  <2>1. Reported(report') = {}
    BY <1>act, <2>entry, Zenon DEF Reported
  <2>2. Cardinality(Reported(report')) = 0
    BY <1>act, <2>1, Zenon DEF SetRules
  <2>3. report'.uptime = Plus(report'.active, report'.idle)
    BY <1>act, <1>new, ModSmall, Zenon DEF Plus, ReportInv
  <2>4. \A p \in lived' : /\ p \in Slots /\ state[p] # "UNUSED" /\ cpu_ticks[p] \in Nat
                          /\ report'.entry[p] = -1 /\ p >= 1
    <3>1. \A p \in Slots : p >= 1
      BY AccountingAssumption, SMTT(30) DEF Slots
    <3> QED
      BY <1>act, <2>entry, <3>1, Zenon DEF TypeInv, TypeOK
  <2>5. report'.by = proc[c] /\ report'.next = 1 /\ report'.max >= 0 /\ call'[proc[c]] = "report"
    BY <1>act, <1>run, <1>new DEF TypeInv, TypeOK
  <2> QED
    BY <1>act, <2>2, <2>3, <2>4, <2>5 DEF ReportInv, Slots
<1> QED
  BY <1>1, <1>2, <1>3, <1>4, <1>5, <1>6, Zenon

\* The start of proccost() preserves the invariant.
LEMMA Inv_sys_proccost ==
  ASSUME SetRules, AccountingInv, NEW c \in CPUs, NEW max \in Entries, sys_proccost(c, max)
  PROVE  AccountingInv'
<1> USE DEF AccountingInv
<1>act. /\ call[proc[c]] = "none" /\ max > 0
        /\ call' = [call EXCEPT ![proc[c]] = "report"] /\ lived' = {p \in Slots : state[p] # "UNUSED"}
        /\ UNCHANGED <<state, killed, cpu_ticks, cpu_ticks_limit, ticks_total, set_at, proc>>
        /\ UNCHANGED <<loaded, context_switches, switches, ticks, active_ticks, idle_ticks, slept>>
        /\ UNCHANGED <<tickslock, nap, workload>>
  BY Zenon DEF sys_proccost, Begin, Calls, usage, counts, clock, pausing, reports
<1>run. proc[c] \in Slots /\ state[proc[c]] = "RUNNING"
  BY Running, Zenon DEF sys_proccost, Begin, Calls
<1>new. report' = [by |-> proc[c], kind |-> "proccost", next |-> 1, max |-> max, uptime |-> 0,
                   active |-> 0, idle |-> 0, entry |-> [p \in Slots |-> -1]]
  BY Zenon DEF NoReport, sys_proccost, Begin
<1>1. TypeInv'
  <2>1. report' \in Reports
    BY <1>act, <1>run, <1>new DEF Reports, Uints, TypeInv, TypeOK
  <2>2. TypeOK'
    BY <1>act, <1>run, <2>1, Zenon DEF TypeInv, TypeOK, Reports
  <2> QED
    BY <1>act, <2>1, <2>2, Zenon DEF TypeInv
<1>2. RunInv'
  BY <1>act, RunKept, Zenon
<1>3. UsageInv'
  BY <1>act, UsageKept, Zenon
<1>4. SwitchInv'
  BY <1>act, SwitchKept, Zenon
<1>5. NapInv'
  BY <1>act DEF NapInv, RunInv, TypeInv, TypeOK, Minus
<1>6. ReportInv'
  <2>entry. /\ report'.entry = [p \in Slots |-> -1]
            /\ \A p \in Slots : report'.entry[p] = -1
    <3>1. report'.entry = [p \in Slots |-> -1]
      BY <1>act, <1>new, Zenon
    <3> QED
      BY <1>act, <3>1, Zenon
  <2>1. Reported(report') = {}
    BY <1>act, <2>entry, Zenon DEF Reported
  <2>2. Cardinality(Reported(report')) = 0
    BY <1>act, <2>1, Zenon DEF SetRules
  <2>3. report'.uptime = Plus(report'.active, report'.idle)
    <3>1. Plus(0, 0) = 0
      BY <1>act, ModSmall DEF Plus
    <3>2. report'.uptime = 0 /\ report'.active = 0 /\ report'.idle = 0
      BY <1>act, <1>new, Zenon
    <3> QED
      BY <1>act, <3>1, <3>2, Zenon
  <2>4. \A p \in lived' : /\ p \in Slots /\ state[p] # "UNUSED" /\ cpu_ticks[p] \in Nat
                          /\ report'.entry[p] = -1 /\ p >= 1
    <3>1. \A p \in Slots : p >= 1
      BY AccountingAssumption, SMTT(30) DEF Slots
    <3> QED
      BY <1>act, <2>entry, <3>1, Zenon DEF TypeInv, TypeOK
  <2>5. report'.by = proc[c] /\ report'.next = 1 /\ report'.max >= 0 /\ call'[proc[c]] = "report"
    BY <1>act, <1>run, <1>new DEF TypeInv, TypeOK
  <2> QED
    BY <1>act, <2>2, <2>3, <2>4, <2>5 DEF ReportInv, Slots
<1> QED
  BY <1>1, <1>2, <1>3, <1>4, <1>5, <1>6, Zenon

\* A slot of a report preserves the invariant.
LEMMA Inv_report_slot ==
  ASSUME SetRules, AccountingInv, NEW c \in CPUs, report_slot(c)
  PROVE  AccountingInv'
<1> USE DEF AccountingInv
<1>act. /\ report.by = proc[c] /\ Walking(report)
        /\ UNCHANGED <<call, state, killed, cpu_ticks, cpu_ticks_limit, ticks_total, set_at, proc>>
        /\ UNCHANGED <<loaded, context_switches, switches, ticks, active_ticks, idle_ticks, slept>>
        /\ UNCHANGED <<tickslock, nap, lived, workload>>
  BY Zenon DEF report_slot, usage, counts, clock, pausing, reports
<1>run. proc[c] \in Slots /\ state[proc[c]] = "RUNNING"
  BY Running, Zenon DEF report_slot
<1> DEFINE p == report.next
           says == IF state[p] = "UNUSED" THEN -1
                   ELSE IF report.kind = "proccost" THEN cpu_ticks[p]
                   ELSE IF state[p] \in {"RUNNING", "RUNNABLE"} THEN 1 ELSE 0
<1>slot. p \in Slots /\ report \in Reports /\ report.by = proc[c]
  BY <1>act, <1>run, NoneIsNoSlot DEF Walking, TypeInv, Slots, Reports, ReportInv
<1>new. report' = [report EXCEPT !.next = p + 1, !.entry = [report.entry EXCEPT ![p] = says]]
  BY Zenon DEF report_slot, After
<1>says. says \in Int /\ (state[p] # "UNUSED" => says # -1 /\ (report.kind = "proccost" => says = cpu_ticks[p]))
  BY <1>slot DEF TypeInv, TypeOK
<1> HIDE DEF says
<1>1. TypeInv'
  <2>1. report' \in Reports
    <3>1. [report.entry EXCEPT ![p] = says] \in [Slots -> Int] /\ p + 1 \in Nat
      BY <1>act, <1>slot, <1>says DEF Reports, Slots
    <3> QED
      BY <1>act, <1>slot, <1>new, <3>1, Zenon DEF Reports
  <2>2. TypeOK'
    BY <1>act, <2>1, Zenon DEF TypeInv, TypeOK, Reports
  <2> QED
    BY <1>act, <2>1, <2>2, Zenon DEF TypeInv
<1>2. RunInv'
  BY <1>act, RunKept, Zenon
<1>3. UsageInv'
  BY <1>act, UsageKept, Zenon
<1>4. SwitchInv'
  BY <1>act, SwitchKept, Zenon
<1>5. NapInv'
  BY <1>act, NapKept, Zenon
<1>6. ReportInv'
  <2>1. /\ report'.next = p + 1 /\ report'.by = report.by /\ report'.kind = report.kind
        /\ report'.max = report.max /\ report'.uptime = report.uptime
        /\ report'.active = report.active /\ report'.idle = report.idle
        /\ report'.entry = [report.entry EXCEPT ![p] = says]
    BY <1>act, <1>slot, <1>new, Zenon DEF Reports
  <2>2. Cardinality(Reported(report')) <= report.max
    <3>1. Reported(report') \subseteq Reported(report) \cup {p}
      BY <1>act, <1>slot, <2>1, Zenon DEF Reported, Reports
    <3>2. IsFiniteSet(Reported(report)) /\ Cardinality(Reported(report)) \in Nat
      BY <1>act, <1>slot, FiniteHarts, Zenon
    <3>3. Cardinality(Reported(report)) < report.max /\ report.max \in Int
      BY <1>act, <1>slot, Zenon DEF Walking, Reports
    <3>4. Cardinality(Reported(report')) \in Nat /\ Cardinality(Reported(report')) <= Cardinality(Reported(report)) + 1
      BY <3>1, <3>2, OneMore, Zenon
    <3> QED
      BY <3>2, <3>3, <3>4
  <2>3. ASSUME NEW q \in lived
        PROVE  /\ q < p + 1 => report'.entry[q] # -1
               /\ report.kind = "proccost" => report'.entry[q] <= cpu_ticks[q]
    <3>1. q \in Slots /\ cpu_ticks[q] \in Nat /\ report.by # None
      BY <1>act, <1>run, <1>slot, <2>3, NoneIsNoSlot, Zenon DEF TypeInv, TypeOK
    <3>2. CASE q = p
      BY <1>act, <1>slot, <1>says, <2>1, <3>1, <3>2, SMTT(30) DEF ReportInv, Reports
    <3>3. CASE q # p
      <4>1. report'.entry[q] = report.entry[q] /\ (q < p + 1 => q < report.next)
        BY <1>act, <1>slot, <2>1, <3>1, <3>3, SMTT(30) DEF Reports, Slots
      <4> QED
        BY <1>act, <3>1, <4>1, Zenon DEF ReportInv
    <3> QED
      BY <3>2, <3>3, Zenon
  <2>4. p + 1 >= 1
    BY <1>slot DEF Slots
  <2> HIDE DEF p
  <2>5. /\ ticks = Plus(active_ticks, idle_ticks) /\ call[report.by] = "report"
        /\ report.uptime = Plus(report.active, report.idle) /\ \A q \in lived : state[q] # "UNUSED"
    BY <1>act, <1>run, NoneIsNoSlot, Zenon DEF ReportInv
  <2>6. ticks' = Plus(active_ticks', idle_ticks')
    BY <1>act, <2>5, Zenon DEF Plus
  <2>7. \A q \in lived' : /\ state'[q] # "UNUSED" /\ (q < report'.next => report'.entry[q] # -1)
                          /\ report'.kind = "proccost" => report'.entry[q] <= cpu_ticks'[q]
    BY <1>act, <2>1, <2>3, <2>5, Zenon
  <2>8. /\ call'[report'.by] = "report" /\ report'.next >= 1
        /\ report'.uptime = Plus(report'.active, report'.idle)
        /\ Cardinality(Reported(report')) <= report'.max
    BY <1>act, <2>1, <2>2, <2>4, <2>5, Zenon DEF Plus
  <2> QED
    BY <2>6, <2>7, <2>8, Zenon DEF ReportInv, Plus, Reported
<1> QED
  BY <1>1, <1>2, <1>3, <1>4, <1>5, <1>6, Zenon

-----------------------------------------------------------------------------
(* The invariant, and what follows from it.                                *)

\* The boot state satisfies the invariant.
LEMMA Inv_Init ==
  ASSUME SetRules, Init
  PROVE  AccountingInv
<1> USE DEF Init
<1>1. TypeInv
  <2>1. report \in Reports
    BY DEF NoReport, Reports, Uints
  <2>2. nap \in [Slots -> [ticks0 : 0..TickMod - 1, n : Nat]]
    BY SMTT(30) DEF NoNap
  <2> QED
    BY <2>1, <2>2, SMTT(30) DEF TypeInv, TypeOK, Reports
<1>2. RunInv /\ UsageInv /\ NapInv
  BY NoneIsNoSlot DEF RunInv, UsageInv, NapInv, Larger
<1>3. SwitchInv
  <2>1. Counting = {}
    BY Zenon DEF Counting
  <2> QED
    BY <2>1 DEF SwitchInv, SetRules
<1>4. ReportInv
  <2>1. Plus(0, 0) = 0
    BY ModSmall DEF Plus
  <2> QED
    BY <2>1, Zenon DEF ReportInv, NoReport
<1> QED
  BY <1>1, <1>2, <1>3, <1>4, Zenon DEF AccountingInv

\* Every step, and every step that changes nothing, preserves the invariant.
LEMMA Inv_Next ==
  ASSUME SetRules, AccountingInv, [Next]_vars
  PROVE  AccountingInv'
<1>1. CASE Next
  <2>1. PICK c \in CPUs :
          \/ \E p \in Slots : scheduler_run(c, p)
          \/ scheduler_count(c)
          \/ usertrap_timer(c) \/ kerneltrap_timer(c) \/ scheduler_timer(c)
          \/ exit(c) \/ kfork(c)
          \/ \E p \in Slots, max \in Limits : sys_setusagelimit(c, p, max)
          \/ \E p \in Slots : kkill(c, p)
          \/ \E n \in Naps : sys_pause(c, n)
          \/ pause_sleep(c) \/ pause_woken(c)
          \/ sys_getsyshealth(c) \/ report_slot(c) \/ report_return(c)
          \/ \E max \in Entries : sys_proccost(c, max)
    BY <1>1, Zenon DEF Next
  <2> QED
    BY <2>1, Inv_scheduler_run, Inv_scheduler_count, Inv_usertrap_timer, Inv_kerneltrap_timer,
       Inv_scheduler_timer, Inv_exit, Inv_kfork, Inv_sys_setusagelimit,
       Inv_kkill, Inv_sys_pause, Inv_pause_sleep, Inv_pause_woken,
       Inv_sys_getsyshealth, Inv_sys_proccost, Inv_report_slot, Inv_report_return, Zenon
<1>2. CASE UNCHANGED vars
  <2>1. /\ UNCHANGED <<state, killed, call, cpu_ticks, cpu_ticks_limit, ticks_total, set_at, proc>>
        /\ UNCHANGED <<loaded, context_switches, switches, ticks, active_ticks, idle_ticks, slept>>
        /\ UNCHANGED <<tickslock, nap, report, lived, workload>>
    BY <1>2, Zenon DEF vars, usage, counts, clock, pausing, reports
  <2>2. TypeInv'
    BY <2>1, Zenon DEF AccountingInv, TypeInv, TypeOK
  <2>3. RunInv' /\ UsageInv' /\ SwitchInv'
    BY <2>1, RunKept, UsageKept, SwitchKept, Zenon DEF AccountingInv
  <2>4. NapInv' /\ ReportInv'
    BY <2>1, NapKept, ReportKept, Zenon DEF AccountingInv
  <2> QED
    BY <2>2, <2>3, <2>4, Zenon DEF AccountingInv
<1> QED
  BY <1>1, <1>2, Zenon

-----------------------------------------------------------------------------
(* The theorems.                                                           *)

Sets == INSTANCE FiniteSetTheorems

\* IsFiniteSet and Cardinality are those of the library's theorems.
LEMMA SameSets ==
  \A S : (IsFiniteSet(S) <=> Sets!IsFiniteSet(S)) /\ Cardinality(S) = Sets!Cardinality(S)
BY Zenon DEF IsFiniteSet, Sets!IsFiniteSet, Cardinality, Sets!Cardinality

\* The library has these facts.
LEMMA SetRulesHold == SetRules
<1>1. IsFiniteSet({}) /\ Cardinality({}) = 0
  BY SameSets, Sets!FS_EmptySet, Zenon
<1>2. \A S : IsFiniteSet(S) => Cardinality(S) \in Nat
  BY SameSets, Sets!FS_CardinalityType, Zenon
<1>3. \A S, x : IsFiniteSet(S) =>
        /\ IsFiniteSet(S \cup {x})
        /\ Cardinality(S \cup {x}) = IF x \in S THEN Cardinality(S) ELSE Cardinality(S) + 1
  BY SameSets, Sets!FS_AddElement, Zenon
<1>4. \A S, x : IsFiniteSet(S) =>
        Cardinality(S \ {x}) = IF x \in S THEN Cardinality(S) - 1 ELSE Cardinality(S)
  BY SameSets, Sets!FS_RemoveElement, Zenon
<1>5. \A S, T : IsFiniteSet(S) /\ T \subseteq S => IsFiniteSet(T) /\ Cardinality(T) <= Cardinality(S)
  <2> SUFFICES ASSUME NEW S, NEW T, IsFiniteSet(S), T \subseteq S
               PROVE  IsFiniteSet(T) /\ Cardinality(T) <= Cardinality(S)
    BY Zenon
  <2>1. T \in SUBSET S /\ Sets!IsFiniteSet(S)
    BY SameSets, Zenon
  <2>2. Sets!IsFiniteSet(T) /\ Sets!Cardinality(T) <= Sets!Cardinality(S)
    BY <2>1, Sets!FS_Subset, Zenon
  <2> QED
    BY <2>2, SameSets, Zenon
<1>6. \A a, b \in Int : IsFiniteSet(a..b)
  BY SameSets, Sets!FS_Interval, Zenon
<1>7. ASSUME NEW S, S \subseteq Nat, S # {}
      PROVE  \E x \in S : \A y \in S : x <= y
  <2>1. PICK x \in S : \A y \in S : <<y, x>> \notin Sets!OpToRel(<, Nat)
    BY <1>7, Sets!NatLessThanWellFounded, Sets!WFMin, Zenon
  <2>2. ASSUME NEW y \in S
        PROVE  x <= y
    <3>1. ~(y < x)
      BY <1>7, <2>1, Zenon DEF Sets!OpToRel
    <3> QED
      BY <1>7, <3>1
  <2> QED
    BY <2>2, Zenon
<1> QED
  BY <1>1, <1>2, <1>3, <1>4, <1>5, <1>6, <1>7, Zenon DEF SetRules

\* The invariant holds throughout.
THEOREM AccountingInvariant == Spec => []AccountingInv
<1>1. Init => AccountingInv
  BY SetRulesHold, Inv_Init, Zenon
<1>2. AccountingInv /\ [Next]_vars => AccountingInv'
  BY SetRulesHold, Inv_Next, Zenon
<1> QED
  BY <1>1, <1>2, PTL DEF Spec

\* Type correctness of the state that trap.c, proc.c and sysproc.c keep.
THEOREM AccountingTypeCorrect == Spec => []TypeOK
<1>1. AccountingInv => TypeOK
  BY Zenon DEF AccountingInv, TypeInv
<1> QED
  BY <1>1, AccountingInvariant, PTL

\* getcputicks() never reports more than usagestat: usertrap() charges only
\* what clockintr() has counted, on any number of harts.
THEOREM TicksAgree == Spec => []ChargedTicksCounted
<1>1. AccountingInv => ChargedTicksCounted
  BY Zenon DEF AccountingInv, UsageInv, ChargedTicksCounted
<1> QED
  BY <1>1, AccountingInvariant, PTL

\* The usage limit holds in user mode to within the one tick after which
\* usertrap() marks the process killed, whatever limits are set and whenever.
THEOREM UsageCapped == Spec => []UserTicksCapped
<1>1. AccountingInv => UserTicksCapped
  BY DEF AccountingInv, TypeInv, TypeOK, UsageInv, UserTicksCapped, Larger
<1> QED
  BY <1>1, AccountingInvariant, PTL

\* context_switches++ of any number of schedulers under no common lock never
\* counts a switch that was not made.
THEOREM SwitchCount == Spec => []SwitchesNotOvercounted
<1>1. AccountingInv => SwitchesNotOvercounted
  BY Zenon DEF AccountingInv, SwitchInv, SwitchesNotOvercounted, Counting
<1> QED
  BY <1>1, AccountingInvariant, PTL

\* pause() lets no process sleep on when its time is over, for a clock of any
\* width and across its wrap.
THEOREM PauseIsExact == Spec => []PauseKept
<1>1. AccountingInv => PauseKept
  BY Zenon DEF AccountingInv, NapInv, PauseKept
<1> QED
  BY <1>1, AccountingInvariant, PTL

\* getsyshealth() and proccost() tell the truth about a process table that
\* changes under their walk, for tables and rooms of any size.
THEOREM ReportsAreSound == Spec => []ReportSound
<1>1. ASSUME AccountingInv, report.by # None, ~Walking(report)
      PROVE  /\ report.uptime = Plus(report.active, report.idle)
             /\ lived \subseteq Reported(report) \/ Cardinality(Reported(report)) = report.max
             /\ report.kind = "proccost" => \A p \in lived : report.entry[p] <= cpu_ticks[p]
  <2>1. report \in Reports /\ lived \subseteq Slots /\ ReportInv
    BY <1>1, Zenon DEF AccountingInv, TypeInv, TypeOK
  <2>2. CASE report.next <= NPROC
    <3>1. Cardinality(Reported(report)) \in Nat
      BY <1>1, <2>1, SetRulesHold, FiniteHarts, Zenon DEF AccountingInv
    <3>2. Cardinality(Reported(report)) = report.max
      BY <1>1, <2>1, <2>2, <3>1, SMTT(30) DEF Walking, ReportInv, Reports
    <3> QED
      BY <1>1, <2>1, <3>2, Zenon DEF ReportInv
  <2>3. CASE ~(report.next <= NPROC)
    <3>1. \A p \in lived : p \in Slots /\ p < report.next
      BY <2>1, <2>3, SMTT(30) DEF Slots, Reports
    <3> QED
      BY <1>1, <2>1, <3>1, Zenon DEF ReportInv, Reported
  <2> QED
    BY <2>2, <2>3, Zenon
<1>2. AccountingInv => ReportSound
  BY <1>1, Zenon DEF ReportSound
<1> QED
  BY <1>2, AccountingInvariant, PTL

\* No process leaves pause(n) before n ticks, unless it was killed: the action
\* property, for a clock of any width.
THEOREM PauseNotShort == Spec => PauseLasts
<1>1. ASSUME AccountingInv, [Next]_vars
      PROVE  [\A p \in Slots : call[p] = "sleep" /\ call'[p] = "none" =>
                slept[p] >= nap[p].n \/ killed[p]]_vars
  BY <1>1, PauseEnds, Zenon
<1> QED
  BY <1>1, AccountingInvariant, PTL DEF Spec, PauseLasts
=============================================================================
