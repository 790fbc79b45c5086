----------------------------- MODULE SleepLock ------------------------------
(***************************************************************************)
(* Sleep-locks (kernel/sleeplock.c) down to the spinlocks, the interrupt   *)
(* flags and the context switches they are made of: acquire()/release()    *)
(* with push_off()/pop_off() (kernel/spinlock.c), and sleep(), wakeup(),   *)
(* sched(), yield() and the switch in scheduler() (kernel/proc.c).         *)
(*                                                                         *)
(* Processes contend for one sleep-lock lk.  Each p->lock is explicit:     *)
(* sleep() takes it before it lets go of lk->lk, the scheduler of the CPU  *)
(* drops it once it is off the process's stack, and wakeup() takes it to   *)
(* look at a process.  A critical section in which nothing else can happen *)
(* is one action.  Timer interrupts preempt whenever interrupts are on.    *)
(* Which runnable process a scheduler picks is left open here.             *)
(***************************************************************************)
EXTENDS Naturals, FiniteSets

CONSTANTS
  NPROC,      \* size of the process table
  CPUs,       \* the harts
  NoCpu       \* lk->cpu of a free spinlock

ASSUME SleepLockAssumption ==
  /\ NPROC \in Nat
  /\ IsFiniteSet(CPUs)
  /\ NoCpu \notin CPUs

Procs == 1..NPROC
NoProc == 0

VARIABLES
  lkcpu,      \* the CPU holding lk->lk
  pcpu,       \* [Procs]: the CPU holding p->lock
  locked,     \* lk->locked
  owner,      \* lk->pid
  state,      \* p->state
  chan,       \* p->chan is lk
  noff,       \* [CPUs]: c->noff
  intena,     \* [CPUs]: c->intena
  intr,       \* [CPUs]: interrupts are enabled
  proc,       \* [CPUs]: c->proc
  left,       \* [CPUs]: the process scheduler() has just switched away from
  saved,      \* [Procs]: the local intena of sched()
  pc,         \* [Procs]: where the process is
  trap,       \* [Procs]: where it is in a timer trap, if in one
  next        \* [Procs]: loop variable of wakeup()

spin == <<noff, intena, intr>>
sched_vars == <<proc, left, saved>>
vars == <<lkcpu, pcpu, locked, owner, state, chan, spin, sched_vars, pc, trap, next>>

Init ==
  /\ lkcpu = NoCpu
  /\ pcpu = [p \in Procs |-> NoCpu]
  /\ locked = FALSE
  /\ owner = NoProc
  /\ state = [p \in Procs |-> "RUNNABLE"]
  /\ chan = [p \in Procs |-> FALSE]
  /\ noff = [c \in CPUs |-> 0]
  /\ intena = [c \in CPUs |-> FALSE]
  /\ intr = [c \in CPUs |-> FALSE]
  /\ proc = [c \in CPUs |-> NoProc]
  /\ left = [c \in CPUs |-> NoProc]
  /\ saved = [p \in Procs |-> TRUE]
  /\ pc = [p \in Procs |-> "out"]
  /\ trap = [p \in Procs |-> "resume"]
  /\ next = [p \in Procs |-> 1]

-----------------------------------------------------------------------------
(* spinlock.c                                                              *)

push_off(c) ==
  /\ intr' = [intr EXCEPT ![c] = FALSE]
  /\ intena' = IF noff[c] = 0 THEN [intena EXCEPT ![c] = intr[c]] ELSE intena
  /\ noff' = [noff EXCEPT ![c] = @ + 1]

\* pop_off() panics unless interrupts are off and noff is positive.
pop_off(c) ==
  /\ ~intr[c] /\ noff[c] >= 1
  /\ noff' = [noff EXCEPT ![c] = @ - 1]
  /\ intr' = [intr EXCEPT ![c] = @ \/ (noff[c] = 1 /\ intena[c])]
  /\ UNCHANGED intena

acquire_lk(c) == lkcpu = NoCpu /\ lkcpu' = c /\ push_off(c)
release_lk(c) == lkcpu = c /\ lkcpu' = NoCpu /\ pop_off(c)

\* Mutant: the process is looked at without its lock.
CanVisit_Unlocked(p) == TRUE

\* p->lock is taken, looked under and released within the step.
CanVisit(p) == pcpu[p] = NoCpu

-----------------------------------------------------------------------------
(* The step of the process on CPU c from place a to place b.               *)

At(c, a) == proc[c] # NoProc /\ pc[proc[c]] = a /\ trap[proc[c]] = "none"
Goto(c, b) == pc' = [pc EXCEPT ![proc[c]] = b]

\* acquiresleep(): acquire(&lk->lk).
acquiresleep(c) ==
  /\ At(c, "out")
  /\ acquire_lk(c)
  /\ Goto(c, "test")
  /\ UNCHANGED <<pcpu, locked, owner, state, chan, sched_vars, trap, next>>

\* The loop test: take the lock and release lk->lk, or go to sleep().
test(c) ==
  /\ At(c, "test")
  /\ \/ /\ locked
        /\ Goto(c, "sleep")
        /\ UNCHANGED <<lkcpu, locked, owner, spin>>
     \/ /\ ~locked
        /\ locked' = TRUE
        /\ owner' = proc[c]
        /\ release_lk(c)
        /\ Goto(c, "in")
  /\ UNCHANGED <<pcpu, state, chan, sched_vars, trap, next>>

\* sleep(): acquire(&p->lock) ...
sleep_acquire(c) ==
  /\ At(c, "sleep")
  /\ pcpu[proc[c]] = NoCpu
  /\ pcpu' = [pcpu EXCEPT ![proc[c]] = c]
  /\ push_off(c)
  /\ Goto(c, "sleep_release")
  /\ UNCHANGED <<lkcpu, locked, owner, state, chan, sched_vars, trap, next>>

\* ... release(lk) ...
sleep_release(c) ==
  /\ At(c, "sleep_release")
  /\ release_lk(c)
  /\ Goto(c, "sleep_sched")
  /\ UNCHANGED <<pcpu, locked, owner, state, chan, sched_vars, trap, next>>

\* sched(): swtch() to the scheduler of this CPU, in the new p->state.  It
\* panics unless p->lock is the one lock held, with interrupts off.
sched(c, newstate) ==
  /\ pcpu'[proc[c]] = c /\ noff'[c] = 1 /\ ~intr'[c]
  /\ state' = [state EXCEPT ![proc[c]] = newstate]
  /\ left' = [left EXCEPT ![c] = proc[c]]
  /\ proc' = [proc EXCEPT ![c] = NoProc]

\* ... p->chan = chan, p->state = SLEEPING, sched().
sleep_sched(c) ==
  /\ At(c, "sleep_sched")
  /\ UNCHANGED <<lkcpu, pcpu, locked, owner, spin, trap, next>>
  /\ chan' = [chan EXCEPT ![proc[c]] = TRUE]
  /\ saved' = [saved EXCEPT ![proc[c]] = intena[c]]
  /\ sched(c, "SLEEPING")
  /\ Goto(c, "sleep_done")

\* Mutant: acquiresleep() tests lk->locked with "if", not "while".
sleep_tidy_NoRetest(c) ==
  /\ At(c, "sleep_done")
  /\ chan' = [chan EXCEPT ![proc[c]] = FALSE]
  /\ pcpu' = [pcpu EXCEPT ![proc[c]] = NoCpu]
  /\ locked' = TRUE
  /\ owner' = proc[c]
  /\ pop_off(c)
  /\ Goto(c, "in")
  /\ UNCHANGED <<lkcpu, state, sched_vars, trap, next>>

\* Back from sched(): p->chan = 0, release(&p->lock), acquire(lk).
sleep_tidy(c) ==
  /\ At(c, "sleep_done")
  /\ chan' = [chan EXCEPT ![proc[c]] = FALSE]
  /\ pcpu' = [pcpu EXCEPT ![proc[c]] = NoCpu]
  /\ pop_off(c)
  /\ Goto(c, "out")
  /\ UNCHANGED <<lkcpu, locked, owner, state, sched_vars, trap, next>>

\* Mutant: the call of wakeup() is missing.
releasesleep_Silent(c) ==
  /\ At(c, "in")
  /\ acquire_lk(c)
  /\ locked' = FALSE
  /\ owner' = NoProc
  /\ next' = [next EXCEPT ![proc[c]] = NPROC + 1]
  /\ Goto(c, "wakeup")
  /\ UNCHANGED <<pcpu, state, chan, sched_vars, trap>>

\* releasesleep(): acquire(&lk->lk), clear the lock, start wakeup(lk).
releasesleep(c) ==
  /\ At(c, "in")
  /\ acquire_lk(c)
  /\ locked' = FALSE
  /\ owner' = NoProc
  /\ next' = [next EXCEPT ![proc[c]] = 1]
  /\ Goto(c, "wakeup")
  /\ UNCHANGED <<pcpu, state, chan, sched_vars, trap>>

\* One turn of wakeup(): every process but the caller, under its p->lock.
wakeup(c) ==
  LET q == next[proc[c]] IN
  /\ At(c, "wakeup")
  /\ q \in Procs
  /\ q # proc[c] => CanVisit(q)
  /\ state' = IF q # proc[c] /\ state[q] = "SLEEPING" /\ chan[q]
              THEN [state EXCEPT ![q] = "RUNNABLE"] ELSE state
  /\ next' = [next EXCEPT ![proc[c]] = q + 1]
  /\ UNCHANGED <<lkcpu, pcpu, locked, owner, chan, spin, sched_vars, pc, trap>>

\* releasesleep(): release(&lk->lk).
releasesleep_done(c) ==
  /\ At(c, "wakeup")
  /\ next[proc[c]] \notin Procs
  /\ next' = [next EXCEPT ![proc[c]] = 1]
  /\ release_lk(c)
  /\ Goto(c, "out")
  /\ UNCHANGED <<pcpu, locked, owner, state, chan, sched_vars, trap>>

holdingsleep(p) == locked /\ owner = p

-----------------------------------------------------------------------------
(* Timer traps, kill, and the schedulers.                                  *)

\* A timer interrupt while the process runs; the trap turns interrupts off.
timer(c) ==
  /\ proc[c] # NoProc
  /\ trap[proc[c]] = "none"
  /\ intr[c]
  /\ intr' = [intr EXCEPT ![c] = FALSE]
  /\ trap' = [trap EXCEPT ![proc[c]] = "yield"]
  /\ UNCHANGED <<lkcpu, pcpu, locked, owner, state, chan, noff, intena, sched_vars, pc, next>>

\* yield(): acquire(&p->lock), p->state = RUNNABLE, sched().
yield(c) ==
  /\ proc[c] # NoProc
  /\ trap[proc[c]] = "yield"
  /\ pcpu[proc[c]] = NoCpu
  /\ pcpu' = [pcpu EXCEPT ![proc[c]] = c]
  /\ push_off(c)
  /\ saved' = [saved EXCEPT ![proc[c]] = FALSE]
  /\ sched(c, "RUNNABLE")
  /\ trap' = [trap EXCEPT ![proc[c]] = "resume"]
  /\ UNCHANGED <<lkcpu, locked, owner, chan, pc, next>>

\* Back from sched(): release(&p->lock) and return from the trap, which
\* turns interrupts on again.  forkret() does the same for a new process.
yield_done(c) ==
  /\ proc[c] # NoProc
  /\ trap[proc[c]] = "resume"
  /\ pcpu' = [pcpu EXCEPT ![proc[c]] = NoCpu]
  /\ noff' = [noff EXCEPT ![c] = @ - 1]
  /\ intr' = [intr EXCEPT ![c] = TRUE]
  /\ trap' = [trap EXCEPT ![proc[c]] = "none"]
  /\ UNCHANGED <<lkcpu, locked, owner, state, chan, intena, sched_vars, pc, next>>

\* kkill(): a sleeping process is made runnable whatever it waits for.
kkill(p) ==
  /\ CanVisit(p)
  /\ state[p] = "SLEEPING"
  /\ state' = [state EXCEPT ![p] = "RUNNABLE"]
  /\ UNCHANGED <<lkcpu, pcpu, locked, owner, chan, spin, sched_vars, pc, trap, next>>

\* scheduler(): acquire(&p->lock), p->state = RUNNING, swtch() to p, whose
\* sched() puts its own intena back.
scheduler_run(c, p) ==
  /\ proc[c] = NoProc /\ left[c] = NoProc
  /\ state[p] = "RUNNABLE"
  /\ CanVisit(p)
  /\ pcpu' = [pcpu EXCEPT ![p] = c]
  /\ state' = [state EXCEPT ![p] = "RUNNING"]
  /\ proc' = [proc EXCEPT ![c] = p]
  /\ noff' = [noff EXCEPT ![c] = @ + 1]
  /\ intr' = [intr EXCEPT ![c] = FALSE]
  /\ intena' = [intena EXCEPT ![c] = saved[p]]
  /\ UNCHANGED <<lkcpu, locked, owner, chan, left, saved, pc, trap, next>>

\* scheduler(), back from swtch(): c->proc = 0, release(&p->lock).
scheduler_back(c) ==
  /\ left[c] # NoProc
  /\ pcpu' = [pcpu EXCEPT ![left[c]] = NoCpu]
  /\ left' = [left EXCEPT ![c] = NoProc]
  /\ pop_off(c)
  /\ UNCHANGED <<lkcpu, locked, owner, state, chan, proc, saved, pc, trap, next>>

Step(c) ==
  \/ acquiresleep(c) \/ test(c)
  \/ sleep_acquire(c) \/ sleep_release(c) \/ sleep_sched(c) \/ sleep_tidy(c)
  \/ releasesleep(c) \/ wakeup(c) \/ releasesleep_done(c)
  \/ timer(c) \/ yield(c) \/ yield_done(c)
  \/ scheduler_back(c)
  \/ \E p \in Procs : scheduler_run(c, p)

Next == (\E c \in CPUs : Step(c)) \/ (\E p \in Procs : kkill(p))

Spec == Init /\ [][Next]_vars

(***************************************************************************)
(* Every CPU keeps executing, and a CPU spinning in wakeup() on a p->lock  *)
(* that keeps being released gets it: holders keep a p->lock for a bounded *)
(* stretch of straight-line code with interrupts off.                      *)
(***************************************************************************)
Fairness == \A c \in CPUs : WF_vars(Step(c)) /\ SF_vars(wakeup(c))

FairSpec == Spec /\ Fairness

-----------------------------------------------------------------------------
(* Properties.                                                             *)

Places == {"out", "test", "sleep", "sleep_release", "sleep_sched", "sleep_done",
           "in", "wakeup"}

TypeOK ==
  /\ lkcpu \in CPUs \cup {NoCpu}
  /\ pcpu \in [Procs -> CPUs \cup {NoCpu}]
  /\ locked \in BOOLEAN
  /\ owner \in Procs \cup {NoProc}
  /\ state \in [Procs -> {"RUNNABLE", "RUNNING", "SLEEPING"}]
  /\ chan \in [Procs -> BOOLEAN]
  /\ noff \in [CPUs -> 0..2]
  /\ intena \in [CPUs -> BOOLEAN]
  /\ intr \in [CPUs -> BOOLEAN]
  /\ proc \in [CPUs -> Procs \cup {NoProc}]
  /\ left \in [CPUs -> Procs \cup {NoProc}]
  /\ saved \in [Procs -> BOOLEAN]
  /\ pc \in [Procs -> Places]
  /\ trap \in [Procs -> {"none", "yield", "resume"}]
  /\ next \in [Procs -> 1..NPROC + 1]

\* Between acquiresleep() and releasesleep() a process is alone, and
\* holdingsleep() is true for it and for no other.
SleepMutex == \A p \in Procs : pc[p] = "in" <=> holdingsleep(p)

\* No lost wakeup: while some process sleeps on the lock, the lock is held,
\* or a releasesleep() is in its wakeup() loop and has not passed the sleeper.
NoSleeperForgotten ==
  \A p \in Procs : state[p] = "SLEEPING" =>
    \/ locked
    \/ \E q \in Procs : q # p /\ pc[q] = "wakeup" /\ next[q] <= p

\* A process runs on one CPU at a time, and none enters it while another has
\* yet to leave its kernel stack: p->lock is held across both switches.
OneCpuPerProcess ==
  \A c, d \in CPUs : c # d =>
    {proc[c], left[c]} \cap {proc[d], left[d]} \subseteq {NoProc}

Held(c) == (IF lkcpu = c THEN 1 ELSE 0) + Cardinality({p \in Procs : pcpu[p] = c})

\* A CPU that holds a spinlock has interrupts off, so that no handler can spin
\* on a lock its own CPU holds; c->noff counts the locks it holds; and sched()
\* never panics with "sched p->lock" or "sched locks".
SpinDiscipline ==
  \A c \in CPUs :
    /\ noff[c] = Held(c)
    /\ noff[c] > 0 => ~intr[c]
    /\ At(c, "sleep_sched") => noff[c] = 1 /\ pcpu[proc[c]] = c

\* A process sleeping on a lock that has been released is made runnable.
SleeperWoken ==
  \A p \in Procs :
    []<>(state[p] # "SLEEPING" \/ locked)
=============================================================================
