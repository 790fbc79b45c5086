-------------------------- MODULE SleepLockProofs ---------------------------
(***************************************************************************)
(* Proofs about sleep-locks, the spinlocks under them and the switches     *)
(* between processes, for any number of processes and harts.               *)
(***************************************************************************)
EXTENDS SleepLock, TLAPS

USE SleepLockAssumption

-----------------------------------------------------------------------------
(* The inductive invariant.                                                *)

\* Where a process holds lk->lk, and where it holds its own p->lock.
LkPlaces == {"test", "sleep", "sleep_release", "wakeup"}
OwnPlaces == {"sleep_release", "sleep_sched", "sleep_done"}

\* A hart runs a RUNNING process, and alone; one that it has switched away from
\* runs nowhere.
CpuInv ==
  /\ \A c \in CPUs : proc[c] # NoProc => left[c] = NoProc /\ state[proc[c]] = "RUNNING"
  /\ \A c \in CPUs : left[c] # NoProc => state[left[c]] # "RUNNING"
  /\ \A c, d \in CPUs : proc[c] # NoProc /\ proc[c] = proc[d] => c = d
  /\ \A p \in Procs : state[p] = "RUNNING" => \E c \in CPUs : proc[c] = p

\* Traps happen where no spinlock is held, and a process that does not run is in
\* sched(), called by sleep() or by yield().
PlaceInv ==
  \A p \in Procs :
    /\ trap[p] # "none" => pc[p] \in {"out", "in"}
    /\ state[p] # "RUNNING" => pc[p] = "sleep_done" \/ trap[p] = "resume"
    /\ state[p] = "SLEEPING" => chan[p] /\ pc[p] = "sleep_done"

HoldsLk(c) == proc[c] # NoProc /\ trap[proc[c]] = "none" /\ pc[proc[c]] \in LkPlaces

HoldsOwn(c) == proc[c] # NoProc /\ (trap[proc[c]] = "resume" \/ pc[proc[c]] \in OwnPlaces)

\* The spinlocks that a hart holds follow from where its process is, or from its
\* scheduler having just come back from one.
LocksOf(c) ==
  /\ lkcpu = c <=> HoldsLk(c)
  /\ \A q \in Procs : pcpu[q] = c <=> left[c] = q \/ (HoldsOwn(c) /\ proc[c] = q)
  /\ noff[c] = (IF HoldsLk(c) THEN 1 ELSE 0) + (IF left[c] # NoProc \/ HoldsOwn(c) THEN 1 ELSE 0)
  /\ noff[c] > 0 => ~intr[c]

LockInv == \A c \in CPUs : LocksOf(c)

\* A releasesleep() is in its wakeup() loop and has yet to come to p.
WakerComes(p) == \E q \in Procs : q # p /\ pc[q] = "wakeup" /\ next[q] <= p

\* On its way into sleep() a process finds the lock held as long as it holds
\* lk->lk, and from then on has a waker if it is not.
WaitInv ==
  \A p \in Procs :
    /\ pc[p] \in {"sleep", "sleep_release"} => locked
    /\ state[p] = "SLEEPING" \/ pc[p] = "sleep_sched" => locked \/ WakerComes(p)

SleepLockInv == TypeOK /\ CpuInv /\ PlaceInv /\ LockInv /\ SleepMutex /\ WaitInv

-----------------------------------------------------------------------------
(* Lemmas about the parts of the steps.                                    *)

\* No process has the number that stands for none.
LEMMA NoProcIsNone == NoProc \notin Procs
BY DEF NoProc, Procs

\* The process that a hart runs is nowhere else.
LEMMA OnCpu ==
  ASSUME SleepLockInv, NEW c \in CPUs, proc[c] # NoProc
  PROVE  /\ proc[c] \in Procs /\ left[c] = NoProc /\ state[proc[c]] = "RUNNING"
         /\ \A d \in CPUs : (proc[d] = proc[c] => d = c) /\ left[d] # proc[c]
BY DEF SleepLockInv, TypeOK, CpuInv

\* A hart whose process stays where it is holds the same spinlocks as before.
LEMMA LocksElsewhere ==
  ASSUME SleepLockInv, NEW d \in CPUs, LocksOf(d),
         proc'[d] = proc[d], left'[d] = left[d], noff'[d] = noff[d], intr'[d] = intr[d],
         proc[d] # NoProc => pc'[proc[d]] = pc[proc[d]] /\ trap'[proc[d]] = trap[proc[d]],
         lkcpu' = d <=> lkcpu = d,
         \A q \in Procs : pcpu'[q] = d <=> pcpu[q] = d
  PROVE  LocksOf(d)'
<1>1. HoldsLk(d)' <=> HoldsLk(d)
  BY Zenon DEF HoldsLk
<1>2. HoldsOwn(d)' <=> HoldsOwn(d)
  BY Zenon DEF HoldsOwn
<1> QED
  BY <1>1, <1>2, Zenon DEF LocksOf

-----------------------------------------------------------------------------
(* Every step preserves the invariant: one lemma for each action.          *)

\* acquire(&lk->lk) in acquiresleep() preserves the invariant.
LEMMA Inv_acquiresleep ==
  ASSUME SleepLockInv, NEW c \in CPUs, acquiresleep(c)
  PROVE  SleepLockInv'
<1> USE DEF SleepLockInv, spin, sched_vars, acquiresleep, At, Goto, acquire_lk, push_off
<1>run. /\ proc[c] \in Procs /\ left[c] = NoProc /\ state[proc[c]] = "RUNNING"
        /\ \A d \in CPUs : (proc[d] = proc[c] => d = c) /\ left[d] # proc[c]
  BY OnCpu, Zenon DEF At
<1>off. noff[c] = 0
  BY <1>run DEF LockInv, LocksOf, HoldsLk, HoldsOwn, LkPlaces, OwnPlaces
<1>1. TypeOK'
  BY <1>run, <1>off, NoProcIsNone DEF TypeOK, Places
<1>2. CpuInv'
  BY <1>run, NoProcIsNone, Zenon DEF CpuInv, TypeOK
<1>3. PlaceInv'
  BY <1>run, NoProcIsNone, Zenon DEF PlaceInv, TypeOK
<1>4. LockInv'
  <2>1. ASSUME NEW d \in CPUs, d # c
        PROVE  LocksOf(d)'
    BY <1>run, <2>1, LocksElsewhere, NoProcIsNone, Zenon DEF LockInv, TypeOK
  <2>2. LocksOf(c)'
    BY <1>run, NoProcIsNone DEF LockInv, LocksOf, HoldsLk, HoldsOwn, LkPlaces, OwnPlaces, PlaceInv, TypeOK
  <2> QED
    BY <2>1, <2>2, Zenon DEF LockInv
<1>5. SleepMutex'
  BY <1>run, NoProcIsNone, Zenon DEF SleepMutex, holdingsleep, TypeOK
<1>6. WaitInv'
  BY <1>run, NoProcIsNone, Zenon DEF WaitInv, WakerComes, PlaceInv, TypeOK
<1> QED
  BY <1>1, <1>2, <1>3, <1>4, <1>5, <1>6, Zenon

\* The loop test of acquiresleep() preserves the invariant.
LEMMA Inv_test ==
  ASSUME SleepLockInv, NEW c \in CPUs, test(c)
  PROVE  SleepLockInv'
<1> USE DEF SleepLockInv, spin, sched_vars, test, At, Goto, release_lk, pop_off
<1>run. /\ proc[c] \in Procs /\ left[c] = NoProc /\ state[proc[c]] = "RUNNING"
        /\ \A d \in CPUs : (proc[d] = proc[c] => d = c) /\ left[d] # proc[c]
  BY OnCpu, Zenon DEF At
<1>off. noff[c] = 1
  BY <1>run DEF LockInv, LocksOf, HoldsLk, HoldsOwn, LkPlaces, OwnPlaces
<1>1. TypeOK'
  <2>1. noff' \in [CPUs -> 0..2] /\ intr' \in [CPUs -> BOOLEAN] /\ intena' \in [CPUs -> BOOLEAN]
    BY <1>off DEF TypeOK
  <2>2. locked' \in BOOLEAN /\ owner' \in Procs \cup {NoProc} /\ lkcpu' \in CPUs \cup {NoCpu}
    BY <1>run, Zenon DEF TypeOK
  <2>3. pc' \in [Procs -> Places]
    BY <1>run, Zenon DEF TypeOK, Places
  <2> QED
    BY <2>1, <2>2, <2>3, Zenon DEF TypeOK
<1>2. CpuInv'
  BY <1>run, NoProcIsNone DEF CpuInv, TypeOK
<1>3. PlaceInv'
  BY <1>run, NoProcIsNone DEF PlaceInv, TypeOK
<1>4. LockInv'
  <2>1. ASSUME NEW d \in CPUs, d # c
        PROVE  LocksOf(d)'
    BY <1>run, <2>1, LocksElsewhere, NoProcIsNone, Zenon DEF LockInv, TypeOK
  <2>2. LocksOf(c)'
    BY <1>run, NoProcIsNone DEF LockInv, LocksOf, HoldsLk, HoldsOwn, LkPlaces, OwnPlaces, PlaceInv, TypeOK
  <2> QED
    BY <2>1, <2>2, Zenon DEF LockInv
<1>5. SleepMutex'
  BY <1>run, NoProcIsNone DEF SleepMutex, holdingsleep, TypeOK
<1>6. WaitInv'
  BY <1>run, NoProcIsNone DEF WaitInv, WakerComes, PlaceInv, TypeOK
<1> QED
  BY <1>1, <1>2, <1>3, <1>4, <1>5, <1>6, Zenon

\* acquire(&p->lock) in sleep() preserves the invariant.
LEMMA Inv_sleep_acquire ==
  ASSUME SleepLockInv, NEW c \in CPUs, sleep_acquire(c)
  PROVE  SleepLockInv'
<1> USE DEF SleepLockInv, spin, sched_vars, sleep_acquire, At, Goto, push_off
<1>run. /\ proc[c] \in Procs /\ left[c] = NoProc /\ state[proc[c]] = "RUNNING"
        /\ \A d \in CPUs : (proc[d] = proc[c] => d = c) /\ left[d] # proc[c]
  BY OnCpu, Zenon DEF At
<1>off. noff[c] = 1
  BY <1>run DEF LockInv, LocksOf, HoldsLk, HoldsOwn, LkPlaces, OwnPlaces
<1>1. TypeOK'
  BY <1>run, <1>off, NoProcIsNone DEF TypeOK, Places
<1>2. CpuInv'
  BY <1>run, NoProcIsNone DEF CpuInv, TypeOK
<1>3. PlaceInv'
  BY <1>run, NoProcIsNone, Zenon DEF PlaceInv, TypeOK
<1>4. LockInv'
  <2>1. ASSUME NEW d \in CPUs, d # c
        PROVE  LocksOf(d)'
    BY <1>run, <2>1, LocksElsewhere, NoProcIsNone, Zenon DEF LockInv, TypeOK
  <2>2. LocksOf(c)'
    BY <1>run, NoProcIsNone DEF LockInv, LocksOf, HoldsLk, HoldsOwn, LkPlaces, OwnPlaces, PlaceInv, TypeOK
  <2> QED
    BY <2>1, <2>2, Zenon DEF LockInv
<1>5. SleepMutex'
  BY <1>run, NoProcIsNone, Zenon DEF SleepMutex, holdingsleep, TypeOK
<1>6. WaitInv'
  BY <1>run, NoProcIsNone, Zenon DEF WaitInv, WakerComes, PlaceInv, TypeOK
<1> QED
  BY <1>1, <1>2, <1>3, <1>4, <1>5, <1>6, Zenon

\* release(lk) in sleep() preserves the invariant.
LEMMA Inv_sleep_release ==
  ASSUME SleepLockInv, NEW c \in CPUs, sleep_release(c)
  PROVE  SleepLockInv'
<1> USE DEF SleepLockInv, spin, sched_vars, sleep_release, At, Goto, release_lk, pop_off
<1>run. /\ proc[c] \in Procs /\ left[c] = NoProc /\ state[proc[c]] = "RUNNING"
        /\ \A d \in CPUs : (proc[d] = proc[c] => d = c) /\ left[d] # proc[c]
  BY OnCpu, Zenon DEF At
<1>1. TypeOK'
  BY <1>run, NoProcIsNone DEF TypeOK, Places
<1>2. CpuInv'
  BY <1>run, NoProcIsNone DEF CpuInv, TypeOK
<1>3. PlaceInv'
  BY <1>run, NoProcIsNone, Zenon DEF PlaceInv, TypeOK
<1>4. LockInv'
  <2>1. ASSUME NEW d \in CPUs, d # c
        PROVE  LocksOf(d)'
    BY <1>run, <2>1, LocksElsewhere, NoProcIsNone, Zenon DEF LockInv, TypeOK
  <2>2. LocksOf(c)'
    BY <1>run, NoProcIsNone DEF LockInv, LocksOf, HoldsLk, HoldsOwn, LkPlaces, OwnPlaces, PlaceInv, TypeOK
  <2> QED
    BY <2>1, <2>2, Zenon DEF LockInv
<1>5. SleepMutex'
  BY <1>run, NoProcIsNone, Zenon DEF SleepMutex, holdingsleep, TypeOK
<1>6. WaitInv'
  BY <1>run, NoProcIsNone, Zenon DEF WaitInv, WakerComes, PlaceInv, TypeOK
<1> QED
  BY <1>1, <1>2, <1>3, <1>4, <1>5, <1>6, Zenon

\* Switching away in sleep() preserves the invariant.
LEMMA Inv_sleep_sched ==
  ASSUME SleepLockInv, NEW c \in CPUs, sleep_sched(c)
  PROVE  SleepLockInv'
<1> USE DEF SleepLockInv, spin, sched_vars, sleep_sched, At, Goto, sched
<1>run. /\ proc[c] \in Procs /\ left[c] = NoProc /\ state[proc[c]] = "RUNNING"
        /\ \A d \in CPUs : (proc[d] = proc[c] => d = c) /\ left[d] # proc[c]
  BY OnCpu, Zenon DEF At
<1>1. TypeOK'
  BY <1>run, NoProcIsNone, Zenon DEF TypeOK, Places
<1>2. CpuInv'
  BY <1>run, NoProcIsNone DEF CpuInv, TypeOK
<1>3. PlaceInv'
  BY <1>run, NoProcIsNone DEF PlaceInv, TypeOK
<1>4. LockInv'
  <2>1. ASSUME NEW d \in CPUs, d # c
        PROVE  LocksOf(d)'
    BY <1>run, <2>1, LocksElsewhere, NoProcIsNone, Zenon DEF LockInv, TypeOK
  <2>2. LocksOf(c)'
    BY <1>run, NoProcIsNone DEF LockInv, LocksOf, HoldsLk, HoldsOwn, LkPlaces, OwnPlaces, PlaceInv, TypeOK
  <2> QED
    BY <2>1, <2>2, Zenon DEF LockInv
<1>5. SleepMutex'
  BY <1>run, NoProcIsNone, Zenon DEF SleepMutex, holdingsleep, TypeOK
<1>6. WaitInv'
  BY <1>run, NoProcIsNone, SMTT(30) DEF WaitInv, WakerComes, PlaceInv, TypeOK
<1> QED
  BY <1>1, <1>2, <1>3, <1>4, <1>5, <1>6, Zenon

\* Coming back in sleep() preserves the invariant.
LEMMA Inv_sleep_tidy ==
  ASSUME SleepLockInv, NEW c \in CPUs, sleep_tidy(c)
  PROVE  SleepLockInv'
<1> USE DEF SleepLockInv, spin, sched_vars, sleep_tidy, At, Goto, pop_off
<1>run. /\ proc[c] \in Procs /\ left[c] = NoProc /\ state[proc[c]] = "RUNNING"
        /\ \A d \in CPUs : (proc[d] = proc[c] => d = c) /\ left[d] # proc[c]
  BY OnCpu, Zenon DEF At
<1>own. pcpu[proc[c]] = c
  BY <1>run, Zenon DEF LockInv, LocksOf, HoldsOwn, OwnPlaces
<1>1. TypeOK'
  BY <1>run, NoProcIsNone DEF TypeOK, Places
<1>2. CpuInv'
  BY <1>run, NoProcIsNone DEF CpuInv, TypeOK
<1>3. PlaceInv'
  BY <1>run, NoProcIsNone, Zenon DEF PlaceInv, TypeOK
<1>4. LockInv'
  <2>1. ASSUME NEW d \in CPUs, d # c
        PROVE  LocksOf(d)'
    <3>1. \A q \in Procs : pcpu'[q] = d <=> pcpu[q] = d
      BY <1>run, <1>own, <2>1, Zenon DEF TypeOK
    <3>2. /\ proc'[d] = proc[d] /\ left'[d] = left[d] /\ noff'[d] = noff[d] /\ intr'[d] = intr[d]
          /\ proc[d] # NoProc => pc'[proc[d]] = pc[proc[d]] /\ trap'[proc[d]] = trap[proc[d]]
          /\ LocksOf(d) /\ lkcpu' = lkcpu
      BY <1>run, <2>1, Zenon DEF LockInv, TypeOK
    <3> QED
      BY <3>1, <3>2, LocksElsewhere, Zenon
  <2>2. LocksOf(c)'
    BY <1>run, NoProcIsNone DEF LockInv, LocksOf, HoldsLk, HoldsOwn, LkPlaces, OwnPlaces, PlaceInv, TypeOK
  <2> QED
    BY <2>1, <2>2, Zenon DEF LockInv
<1>5. SleepMutex'
  BY <1>run, NoProcIsNone, Zenon DEF SleepMutex, holdingsleep, TypeOK
<1>6. WaitInv'
  BY <1>run, NoProcIsNone, Zenon DEF WaitInv, WakerComes, PlaceInv, TypeOK
<1> QED
  BY <1>1, <1>2, <1>3, <1>4, <1>5, <1>6, Zenon

\* The start of releasesleep() preserves the invariant.
LEMMA Inv_releasesleep ==
  ASSUME SleepLockInv, NEW c \in CPUs, releasesleep(c)
  PROVE  SleepLockInv'
<1> USE DEF SleepLockInv, spin, sched_vars, releasesleep, At, Goto, acquire_lk, push_off
<1>run. /\ proc[c] \in Procs /\ left[c] = NoProc /\ state[proc[c]] = "RUNNING"
        /\ \A d \in CPUs : (proc[d] = proc[c] => d = c) /\ left[d] # proc[c]
  BY OnCpu, Zenon DEF At
<1>off. noff[c] = 0
  BY <1>run DEF LockInv, LocksOf, HoldsLk, HoldsOwn, LkPlaces, OwnPlaces
<1>1. TypeOK'
  <2>1. 1 \in 1..NPROC + 1
    OBVIOUS
  <2>2. next' \in [Procs -> 1..NPROC + 1] /\ pc' \in [Procs -> Places]
    BY <1>run, <2>1, Zenon DEF TypeOK, Places
  <2>3. noff' \in [CPUs -> 0..2] /\ intr' \in [CPUs -> BOOLEAN] /\ intena' \in [CPUs -> BOOLEAN]
    BY <1>off DEF TypeOK
  <2>4. locked' \in BOOLEAN /\ owner' \in Procs \cup {NoProc} /\ lkcpu' \in CPUs \cup {NoCpu}
    BY Zenon
  <2> QED
    BY <2>2, <2>3, <2>4, Zenon DEF TypeOK
<1>2. CpuInv'
  BY <1>run, NoProcIsNone, Zenon DEF CpuInv, TypeOK
<1>3. PlaceInv'
  BY <1>run, NoProcIsNone, Zenon DEF PlaceInv, TypeOK
<1>4. LockInv'
  <2>1. ASSUME NEW d \in CPUs, d # c
        PROVE  LocksOf(d)'
    BY <1>run, <2>1, LocksElsewhere, NoProcIsNone, Zenon DEF LockInv, TypeOK
  <2>2. LocksOf(c)'
    BY <1>run, NoProcIsNone, SMTT(30) DEF LockInv, LocksOf, HoldsLk, HoldsOwn, LkPlaces, OwnPlaces, PlaceInv, TypeOK
  <2> QED
    BY <2>1, <2>2, Zenon DEF LockInv
<1>5. SleepMutex'
  BY <1>run, NoProcIsNone, SMTT(30) DEF SleepMutex, holdingsleep, TypeOK
<1>6. WaitInv'
  <2>1. ASSUME NEW p \in Procs
        PROVE  pc[p] \notin {"sleep", "sleep_release"}
    <3>1. SUFFICES ASSUME pc[p] \in {"sleep", "sleep_release"}
                   PROVE  FALSE
      BY Zenon
    <3>2. trap[p] = "none" /\ state[p] = "RUNNING"
      BY <3>1, Zenon DEF PlaceInv, TypeOK
    <3>3. PICK d \in CPUs : proc[d] = p
      BY <3>2, Zenon DEF CpuInv
    <3>4. lkcpu = d
      BY <3>1, <3>2, <3>3, NoProcIsNone, Zenon DEF LockInv, LocksOf, HoldsLk, LkPlaces
    <3> QED
      BY <3>4, Zenon
  <2>2. \A p \in Procs : p # proc[c] => WakerComes(p)'
    BY <1>run DEF WakerComes, TypeOK, Procs
  <2>3. \A p \in Procs : state'[p] = "SLEEPING" \/ pc'[p] = "sleep_sched" => p # proc[c]
    BY <1>run, Zenon DEF TypeOK
  <2>4. \A p \in Procs : pc'[p] \notin {"sleep", "sleep_release"}
    BY <1>run, <2>1, Zenon DEF TypeOK
  <2> QED
    BY <2>2, <2>3, <2>4, ZenonT(30) DEF WaitInv
<1> QED
  BY <1>1, <1>2, <1>3, <1>4, <1>5, <1>6, Zenon

\* A turn of wakeup() preserves the invariant.
LEMMA Inv_wakeup ==
  ASSUME SleepLockInv, NEW c \in CPUs, wakeup(c)
  PROVE  SleepLockInv'
<1> USE DEF SleepLockInv, spin, sched_vars, wakeup, At, CanVisit
<1>run. /\ proc[c] \in Procs /\ left[c] = NoProc /\ state[proc[c]] = "RUNNING"
        /\ \A d \in CPUs : (proc[d] = proc[c] => d = c) /\ left[d] # proc[c]
  BY OnCpu, Zenon DEF At
<1>1. TypeOK'
  <2>1. next[proc[c]] + 1 \in 1..NPROC + 1
    BY DEF Procs
  <2>2. next' \in [Procs -> 1..NPROC + 1]
    BY <1>run, <2>1, Zenon DEF TypeOK
  <2> QED
    BY <1>run, <2>2, Zenon DEF TypeOK
<1>2. CpuInv'
  BY <1>run, NoProcIsNone, SMTT(30) DEF CpuInv, TypeOK
<1>3. PlaceInv'
  BY <1>run, NoProcIsNone, SMTT(30) DEF PlaceInv, TypeOK
<1>4. LockInv'
  <2>1. ASSUME NEW d \in CPUs, d # c
        PROVE  LocksOf(d)'
    BY <1>run, <2>1, LocksElsewhere, NoProcIsNone, Zenon DEF LockInv, TypeOK
  <2>2. LocksOf(c)'
    BY <1>run, NoProcIsNone, SMTT(30) DEF LockInv, LocksOf, HoldsLk, HoldsOwn, LkPlaces, OwnPlaces, PlaceInv, TypeOK
  <2> QED
    BY <2>1, <2>2, Zenon DEF LockInv
<1>5. SleepMutex'
  BY <1>run, NoProcIsNone, Zenon DEF SleepMutex, holdingsleep, TypeOK
<1>6. WaitInv'
  <2>1. ASSUME NEW p \in Procs, state'[p] = "SLEEPING" \/ pc'[p] = "sleep_sched", ~locked
        PROVE  WakerComes(p)'
    <3>1. state[p] = "SLEEPING" \/ pc[p] = "sleep_sched"
      BY <2>1, Zenon DEF TypeOK
    <3>2. PICK r \in Procs : r # p /\ pc[r] = "wakeup" /\ next[r] <= p
      BY <2>1, <3>1, Zenon DEF WaitInv, WakerComes
    <3>3. CASE r # proc[c]
      BY <1>run, <3>2, <3>3, Zenon DEF WakerComes, TypeOK
    <3>4. CASE r = proc[c] /\ next[r] # p
      <4>1. next[r] + 1 <= p /\ next'[r] = next[r] + 1
        BY <1>run, <3>2, <3>4, SMTT(30) DEF TypeOK, Procs
      <4> QED
        BY <3>2, <4>1, Zenon DEF WakerComes
    <3>5. CASE r = proc[c] /\ next[r] = p
      <4>1. p # proc[c] /\ pcpu[p] = NoCpu
        BY <3>2, <3>5, Zenon
      <4>2. pc[p] # "sleep_sched"
        <5>1. SUFFICES ASSUME pc[p] = "sleep_sched"
                       PROVE  FALSE
          BY Zenon
        <5>2. state[p] = "RUNNING"
          BY <5>1, Zenon DEF PlaceInv, TypeOK
        <5>3. PICK d \in CPUs : proc[d] = p
          BY <5>2, Zenon DEF CpuInv
        <5>4. pcpu[p] = d
          BY <5>1, <5>3, NoProcIsNone, SMTT(30) DEF LockInv, LocksOf, HoldsOwn, OwnPlaces
        <5> QED
          BY <4>1, <5>4, Zenon
      <4>3. state[p] = "SLEEPING" /\ chan[p]
        BY <3>1, <4>2, Zenon DEF PlaceInv
      <4>4. state'[p] = "RUNNABLE" /\ pc'[p] = pc[p]
        BY <3>5, <4>1, <4>3, Zenon DEF TypeOK
      <4> QED
        BY <2>1, <4>2, <4>4, Zenon
    <3> QED
      BY <3>3, <3>4, <3>5, Zenon
  <2> QED
    BY <2>1, Zenon DEF WaitInv
<1> QED
  BY <1>1, <1>2, <1>3, <1>4, <1>5, <1>6, Zenon

\* The end of releasesleep() preserves the invariant.
LEMMA Inv_releasesleep_done ==
  ASSUME SleepLockInv, NEW c \in CPUs, releasesleep_done(c)
  PROVE  SleepLockInv'
<1> USE DEF SleepLockInv, spin, sched_vars, releasesleep_done, At, Goto, release_lk, pop_off
<1>run. /\ proc[c] \in Procs /\ left[c] = NoProc /\ state[proc[c]] = "RUNNING"
        /\ \A d \in CPUs : (proc[d] = proc[c] => d = c) /\ left[d] # proc[c]
  BY OnCpu, Zenon DEF At
<1>1. TypeOK'
  BY <1>run, NoProcIsNone, SMTT(30) DEF TypeOK, Places
<1>2. CpuInv'
  BY <1>run, NoProcIsNone, SMTT(30) DEF CpuInv, TypeOK
<1>3. PlaceInv'
  BY <1>run, NoProcIsNone, Zenon DEF PlaceInv, TypeOK
<1>4. LockInv'
  <2>1. ASSUME NEW d \in CPUs, d # c
        PROVE  LocksOf(d)'
    BY <1>run, <2>1, LocksElsewhere, NoProcIsNone, Zenon DEF LockInv, TypeOK
  <2>2. LocksOf(c)'
    BY <1>run, NoProcIsNone, SMTT(30) DEF LockInv, LocksOf, HoldsLk, HoldsOwn, LkPlaces, OwnPlaces, PlaceInv, TypeOK
  <2> QED
    BY <2>1, <2>2, Zenon DEF LockInv
<1>5. SleepMutex'
  BY <1>run, NoProcIsNone, Zenon DEF SleepMutex, holdingsleep, TypeOK
<1>6. WaitInv'
  <2>1. ASSUME NEW p \in Procs, state'[p] = "SLEEPING" \/ pc'[p] = "sleep_sched", ~locked
        PROVE  WakerComes(p)'
    <3>1. state[p] = "SLEEPING" \/ pc[p] = "sleep_sched"
      BY <1>run, <2>1, Zenon DEF TypeOK
    <3>2. PICK r \in Procs : r # p /\ pc[r] = "wakeup" /\ next[r] <= p
      BY <2>1, <3>1, Zenon DEF WaitInv, WakerComes
    <3>3. r # proc[c]
      BY <1>run, <3>2 DEF TypeOK, Procs
    <3> QED
      BY <1>run, <3>2, <3>3, Zenon DEF WakerComes, TypeOK
  <2>2. \A p \in Procs : pc'[p] \in {"sleep", "sleep_release"} => locked
    BY <1>run, Zenon DEF WaitInv, TypeOK
  <2> QED
    BY <2>1, <2>2, Zenon DEF WaitInv
<1> QED
  BY <1>1, <1>2, <1>3, <1>4, <1>5, <1>6, Zenon

\* A timer interrupt preserves the invariant.
LEMMA Inv_timer ==
  ASSUME SleepLockInv, NEW c \in CPUs, timer(c)
  PROVE  SleepLockInv'
<1> USE DEF SleepLockInv, spin, sched_vars, timer
<1>run. /\ proc[c] \in Procs /\ left[c] = NoProc /\ state[proc[c]] = "RUNNING"
        /\ \A d \in CPUs : (proc[d] = proc[c] => d = c) /\ left[d] # proc[c]
  BY OnCpu, Zenon DEF At
<1>free. pc[proc[c]] \in {"out", "in"}
  BY <1>run DEF LockInv, LocksOf, HoldsLk, HoldsOwn, LkPlaces, OwnPlaces, TypeOK, Places
<1>1. TypeOK'
  BY <1>run, NoProcIsNone, Zenon DEF TypeOK, Places
<1>2. CpuInv'
  BY <1>run, NoProcIsNone, Zenon DEF CpuInv, TypeOK
<1>3. PlaceInv'
  BY <1>run, <1>free, NoProcIsNone, Zenon DEF PlaceInv, TypeOK
<1>4. LockInv'
  <2>1. ASSUME NEW d \in CPUs, d # c
        PROVE  LocksOf(d)'
    BY <1>run, <2>1, LocksElsewhere, NoProcIsNone, Zenon DEF LockInv, TypeOK
  <2>2. LocksOf(c)'
    BY <1>run, NoProcIsNone DEF LockInv, LocksOf, HoldsLk, HoldsOwn, LkPlaces, OwnPlaces, PlaceInv, TypeOK
  <2> QED
    BY <2>1, <2>2, Zenon DEF LockInv
<1>5. SleepMutex'
  BY <1>run, NoProcIsNone, Zenon DEF SleepMutex, holdingsleep, TypeOK
<1>6. WaitInv'
  BY <1>run, NoProcIsNone, Zenon DEF WaitInv, WakerComes, PlaceInv, TypeOK
<1> QED
  BY <1>1, <1>2, <1>3, <1>4, <1>5, <1>6, Zenon

\* Switching away in yield() preserves the invariant.
LEMMA Inv_yield ==
  ASSUME SleepLockInv, NEW c \in CPUs, yield(c)
  PROVE  SleepLockInv'
<1> USE DEF SleepLockInv, spin, sched_vars, yield, push_off, sched
<1>run. /\ proc[c] \in Procs /\ left[c] = NoProc /\ state[proc[c]] = "RUNNING"
        /\ \A d \in CPUs : (proc[d] = proc[c] => d = c) /\ left[d] # proc[c]
  BY OnCpu, Zenon DEF At
<1>1. TypeOK'
  BY <1>run, NoProcIsNone, SMTT(30) DEF TypeOK, Places
<1>2. CpuInv'
  BY <1>run, NoProcIsNone, SMTT(30) DEF CpuInv, TypeOK
<1>3. PlaceInv'
  BY <1>run, NoProcIsNone DEF PlaceInv, TypeOK
<1>4. LockInv'
  <2>1. ASSUME NEW d \in CPUs, d # c
        PROVE  LocksOf(d)'
    BY <1>run, <2>1, LocksElsewhere, NoProcIsNone, Zenon DEF LockInv, TypeOK
  <2>2. LocksOf(c)'
    BY <1>run, NoProcIsNone DEF LockInv, LocksOf, HoldsLk, HoldsOwn, LkPlaces, OwnPlaces, PlaceInv, TypeOK
  <2> QED
    BY <2>1, <2>2, Zenon DEF LockInv
<1>5. SleepMutex'
  BY <1>run, NoProcIsNone, Zenon DEF SleepMutex, holdingsleep, TypeOK
<1>6. WaitInv'
  BY <1>run, NoProcIsNone DEF WaitInv, WakerComes, PlaceInv, TypeOK
<1> QED
  BY <1>1, <1>2, <1>3, <1>4, <1>5, <1>6, Zenon

\* Coming back in yield() preserves the invariant.
LEMMA Inv_yield_done ==
  ASSUME SleepLockInv, NEW c \in CPUs, yield_done(c)
  PROVE  SleepLockInv'
<1> USE DEF SleepLockInv, spin, sched_vars, yield_done
<1>run. /\ proc[c] \in Procs /\ left[c] = NoProc /\ state[proc[c]] = "RUNNING"
        /\ \A d \in CPUs : (proc[d] = proc[c] => d = c) /\ left[d] # proc[c]
  BY OnCpu, Zenon DEF At
<1>own. pcpu[proc[c]] = c /\ noff[c] = 1
  BY <1>run, SMTT(30) DEF LockInv, LocksOf, HoldsLk, HoldsOwn
<1>1. TypeOK'
  BY <1>run, <1>own, NoProcIsNone, SMTT(30) DEF TypeOK, Places
<1>2. CpuInv'
  BY <1>run, NoProcIsNone, Zenon DEF CpuInv, TypeOK
<1>3. PlaceInv'
  BY <1>run, NoProcIsNone, Zenon DEF PlaceInv, TypeOK
<1>4. LockInv'
  <2>1. ASSUME NEW d \in CPUs, d # c
        PROVE  LocksOf(d)'
    <3>1. \A q \in Procs : pcpu'[q] = d <=> pcpu[q] = d
      BY <1>run, <1>own, <2>1, Zenon DEF TypeOK
    <3>2. /\ proc'[d] = proc[d] /\ left'[d] = left[d] /\ noff'[d] = noff[d] /\ intr'[d] = intr[d]
          /\ proc[d] # NoProc => pc'[proc[d]] = pc[proc[d]] /\ trap'[proc[d]] = trap[proc[d]]
          /\ LocksOf(d) /\ lkcpu' = lkcpu
      BY <1>run, <2>1, Zenon DEF LockInv, TypeOK
    <3> QED
      BY <3>1, <3>2, LocksElsewhere, Zenon
  <2>2. LocksOf(c)'
    BY <1>run, NoProcIsNone, SMTT(30) DEF LockInv, LocksOf, HoldsLk, HoldsOwn, LkPlaces, OwnPlaces, PlaceInv, TypeOK
  <2> QED
    BY <2>1, <2>2, Zenon DEF LockInv
<1>5. SleepMutex'
  BY <1>run, NoProcIsNone, Zenon DEF SleepMutex, holdingsleep, TypeOK
<1>6. WaitInv'
  BY <1>run, NoProcIsNone, Zenon DEF WaitInv, WakerComes, PlaceInv, TypeOK
<1> QED
  BY <1>1, <1>2, <1>3, <1>4, <1>5, <1>6, Zenon

\* Coming back in scheduler() preserves the invariant.
LEMMA Inv_scheduler_back ==
  ASSUME SleepLockInv, NEW c \in CPUs, scheduler_back(c)
  PROVE  SleepLockInv'
<1> USE DEF SleepLockInv, spin, sched_vars, scheduler_back, pop_off
<1>own. left[c] \in Procs /\ proc[c] = NoProc /\ pcpu[left[c]] = c /\ noff[c] = 1
  <2>1. left[c] \in Procs /\ proc[c] = NoProc
    BY SMTT(30) DEF TypeOK, CpuInv
  <2> QED
    BY <2>1, SMTT(30) DEF LockInv, LocksOf, HoldsLk, HoldsOwn
<1>1. TypeOK'
  BY NoProcIsNone, SMTT(30) DEF TypeOK, Places
<1>2. CpuInv'
  BY NoProcIsNone, SMTT(30) DEF CpuInv, TypeOK
<1>3. PlaceInv'
  BY NoProcIsNone, Zenon DEF PlaceInv, TypeOK
<1>4. LockInv'
  <2>1. ASSUME NEW d \in CPUs, d # c
        PROVE  LocksOf(d)'
    <3>1. \A q \in Procs : pcpu'[q] = d <=> pcpu[q] = d
      BY <1>own, <2>1, Zenon DEF TypeOK
    <3>2. /\ proc'[d] = proc[d] /\ left'[d] = left[d] /\ noff'[d] = noff[d] /\ intr'[d] = intr[d]
          /\ pc' = pc /\ trap' = trap
          /\ LocksOf(d) /\ lkcpu' = lkcpu
      BY <2>1, Zenon DEF LockInv, TypeOK
    <3> QED
      BY <3>1, <3>2, LocksElsewhere, Zenon
  <2>2. LocksOf(c)'
    <3>1. /\ proc'[c] = NoProc /\ left'[c] = NoProc /\ noff'[c] = 0 /\ lkcpu' # c
      BY <1>own DEF TypeOK, LockInv, LocksOf, HoldsLk
    <3>2. \A q \in Procs : pcpu'[q] # c
      <4>1. \A q \in Procs : pcpu[q] = c => q = left[c]
        BY <1>own, Zenon DEF LockInv, LocksOf, HoldsOwn
      <4> QED
        BY <1>own, <4>1, Zenon DEF TypeOK
    <3> QED
      BY <3>1, <3>2, NoProcIsNone, SMTT(30) DEF LocksOf, HoldsLk, HoldsOwn
  <2> QED
    BY <2>1, <2>2, Zenon DEF LockInv
<1>5. SleepMutex'
  BY NoProcIsNone, Zenon DEF SleepMutex, holdingsleep, TypeOK
<1>6. WaitInv'
  BY NoProcIsNone, Zenon DEF WaitInv, WakerComes, PlaceInv, TypeOK
<1> QED
  BY <1>1, <1>2, <1>3, <1>4, <1>5, <1>6, ZenonT(30)

\* Running a process preserves the invariant.
LEMMA Inv_scheduler_run ==
  ASSUME SleepLockInv, NEW c \in CPUs, NEW p \in Procs, scheduler_run(c, p)
  PROVE  SleepLockInv'
<1> USE DEF SleepLockInv, spin, sched_vars, scheduler_run, CanVisit
<1>free. /\ noff[c] = 0 /\ p # NoProc
         /\ \A d \in CPUs : left[d] # p /\ proc[d] # p
  <2>1. p # NoProc /\ \A d \in CPUs : proc[d] # p
    BY NoProcIsNone, Zenon DEF CpuInv
  <2> QED
    BY <2>1, SMTT(30) DEF LockInv, LocksOf, HoldsLk, HoldsOwn
<1>1. TypeOK'
  BY <1>free, NoProcIsNone, SMTT(30) DEF TypeOK, Places
<1>2. CpuInv'
  BY <1>free, NoProcIsNone, SMTT(30) DEF CpuInv, TypeOK
<1>3. PlaceInv'
  BY NoProcIsNone, Zenon DEF PlaceInv, TypeOK
<1>4. LockInv'
  <2>1. ASSUME NEW d \in CPUs, d # c
        PROVE  LocksOf(d)'
    BY <2>1, LocksElsewhere, NoProcIsNone, Zenon DEF LockInv, TypeOK
  <2>2. LocksOf(c)'
    BY NoProcIsNone DEF LockInv, LocksOf, HoldsLk, HoldsOwn, LkPlaces, OwnPlaces, PlaceInv, TypeOK
  <2> QED
    BY <2>1, <2>2, Zenon DEF LockInv
<1>5. SleepMutex'
  BY NoProcIsNone, Zenon DEF SleepMutex, holdingsleep, TypeOK
<1>6. WaitInv'
  BY NoProcIsNone, Zenon DEF WaitInv, WakerComes, PlaceInv, TypeOK
<1> QED
  BY <1>1, <1>2, <1>3, <1>4, <1>5, <1>6, ZenonT(30)

\* kill() preserves the invariant.
LEMMA Inv_kkill ==
  ASSUME SleepLockInv, NEW p \in Procs, kkill(p)
  PROVE  SleepLockInv'
<1> USE DEF SleepLockInv, spin, sched_vars, kkill, CanVisit
<1>1. TypeOK'
  BY NoProcIsNone, Zenon DEF TypeOK, Places
<1>2. CpuInv'
  BY NoProcIsNone DEF CpuInv, TypeOK
<1>3. PlaceInv'
  BY NoProcIsNone, Zenon DEF PlaceInv, TypeOK
<1>4. LockInv'
  BY LocksElsewhere, Zenon DEF LockInv
<1>5. SleepMutex'
  BY NoProcIsNone, Zenon DEF SleepMutex, holdingsleep, TypeOK
<1>6. WaitInv'
  BY NoProcIsNone, Zenon DEF WaitInv, WakerComes, PlaceInv, TypeOK
<1> QED
  BY <1>1, <1>2, <1>3, <1>4, <1>5, <1>6, Zenon

-----------------------------------------------------------------------------
(* The invariant, and what follows from it.                                *)

\* The boot state satisfies the invariant.
LEMMA Inv_Init ==
  ASSUME Init
  PROVE  SleepLockInv
<1> USE NoProcIsNone DEF Init
<1>1. TypeOK
  <2>1. /\ lkcpu \in CPUs \cup {NoCpu} /\ pcpu \in [Procs -> CPUs \cup {NoCpu}]
        /\ locked \in BOOLEAN /\ owner \in Procs \cup {NoProc} /\ chan \in [Procs -> BOOLEAN]
        /\ state \in [Procs -> {"RUNNABLE", "RUNNING", "SLEEPING"}]
    BY Zenon
  <2>2. /\ noff \in [CPUs -> 0..2] /\ intena \in [CPUs -> BOOLEAN] /\ intr \in [CPUs -> BOOLEAN]
        /\ proc \in [CPUs -> Procs \cup {NoProc}] /\ left \in [CPUs -> Procs \cup {NoProc}]
    OBVIOUS
  <2>3. /\ saved \in [Procs -> BOOLEAN] /\ pc \in [Procs -> Places]
        /\ trap \in [Procs -> {"none", "yield", "resume"}]
    BY Zenon DEF Places
  <2> QED
    BY <2>1, <2>2, <2>3 DEF TypeOK
<1>2. CpuInv /\ PlaceInv
  BY Zenon DEF CpuInv, PlaceInv
<1>3. LockInv
  BY DEF LockInv, LocksOf, HoldsLk, HoldsOwn
<1>4. SleepMutex /\ WaitInv
  BY Zenon DEF SleepMutex, holdingsleep, WaitInv
<1> QED
  BY <1>1, <1>2, <1>3, <1>4, Zenon DEF SleepLockInv

\* Every step, and every step that changes nothing, preserves the invariant.
LEMMA Inv_Next ==
  ASSUME SleepLockInv, [Next]_vars
  PROVE  SleepLockInv'
<1>1. ASSUME NEW c \in CPUs, Step(c)
      PROVE  SleepLockInv'
  BY <1>1, Inv_acquiresleep, Inv_test, Inv_sleep_acquire, Inv_sleep_release, Inv_sleep_sched,
     Inv_sleep_tidy, Inv_releasesleep, Inv_wakeup, Inv_releasesleep_done, Inv_timer, Inv_yield,
     Inv_yield_done, Inv_scheduler_back, Inv_scheduler_run, Zenon DEF Step
<1>2. CASE UNCHANGED vars
  <2> USE <1>2 DEF vars, spin, sched_vars, SleepLockInv
  <2>1. TypeOK' /\ CpuInv' /\ PlaceInv' /\ SleepMutex'
    BY SMTT(30) DEF TypeOK, CpuInv, PlaceInv, SleepMutex, holdingsleep
  <2>2. LockInv'
    BY ZenonT(30) DEF LockInv, LocksOf, HoldsLk, HoldsOwn
  <2>3. WaitInv'
    BY Zenon DEF WaitInv, WakerComes
  <2> QED
    BY <2>1, <2>2, <2>3, Zenon
<1> QED
  BY <1>1, <1>2, Inv_kkill, Zenon DEF Next

\* The invariant holds throughout.
THEOREM SleepLockInvariant == Spec => []SleepLockInv
BY Inv_Init, Inv_Next, PTL DEF Spec

\* Type correctness of the locks, the interrupt flags and the process table;
\* in particular c->noff never exceeds two.
THEOREM SleepLockTypeCorrect == Spec => []TypeOK
BY SleepLockInvariant, PTL DEF SleepLockInv

\* acquiresleep() and releasesleep() give mutual exclusion, and holdingsleep()
\* tells the holder, for any number of contenders on any number of harts.
THEOREM SleepLockExcludes == Spec => []SleepMutex
BY SleepLockInvariant, PTL DEF SleepLockInv

\* sleep() and wakeup() lose no wakeup: p->lock, taken before lk->lk is let
\* go, keeps wakeup() from passing a process on its way to sleep.
THEOREM NoSleeperLost == Spec => []NoSleeperForgotten
<1>1. SleepLockInv => NoSleeperForgotten
  BY Zenon DEF SleepLockInv, WaitInv, WakerComes, NoSleeperForgotten
<1> QED
  BY <1>1, SleepLockInvariant, PTL

\* No process is run by one hart while another runs it or is still on its
\* kernel stack: p->lock is handed over across swtch().
THEOREM OneHartPerProcess == Spec => []OneCpuPerProcess
<1>1. ASSUME SleepLockInv, NEW c \in CPUs, NEW d \in CPUs, c # d,
             NEW p \in {proc[c], left[c]} \cap {proc[d], left[d]}, p # NoProc
      PROVE  FALSE
  <2>1. p \in Procs /\ CpuInv /\ LockInv
    BY <1>1 DEF SleepLockInv, TypeOK
  <2>2. CASE left[c] = p /\ left[d] = p
    <3>1. pcpu[p] = c /\ pcpu[p] = d
      BY <2>1, <2>2, Zenon DEF LockInv, LocksOf
    <3> QED
      BY <1>1, <3>1, Zenon
  <2>3. CASE proc[c] = p \/ proc[d] = p
    BY <1>1, <2>1, <2>3 DEF CpuInv
  <2> QED
    BY <1>1, <2>2, <2>3, Zenon
<1>2. SleepLockInv => OneCpuPerProcess
  BY <1>1, Zenon DEF OneCpuPerProcess
<1> QED
  BY <1>2, SleepLockInvariant, PTL

-----------------------------------------------------------------------------
(* Counting the locks of a hart.                                           *)

Sets == INSTANCE FiniteSetTheorems

\* IsFiniteSet and Cardinality are those of the library's theorems.
LEMMA SameSets ==
  \A S : (IsFiniteSet(S) <=> Sets!IsFiniteSet(S)) /\ Cardinality(S) = Sets!Cardinality(S)
BY Zenon DEF IsFiniteSet, Sets!IsFiniteSet, Cardinality, Sets!Cardinality

\* The cardinality of sets of no and of one element.
LEMMA CardinalityOfFew == Cardinality({}) = 0 /\ \A x : Cardinality({x}) = 1
BY SameSets, Sets!FS_EmptySet, Sets!FS_Singleton, Zenon

\* A hart that holds a spinlock has interrupts off, so no interrupt handler
\* spins on a lock that its own hart holds; push_off() and pop_off() count the
\* locks held; and sched() finds p->lock the one lock held.
THEOREM NoInterruptUnderSpinlock == Spec => []SpinDiscipline
<1>1. ASSUME SleepLockInv, NEW c \in CPUs
      PROVE  /\ noff[c] = Held(c)
             /\ noff[c] > 0 => ~intr[c]
             /\ At(c, "sleep_sched") => noff[c] = 1 /\ pcpu[proc[c]] = c
  <2>1. TypeOK /\ CpuInv /\ LocksOf(c)
    BY <1>1, Zenon DEF SleepLockInv, LockInv
  <2> DEFINE H == {p \in Procs : pcpu[p] = c}
  <2>2. CASE left[c] # NoProc
    <3>1. H = {left[c]}
      BY <2>1, <2>2, SMTT(30) DEF TypeOK, CpuInv, LocksOf, HoldsOwn
    <3>2. Cardinality(H) = 1
      BY <3>1, CardinalityOfFew, Zenon
    <3> QED
      BY <2>1, <2>2, <3>2, Zenon DEF LocksOf, Held, At, CpuInv
  <2>3. CASE left[c] = NoProc /\ HoldsOwn(c)
    <3>1. H = {proc[c]}
      BY <2>1, <2>3, NoProcIsNone, SMTT(30) DEF TypeOK, LocksOf, HoldsOwn
    <3>2. Cardinality(H) = 1
      BY <3>1, CardinalityOfFew, Zenon
    <3>3. noff[c] = Held(c)
      BY <2>1, <2>3, <3>2, Zenon DEF LocksOf, Held
    <3>4. At(c, "sleep_sched") => noff[c] = 1 /\ pcpu[proc[c]] = c
      BY <2>1, <2>3, <3>1, SMTT(30) DEF LocksOf, At, HoldsLk, LkPlaces
    <3> QED
      BY <2>1, <3>3, <3>4, Zenon DEF LocksOf
  <2>4. CASE left[c] = NoProc /\ ~HoldsOwn(c)
    <3>1. H = {}
      BY <2>1, <2>4, NoProcIsNone, Zenon DEF LocksOf
    <3>2. Cardinality(H) = 0
      BY <3>1, CardinalityOfFew, Zenon
    <3>3. noff[c] = Held(c)
      BY <2>1, <2>4, <3>2, Zenon DEF LocksOf, Held
    <3>4. ~At(c, "sleep_sched")
      BY <2>4, Zenon DEF At, HoldsOwn, OwnPlaces
    <3> QED
      BY <2>1, <3>3, <3>4, Zenon DEF LocksOf
  <2> QED
    BY <2>2, <2>3, <2>4, Zenon
<1>2. SleepLockInv => SpinDiscipline
  BY <1>1, Zenon DEF SpinDiscipline
<1> QED
  BY <1>2, SleepLockInvariant, PTL

=============================================================================
