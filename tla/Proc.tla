-------------------------------- MODULE Proc --------------------------------
(***************************************************************************)
(* The life of a process (kernel/proc.c): kfork(), kexit(), kwait() and    *)
(* kkill() on the process table, the killed tests of usertrap()            *)
(* (kernel/trap.c) and the loop of the first program (user/init.c).        *)
(*                                                                         *)
(* wait_lock is explicit.  p->lock is held across steps in one place only, *)
(* from kexit() to the scheduler that has left the process's stack; its    *)
(* other critical sections are within one action.  "RUNNABLE" stands for   *)
(* RUNNABLE and RUNNING, which no code here tells apart.  SleepLock has    *)
(* the inside of sleep() and wakeup(), Sched has who runs when.            *)
(***************************************************************************)
EXTENDS Naturals, FiniteSets, FiniteSetsExt

CONSTANTS
  NPROC,       \* size of the process table
  MaxPid,      \* bound: pids handed out by allocpid()
  KillPids     \* bound: the pids user programs pass to kill()

ASSUME ProcAssumption ==
  /\ NPROC \in Nat \ {0}
  /\ MaxPid \in Nat \ {0}
  /\ KillPids \subseteq Nat

Slots == 1..NPROC
initproc == 1
None == 0

VARIABLES
  state,       \* p->state
  pid,         \* p->pid, 0 when the slot is free
  parent,      \* p->parent, a slot or None
  killed,      \* p->killed
  nextpid,     \* nextpid
  wait_lock,   \* the process holding wait_lock, or None
  pc,          \* where each process is
  slot,        \* allocproc()'s loop variable, then kfork()'s np
  shell,       \* init.c's pid: the shell it waits for, or 0
  condemned,   \* history: pids passed to kill(), or of a process that faulted
  marked,      \* history: slots that a kill() found while they were free
  panicked     \* panic("init exiting")

vars == <<state, pid, parent, killed, nextpid, wait_lock, pc, slot, shell, condemned, marked, panicked>>

\* userinit() has made the first process.
Init ==
  /\ state = [q \in Slots |-> IF q = initproc THEN "RUNNABLE" ELSE "UNUSED"]
  /\ pid = [q \in Slots |-> IF q = initproc THEN 1 ELSE 0]
  /\ parent = [q \in Slots |-> None]
  /\ killed = [q \in Slots |-> FALSE]
  /\ nextpid = 2
  /\ wait_lock = None
  /\ pc = [q \in Slots |-> "user"]
  /\ slot = [q \in Slots |-> 1]
  /\ shell = 0
  /\ condemned = {}
  /\ marked = {}
  /\ panicked = FALSE

\* Process p is at a place of the kernel or of its program and can go on.
Running(p, place) == ~panicked /\ state[p] = "RUNNABLE" /\ pc[p] = place
Goto(p, place) == pc' = [pc EXCEPT ![p] = place]

\* kexit() holds p->lock until the scheduler is off p's kernel stack.
Locked(q) == pc[q] = "swtch"

\* A trap from user mode: a killed process gets no further than kexit().
InUser(p) == Running(p, "user") /\ ~killed[p]

\* fork() or wait() returns to the program; init exits when the call failed.
Return(p, ok) == Goto(p, IF p = initproc /\ ~ok THEN "exit" ELSE "user")

\* wakeup(q), where q sleeps in kwait() on itself as the channel.
wakeup(q) == IF q \in Slots /\ state[q] = "SLEEPING"
             THEN [state EXCEPT ![q] = "RUNNABLE"] ELSE state

\* Mutant: p->killed is left as it was.
freeproc_KeepsKilled(q) ==
  /\ state' = [state EXCEPT ![q] = "UNUSED"]
  /\ pid' = [pid EXCEPT ![q] = 0]
  /\ parent' = [parent EXCEPT ![q] = None]
  /\ marked' = marked \ {q}
  /\ UNCHANGED killed

freeproc(q) ==
  /\ state' = [state EXCEPT ![q] = "UNUSED"]
  /\ pid' = [pid EXCEPT ![q] = 0]
  /\ parent' = [parent EXCEPT ![q] = None]
  /\ killed' = [killed EXCEPT ![q] = FALSE]
  /\ marked' = marked \ {q}

-----------------------------------------------------------------------------
(* fork                                                                    *)

\* The bound on pids: every call under way may still take one.
PidsLeft == nextpid + Cardinality({q \in Slots : pc[q] = "alloc"}) <= MaxPid

\* kfork() is entered.  init forks when it has no shell.
kfork(p) ==
  /\ InUser(p)
  /\ p = initproc => shell = 0
  /\ PidsLeft
  /\ Goto(p, "alloc")
  /\ UNCHANGED <<state, pid, parent, killed, nextpid, wait_lock, slot, shell, condemned, marked, panicked>>

\* allocproc() looks at one slot, and kfork() copies the parent into a free
\* one; neither touches killed.  A failed allocation frees the slot again,
\* after a pid has been used up.
Found(p, q) ==
  /\ nextpid' = nextpid + 1
  /\ \/ /\ pid' = [pid EXCEPT ![q] = nextpid]
        /\ state' = [state EXCEPT ![q] = "USED"]
        /\ Goto(p, "link")
        /\ UNCHANGED <<parent, killed, slot, marked>>
     \/ /\ freeproc(q)
        /\ slot' = [slot EXCEPT ![p] = 1]
        /\ Return(p, FALSE)

allocproc(p) ==
  LET q == slot[p] IN
  /\ Running(p, "alloc")
  /\ q \in Slots => ~Locked(q)
  /\ \/ /\ q \notin Slots
        /\ slot' = [slot EXCEPT ![p] = 1]
        /\ Return(p, FALSE)
        /\ UNCHANGED <<state, pid, parent, killed, nextpid, marked>>
     \/ /\ q \in Slots
        /\ state[q] # "UNUSED"
        /\ slot' = [slot EXCEPT ![p] = q + 1]
        /\ UNCHANGED <<state, pid, parent, killed, nextpid, pc, marked>>
     \/ /\ q \in Slots
        /\ state[q] = "UNUSED"
        /\ Found(p, q)
  /\ UNCHANGED <<wait_lock, shell, condemned, panicked>>

\* np->parent = p, under wait_lock.
kfork_link(p) ==
  /\ Running(p, "link")
  /\ wait_lock = None
  /\ parent' = [parent EXCEPT ![slot[p]] = p]
  /\ Goto(p, "ready")
  /\ UNCHANGED <<state, pid, killed, nextpid, wait_lock, slot, shell, condemned, marked, panicked>>

\* np->state = RUNNABLE, under np->lock; fork() returns in both.
kfork_ready(p) ==
  /\ Running(p, "ready")
  /\ state' = [state EXCEPT ![slot[p]] = "RUNNABLE"]
  /\ pc' = [pc EXCEPT ![p] = "user", ![slot[p]] = "user"]
  /\ shell' = IF p = initproc THEN pid[slot[p]] ELSE shell
  /\ slot' = [slot EXCEPT ![p] = 1]
  /\ UNCHANGED <<pid, parent, killed, nextpid, wait_lock, condemned, marked, panicked>>

-----------------------------------------------------------------------------
(* exit                                                                    *)

\* kexit() is entered: exit(), or the killed test of usertrap().
kexit(p) ==
  /\ Running(p, "user")
  /\ p # initproc \/ killed[p]
  /\ Goto(p, "exit")
  /\ UNCHANGED <<state, pid, parent, killed, nextpid, wait_lock, slot, shell, condemned, marked, panicked>>

\* An exception usertrap() cannot handle: setkilled(p), then kexit(-1).
fault(p) ==
  /\ InUser(p)
  /\ p # initproc
  /\ killed' = [killed EXCEPT ![p] = TRUE]
  /\ condemned' = condemned \cup {pid[p]}
  /\ Goto(p, "exit")
  /\ UNCHANGED <<state, pid, parent, nextpid, wait_lock, slot, shell, marked, panicked>>

init_exit ==
  /\ Running(initproc, "exit")
  /\ panicked' = TRUE
  /\ UNCHANGED <<state, pid, parent, killed, nextpid, wait_lock, pc, slot, shell, condemned, marked>>

\* acquire(&wait_lock), once the files are closed.
kexit_lock(p) ==
  /\ Running(p, "exit")
  /\ p # initproc
  /\ wait_lock = None
  /\ wait_lock' = p
  /\ Goto(p, "reparent")
  /\ UNCHANGED <<state, pid, parent, killed, nextpid, slot, shell, condemned, marked, panicked>>

NobodyLocked == \A q \in Slots : ~Locked(q)

\* Mutant: only children that still run are given away.
reparent_SkipsZombies(p) ==
  /\ Running(p, "reparent")
  /\ NobodyLocked
  /\ parent' = [q \in Slots |-> IF parent[q] = p /\ state[q] # "ZOMBIE"
                                THEN initproc ELSE parent[q]]
  /\ state' = wakeup(initproc)
  /\ Goto(p, "notify")
  /\ UNCHANGED <<pid, killed, nextpid, wait_lock, slot, shell, condemned, marked, panicked>>

\* Children go to init, which is woken up for them.
reparent(p) ==
  /\ Running(p, "reparent")
  /\ NobodyLocked
  /\ parent' = [q \in Slots |-> IF parent[q] = p THEN initproc ELSE parent[q]]
  /\ state' = IF \E q \in Slots : parent[q] = p THEN wakeup(initproc) ELSE state
  /\ Goto(p, "notify")
  /\ UNCHANGED <<pid, killed, nextpid, wait_lock, slot, shell, condemned, marked, panicked>>

\* Mutant: the parent is not woken up.
kexit_notify_Silent(p) ==
  /\ Running(p, "notify")
  /\ NobodyLocked
  /\ Goto(p, "zombie")
  /\ UNCHANGED <<state, pid, parent, killed, nextpid, wait_lock, slot, shell, condemned, marked, panicked>>

\* wakeup(p->parent).
kexit_notify(p) ==
  /\ Running(p, "notify")
  /\ NobodyLocked
  /\ state' = wakeup(parent[p])
  /\ Goto(p, "zombie")
  /\ UNCHANGED <<pid, parent, killed, nextpid, wait_lock, slot, shell, condemned, marked, panicked>>

\* Under p->lock: p->state = ZOMBIE, release(&wait_lock), sched().
kexit_zombie(p) ==
  /\ Running(p, "zombie")
  /\ state' = [state EXCEPT ![p] = "ZOMBIE"]
  /\ wait_lock' = None
  /\ Goto(p, "swtch")
  /\ UNCHANGED <<pid, parent, killed, nextpid, slot, shell, condemned, marked, panicked>>

\* The scheduler is off p's stack and releases p->lock.
kexit_switched(p) ==
  /\ ~panicked
  /\ pc[p] = "swtch"
  /\ Goto(p, "user")
  /\ UNCHANGED <<state, pid, parent, killed, nextpid, wait_lock, slot, shell, condemned, marked, panicked>>

-----------------------------------------------------------------------------
(* wait                                                                    *)

\* kwait() is entered.  init waits while it has a shell.
kwait(p) ==
  /\ InUser(p)
  /\ p = initproc => shell # 0
  /\ Goto(p, "wait")
  /\ UNCHANGED <<state, pid, parent, killed, nextpid, wait_lock, slot, shell, condemned, marked, panicked>>

Children(p) == {q \in Slots : parent[q] = p}
Zombies(p) == {q \in Children(p) : state[q] = "ZOMBIE"}

\* Mutant: the child's lock is not taken.
CanScan_Unlocked(p) == TRUE

\* The scan takes the lock of every child up to the one it finds.
CanScan(p) == \A q \in Children(p) : (\A z \in Zombies(p) : q <= z) => ~Locked(q)

\* kwait() under wait_lock, on entry and again after each sleep().
kwait_scan(p) ==
  /\ Running(p, "wait")
  /\ wait_lock = None
  /\ CanScan(p)
  /\ \/ /\ Zombies(p) # {}
        /\ freeproc(Min(Zombies(p)))
        /\ shell' = IF p = initproc /\ shell = pid[Min(Zombies(p))] THEN 0 ELSE shell
        /\ Return(p, TRUE)
        /\ UNCHANGED wait_lock
     \/ /\ Zombies(p) # {}                 \* copyout() fails; init passes no address
        /\ p # initproc
        /\ Return(p, FALSE)
        /\ UNCHANGED <<state, pid, parent, killed, wait_lock, shell, marked>>
     \/ /\ Children(p) = {}
        /\ Return(p, FALSE)
        /\ UNCHANGED <<state, pid, parent, killed, wait_lock, shell, marked>>
     \/ /\ Children(p) # {} /\ Zombies(p) = {}
        /\ wait_lock' = p
        /\ Goto(p, "check")
        /\ UNCHANGED <<state, pid, parent, killed, shell, marked>>
  /\ UNCHANGED <<nextpid, slot, condemned, panicked>>

\* killed(p), under p->lock: give up, or go on to sleep.
kwait_check(p) ==
  /\ Running(p, "check")
  /\ \/ /\ killed[p]
        /\ wait_lock' = None
        /\ Return(p, FALSE)
     \/ /\ ~killed[p]
        /\ Goto(p, "sleep")
        /\ UNCHANGED wait_lock
  /\ UNCHANGED <<state, pid, parent, killed, nextpid, slot, shell, condemned, marked, panicked>>

\* sleep(p, &wait_lock).
kwait_sleep(p) ==
  /\ Running(p, "sleep")
  /\ state' = [state EXCEPT ![p] = "SLEEPING"]
  /\ wait_lock' = None
  /\ Goto(p, "wait")
  /\ UNCHANGED <<pid, parent, killed, nextpid, slot, shell, condemned, marked, panicked>>

-----------------------------------------------------------------------------
(* kill                                                                    *)

\* kkill() stops at the first slot with the pid and does not look at its state;
\* a free slot has pid 0.  init.c makes no such call.
kkill(p, n) ==
  LET Targets == {q \in Slots : pid[q] = n}
      t == Min(Targets)
  IN
  /\ InUser(p)
  /\ p # initproc
  /\ Targets # {}
  /\ \A q \in 1..t : ~Locked(q)
  /\ killed' = [killed EXCEPT ![t] = TRUE]
  /\ state' = wakeup(t)
  /\ condemned' = condemned \cup {n}
  /\ marked' = IF state[t] = "UNUSED" THEN marked \cup {t} ELSE marked
  /\ UNCHANGED <<pid, parent, nextpid, wait_lock, pc, slot, shell, panicked>>

-----------------------------------------------------------------------------
Exit(p) ==
  \/ kexit_lock(p) \/ reparent(p) \/ kexit_notify(p) \/ kexit_zombie(p) \/ kexit_switched(p)

Wait(p) == kwait_scan(p) \/ kwait_check(p) \/ kwait_sleep(p)

Fork(p) == allocproc(p) \/ kfork_link(p) \/ kfork_ready(p)

Next ==
  \/ \E p \in Slots : kfork(p) \/ kexit(p) \/ fault(p) \/ kwait(p)
  \/ \E p \in Slots : Fork(p) \/ Exit(p) \/ Wait(p)
  \/ \E p \in Slots, n \in KillPids : kkill(p, n)
  \/ init_exit

Spec == Init /\ [][Next]_vars

\* A process on its way out goes on, for nothing it needs is taken from it
\* again.  A process in wait() contends for wait_lock with others, and a lock
\* that keeps being released is not refused to one CPU for ever.
Fairness == \A p \in Slots : WF_vars(Exit(p)) /\ SF_vars(Wait(p))

FairSpec == Spec /\ Fairness

-----------------------------------------------------------------------------
(* Properties.                                                             *)

TypeOK ==
  /\ state \in [Slots -> {"UNUSED", "USED", "RUNNABLE", "SLEEPING", "ZOMBIE"}]
  /\ parent \in [Slots -> Slots \cup {None}]
  /\ killed \in [Slots -> BOOLEAN]
  /\ nextpid \in Nat
  /\ pid \in [Slots -> 0..nextpid - 1]
  /\ wait_lock \in Slots \cup {None}
  /\ pc \in [Slots -> {"user", "alloc", "link", "ready", "exit", "reparent", "notify",
                       "zombie", "swtch", "wait", "check", "sleep"}]
  /\ slot \in [Slots -> 1..NPROC + 1]
  /\ shell \in Nat
  /\ condemned \subseteq Nat
  /\ marked \subseteq Slots
  /\ panicked \in BOOLEAN

\* No two live processes have the same pid, and a slot has pid 0 exactly when
\* it is free: wait(), kill() and the pid system calls name one process.
PidsUnique ==
  \A p, q \in Slots :
    /\ pid[p] = 0 <=> state[p] = "UNUSED"
    /\ p # q /\ pid[p] = pid[q] => pid[p] = 0

\* p->parent never dangles: every started process but init has a parent that
\* is alive to wait for it, even while both exit and while slots are reused.
ParentAlive ==
  \A q \in Slots \ {initproc} :
    state[q] \in {"RUNNABLE", "SLEEPING", "ZOMBIE"} =>
      /\ parent[q] \in Slots
      /\ state[parent[q]] \in {"RUNNABLE", "SLEEPING"}

\* A parent never sleeps in wait() while a child of its own, or one that init
\* has inherited, is a zombie: no exit is missed.
NoZombieBehindSleeper == \A p \in Slots : state[p] = "SLEEPING" => Zombies(p) = {}

\* kwait() never frees a process that is still on its kernel stack in sched().
StackInUse == \A p \in Slots : pc[p] = "swtch" => state[p] = "ZOMBIE"

\* A live process is killed only if kill() was called with its pid, if it
\* faulted, or if its slot was still free when kill(0) found it: kkill() takes
\* the first slot with the pid for a process, and allocproc() leaves killed as
\* it is, so that the next process of the slot is dead at birth.  This case is
\* not what proc.c:680 says ("Kill the process with the given pid."); in no
\* other way does p->killed pass from one process of a slot to the next.
KilledOnRequest ==
  \A p \in Slots : killed[p] /\ state[p] # "UNUSED" => pid[p] \in condemned \/ p \in marked

\* A process in wait() with a zombie child comes back from it.
WaitReturns ==
  \A p \in Slots :
    pc[p] \in {"wait", "check", "sleep"} /\ Zombies(p) # {}
      ~> pc[p] \notin {"wait", "check", "sleep"} \/ panicked
=============================================================================
