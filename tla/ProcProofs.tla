----------------------------- MODULE ProcProofs -----------------------------
(***************************************************************************)
(* Proofs about the life of processes, for process tables of any size and  *)
(* any number of pids.                                                     *)
(***************************************************************************)
EXTENDS Proc, TLAPS

USE ProcAssumption

-----------------------------------------------------------------------------
(* The inductive invariant.                                                *)

\* What the state of a slot says about where its process is; init does not exit.
PlaceInv ==
  /\ \A p \in Slots :
       /\ state[p] \in {"UNUSED", "USED"} => pc[p] = "user"
       /\ state[p] = "ZOMBIE" => pc[p] \in {"user", "swtch"}
       /\ pc[p] = "swtch" => state[p] = "ZOMBIE"
       /\ state[p] = "SLEEPING" => pc[p] = "wait"
  /\ state[initproc] \in {"RUNNABLE", "SLEEPING"}
  /\ pc[initproc] \notin {"reparent", "notify", "zombie"}

\* A slot that fork() fills belongs to one parent; before it is linked to it,
\* and when it is free, it has none.
ForkInv ==
  /\ \A p \in Slots : pc[p] \in {"link", "ready"} => slot[p] \in Slots /\ state[slot[p]] = "USED"
  /\ \A p, q \in Slots : p # q /\ {pc[p], pc[q]} \subseteq {"link", "ready"} => slot[p] # slot[q]
  /\ \A p \in Slots : pc[p] = "ready" => parent[slot[p]] = p
  /\ \A q \in Slots : state[q] = "UNUSED" => parent[q] = None

\* Parents are alive and have not passed reparent(); started processes have one.
ChildInv ==
  /\ \A q \in Slots : parent[q] \in Slots =>
       state[parent[q]] \in {"RUNNABLE", "SLEEPING"} /\ pc[parent[q]] \notin {"notify", "zombie"}
  /\ \A q \in Slots \ {initproc} :
       state[q] \in {"RUNNABLE", "SLEEPING", "ZOMBIE"} => parent[q] \in Slots

\* wait_lock is held from the scan of wait() to its sleep, and from reparent()
\* to ZOMBIE; so a scan that found no zombie still holds at the sleep, and a
\* parent that was woken up does not go back to sleep.
WaitInv ==
  /\ \A p \in Slots : pc[p] \in {"reparent", "notify", "zombie", "check", "sleep"} => wait_lock = p
  /\ \A p, q \in Slots : state[p] = "SLEEPING" \/ pc[p] \in {"check", "sleep"} =>
                           ~(parent[q] = p /\ state[q] = "ZOMBIE")
  /\ \A q \in Slots : pc[q] = "zombie" => state[parent[q]] # "SLEEPING"

\* A slot is killed for its process, or since kill() found it free; so a free
\* slot that no kill() has found is not killed.
KillInv ==
  \A p \in Slots : killed[p] => p \in marked \/ (state[p] # "UNUSED" /\ pid[p] \in condemned)

ProcInv ==
  TypeOK /\ nextpid >= 1 /\ PidsUnique /\ PlaceInv /\ ForkInv /\ ChildInv /\ WaitInv /\ KillInv

-----------------------------------------------------------------------------
(* Lemmas about the parts of the steps.                                    *)

\* No process has the number that stands for none, and init is a process.
LEMMA SlotFacts == None \notin Slots /\ initproc \in Slots /\ Slots \subseteq Nat
BY DEF None, Slots, initproc

\* wakeup() makes a sleeper runnable and changes nothing else.
LEMMA WakeupFacts ==
  ASSUME TypeOK, NEW q
  PROVE  /\ wakeup(q) \in [Slots -> {"UNUSED", "USED", "RUNNABLE", "SLEEPING", "ZOMBIE"}]
         /\ \A x \in Slots :
              wakeup(q)[x] = IF x = q /\ state[x] = "SLEEPING" THEN "RUNNABLE" ELSE state[x]
BY Zenon DEF TypeOK, wakeup

-----------------------------------------------------------------------------
(* Every step preserves the invariant: one lemma for each action.          *)

\* Entering fork() preserves the invariant.
LEMMA Inv_kfork ==
  ASSUME ProcInv, NEW p \in Slots, kfork(p)
  PROVE  ProcInv'
<1> USE DEF ProcInv, kfork, InUser, Running, Goto
<1>1. TypeOK' /\ nextpid' >= 1
  BY SlotFacts, Zenon DEF TypeOK
<1>2. PidsUnique'
  BY SlotFacts, Zenon DEF PidsUnique, TypeOK, ForkInv
<1>3. PlaceInv'
  BY SlotFacts, Zenon DEF PlaceInv, ForkInv, TypeOK
<1>4. ForkInv'
  BY SlotFacts DEF ForkInv, PlaceInv, TypeOK
<1>5. ChildInv'
  BY SlotFacts DEF ChildInv, PlaceInv, ForkInv, TypeOK
<1>6. WaitInv'
  BY SlotFacts DEF WaitInv, PlaceInv, ChildInv, ForkInv, TypeOK
<1>7. KillInv'
  BY SlotFacts, Zenon DEF KillInv, ForkInv, TypeOK
<1> QED
  BY <1>1, <1>2, <1>3, <1>4, <1>5, <1>6, <1>7, Zenon

\* A look at a slot in allocproc() preserves the invariant.
LEMMA Inv_allocproc ==
  ASSUME ProcInv, NEW p \in Slots, allocproc(p)
  PROVE  ProcInv'
<1> USE DEF ProcInv
<1> DEFINE q == slot[p]
           back == IF p = initproc THEN "exit" ELSE "user"
<1>at. /\ state[p] = "RUNNABLE" /\ pc[p] = "alloc" /\ (q \in Slots => ~Locked(q))
       /\ UNCHANGED <<wait_lock, shell, condemned, panicked>>
  BY Zenon DEF allocproc, Running
<1>1. CASE /\ q \notin Slots /\ slot' = [slot EXCEPT ![p] = 1] /\ pc' = [pc EXCEPT ![p] = back]
           /\ UNCHANGED <<state, pid, parent, killed, nextpid, marked>>
  <2>1. TypeOK' /\ nextpid' >= 1
    BY <1>at, <1>1, SlotFacts DEF TypeOK
  <2>2. PidsUnique'
    BY <1>at, <1>1, SlotFacts, Zenon DEF PidsUnique, TypeOK, ForkInv
  <2>3. PlaceInv'
    BY <1>at, <1>1, SlotFacts, Zenon DEF PlaceInv, ForkInv, TypeOK
  <2>4. ForkInv'
    BY <1>at, <1>1, SlotFacts DEF ForkInv, PlaceInv, TypeOK
  <2>5. ChildInv'
    BY <1>at, <1>1, SlotFacts DEF ChildInv, PlaceInv, ForkInv, TypeOK
  <2>6. WaitInv'
    BY <1>at, <1>1, SlotFacts DEF WaitInv, PlaceInv, ChildInv, ForkInv, TypeOK
  <2>7. KillInv'
    BY <1>at, <1>1, SlotFacts, Zenon DEF KillInv, ForkInv, TypeOK
  <2> QED
    BY <2>1, <2>2, <2>3, <2>4, <2>5, <2>6, <2>7, Zenon
<1>2. CASE /\ q \in Slots /\ slot' = [slot EXCEPT ![p] = q + 1]
           /\ UNCHANGED <<state, pid, parent, killed, nextpid, pc, marked>>
  <2>1. TypeOK' /\ nextpid' >= 1
    <3>1. q + 1 \in 1..NPROC + 1
      BY <1>2 DEF Slots
    <3>2. slot' \in [Slots -> 1..NPROC + 1]
      BY <1>2, <3>1, Zenon DEF TypeOK
    <3> QED
      BY <1>at, <1>2, <3>2, Zenon DEF TypeOK
  <2>2. PidsUnique'
    BY <1>at, <1>2, SlotFacts, Zenon DEF PidsUnique, TypeOK, ForkInv
  <2>3. PlaceInv'
    BY <1>at, <1>2, SlotFacts, Zenon DEF PlaceInv, ForkInv, TypeOK
  <2>4. ForkInv'
    BY <1>at, <1>2, SlotFacts DEF ForkInv, PlaceInv, TypeOK
  <2>5. ChildInv'
    BY <1>at, <1>2, SlotFacts, Zenon DEF ChildInv, PlaceInv, ForkInv, TypeOK
  <2>6. WaitInv'
    BY <1>at, <1>2, SlotFacts DEF WaitInv, PlaceInv, ChildInv, ForkInv, TypeOK
  <2>7. KillInv'
    BY <1>at, <1>2, SlotFacts, Zenon DEF KillInv, ForkInv, TypeOK
  <2> QED
    BY <2>1, <2>2, <2>3, <2>4, <2>5, <2>6, <2>7, Zenon
<1>3. CASE /\ q \in Slots /\ state[q] = "UNUSED" /\ nextpid' = nextpid + 1
           /\ pid' = [pid EXCEPT ![q] = nextpid] /\ state' = [state EXCEPT ![q] = "USED"]
           /\ pc' = [pc EXCEPT ![p] = "link"] /\ UNCHANGED <<parent, killed, slot, marked>>
  <2>1. TypeOK' /\ nextpid' >= 1
    BY <1>at, <1>3, SlotFacts DEF TypeOK
  <2>2. PidsUnique'
    BY <1>at, <1>3, SlotFacts DEF PidsUnique, TypeOK, ForkInv
  <2>3. PlaceInv'
    BY <1>at, <1>3, SlotFacts DEF PlaceInv, ForkInv, TypeOK
  <2>4. ForkInv'
    BY <1>at, <1>3, SlotFacts DEF ForkInv, PlaceInv, TypeOK
  <2>5. ChildInv'
    BY <1>at, <1>3, SlotFacts DEF ChildInv, PlaceInv, ForkInv, TypeOK
  <2>6. WaitInv'
    BY <1>at, <1>3, SlotFacts DEF WaitInv, PlaceInv, ChildInv, ForkInv, TypeOK
  <2>7. KillInv'
    BY <1>at, <1>3, SlotFacts, Zenon DEF KillInv, ForkInv, TypeOK
  <2> QED
    BY <2>1, <2>2, <2>3, <2>4, <2>5, <2>6, <2>7, Zenon
<1>4. CASE /\ q \in Slots /\ state[q] = "UNUSED" /\ nextpid' = nextpid + 1
           /\ state' = [state EXCEPT ![q] = "UNUSED"] /\ pid' = [pid EXCEPT ![q] = 0]
           /\ parent' = [parent EXCEPT ![q] = None] /\ killed' = [killed EXCEPT ![q] = FALSE]
           /\ marked' = marked \ {q}
           /\ slot' = [slot EXCEPT ![p] = 1] /\ pc' = [pc EXCEPT ![p] = back]
  <2>0. marked' \subseteq Slots
    BY <1>4, Zenon DEF TypeOK
  <2>1. TypeOK' /\ nextpid' >= 1
    BY <1>at, <1>4, <2>0, SlotFacts DEF TypeOK
  <2>2. PidsUnique'
    BY <1>at, <1>4, SlotFacts DEF PidsUnique, TypeOK, ForkInv
  <2>3. PlaceInv'
    BY <1>at, <1>4, SlotFacts DEF PlaceInv, ForkInv, TypeOK
  <2>4. ForkInv'
    BY <1>at, <1>4, SlotFacts DEF ForkInv, PlaceInv, TypeOK
  <2>5. ChildInv'
    BY <1>at, <1>4, SlotFacts DEF ChildInv, PlaceInv, ForkInv, TypeOK
  <2>6. WaitInv'
    BY <1>at, <1>4, SlotFacts DEF WaitInv, PlaceInv, ChildInv, ForkInv, TypeOK
  <2>7. KillInv'
    BY <1>at, <1>4, SlotFacts, Zenon DEF KillInv, ForkInv, TypeOK
  <2> QED
    BY <2>1, <2>2, <2>3, <2>4, <2>5, <2>6, <2>7, Zenon
<1> QED
  BY <1>at, <1>1, <1>2, <1>3, <1>4, Zenon DEF allocproc, Found, freeproc, Return, Goto

\* Linking a child preserves the invariant.
LEMMA Inv_kfork_link ==
  ASSUME ProcInv, NEW p \in Slots, kfork_link(p)
  PROVE  ProcInv'
<1> USE DEF ProcInv, kfork_link, Running, Goto
<1>np. slot[p] \in Slots /\ state[slot[p]] = "USED" /\ slot[p] # p
  BY Zenon DEF ForkInv
<1>1. TypeOK' /\ nextpid' >= 1
  BY <1>np, SlotFacts, Zenon DEF TypeOK
<1>2. PidsUnique'
  BY <1>np, SlotFacts, Zenon DEF PidsUnique, TypeOK, ForkInv
<1>3. PlaceInv'
  BY <1>np, SlotFacts, Zenon DEF PlaceInv, ForkInv, TypeOK
<1>4. ForkInv'
  BY <1>np, SlotFacts DEF ForkInv, PlaceInv, TypeOK
<1>5. ChildInv'
  BY <1>np, SlotFacts DEF ChildInv, PlaceInv, ForkInv, TypeOK
<1>6. WaitInv'
  BY <1>np, SlotFacts DEF WaitInv, PlaceInv, ChildInv, ForkInv, TypeOK
<1>7. KillInv'
  BY <1>np, SlotFacts, Zenon DEF KillInv, ForkInv, TypeOK
<1> QED
  BY <1>1, <1>2, <1>3, <1>4, <1>5, <1>6, <1>7, Zenon

\* Starting a child preserves the invariant.
LEMMA Inv_kfork_ready ==
  ASSUME ProcInv, NEW p \in Slots, kfork_ready(p)
  PROVE  ProcInv'
<1> USE DEF ProcInv, kfork_ready, Running
<1>np. /\ slot[p] \in Slots /\ state[slot[p]] = "USED" /\ slot[p] # p /\ parent[slot[p]] = p
       /\ \A q \in Slots : q # p /\ pc[q] \in {"link", "ready"} => slot[q] # slot[p]
  BY Zenon DEF ForkInv
<1>1. TypeOK' /\ nextpid' >= 1
  BY <1>np, SlotFacts DEF TypeOK
<1>2. PidsUnique'
  BY <1>np, SlotFacts, Zenon DEF PidsUnique, TypeOK, ForkInv
<1>3. PlaceInv'
  BY <1>np, SlotFacts DEF PlaceInv, ForkInv, TypeOK
<1>4. ForkInv'
  BY <1>np, SlotFacts DEF ForkInv, PlaceInv, TypeOK
<1>5. ChildInv'
  <2>1. \A x \in Slots : state'[x] = (IF x = slot[p] THEN "RUNNABLE" ELSE state[x])
    BY <1>np, Zenon DEF TypeOK
  <2>2. \A x \in Slots : pc'[x] = (IF x = slot[p] \/ x = p THEN "user" ELSE pc[x])
    BY <1>np, Zenon DEF TypeOK
  <2> HIDE DEF kfork_ready
  <2>3. parent' = parent
    BY Zenon DEF kfork_ready
  <2> QED
    BY <1>np, <2>1, <2>2, <2>3, SlotFacts, Zenon DEF ChildInv
<1>6. WaitInv'
  BY <1>np, SlotFacts DEF WaitInv, PlaceInv, ChildInv, ForkInv, TypeOK
<1>7. KillInv'
  BY <1>np, SlotFacts, Zenon DEF KillInv, ForkInv, TypeOK
<1> QED
  BY <1>1, <1>2, <1>3, <1>4, <1>5, <1>6, <1>7, Zenon

\* Entering exit() preserves the invariant.
LEMMA Inv_kexit ==
  ASSUME ProcInv, NEW p \in Slots, kexit(p)
  PROVE  ProcInv'
<1> USE DEF ProcInv, kexit, Running, Goto
<1>1. TypeOK' /\ nextpid' >= 1
  BY SlotFacts, Zenon DEF TypeOK
<1>2. PidsUnique'
  BY SlotFacts, Zenon DEF PidsUnique, TypeOK, ForkInv
<1>3. PlaceInv'
  BY SlotFacts DEF PlaceInv, ForkInv, TypeOK
<1>4. ForkInv'
  BY SlotFacts DEF ForkInv, PlaceInv, TypeOK
<1>5. ChildInv'
  BY SlotFacts DEF ChildInv, PlaceInv, ForkInv, TypeOK
<1>6. WaitInv'
  BY SlotFacts DEF WaitInv, PlaceInv, ChildInv, ForkInv, TypeOK
<1>7. KillInv'
  BY SlotFacts, Zenon DEF KillInv, ForkInv, TypeOK
<1> QED
  BY <1>1, <1>2, <1>3, <1>4, <1>5, <1>6, <1>7, Zenon

\* A fault preserves the invariant.
LEMMA Inv_fault ==
  ASSUME ProcInv, NEW p \in Slots, fault(p)
  PROVE  ProcInv'
<1> USE DEF ProcInv, fault, InUser, Running, Goto
<1>1. TypeOK' /\ nextpid' >= 1
  <2>1. pid[p] \in Nat
    BY DEF TypeOK
  <2>2. killed' \in [Slots -> BOOLEAN] /\ condemned' \subseteq Nat
    BY <2>1, Zenon DEF TypeOK
  <2> QED
    BY <2>2, Zenon DEF TypeOK
<1>2. PidsUnique'
  BY SlotFacts, Zenon DEF PidsUnique, TypeOK, ForkInv
<1>3. PlaceInv'
  BY SlotFacts, Zenon DEF PlaceInv, ForkInv, TypeOK
<1>4. ForkInv'
  BY SlotFacts DEF ForkInv, PlaceInv, TypeOK
<1>5. ChildInv'
  BY SlotFacts DEF ChildInv, PlaceInv, ForkInv, TypeOK
<1>6. WaitInv'
  BY SlotFacts DEF WaitInv, PlaceInv, ChildInv, ForkInv, TypeOK
<1>7. KillInv'
  BY SlotFacts, Zenon DEF KillInv, ForkInv, TypeOK
<1> QED
  BY <1>1, <1>2, <1>3, <1>4, <1>5, <1>6, <1>7, Zenon

\* The panic preserves the invariant.
LEMMA Inv_init_exit ==
  ASSUME ProcInv, init_exit
  PROVE  ProcInv'
<1> USE DEF ProcInv, init_exit, Running
<1>1. TypeOK' /\ nextpid' >= 1
  BY SlotFacts, Zenon DEF TypeOK
<1>2. PidsUnique'
  BY SlotFacts, Zenon DEF PidsUnique, TypeOK, ForkInv
<1>3. PlaceInv'
  BY SlotFacts, Zenon DEF PlaceInv, ForkInv, TypeOK
<1>4. ForkInv'
  BY SlotFacts DEF ForkInv, PlaceInv, TypeOK
<1>5. ChildInv'
  BY SlotFacts, Zenon DEF ChildInv, PlaceInv, ForkInv, TypeOK
<1>6. WaitInv'
  BY SlotFacts DEF WaitInv, PlaceInv, ChildInv, ForkInv, TypeOK
<1>7. KillInv'
  BY SlotFacts, Zenon DEF KillInv, ForkInv, TypeOK
<1> QED
  BY <1>1, <1>2, <1>3, <1>4, <1>5, <1>6, <1>7, Zenon

\* Taking wait_lock in exit() preserves the invariant.
LEMMA Inv_kexit_lock ==
  ASSUME ProcInv, NEW p \in Slots, kexit_lock(p)
  PROVE  ProcInv'
<1> USE DEF ProcInv, kexit_lock, Running, Goto
<1>1. TypeOK' /\ nextpid' >= 1
  BY SlotFacts, Zenon DEF TypeOK
<1>2. PidsUnique'
  BY SlotFacts, Zenon DEF PidsUnique, TypeOK, ForkInv
<1>3. PlaceInv'
  BY SlotFacts, Zenon DEF PlaceInv, ForkInv, TypeOK
<1>4. ForkInv'
  BY SlotFacts DEF ForkInv, PlaceInv, TypeOK
<1>5. ChildInv'
  BY SlotFacts DEF ChildInv, PlaceInv, ForkInv, TypeOK
<1>6. WaitInv'
  BY SlotFacts DEF WaitInv, PlaceInv, ChildInv, ForkInv, TypeOK
<1>7. KillInv'
  BY SlotFacts, Zenon DEF KillInv, ForkInv, TypeOK
<1> QED
  BY <1>1, <1>2, <1>3, <1>4, <1>5, <1>6, <1>7, Zenon

\* reparent() preserves the invariant.
LEMMA Inv_reparent ==
  ASSUME ProcInv, NEW p \in Slots, reparent(p)
  PROVE  ProcInv'
<1> USE DEF ProcInv
<1>act. /\ state[p] = "RUNNABLE" /\ pc[p] = "reparent" /\ \A q \in Slots : pc[q] # "swtch"
        /\ parent' = [q \in Slots |-> IF parent[q] = p THEN initproc ELSE parent[q]]
        /\ pc' = [pc EXCEPT ![p] = "notify"]
        /\ UNCHANGED <<pid, killed, nextpid, wait_lock, slot, shell, condemned, marked, panicked>>
  BY Zenon DEF reparent, Running, Goto, NobodyLocked, Locked
<1>woken. /\ state' \in [Slots -> {"UNUSED", "USED", "RUNNABLE", "SLEEPING", "ZOMBIE"}]
          /\ \A x \in Slots : \/ state'[x] = state[x]
                              \/ x = initproc /\ state[x] = "SLEEPING" /\ state'[x] = "RUNNABLE"
          /\ \A q \in Slots : parent[q] = p => state'[initproc] # "SLEEPING"
  <2>1. CASE \E q \in Slots : parent[q] = p
    <3>1. state' = wakeup(initproc)
      BY <2>1, Zenon DEF reparent
    <3> QED
      BY <3>1, WakeupFacts, SlotFacts, Zenon DEF TypeOK
  <2>2. CASE ~\E q \in Slots : parent[q] = p
    <3>1. state' = state
      BY <2>2, Zenon DEF reparent
    <3> QED
      BY <3>1, <2>2, Zenon DEF TypeOK
  <2> QED
    BY <2>1, <2>2, Zenon
<1>p. p # initproc /\ wait_lock = p
  BY <1>act, Zenon DEF PlaceInv, WaitInv
<1>pt. /\ \A x \in Slots : pc'[x] = IF x = p THEN "notify" ELSE pc[x]
       /\ \A x \in Slots : parent'[x] = IF parent[x] = p THEN initproc ELSE parent[x]
  BY <1>act, Zenon DEF TypeOK
<1>1. TypeOK' /\ nextpid' >= 1
  BY <1>act, <1>woken, <1>p, <1>pt, SlotFacts, Zenon DEF TypeOK
<1>2. PidsUnique'
  BY <1>act, <1>woken, <1>p, <1>pt, SlotFacts DEF PidsUnique, TypeOK, ForkInv
<1>3. PlaceInv'
  BY <1>act, <1>woken, <1>p, <1>pt, SlotFacts DEF PlaceInv, ForkInv, TypeOK
<1>4. ForkInv'
  BY <1>act, <1>woken, <1>p, <1>pt, SlotFacts DEF ForkInv, PlaceInv, TypeOK
<1>5. ChildInv'
  <2>1. \A x \in Slots : state[x] \in {"RUNNABLE", "SLEEPING"} <=> state'[x] \in {"RUNNABLE", "SLEEPING"}
    BY <1>woken, Zenon
  <2>2. \A x \in Slots : state[x] = "ZOMBIE" <=> state'[x] = "ZOMBIE"
    BY <1>woken, Zenon
  <2>3. \A q \in Slots : parent'[q] \in Slots =>
          state'[parent'[q]] \in {"RUNNABLE", "SLEEPING"} /\ pc'[parent'[q]] \notin {"notify", "zombie"}
    <3> SUFFICES ASSUME NEW q \in Slots, parent'[q] \in Slots
                 PROVE  /\ state'[parent'[q]] \in {"RUNNABLE", "SLEEPING"}
                        /\ pc'[parent'[q]] \notin {"notify", "zombie"}
      BY Zenon
    <3>1. CASE parent[q] = p
      <4>1. parent'[q] = initproc /\ pc'[initproc] = pc[initproc]
        BY <3>1, <1>pt, <1>p, SlotFacts, Zenon
      <4> QED
        BY <4>1, <2>1, SlotFacts, Zenon DEF PlaceInv
    <3>2. CASE parent[q] # p
      <4>1. parent'[q] = parent[q] /\ pc'[parent[q]] = pc[parent[q]]
        BY <3>2, <1>pt, Zenon
      <4> QED
        BY <4>1, <2>1, Zenon DEF ChildInv
    <3> QED
      BY <3>1, <3>2, Zenon
  <2>4. \A q \in Slots \ {initproc} :
          state'[q] \in {"RUNNABLE", "SLEEPING", "ZOMBIE"} => parent'[q] \in Slots
    BY <1>pt, <2>1, <2>2, SlotFacts, Zenon DEF ChildInv
  <2> QED
    BY <2>3, <2>4, Zenon DEF ChildInv
<1>6. WaitInv'
  <2>1. \A x \in Slots : pc'[x] \in {"reparent", "notify", "zombie", "check", "sleep"} => wait_lock' = x
    BY <1>act, <1>pt, <1>p, Zenon DEF WaitInv
  <2>2. \A x, q \in Slots : state'[x] = "SLEEPING" \/ pc'[x] \in {"check", "sleep"} =>
                            ~(parent'[q] = x /\ state'[q] = "ZOMBIE")
    BY <1>act, <1>pt, <1>p, <1>woken DEF WaitInv
  <2>3. \A q \in Slots : pc'[q] = "zombie" => state'[parent'[q]] # "SLEEPING"
    BY <1>act, <1>pt, <1>p, <1>woken DEF WaitInv
  <2> QED
    BY <2>1, <2>2, <2>3, Zenon DEF WaitInv
<1>7. KillInv'
  BY <1>act, <1>woken, <1>p, <1>pt, SlotFacts DEF KillInv, ForkInv, TypeOK
<1> QED
  BY <1>1, <1>2, <1>3, <1>4, <1>5, <1>6, <1>7, Zenon

\* Waking up the parent preserves the invariant.
LEMMA Inv_kexit_notify ==
  ASSUME ProcInv, NEW p \in Slots, kexit_notify(p)
  PROVE  ProcInv'
<1> USE DEF ProcInv
<1>act. /\ state[p] = "RUNNABLE" /\ pc[p] = "notify" /\ \A q \in Slots : pc[q] # "swtch"
        /\ state' = wakeup(parent[p])
        /\ pc' = [pc EXCEPT ![p] = "zombie"]
        /\ UNCHANGED <<pid, parent, killed, nextpid, wait_lock, slot, shell, condemned, marked, panicked>>
  BY Zenon DEF kexit_notify, Running, Goto, NobodyLocked, Locked
<1>woken. /\ state' \in [Slots -> {"UNUSED", "USED", "RUNNABLE", "SLEEPING", "ZOMBIE"}]
          /\ \A x \in Slots : state'[x] = IF x = parent[p] /\ state[x] = "SLEEPING" THEN "RUNNABLE" ELSE state[x]
  BY <1>act, WakeupFacts, Zenon
<1>p. p # initproc /\ parent[p] \in Slots /\ wait_lock = p
  BY <1>act, Zenon DEF PlaceInv, ChildInv, WaitInv
<1>pt. \A x \in Slots : pc'[x] = IF x = p THEN "zombie" ELSE pc[x]
  BY <1>act, Zenon DEF TypeOK
<1>1. TypeOK' /\ nextpid' >= 1
  BY <1>act, <1>woken, <1>p, <1>pt, SlotFacts, Zenon DEF TypeOK
<1>2. PidsUnique'
  BY <1>act, <1>woken, <1>p, <1>pt, SlotFacts DEF PidsUnique, TypeOK, ForkInv
<1>3. PlaceInv'
  BY <1>act, <1>woken, <1>p, <1>pt, SlotFacts DEF PlaceInv, ForkInv, TypeOK
<1>4. ForkInv'
  BY <1>act, <1>woken, <1>p, <1>pt, SlotFacts DEF ForkInv, PlaceInv, TypeOK
<1>5. ChildInv'
  <2>1. \A x \in Slots : state[x] \in {"RUNNABLE", "SLEEPING"} <=> state'[x] \in {"RUNNABLE", "SLEEPING"}
    BY <1>woken, Zenon
  <2>2. \A x \in Slots : state[x] = "ZOMBIE" <=> state'[x] = "ZOMBIE"
    BY <1>woken, Zenon
  <2>3. parent' = parent
    BY <1>act, Zenon
  <2>4. \A q \in Slots : parent'[q] \in Slots =>
          state'[parent'[q]] \in {"RUNNABLE", "SLEEPING"} /\ pc'[parent'[q]] \notin {"notify", "zombie"}
    BY <1>pt, <1>act, <2>1, <2>3 DEF ChildInv
  <2>5. \A q \in Slots \ {initproc} :
          state'[q] \in {"RUNNABLE", "SLEEPING", "ZOMBIE"} => parent'[q] \in Slots
    BY <2>1, <2>2, <2>3, Zenon DEF ChildInv
  <2> QED
    BY <2>4, <2>5, Zenon DEF ChildInv
<1>6. WaitInv'
  <2>1. \A x \in Slots : pc'[x] \in {"reparent", "notify", "zombie", "check", "sleep"} => wait_lock' = x
    BY <1>act, <1>pt, <1>p, Zenon DEF WaitInv
  <2>2. \A x, q \in Slots : state'[x] = "SLEEPING" \/ pc'[x] \in {"check", "sleep"} =>
                            ~(parent'[q] = x /\ state'[q] = "ZOMBIE")
    BY <1>act, <1>pt, <1>p, <1>woken DEF WaitInv
  <2>3. \A q \in Slots : pc'[q] = "zombie" => state'[parent'[q]] # "SLEEPING"
    BY <1>act, <1>pt, <1>p, <1>woken DEF WaitInv
  <2> QED
    BY <2>1, <2>2, <2>3, Zenon DEF WaitInv
<1>7. KillInv'
  BY <1>act, <1>woken, <1>p, <1>pt, SlotFacts, ZenonT(30) DEF KillInv, ForkInv, TypeOK
<1> QED
  BY <1>1, <1>2, <1>3, <1>4, <1>5, <1>6, <1>7, Zenon

\* Becoming a zombie preserves the invariant.
LEMMA Inv_kexit_zombie ==
  ASSUME ProcInv, NEW p \in Slots, kexit_zombie(p)
  PROVE  ProcInv'
<1> USE DEF ProcInv, kexit_zombie, Running, Goto
<1>who. p # initproc /\ parent[p] \in Slots /\ wait_lock = p
  BY Zenon DEF PlaceInv, ChildInv, WaitInv
<1>1. TypeOK' /\ nextpid' >= 1
  BY <1>who, SlotFacts, Zenon DEF TypeOK
<1>2. PidsUnique'
  BY <1>who, SlotFacts DEF PidsUnique, TypeOK, ForkInv
<1>3. PlaceInv'
  BY <1>who, SlotFacts DEF PlaceInv, ForkInv, TypeOK
<1>4. ForkInv'
  BY <1>who, SlotFacts DEF ForkInv, PlaceInv, TypeOK
<1>5. ChildInv'
  BY <1>who, SlotFacts DEF ChildInv, PlaceInv, ForkInv, TypeOK
<1>6. WaitInv'
  BY <1>who, SlotFacts DEF WaitInv, PlaceInv, ChildInv, ForkInv, TypeOK
<1>7. KillInv'
  BY <1>who, SlotFacts, Zenon DEF KillInv, ForkInv, TypeOK
<1> QED
  BY <1>1, <1>2, <1>3, <1>4, <1>5, <1>6, <1>7, Zenon

\* Leaving the stack of a zombie preserves the invariant.
LEMMA Inv_kexit_switched ==
  ASSUME ProcInv, NEW p \in Slots, kexit_switched(p)
  PROVE  ProcInv'
<1> USE DEF ProcInv, kexit_switched, Goto
<1>1. TypeOK' /\ nextpid' >= 1
  BY SlotFacts, Zenon DEF TypeOK
<1>2. PidsUnique'
  BY SlotFacts, Zenon DEF PidsUnique, TypeOK, ForkInv
<1>3. PlaceInv'
  BY SlotFacts, Zenon DEF PlaceInv, ForkInv, TypeOK
<1>4. ForkInv'
  BY SlotFacts DEF ForkInv, PlaceInv, TypeOK
<1>5. ChildInv'
  BY SlotFacts DEF ChildInv, PlaceInv, ForkInv, TypeOK
<1>6. WaitInv'
  BY SlotFacts DEF WaitInv, PlaceInv, ChildInv, ForkInv, TypeOK
<1>7. KillInv'
  BY SlotFacts, Zenon DEF KillInv, ForkInv, TypeOK
<1> QED
  BY <1>1, <1>2, <1>3, <1>4, <1>5, <1>6, <1>7, Zenon

\* Entering wait() preserves the invariant.
LEMMA Inv_kwait ==
  ASSUME ProcInv, NEW p \in Slots, kwait(p)
  PROVE  ProcInv'
<1> USE DEF ProcInv, kwait, InUser, Running, Goto
<1>1. TypeOK' /\ nextpid' >= 1
  BY SlotFacts, Zenon DEF TypeOK
<1>2. PidsUnique'
  BY SlotFacts, Zenon DEF PidsUnique, TypeOK, ForkInv
<1>3. PlaceInv'
  BY SlotFacts, Zenon DEF PlaceInv, ForkInv, TypeOK
<1>4. ForkInv'
  BY SlotFacts DEF ForkInv, PlaceInv, TypeOK
<1>5. ChildInv'
  BY SlotFacts DEF ChildInv, PlaceInv, ForkInv, TypeOK
<1>6. WaitInv'
  BY SlotFacts DEF WaitInv, PlaceInv, ChildInv, ForkInv, TypeOK
<1>7. KillInv'
  BY SlotFacts, Zenon DEF KillInv, ForkInv, TypeOK
<1> QED
  BY <1>1, <1>2, <1>3, <1>4, <1>5, <1>6, <1>7, Zenon

\* The killed test of wait() preserves the invariant.
LEMMA Inv_kwait_check ==
  ASSUME ProcInv, NEW p \in Slots, kwait_check(p)
  PROVE  ProcInv'
<1> USE DEF ProcInv, kwait_check, Running, Goto, Return
<1>1. TypeOK' /\ nextpid' >= 1
  BY SlotFacts, Zenon DEF TypeOK
<1>2. PidsUnique'
  BY SlotFacts, Zenon DEF PidsUnique, TypeOK, ForkInv
<1>3. PlaceInv'
  BY SlotFacts DEF PlaceInv, ForkInv, TypeOK
<1>4. ForkInv'
  BY SlotFacts DEF ForkInv, PlaceInv, TypeOK
<1>5. ChildInv'
  <2>1. PICK place \in {"user", "exit", "sleep"} : pc' = [pc EXCEPT ![p] = place]
    BY Zenon
  <2> HIDE DEF kwait_check
  <2>2. UNCHANGED <<state, parent>>
    BY Zenon DEF kwait_check
  <2> QED
    BY <2>1, <2>2, SlotFacts, Zenon DEF ChildInv, TypeOK
<1>6. WaitInv'
  BY SlotFacts DEF WaitInv, PlaceInv, ChildInv, ForkInv, TypeOK
<1>7. KillInv'
  BY SlotFacts, Zenon DEF KillInv, ForkInv, TypeOK
<1> QED
  BY <1>1, <1>2, <1>3, <1>4, <1>5, <1>6, <1>7, Zenon

\* Going to sleep in wait() preserves the invariant.
LEMMA Inv_kwait_sleep ==
  ASSUME ProcInv, NEW p \in Slots, kwait_sleep(p)
  PROVE  ProcInv'
<1> USE DEF ProcInv, kwait_sleep, Running, Goto
<1>1. TypeOK' /\ nextpid' >= 1
  BY SlotFacts, Zenon DEF TypeOK
<1>2. PidsUnique'
  BY SlotFacts DEF PidsUnique, TypeOK, ForkInv
<1>3. PlaceInv'
  BY SlotFacts DEF PlaceInv, ForkInv, TypeOK
<1>4. ForkInv'
  BY SlotFacts DEF ForkInv, PlaceInv, TypeOK
<1>5. ChildInv'
  BY SlotFacts DEF ChildInv, PlaceInv, ForkInv, TypeOK
<1>6. WaitInv'
  BY SlotFacts DEF WaitInv, PlaceInv, ChildInv, ForkInv, TypeOK
<1>7. KillInv'
  BY SlotFacts, Zenon DEF KillInv, ForkInv, TypeOK
<1> QED
  BY <1>1, <1>2, <1>3, <1>4, <1>5, <1>6, <1>7, Zenon

-----------------------------------------------------------------------------
(* The steps that look for the first slot of a kind.                       *)

Orders == INSTANCE WellFoundedInduction

\* Min of a set of slot numbers is the first of them.
LEMMA MinOfNaturals ==
  ASSUME NEW S, S \subseteq Nat, S # {}
  PROVE  Min(S) \in S /\ \A y \in S : Min(S) <= y
<1>1. PICK x \in S : \A y \in S : <<y, x>> \notin Orders!OpToRel(<, Nat)
  BY Orders!NatLessThanWellFounded, Orders!WFMin, Zenon
<1>2. ASSUME NEW y \in S
      PROVE  x <= y
  <2>1. ~(y < x)
    BY <1>1, Zenon DEF Orders!OpToRel
  <2> QED
    BY <2>1
<1> QED
  BY <1>2, Zenon DEF Min

\* The scan of wait() preserves the invariant.
LEMMA Inv_kwait_scan ==
  ASSUME ProcInv, NEW p \in Slots, kwait_scan(p)
  PROVE  ProcInv'
<1> USE DEF ProcInv
<1> DEFINE z == Min(Zombies(p))
           back == IF p = initproc THEN "exit" ELSE "user"
<1>at. /\ state[p] = "RUNNABLE" /\ pc[p] = "wait" /\ wait_lock = None /\ CanScan(p)
       /\ UNCHANGED <<nextpid, slot, condemned, panicked>>
  BY Zenon DEF kwait_scan, Running
<1>z. Zombies(p) # {} => /\ z \in Slots /\ parent[z] = p /\ state[z] = "ZOMBIE" /\ pc[z] = "user" /\ z # p
  <2>1. Zombies(p) \subseteq Slots /\ Zombies(p) \subseteq Nat
    BY SlotFacts, Zenon DEF Zombies, Children
  <2>2. Zombies(p) # {} => z \in Zombies(p) /\ \A y \in Zombies(p) : z <= y
    BY <2>1, MinOfNaturals, Zenon
  <2>3. Zombies(p) # {} => ~Locked(z)
    BY <1>at, <2>2, Zenon DEF CanScan, Zombies
  <2> HIDE DEF z
  <2> QED
    BY <1>at, <2>2, <2>3, Zenon DEF Zombies, Children, Locked, PlaceInv
<1> HIDE DEF z
<1>1. CASE /\ Zombies(p) # {} /\ UNCHANGED wait_lock
           /\ state' = [state EXCEPT ![z] = "UNUSED"] /\ pid' = [pid EXCEPT ![z] = 0]
           /\ parent' = [parent EXCEPT ![z] = None] /\ killed' = [killed EXCEPT ![z] = FALSE]
          
                      /\ marked' = marked \ {z}
           /\ shell' \in {0, shell} /\ pc' = [pc EXCEPT ![p] = "user"]
  <2>0. marked' \subseteq Slots
    BY <1>1, Zenon DEF TypeOK
  <2>1. TypeOK' /\ nextpid' >= 1
    BY <1>at, <1>1, <1>z, <2>0, SlotFacts DEF TypeOK
  <2>2. PidsUnique'
    BY <1>at, <1>1, <1>z, SlotFacts DEF PidsUnique, TypeOK, ForkInv
  <2>3. PlaceInv'
    BY <1>at, <1>1, <1>z, SlotFacts DEF PlaceInv, ForkInv, TypeOK
  <2>4. ForkInv'
    BY <1>at, <1>1, <1>z, SlotFacts DEF ForkInv, PlaceInv, TypeOK
  <2>5. ChildInv'
    BY <1>at, <1>1, <1>z, SlotFacts DEF ChildInv, PlaceInv, ForkInv, TypeOK
  <2>6. WaitInv'
    BY <1>at, <1>1, <1>z, SlotFacts DEF WaitInv, PlaceInv, ChildInv, ForkInv, TypeOK
  <2>7. KillInv'
    BY <1>at, <1>1, <1>z, SlotFacts, Zenon DEF KillInv, ForkInv, TypeOK
  <2> QED
    BY <2>1, <2>2, <2>3, <2>4, <2>5, <2>6, <2>7, Zenon
<1>2. CASE /\ \E place \in {"user", "exit"} : pc' = [pc EXCEPT ![p] = place]
           /\ UNCHANGED <<state, pid, parent, killed, wait_lock, shell, marked>>
  <2>1. TypeOK' /\ nextpid' >= 1
    BY <1>at, <1>2, SlotFacts, ZenonT(30) DEF TypeOK
  <2>2. PidsUnique'
    BY <1>at, <1>2, SlotFacts, Zenon DEF PidsUnique, TypeOK, ForkInv
  <2>3. PlaceInv'
    BY <1>at, <1>2, SlotFacts DEF PlaceInv, ForkInv, TypeOK
  <2>4. ForkInv'
    BY <1>at, <1>2, SlotFacts DEF ForkInv, PlaceInv, TypeOK
  <2>5. ChildInv'
    BY <1>at, <1>2, SlotFacts DEF ChildInv, PlaceInv, ForkInv, TypeOK
  <2>6. WaitInv'
    BY <1>at, <1>2, SlotFacts DEF WaitInv, PlaceInv, ChildInv, ForkInv, TypeOK
  <2>7. KillInv'
    BY <1>at, <1>2, SlotFacts, Zenon DEF KillInv, ForkInv, TypeOK
  <2> QED
    BY <2>1, <2>2, <2>3, <2>4, <2>5, <2>6, <2>7, Zenon
<1>3. CASE /\ Zombies(p) = {} /\ wait_lock' = p /\ pc' = [pc EXCEPT ![p] = "check"]
           /\ UNCHANGED <<state, pid, parent, killed, shell, marked>>
  <2>1. TypeOK' /\ nextpid' >= 1
    BY <1>at, <1>3, SlotFacts, Zenon DEF TypeOK
  <2>2. PidsUnique'
    BY <1>at, <1>3, SlotFacts, Zenon DEF PidsUnique, TypeOK, ForkInv
  <2>3. PlaceInv'
    BY <1>at, <1>3, SlotFacts, Zenon DEF PlaceInv, ForkInv, TypeOK
  <2>4. ForkInv'
    BY <1>at, <1>3, SlotFacts DEF ForkInv, PlaceInv, TypeOK
  <2>5. ChildInv'
    BY <1>at, <1>3, SlotFacts DEF ChildInv, PlaceInv, ForkInv, TypeOK
  <2>6. WaitInv'
    <3>1. \A q \in Slots : ~(parent[q] = p /\ state[q] = "ZOMBIE")
      BY <1>3, Zenon DEF Zombies, Children
    <3> QED
      BY <1>at, <1>3, <3>1, SlotFacts DEF WaitInv, PlaceInv, TypeOK
  <2>7. KillInv'
    BY <1>at, <1>3, SlotFacts, Zenon DEF KillInv, ForkInv, TypeOK
  <2> QED
    BY <2>1, <2>2, <2>3, <2>4, <2>5, <2>6, <2>7, Zenon
<1>4. /\ freeproc(z) => /\ state' = [state EXCEPT ![z] = "UNUSED"] /\ pid' = [pid EXCEPT ![z] = 0]
                      /\ parent' = [parent EXCEPT ![z] = None] /\ killed' = [killed EXCEPT ![z] = FALSE] /\ marked' = marked \ {z}
      /\ Return(p, TRUE) => pc' = [pc EXCEPT ![p] = "user"]
      /\ Return(p, FALSE) => \E place \in {"user", "exit"} : pc' = [pc EXCEPT ![p] = place]
      /\ Goto(p, "check") => pc' = [pc EXCEPT ![p] = "check"]
  BY Zenon DEF freeproc, Return, Goto
<1>5. \/ /\ Zombies(p) # {} /\ UNCHANGED wait_lock /\ shell' \in {0, shell} /\ freeproc(z) /\ Return(p, TRUE)
      \/ Return(p, FALSE) /\ UNCHANGED <<state, pid, parent, killed, wait_lock, shell, marked>>
      \/ /\ Zombies(p) = {} /\ wait_lock' = p /\ Goto(p, "check")
         /\ UNCHANGED <<state, pid, parent, killed, shell, marked>>
  BY Zenon DEF kwait_scan, z
<1> QED
  BY <1>1, <1>2, <1>3, <1>4, <1>5, Zenon

\* kill() preserves the invariant.
LEMMA Inv_kkill ==
  ASSUME ProcInv, NEW p \in Slots, NEW n \in KillPids, kkill(p, n)
  PROVE  ProcInv'
<1> USE DEF ProcInv
<1> DEFINE t == Min({q \in Slots : pid[q] = n})
<1>act. /\ state' = wakeup(t) /\ killed' = [killed EXCEPT ![t] = TRUE] /\ condemned' = condemned \cup {n}
        /\ marked' = IF state[t] = "UNUSED" THEN marked \cup {t} ELSE marked
        /\ UNCHANGED <<pid, parent, nextpid, wait_lock, pc, slot, shell, panicked>>
  BY Zenon DEF kkill
<1>t. t \in Slots /\ pid[t] = n /\ n \in Nat
  <2>1. {q \in Slots : pid[q] = n} \subseteq Nat /\ {q \in Slots : pid[q] = n} # {}
    BY SlotFacts, Zenon DEF kkill
  <2>2. t \in {q \in Slots : pid[q] = n}
    BY <2>1, MinOfNaturals, Zenon
  <2> QED
    BY <2>2, Zenon
<1> HIDE DEF t
<1>woken. /\ state' \in [Slots -> {"UNUSED", "USED", "RUNNABLE", "SLEEPING", "ZOMBIE"}]
          /\ \A x \in Slots : state'[x] = IF x = t /\ state[x] = "SLEEPING" THEN "RUNNABLE" ELSE state[x]
  BY <1>act, WakeupFacts, Zenon
<1>1. TypeOK' /\ nextpid' >= 1
  BY <1>act, <1>t, <1>woken, SlotFacts, Zenon DEF TypeOK
<1>2. PidsUnique'
  BY <1>act, <1>t, <1>woken, SlotFacts DEF PidsUnique, TypeOK, ForkInv
<1>3. PlaceInv'
  BY <1>act, <1>t, <1>woken, SlotFacts DEF PlaceInv, ForkInv, TypeOK
<1>4. ForkInv'
  BY <1>act, <1>t, <1>woken, SlotFacts DEF ForkInv, PlaceInv, TypeOK
<1>5. ChildInv'
  BY <1>act, <1>t, <1>woken, SlotFacts, Zenon DEF ChildInv, PlaceInv, ForkInv, TypeOK
<1>6. WaitInv'
  <2>1. \A q \in Slots : pc[q] = "zombie" => parent[q] \in Slots
    BY DEF PlaceInv, ChildInv, TypeOK
  <2>2. \A x \in Slots : /\ state'[x] = "SLEEPING" => state[x] = "SLEEPING"
                         /\ state'[x] = "ZOMBIE" => state[x] = "ZOMBIE"
    BY <1>woken, Zenon
  <2>3. UNCHANGED <<parent, pc, wait_lock>>
    BY <1>act, Zenon
  <2> QED
    BY <2>1, <2>2, <2>3, Zenon DEF WaitInv
<1>7. KillInv'
  <2>1. (state[t] = "UNUSED" => t \in marked') /\ (\A x \in marked : x \in marked')
    BY <1>act, Zenon
  <2>2. \A x \in Slots : killed'[x] => killed[x] \/ x = t
    BY <1>act, Zenon DEF TypeOK
  <2>3. \A x \in Slots : state'[x] = "UNUSED" => state[x] = "UNUSED"
    BY <1>woken, Zenon
  <2>4. pid' = pid /\ condemned \cup {n} = condemned'
    BY <1>act, Zenon
  <2> QED
    BY <1>t, <2>1, <2>2, <2>3, <2>4, Zenon DEF KillInv
<1> QED
  BY <1>1, <1>2, <1>3, <1>4, <1>5, <1>6, <1>7, Zenon

-----------------------------------------------------------------------------
(* The invariant, and what follows from it.                                *)

\* The state that userinit() leaves satisfies the invariant.
LEMMA Inv_Init ==
  ASSUME Init
  PROVE  ProcInv
<1> USE SlotFacts DEF Init
<1>1. TypeOK /\ nextpid >= 1
  <2>1. 1 \in 1..NPROC + 1
    OBVIOUS
  <2>2. /\ state \in [Slots -> {"UNUSED", "USED", "RUNNABLE", "SLEEPING", "ZOMBIE"}]
        /\ pid \in [Slots -> 0..nextpid - 1]
    OBVIOUS
  <2>3. slot \in [Slots -> 1..NPROC + 1]
    BY <2>1, Zenon
  <2>4. /\ pc \in [Slots -> {"user", "alloc", "link", "ready", "exit", "reparent", "notify",
                             "zombie", "swtch", "wait", "check", "sleep"}]
        /\ parent \in [Slots -> Slots \cup {None}] /\ killed \in [Slots -> BOOLEAN]
    BY Zenon
  <2>5. nextpid \in Nat /\ nextpid >= 1 /\ shell \in Nat
    OBVIOUS
  <2>6. wait_lock \in Slots \cup {None} /\ condemned \subseteq Nat /\ marked \subseteq Slots
    BY Zenon
  <2>7. panicked \in BOOLEAN
    BY Zenon
  <2> HIDE DEF Init
  <2> QED
    BY <2>2, <2>3, <2>4, <2>5, <2>6, <2>7, Zenon DEF TypeOK
<1>2. PidsUnique
  BY DEF PidsUnique
<1>3. PlaceInv /\ ForkInv
  BY Zenon DEF PlaceInv, ForkInv
<1>4. ChildInv /\ WaitInv
  BY Zenon DEF ChildInv, WaitInv
<1>5. KillInv
  BY Zenon DEF KillInv
<1> QED
  BY <1>1, <1>2, <1>3, <1>4, <1>5, Zenon DEF ProcInv

\* Every step, and every step that changes nothing, preserves the invariant.
LEMMA Inv_Next ==
  ASSUME ProcInv, [Next]_vars
  PROVE  ProcInv'
<1>1. ASSUME NEW p \in Slots, kfork(p) \/ kexit(p) \/ fault(p) \/ kwait(p)
      PROVE  ProcInv'
  BY <1>1, Inv_kfork, Inv_kexit, Inv_fault, Inv_kwait, Zenon
<1>2. ASSUME NEW p \in Slots, Fork(p) \/ Exit(p) \/ Wait(p)
      PROVE  ProcInv'
  BY <1>2, Inv_allocproc, Inv_kfork_link, Inv_kfork_ready, Inv_kexit_lock, Inv_reparent,
     Inv_kexit_notify, Inv_kexit_zombie, Inv_kexit_switched, Inv_kwait_scan, Inv_kwait_check,
     Inv_kwait_sleep, Zenon DEF Fork, Exit, Wait
<1>3. CASE UNCHANGED vars
  <2> USE <1>3 DEF vars, ProcInv
  <2>1. TypeOK' /\ nextpid' >= 1 /\ PidsUnique' /\ PlaceInv'
    BY Zenon DEF TypeOK, PidsUnique, PlaceInv
  <2>2. ForkInv' /\ ChildInv' /\ WaitInv' /\ KillInv'
    BY Zenon DEF ForkInv, ChildInv, WaitInv, KillInv
  <2> QED
    BY <2>1, <2>2, Zenon
<1> QED
  BY <1>1, <1>2, <1>3, Inv_kkill, Inv_init_exit, Zenon DEF Next

\* The invariant holds throughout.
THEOREM ProcInvariant == Spec => []ProcInv
BY Inv_Init, Inv_Next, PTL DEF Spec

\* Type correctness of the process table; every pid is one that allocpid() has
\* given out.
THEOREM ProcTypeCorrect == Spec => []TypeOK
BY ProcInvariant, PTL DEF ProcInv

\* allocproc() and freeproc() keep the pids of live processes apart, and pid 0
\* for free slots.
THEOREM PidsNeverShared == Spec => []PidsUnique
BY ProcInvariant, PTL DEF ProcInv

\* reparent() leaves no process with a parent that has exited, for any number
\* of processes exiting, forking and waiting at once.
THEOREM ParentsOutlive == Spec => []ParentAlive
<1>1. ProcInv => ParentAlive
  BY Zenon DEF ProcInv, ChildInv, ParentAlive
<1> QED
  BY <1>1, ProcInvariant, PTL

\* kexit() and kwait() lose no exit: wait_lock, held from the scan to the
\* sleep, keeps a child from becoming a zombie in between.
THEOREM NoExitMissed == Spec => []NoZombieBehindSleeper
<1>1. ProcInv => NoZombieBehindSleeper
  BY Zenon DEF ProcInv, WaitInv, NoZombieBehindSleeper, Zombies, Children
<1> QED
  BY <1>1, ProcInvariant, PTL

\* p->lock, held by kexit() into sched(), keeps kwait() from freeing a process
\* that is still on its kernel stack.
THEOREM StackNotFreed == Spec => []StackInUse
<1>1. ProcInv => StackInUse
  BY Zenon DEF ProcInv, PlaceInv, StackInUse
<1> QED
  BY <1>1, ProcInvariant, PTL

\* A process is killed only by a kill() of its pid, a fault of its own, or a
\* kill(0) that found its slot free: freeproc() leaves no p->killed behind for
\* the next process of the slot.
THEOREM KilledForCause == Spec => []KilledOnRequest
<1>1. ProcInv => KilledOnRequest
  BY Zenon DEF ProcInv, KillInv, KilledOnRequest
<1> QED
  BY <1>1, ProcInvariant, PTL
=============================================================================
