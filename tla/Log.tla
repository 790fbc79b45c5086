-------------------------------- MODULE Log ---------------------------------
(***************************************************************************)
(* The redo log of kernel/log.c: group commit of concurrent file system    *)
(* calls, and recovery after a crash.                                      *)
(*                                                                         *)
(* log.lock protects struct log, and each critical section is one action.  *)
(* commit() runs without the lock and its disk writes are one action each, *)
(* so a crash can fall between any two of them.  A disk write of one block *)
(* is atomic.  A block's content is a member of Values.  The buffer cache  *)
(* is reduced to what the log relies on: the cached content of a block, if *)
(* any, and the references the log takes with bpin().                      *)
(***************************************************************************)
EXTENDS Naturals, FiniteSets, Sequences

CONSTANTS
  Procs,         \* processes that make file system calls
  Blocks,        \* home blocks of the file system
  Values,        \* contents of a block
  InitValue,     \* the content mkfs gives every block
  Nil,           \* "not in the buffer cache"
  MAXOPBLOCKS,   \* param.h: blocks reserved per call
  LOGBLOCKS,     \* param.h: data blocks in the on-disk log
  OpBlocks       \* the most distinct blocks one call really logs

ASSUME LogAssumption ==
  /\ IsFiniteSet(Procs)
  /\ InitValue \in Values
  /\ Nil \notin Values
  /\ MAXOPBLOCKS \in Nat
  /\ LOGBLOCKS \in Nat
  /\ MAXOPBLOCKS <= LOGBLOCKS
  /\ OpBlocks \in 1..MAXOPBLOCKS

VARIABLES
  home,          \* disk: content of each home block
  logdata,       \* disk: content of the log's data blocks
  head,          \* disk: the log header, the sequence of logged block numbers
  lh,            \* log.lh, the in-memory header
  outstanding,   \* log.outstanding
  committing,    \* log.committing
  cache,         \* buffer cache: content of a cached block, or Nil
  pins,          \* references to a block's buffer that bpin() took
  boot,          \* where initlog() is in recovery; "done" once it returned
  pc,            \* where each process is
  wrote,         \* the distinct blocks a process's current call has logged
  tail           \* loop index of write_log() and install_trans()

disk == <<home, logdata, head>>
memory == <<lh, outstanding, committing, cache, pins>>
local == <<boot, pc, wrote, tail>>
vars == <<disk, memory, local>>

Logged == {lh[i] : i \in 1..Len(lh)}

\* A read through the buffer cache: the cached copy, else the disk.
bread(b) == IF cache[b] = Nil THEN home[b] ELSE cache[b]

\* Mutant: nobody is woken.
wakeup_Lost(state) == state

\* wakeup(&log): every sleeper goes back to the test of begin_op().
wakeup(state) == [p \in Procs |-> IF state[p] = "sleep" THEN "begin" ELSE state[p]]

\* The phases of commit(), run by the process whose end_op() was the last.
CommitPhases == {"write_log", "commit_head", "install", "clear_head", "committed"}

Init ==
  /\ home = [b \in Blocks |-> InitValue]
  /\ logdata = [i \in 1..LOGBLOCKS |-> InitValue]
  /\ head = <<>>
  /\ lh = <<>>
  /\ outstanding = 0
  /\ committing = FALSE
  /\ cache = [b \in Blocks |-> Nil]
  /\ pins = [b \in Blocks |-> 0]
  /\ boot = "read_head"
  /\ pc = [p \in Procs |-> "idle"]
  /\ wrote = [p \in Procs |-> {}]
  /\ tail = 0

-----------------------------------------------------------------------------
(* initlog() and recover_from_log(), before any other process runs.        *)

read_head ==
  /\ boot = "read_head"
  /\ lh' = head
  /\ tail' = 0
  /\ boot' = IF head = <<>> THEN "clear_head" ELSE "install"
  /\ UNCHANGED <<disk, outstanding, committing, cache, pins, pc, wrote>>

\* The loop of write_log() and install_trans(): for (tail = 0; tail < lh.n; tail++).
LastTurn == tail + 1 = Len(lh)
NextTurn == tail' = IF LastTurn THEN 0 ELSE tail + 1

\* One turn of install_trans(): copy a log block to its home block.
CopyHome ==
  /\ home' = [home EXCEPT ![lh[tail + 1]] = logdata[tail + 1]]
  /\ cache' = [cache EXCEPT ![lh[tail + 1]] = logdata[tail + 1]]
  /\ NextTurn
  /\ UNCHANGED <<logdata, head, lh, outstanding, committing, wrote>>

recover_install ==
  /\ boot = "install"
  /\ CopyHome
  /\ boot' = IF LastTurn THEN "clear_head" ELSE "install"
  /\ UNCHANGED <<pins, pc>>

\* log.lh.n = 0 and write_head().
recover_clear ==
  /\ boot = "clear_head"
  /\ lh' = <<>>
  /\ head' = <<>>
  /\ boot' = "done"
  /\ UNCHANGED <<home, logdata, outstanding, committing, cache, pins, pc, wrote, tail>>

-----------------------------------------------------------------------------
(* File system calls.                                                      *)

\* A process enters the kernel for a file system call and reaches begin_op().
Enter(p) ==
  /\ boot = "done"
  /\ pc[p] = "idle"
  /\ pc' = [pc EXCEPT ![p] = "begin"]
  /\ UNCHANGED <<disk, memory, boot, wrote, tail>>

\* This call might exhaust the log.
NoSpace == Len(lh) + (outstanding + 1) * MAXOPBLOCKS > LOGBLOCKS

\* Mutant: the test of log.committing is missing.
MustWait_IgnoresCommit == NoSpace

MustWait == committing \/ NoSpace

begin_op(p) ==
  /\ pc[p] = "begin"
  /\ \/ /\ MustWait
        /\ pc' = [pc EXCEPT ![p] = "sleep"]
        /\ UNCHANGED outstanding
     \/ /\ ~MustWait
        /\ outstanding' = outstanding + 1
        /\ pc' = [pc EXCEPT ![p] = "op"]
  /\ UNCHANGED <<disk, lh, committing, cache, pins, boot, wrote, tail>>

\* The code of a call may log block b: one it has logged already, or a new
\* one while it stays within OpBlocks distinct blocks.
MayLog(p, b) ==
  /\ pc[p] = "op"
  /\ b \in wrote[p] \/ Cardinality(wrote[p]) < OpBlocks

bpin(b) == [pins EXCEPT ![b] = @ + 1]

\* Modify a buffer and log_write() it, under the buffer's sleep-lock.  The
\* two panics stop the kernel, so their conditions guard the action.
log_write(p, b, v) ==
  /\ MayLog(p, b)
  /\ Len(lh) < LOGBLOCKS
  /\ outstanding >= 1
  /\ \/ /\ b \in Logged                      \* log absorption
        /\ UNCHANGED <<lh, pins>>
     \/ /\ b \notin Logged
        /\ lh' = Append(lh, b)
        /\ pins' = bpin(b)
  /\ cache' = [cache EXCEPT ![b] = v]
  /\ wrote' = [wrote EXCEPT ![p] = @ \cup {b}]
  /\ UNCHANGED <<disk, outstanding, committing, boot, pc, tail>>

\* Mutant: commit() writes the header before the log blocks.
FirstPhase_HeadFirst == IF lh = <<>> THEN "committed" ELSE "commit_head"

\* commit() does nothing when nothing was logged.
FirstPhase == IF lh = <<>> THEN "committed" ELSE "write_log"

\* The last call out commits; any other wakes those waiting for log space.
\* end_op() panics when a commit is in progress.
end_op(p) ==
  /\ pc[p] = "op"
  /\ ~committing
  /\ outstanding' = outstanding - 1
  /\ wrote' = [wrote EXCEPT ![p] = {}]
  /\ \/ /\ outstanding' = 0
        /\ committing' = TRUE
        /\ pc' = [pc EXCEPT ![p] = FirstPhase]
     \/ /\ outstanding' # 0
        /\ pc' = wakeup([pc EXCEPT ![p] = "idle"])
        /\ UNCHANGED committing
  /\ UNCHANGED <<disk, lh, cache, pins, boot, tail>>

-----------------------------------------------------------------------------
(* commit(), by the process whose end_op() was the last.                   *)

\* One turn of write_log(): copy a cached block to the log.
write_log(p) ==
  /\ pc[p] = "write_log"
  /\ logdata' = [logdata EXCEPT ![tail + 1] = bread(lh[tail + 1])]
  /\ cache' = [cache EXCEPT ![lh[tail + 1]] = bread(lh[tail + 1])]
  /\ NextTurn
  /\ pc' = [pc EXCEPT ![p] = IF LastTurn THEN "commit_head" ELSE "write_log"]
  /\ UNCHANGED <<home, head, lh, outstanding, committing, pins, boot, wrote>>

\* write_head(): the commit point.
commit_head(p) ==
  /\ pc[p] = "commit_head"
  /\ head' = lh
  /\ pc' = [pc EXCEPT ![p] = "install"]
  /\ UNCHANGED <<home, logdata, memory, boot, wrote, tail>>

install_trans(p) ==
  /\ pc[p] = "install"
  /\ CopyHome
  /\ pins' = [pins EXCEPT ![lh[tail + 1]] = @ - 1]
  /\ pc' = [pc EXCEPT ![p] = IF LastTurn THEN "clear_head" ELSE "install"]
  /\ UNCHANGED boot

\* log.lh.n = 0 and write_head(): erase the transaction.
clear_head(p) ==
  /\ pc[p] = "clear_head"
  /\ lh' = <<>>
  /\ head' = <<>>
  /\ pc' = [pc EXCEPT ![p] = "committed"]
  /\ UNCHANGED <<home, logdata, outstanding, committing, cache, pins, boot, wrote, tail>>

\* The end of end_op(), after commit() has returned.
commit_done(p) ==
  /\ pc[p] = "committed"
  /\ committing' = FALSE
  /\ pc' = wakeup([pc EXCEPT ![p] = "idle"])
  /\ UNCHANGED <<disk, lh, outstanding, cache, pins, boot, wrote, tail>>

-----------------------------------------------------------------------------
(* The environment.                                                        *)

\* A read brings a block into the cache.
Fetch(b) ==
  /\ boot = "done"
  /\ cache[b] = Nil
  /\ cache' = [cache EXCEPT ![b] = home[b]]
  /\ UNCHANGED <<disk, lh, outstanding, committing, pins, local>>

\* bget() reuses the buffer of a block nobody holds a reference to.
Recycle(b) ==
  /\ cache[b] # Nil
  /\ pins[b] = 0
  /\ cache' = [cache EXCEPT ![b] = Nil]
  /\ UNCHANGED <<disk, lh, outstanding, committing, pins, local>>

\* Power fails: only the disk keeps its content, and the machine reboots.
Crash ==
  /\ lh' = <<>>
  /\ outstanding' = 0
  /\ committing' = FALSE
  /\ cache' = [b \in Blocks |-> Nil]
  /\ pins' = [b \in Blocks |-> 0]
  /\ boot' = "read_head"
  /\ pc' = [p \in Procs |-> "idle"]
  /\ wrote' = [p \in Procs |-> {}]
  /\ tail' = 0
  /\ UNCHANGED disk

Recover == read_head \/ recover_install \/ recover_clear

Commit(p) ==
  \/ write_log(p)
  \/ commit_head(p)
  \/ install_trans(p)
  \/ clear_head(p)
  \/ commit_done(p)

Next ==
  \/ Recover
  \/ \E p \in Procs : Enter(p) \/ begin_op(p) \/ end_op(p) \/ Commit(p)
  \/ \E p \in Procs, b \in Blocks, v \in Values : log_write(p, b, v)
  \/ \E b \in Blocks : Fetch(b) \/ Recycle(b)
  \/ Crash

Spec == Init /\ [][Next]_vars

\* The kernel keeps running a process that is not asleep, and a file system
\* call always reaches its end_op().
Fairness ==
  /\ WF_vars(Recover)
  /\ \A p \in Procs : WF_vars(begin_op(p)) /\ WF_vars(end_op(p)) /\ WF_vars(Commit(p))

FairSpec == Spec /\ Fairness

-----------------------------------------------------------------------------
(* Properties.                                                             *)

TypeOK ==
  /\ home \in [Blocks -> Values]
  /\ logdata \in [1..LOGBLOCKS -> Values]
  /\ head \in Seq(Blocks) /\ Len(head) <= LOGBLOCKS
  /\ lh \in Seq(Blocks) /\ Len(lh) <= LOGBLOCKS
  /\ outstanding \in Nat
  /\ committing \in BOOLEAN
  /\ cache \in [Blocks -> Values \cup {Nil}]
  /\ pins \in [Blocks -> Nat]
  /\ boot \in {"read_head", "install", "clear_head", "done"}
  /\ pc \in [Procs -> {"idle", "begin", "sleep", "op"} \cup CommitPhases]
  /\ wrote \in [Procs -> SUBSET Blocks]
  /\ tail \in 0..LOGBLOCKS

Active == {p \in Procs : pc[p] = "op"}
Committers == {p \in Procs : pc[p] \in CommitPhases}

\* log.c:13 "only commits when there are no FS system calls active": from the
\* moment end_op() decides to commit until it clears log.committing, no call
\* is between begin_op() and end_op(), and only one process is in commit().
CommitIsQuiescent ==
  /\ committing <=> Committers # {}
  /\ committing => Active = {} /\ \E p \in Procs : Committers = {p}

\* The panics of log_write() are out of reach: whenever the code of a call
\* may log a block there is room for it in the log, even if it is new.
LogHasRoom ==
  \A p \in Procs, b \in Blocks :
    MayLog(p, b) => Len(lh) < LOGBLOCKS /\ outstanding >= 1

\* begin_op() never sleeps through the last wakeup(&log): while a process is
\* asleep, a call or a commit that ends with a wakeup is still running.
SleeperHasWaker ==
  \A p \in Procs : pc[p] = "sleep" => committing \/ outstanding > 0

\* How many of the logged blocks install_trans() has copied home.
Copied ==
  CASE \E p \in Procs : pc[p] = "clear_head" -> Len(lh)
    [] \E p \in Procs : pc[p] = "install" -> tail
    [] OTHER -> 0

NotInstalled == {lh[i] : i \in (Copied + 1)..Len(lh)}

\* bpin() and bunpin() balance: once the system runs, the log holds exactly
\* one reference to each logged block not yet installed, and no other, and a
\* block whose update is not on disk yet is never dropped from the cache.
PinnedUntilInstalled ==
  boot = "done" =>
    \A b \in Blocks :
      /\ pins[b] = IF b \in NotInstalled THEN 1 ELSE 0
      /\ b \in NotInstalled => cache[b] # Nil

\* Every process that sleeps in begin_op() is woken up.
SleepersWoken == \A p \in Procs : []<>(pc[p] # "sleep")

\* What the blocks would contain after a crash now and a recovery.
Recovered ==
  [b \in Blocks |->
     IF \E i \in 1..Len(head) : head[i] = b
     THEN logdata[CHOOSE i \in 1..Len(head) : head[i] = b]
     ELSE home[b]]

\* What the file system code sees now.
View == IF boot = "done" THEN [b \in Blocks |-> bread(b)] ELSE Recovered

Promise == INSTANCE AtomicDisk WITH durable <- Recovered, view <- View, active <- Active

\* The log makes every file system call atomic: it implements AtomicDisk,
\* wherever a crash falls, a crash during recovery included.
CallsAreAtomic == Promise!Spec
=============================================================================
