--------------------------- MODULE LogRefinement ----------------------------
(***************************************************************************)
(* The log of kernel/log.c implements AtomicDisk, and the reservation of   *)
(* begin_op() keeps log_write() from its panics.                           *)
(***************************************************************************)
EXTENDS LogProofs, Integers

USE LogAssumption

\* What recovery brings back for one block.
LEMMA RecoveredBlock ==
  ASSUME HeadInv, NEW b \in Blocks
  PROVE  /\ \A i \in 1..Len(head) : head[i] = b => Recovered[b] = logdata[i]
         /\ (\A i \in 1..Len(head) : head[i] # b) => Recovered[b] = home[b]
<1>1. ASSUME NEW i \in 1..Len(head), head[i] = b
      PROVE  Recovered[b] = logdata[i]
  <2> DEFINE k == CHOOSE j \in 1..Len(head) : head[j] = b
  <2>1. k \in 1..Len(head) /\ head[k] = b
    BY <1>1, Zenon
  <2>2. k = i
    BY <1>1, <2>1, Zenon DEF HeadInv
  <2>3. Recovered[b] = logdata[k]
    BY <1>1, Zenon DEF Recovered
  <2> QED
    BY Zenon, <2>2, <2>3
<1>2. ASSUME \A i \in 1..Len(head) : head[i] # b
      PROVE  Recovered[b] = home[b]
  BY <1>2, Zenon DEF Recovered
<1> QED
  BY <1>1, <1>2, Zenon

\* The three variables of AtomicDisk stay as they are.
Stutter == Recovered' = Recovered /\ View' = View /\ Active' = Active

\* The view is the content seen through the cache, once the system runs.
LEMMA ViewBlock ==
  ASSUME boot = "done"
  PROVE  View = [b \in Blocks |-> bread(b)]
BY Zenon DEF View

\* Steps that touch neither the disk nor the content of the cache.
LEMMA SameDiskAndCache ==
  ASSUME UNCHANGED <<home, logdata, head, cache, boot>>
  PROVE  Recovered' = Recovered /\ View' = View
BY Zenon DEF Recovered, View, bread

\* Reading the header at boot is invisible to AtomicDisk.
LEMMA Sim_read_head == LogInv /\ read_head => Stutter
<1> SUFFICES ASSUME LogInv, read_head PROVE Stutter
  BY Zenon
<1>1. Recovered' = Recovered
  BY Zenon DEF Recovered, read_head, disk
<1>2. View' = View
  BY <1>1, Zenon DEF View, read_head
<1> QED
  BY <1>1, <1>2, Zenon DEF Stutter, Active, read_head

\* A turn of install_trans() does not change what recovery brings back: the
\* header still lists the block, and its log block is still there.
LEMMA CopyHomeRecovers ==
  ASSUME LogInv, head = lh, tail < Len(lh), CopyHome
  PROVE  Recovered' = Recovered
<1>1. HeadInv /\ TypeOK /\ head' = head /\ logdata' = logdata
  BY Zenon DEF LogInv, CopyHome
<1>2. tail \in Nat /\ tail + 1 \in 1..Len(head)
  BY <1>1 DEF TypeOK
<1>3. ASSUME NEW b \in Blocks
      PROVE  Recovered[b]' = Recovered[b]
  <2>1. CASE \E i \in 1..Len(head) : head[i] = b
    BY <1>1, <2>1, Zenon DEF Recovered
  <2>2. CASE \A i \in 1..Len(head) : head[i] # b
    <3>1. home'[b] = home[b]
      BY <1>1, <1>2, <2>2, Zenon DEF CopyHome, TypeOK
    <3> QED
      BY <1>1, <2>2, <3>1, Zenon DEF Recovered
  <2> QED
    BY <2>1, <2>2, Zenon
<1> QED
  BY Zenon, <1>3 DEF Recovered

\* Copying a log block home in recovery is invisible to AtomicDisk.
LEMMA Sim_recover_install == LogInv /\ recover_install => Stutter
<1> SUFFICES ASSUME LogInv, recover_install PROVE Stutter
  BY Zenon
<1>1. Recovered' = Recovered
  BY CopyHomeRecovers, Zenon DEF LogInv, HeadInv, recover_install
<1>2. View' = View
  BY <1>1, Zenon DEF View, recover_install
<1> QED
  BY <1>1, <1>2, Zenon DEF Stutter, Active, recover_install

\* Once every log block has been copied home, the home blocks are what
\* recovery would bring back, with or without the header.
LEMMA InstalledIsRecovered ==
  ASSUME LogInv, head = lh, \A i \in 1..Len(lh) : home[lh[i]] = logdata[i]
  PROVE  Recovered = home
<1>1. ASSUME NEW b \in Blocks
      PROVE  Recovered[b] = home[b]
  BY RecoveredBlock, Zenon DEF LogInv
<1> QED
  BY ZenonT(30), <1>1 DEF LogInv, TypeOK, Recovered

\* With an empty header, recovery brings back the home blocks.
LEMMA EmptyHeadIsHome ==
  ASSUME TypeOK, head = <<>>
  PROVE  Recovered = home
BY DEF Recovered, TypeOK

\* The same fact about the next state.
LEMMA EmptyHeadIsHomeNext ==
  ASSUME TypeOK', head' = <<>>
  PROVE  Recovered' = home'
BY DEF Recovered, TypeOK

\* The end of recovery changes neither the durable state nor the view.
LEMMA Sim_recover_clear == LogInv /\ LogInv' /\ recover_clear => Stutter
<1> SUFFICES ASSUME LogInv, LogInv', recover_clear PROVE Stutter
  BY Zenon
<1>1. Recovered = home
  BY InstalledIsRecovered, Zenon DEF LogInv, HeadInv, CopyInv, recover_clear
<1>2. Recovered' = home
  BY EmptyHeadIsHomeNext, Zenon DEF recover_clear, LogInv
<1>3. View' = home
  <2>1. \A b \in Blocks : ~Pending(b)
    BY Zenon DEF Pending, recover_clear
  <2>2. \A b \in Blocks : bread(b)' = home[b]
    BY <2>1, Zenon DEF recover_clear, bread, LogInv, CacheInv
  <2> QED
    BY <2>2, Zenon DEF View, recover_clear, LogInv, TypeOK
<1>4. View = home
  BY <1>1, Zenon DEF View, recover_clear
<1> QED
  BY <1>1, <1>2, <1>3, <1>4, Zenon DEF Stutter, Active, recover_clear

\* Writing the log blocks before the header is invisible.
LEMMA Sim_write_log ==
  ASSUME NEW p \in Procs, LogInv, LogInv', write_log(p)
  PROVE  Stutter
<1>1. boot = "done" /\ boot' = "done" /\ head = <<>> /\ head' = <<>>
  BY DEF LogInv, QuietInv, HeadInv, CommitPhases, write_log
<1>2. Recovered' = Recovered
  BY <1>1, EmptyHeadIsHome, EmptyHeadIsHomeNext, Zenon DEF LogInv, write_log
<1>3. lh[tail + 1] \in Blocks /\ home' = home
  BY SMTT(30) DEF LogInv, HeadInv, TypeOK, write_log
<1>4. \A b \in Blocks : bread(b)' = bread(b)
  BY <1>3, Zenon DEF write_log, bread, LogInv, TypeOK
<1>5. Active' = Active
  BY Zenon DEF Active, write_log, LogInv, TypeOK
<1> QED
  BY <1>1, <1>2, <1>4, <1>5, Zenon DEF Stutter, View

\* The header write is the abstract commit.
LEMMA Sim_commit_head ==
  ASSUME NEW p \in Procs, LogInv, LogInv', commit_head(p)
  PROVE  Promise!Commit
<1>1. /\ boot = "done" /\ boot' = "done" /\ head = <<>> /\ head' = lh
      /\ UNCHANGED <<home, logdata, lh, cache>>
  BY Zenon DEF LogInv, QuietInv, HeadInv, CommitPhases, commit_head, memory
<1>2. Active = {} /\ Active' = Active
  BY Zenon DEF LogInv, QuietInv, CommitPhases, commit_head, Active, TypeOK
<1>3. View' = View
  BY <1>1, Zenon DEF View, bread
<1>4. ASSUME NEW b \in Blocks
      PROVE  Recovered'[b] = bread(b)
  <2>1. CASE \E i \in 1..Len(lh) : lh[i] = b
    <3>1. PICK i \in 1..Len(lh) : lh[i] = b
      BY <2>1, Zenon
    <3>2. logdata[i] = bread(b)
      BY <3>1, Zenon DEF commit_head, LogInv, CopyInv
    <3> DEFINE k == CHOOSE j \in 1..Len(lh) : lh[j] = b
    <3>3. k \in 1..Len(lh) /\ lh[k] = b
      BY <3>1, Zenon
    <3>4. k = i
      BY <3>1, <3>3, Zenon DEF LogInv, HeadInv
    <3>5. Recovered'[b] = logdata[k]
      BY <1>1, <3>1, Zenon DEF Recovered
    <3> QED
      BY Zenon, <3>2, <3>4, <3>5
  <2>2. CASE \A i \in 1..Len(lh) : lh[i] # b
    <3>1. ~Pending(b)
      BY <2>2, Zenon DEF Pending
    <3>2. bread(b) = home[b]
      BY <3>1, Zenon DEF bread, LogInv, CacheInv
    <3> QED
      BY <1>1, <2>2, <3>2, Zenon DEF Recovered
  <2> QED
    BY <2>1, <2>2, Zenon
<1>5. Recovered' = View
  BY SMTT(30), <1>1, <1>4 DEF View, Recovered
<1> QED
  BY Zenon, <1>2, <1>3, <1>5 DEF Promise!Commit

\* Installing a committed block is invisible.
LEMMA Sim_install_trans ==
  ASSUME NEW p \in Procs, LogInv, LogInv', install_trans(p)
  PROVE  Stutter
<1>1. boot = "done" /\ boot' = "done" /\ head = lh /\ tail < Len(lh) /\ CopyHome
  BY Zenon DEF LogInv, QuietInv, HeadInv, CommitPhases, install_trans
<1>2. Recovered' = Recovered
  BY <1>1, CopyHomeRecovers, Zenon
<1>3. /\ tail + 1 \in 1..Len(lh)
      /\ lh[tail + 1] \in Blocks
      /\ logdata[tail + 1] \in Values
  BY SMTT(30), <1>1 DEF LogInv, TypeOK
<1>4. logdata[tail + 1] = bread(lh[tail + 1])
  BY <1>3, Zenon DEF LogInv, CopyInv, install_trans
<1>5. ASSUME NEW b \in Blocks
      PROVE  bread(b)' = bread(b)
  <2>1. CASE b = lh[tail + 1]
    BY SMTT(30), <1>1, <1>3, <1>4, <2>1 DEF CopyHome, bread, LogInv, TypeOK
  <2>2. CASE b # lh[tail + 1]
    BY Zenon, <1>1, <2>2 DEF CopyHome, bread, LogInv, TypeOK
  <2> QED
    BY Zenon, <2>1, <2>2
<1>6. Active' = Active
  BY Zenon DEF Active, install_trans, LogInv, TypeOK
<1> QED
  BY <1>1, <1>2, <1>5, <1>6, Zenon DEF Stutter, View

\* Erasing the transaction is invisible, every block being at home.
LEMMA Sim_clear_head ==
  ASSUME NEW p \in Procs, LogInv, LogInv', clear_head(p)
  PROVE  Stutter
<1>1. /\ boot = "done" /\ boot' = "done" /\ head = lh /\ head' = <<>>
      /\ home' = home /\ cache' = cache
  BY Zenon DEF LogInv, QuietInv, HeadInv, CommitPhases, clear_head
<1>2. Recovered = home
  BY <1>1, InstalledIsRecovered, Zenon DEF LogInv, CopyInv, clear_head
<1>3. Recovered' = home
  BY <1>1, EmptyHeadIsHomeNext, Zenon DEF LogInv
<1>4. View' = View
  BY <1>1, Zenon DEF View, bread
<1>5. Active' = Active
  BY Zenon DEF Active, clear_head, LogInv, TypeOK
<1> QED
  BY <1>2, <1>3, <1>4, <1>5, Zenon DEF Stutter

\* Filling and reusing a buffer does not change what a call reads.
LEMMA Sim_FetchRecycle ==
  ASSUME NEW b \in Blocks, LogInv, Fetch(b) \/ Recycle(b)
  PROVE  Stutter
<1>1. UNCHANGED <<home, logdata, head, boot, pc>>
  BY Zenon DEF Fetch, Recycle, disk, local
<1>2. Recovered' = Recovered /\ Active' = Active
  BY <1>1, Zenon DEF Recovered, Active
<1>3. \A c \in Blocks : bread(c)' = bread(c)
  BY <1>1 DEF Fetch, Recycle, bread, LogInv, TypeOK, CacheInv
<1> QED
  BY <1>1, <1>2, <1>3, Zenon DEF Stutter, View

\* A crash of the log is a crash of AtomicDisk.
LEMMA Sim_Crash == LogInv /\ Crash => Promise!Crash
<1> SUFFICES ASSUME LogInv, Crash PROVE Promise!Crash
  BY Zenon
<1>1. Recovered' = Recovered
  BY Zenon DEF Recovered, Crash, disk
<1>2. View' = Recovered
  BY <1>1, Zenon DEF View, Crash
<1>3. Active' = {}
  BY Zenon DEF Active, Crash
<1> QED
  BY <1>1, <1>2, <1>3, Zenon DEF Promise!Crash

\* Calls: Enter and the sleeping branch of begin_op() are invisible, the
\* others are the abstract Begin, Write and End.
LEMMA Sim_calls ==
  ASSUME NEW p \in Procs, LogInv, Enter(p) \/ begin_op(p) \/ end_op(p) \/ commit_done(p)
  PROVE  Stutter \/ Promise!Begin(p) \/ Promise!End(p)
<1>1. Recovered' = Recovered /\ View' = View
  BY SameDiskAndCache, Zenon DEF Enter, begin_op, end_op, commit_done, disk, memory
<1>2. CASE Enter(p)
  BY <1>1, <1>2, Zenon DEF Enter, Stutter, Active, LogInv, TypeOK
<1>3. CASE begin_op(p)
  <2>1. \/ Active' = Active
        \/ p \notin Active /\ Active' = Active \cup {p}
    BY <1>3, Zenon DEF begin_op, Active, LogInv, TypeOK
  <2> QED
    BY Zenon, <1>1, <2>1 DEF Stutter, Promise!Begin
<1>4. CASE end_op(p)
  <2>1. p \in Active /\ Active' = Active \ {p}
    BY <1>4, Zenon DEF end_op, Active, LogInv, TypeOK, FirstPhase, wakeup
  <2> QED
    BY Zenon, <1>1, <2>1 DEF Promise!End
<1>5. CASE commit_done(p)
  <2>1. Active' = Active
    BY <1>5, Zenon DEF commit_done, Active, LogInv, TypeOK, wakeup
  <2> QED
    BY Zenon, <1>1, <2>1 DEF Stutter
<1> QED
  BY Zenon, <1>2, <1>3, <1>4, <1>5

\* log_write() is the abstract Write.
LEMMA Sim_log_write ==
  ASSUME NEW p \in Procs, NEW b \in Blocks, NEW v \in Values, LogInv, log_write(p, b, v)
  PROVE  Promise!Write(p, b, v)
<1>1. boot = "done" /\ boot' = "done" /\ p \in Active
  BY Zenon DEF log_write, MayLog, LogInv, QuietInv, Active
<1>2. UNCHANGED <<home, logdata, head, pc>>
  BY Zenon DEF log_write, disk
<1>3. Recovered' = Recovered /\ Active' = Active
  BY <1>2, Zenon DEF Recovered, Active
<1>4. \A c \in Blocks : bread(c)' = IF c = b THEN v ELSE bread(c)
  BY <1>2, Zenon DEF log_write, bread, LogInv, TypeOK
<1>5. View' = [View EXCEPT ![b] = v]
  BY Zenon, <1>1, <1>4 DEF View
<1> QED
  BY Zenon, <1>1, <1>3, <1>5 DEF Promise!Write

\* Every step of the log is a step of AtomicDisk or a stutter.
LEMMA Sim_Next == LogInv /\ LogInv' /\ [Next]_vars => [Promise!Next]_(Promise!vars)
<1> SUFFICES ASSUME LogInv, LogInv', [Next]_vars
             PROVE  Promise!Next \/ Stutter
  BY Zenon DEF Promise!vars, Stutter
<1>1. CASE Recover
  BY <1>1, Sim_read_head, Sim_recover_install, Sim_recover_clear, Zenon DEF Recover
<1>2. ASSUME NEW p \in Procs, Enter(p) \/ begin_op(p) \/ end_op(p) \/ Commit(p)
      PROVE  Promise!Next \/ Stutter
  BY <1>2, Sim_calls, Sim_write_log, Sim_commit_head, Sim_install_trans,
     Sim_clear_head DEF Commit, Promise!Next
<1>3. ASSUME NEW p \in Procs, NEW b \in Blocks, NEW v \in Values, log_write(p, b, v)
      PROVE  Promise!Next
  BY <1>3, Sim_log_write, Zenon DEF Promise!Next
<1>4. ASSUME NEW b \in Blocks, Fetch(b) \/ Recycle(b)
      PROVE  Stutter
  BY <1>4, Sim_FetchRecycle, Zenon
<1>5. CASE Crash
  BY <1>5, Sim_Crash, Zenon DEF Promise!Next
<1>6. CASE UNCHANGED vars
  <2>1. UNCHANGED <<home, logdata, head, cache, boot, pc>>
    BY <1>6, Zenon DEF vars, disk, memory, local
  <2> QED
    BY <2>1, SameDiskAndCache, Zenon DEF Stutter, Active
<1> QED
  BY <1>1, <1>2, <1>3, <1>4, <1>5, <1>6 DEF Next

\* Initial states of the log map to initial states of AtomicDisk.
LEMMA Sim_Init == Init => Promise!Init
<1> SUFFICES ASSUME Init PROVE Promise!Init
  BY Zenon
<1>1. Recovered = [b \in Blocks |-> InitValue]
  BY DEF Recovered, Init
<1>2. View = Recovered
  BY Zenon DEF View, Init
<1>3. Active = {}
  BY Zenon DEF Active, Init
<1> QED
  BY <1>1, <1>2, <1>3, Zenon DEF Promise!Init

\* Every file system call is atomic, wherever crashes fall.
THEOREM LogIsAtomic == Spec => CallsAreAtomic
<1>1. Init => Promise!Init
  BY Sim_Init, Zenon
<1>2. LogInv /\ LogInv' /\ [Next]_vars => [Promise!Next]_(Promise!vars)
  BY Sim_Next, Zenon
<1> QED
  BY <1>1, <1>2, LogInvariant, PTL DEF Spec, CallsAreAtomic, Promise!Spec

-----------------------------------------------------------------------------
(* The reservation of begin_op() keeps log_write() from its panics, as     *)
(* long as a call logs fewer than MAXOPBLOCKS distinct blocks.             *)

\* The log slots that running calls may still claim: slots k of call p up to
\* MAXOPBLOCKS, except the ones taken by the blocks it has logged.
Reserved == {s \in Active \X (1..MAXOPBLOCKS) : s[2] > Cardinality(wrote[s[1]])}

\* What a call logged is in the log; the log and the claims fit in LOGBLOCKS.
RoomInv ==
  /\ \A p \in Procs : IsFiniteSet(wrote[p]) /\ Cardinality(wrote[p]) <= OpBlocks
  /\ \A p \in Procs : wrote[p] \subseteq Logged
  /\ \A p \in Procs : pc[p] # "op" => wrote[p] = {}
  /\ Len(lh) + Cardinality(Reserved) <= LOGBLOCKS

\* What is reserved is finite and counts as the product of its two parts.
LEMMA ReservedIsFinite ==
  ASSUME TypeOK
  PROVE  /\ IsFiniteSet(Active \X (1..MAXOPBLOCKS))
         /\ Cardinality(Active \X (1..MAXOPBLOCKS)) = Cardinality(Active) * MAXOPBLOCKS
         /\ IsFiniteSet(Reserved)
         /\ Cardinality(Reserved) \in Nat
         /\ Cardinality(Reserved) <= Cardinality(Active) * MAXOPBLOCKS
<1>1. IsFiniteSet(1..MAXOPBLOCKS) /\ Cardinality(1..MAXOPBLOCKS) = MAXOPBLOCKS
  BY SizeOfInterval, Zenon
<1>2. /\ IsFiniteSet(Active \X (1..MAXOPBLOCKS))
      /\ Cardinality(Active \X (1..MAXOPBLOCKS)) = Cardinality(Active) * MAXOPBLOCKS
  BY Zenon, <1>1, ActiveIsFinite, SizeOfProduct
<1>3. Reserved \subseteq Active \X (1..MAXOPBLOCKS)
  BY Zenon DEF Reserved
<1> QED
  BY <1>2, <1>3, SizeOfPart, SizeIsNat, Zenon

\* With no call running, nothing is reserved.
LEMMA Room_NoCalls ==
  ASSUME TypeOK', Active' = {}, \A p \in Procs : wrote'[p] = {}
  PROVE  RoomInv'
<1>1. Reserved' = {}
  BY Zenon DEF Reserved
<1>2. Cardinality(Reserved') = 0 /\ \A p \in Procs : IsFiniteSet(wrote'[p]) /\ Cardinality(wrote'[p]) = 0
  BY <1>1, SizeOfNone, Zenon
<1>3. Len(lh') \in Nat /\ Len(lh') <= LOGBLOCKS
  BY DEF TypeOK
<1> QED
  BY <1>2, <1>3 DEF RoomInv

\* Steps that leave calls and header alone keep the reservation.
LEMMA Room_Same ==
  ASSUME RoomInv, UNCHANGED <<lh, wrote>>, Active' = Active
  PROVE  RoomInv'
<1>1. Reserved' = Reserved /\ Logged' = Logged
  BY Zenon DEF Reserved, Logged
<1>2. \A p \in Procs : pc'[p] # "op" => pc[p] # "op"
  BY Zenon DEF Active
<1> QED
  BY <1>1, <1>2, Zenon DEF RoomInv

\* begin_op() admits a call only if its reservation fits.
LEMMA Room_begin_op ==
  ASSUME NEW p \in Procs, LogInv, LogInv', RoomInv, begin_op(p)
  PROVE  RoomInv'
<1>1. CASE MustWait
  <2>1. Active' = Active
    BY <1>1, Zenon DEF begin_op, Active, LogInv, TypeOK
  <2> QED
    BY <2>1, Room_Same, Zenon DEF begin_op
<1>2. CASE ~MustWait
  <2>1. Len(lh) + (outstanding + 1) * MAXOPBLOCKS <= LOGBLOCKS
    BY <1>2 DEF MustWait, NoSpace, LogInv, TypeOK
  <2>2. outstanding' = outstanding + 1 /\ UNCHANGED <<lh, wrote>>
    BY <1>2, Zenon DEF begin_op
  <2>3. Cardinality(Active') = outstanding + 1
    BY <2>2, Zenon DEF LogInv, CountInv
  <2>4. Active' \subseteq Procs /\ Active' = {q \in Procs : pc'[q] = "op"}
    BY Zenon DEF Active
  <2>5. Cardinality(Reserved') <= (outstanding + 1) * MAXOPBLOCKS /\ Cardinality(Reserved') \in Nat
    <3>1. IsFiniteSet(1..MAXOPBLOCKS) /\ Cardinality(1..MAXOPBLOCKS) = MAXOPBLOCKS
      BY SizeOfInterval, Zenon
    <3>2. /\ IsFiniteSet(Active' \X (1..MAXOPBLOCKS))
          /\ Cardinality(Active' \X (1..MAXOPBLOCKS)) = (outstanding + 1) * MAXOPBLOCKS
      <4>1. IsFiniteSet(Active')
        BY <2>4, SizeOfPart, LogAssumption, Zenon
      <4>2. /\ IsFiniteSet(Active' \X (1..MAXOPBLOCKS))
            /\ Cardinality(Active' \X (1..MAXOPBLOCKS)) = Cardinality(Active') * Cardinality(1..MAXOPBLOCKS)
        BY <3>1, <4>1, SizeOfProduct, Zenon
      <4> QED
        BY <2>3, <3>1, <4>2, Zenon
    <3>3. Reserved' \subseteq Active' \X (1..MAXOPBLOCKS)
      BY Zenon DEF Reserved
    <3> QED
      BY <3>2, <3>3, SizeOfPart, SizeIsNat, Zenon
  <2>6. Len(lh) + Cardinality(Reserved') <= LOGBLOCKS
    <3> DEFINE m == (outstanding + 1) * MAXOPBLOCKS
    <3>1. Len(lh) \in Nat /\ m \in Int
      BY DEF LogInv, TypeOK
    <3> HIDE DEF m
    <3> QED
      BY <2>1, <2>5, <3>1 DEF m
  <2>7. \A q \in Procs : pc'[q] # "op" => pc[q] # "op"
    BY Zenon DEF begin_op, LogInv, TypeOK
  <2>8. Logged' = Logged
    BY <2>2, Zenon DEF Logged
  <2> QED
    BY <2>2, <2>6, <2>7, <2>8, Zenon DEF RoomInv
<1> QED
  BY <1>1, <1>2, Zenon

\* A newly logged block takes a place its call had reserved.
LEMMA Room_log_write ==
  ASSUME NEW p \in Procs, NEW b \in Blocks, NEW v \in Values,
         LogInv, LogInv', RoomInv, log_write(p, b, v)
  PROVE  RoomInv'
<1> DEFINE n == Cardinality(wrote[p])
<1>1. n \in Nat /\ n <= OpBlocks /\ IsFiniteSet(wrote[p])
  BY SizeIsNat, Zenon DEF RoomInv
<1>2. /\ Active' = Active /\ p \in Active /\ wrote[p] \in SUBSET Blocks
      /\ wrote' = [wrote EXCEPT ![p] = @ \cup {b}]
      /\ \A q \in Procs : wrote'[q] = IF q = p THEN wrote[p] \cup {b} ELSE wrote[q]
      /\ pc' = pc
  BY Zenon DEF log_write, MayLog, Active, LogInv, TypeOK
<1>3. /\ IsFiniteSet(wrote[p] \cup {b})
      /\ Cardinality(wrote[p] \cup {b}) = IF b \in wrote[p] THEN n ELSE n + 1
  BY Zenon, <1>1, SizeWith
<1>4. Cardinality(wrote[p] \cup {b}) <= OpBlocks
  BY <1>1, <1>3 DEF log_write, MayLog
<1>5. Logged' = Logged \cup {b}
  <2>1. CASE b \in Logged
    BY <2>1, Zenon DEF log_write, Logged
  <2>2. CASE b \notin Logged
    <3>1. lh' = Append(lh, b) /\ lh \in Seq(Blocks)
      BY <2>2, Zenon DEF log_write, LogInv, TypeOK
    <3>2. 1..Len(lh') = 1..Len(lh) \cup {Len(lh) + 1} /\ Len(lh) \in Nat
      BY <3>1
    <3> QED
      BY <3>1, <3>2, AppendFacts DEF Logged
  <2> QED
    BY <2>1, <2>2, Zenon
<1>6. /\ \A q \in Procs : IsFiniteSet(wrote'[q]) /\ Cardinality(wrote'[q]) <= OpBlocks
      /\ \A q \in Procs : wrote'[q] \subseteq Logged'
      /\ \A q \in Procs : pc'[q] # "op" => wrote'[q] = {}
  BY <1>2, <1>3, <1>4, <1>5 DEF RoomInv, Active
<1>0. IsFiniteSet(Reserved) /\ Cardinality(Reserved) \in Nat
  BY ReservedIsFinite, Zenon DEF LogInv
<1>7. CASE b \in Logged
  <2>1. Reserved' \subseteq Reserved
    BY <1>1, <1>2, <1>3 DEF Reserved, Active
  <2>2. Cardinality(Reserved') <= Cardinality(Reserved) /\ Cardinality(Reserved') \in Nat
    BY <1>0, <2>1, SizeOfPart, SizeIsNat, Zenon
  <2>3. Len(lh') = Len(lh) /\ Len(lh) \in Nat
    BY <1>7 DEF log_write, LogInv, TypeOK
  <2>4. Len(lh') + Cardinality(Reserved') <= LOGBLOCKS
    BY <1>0, <2>2, <2>3 DEF RoomInv
  <2> QED
    BY <1>6, <2>4, Zenon DEF RoomInv
<1>8. CASE b \notin Logged
  <2>1. b \notin wrote[p] /\ n + 1 <= OpBlocks
    BY <1>1, <1>3, <1>4, <1>8, Zenon DEF RoomInv
  <2>2. <<p, n + 1>> \in Reserved
    BY <1>1, <1>2, <2>1 DEF Reserved
  <2>3. Reserved' = Reserved \ {<<p, n + 1>>}
    <3>1. ASSUME NEW q \in Active, NEW k \in 1..MAXOPBLOCKS
          PROVE  <<q, k>> \in Reserved' <=> <<q, k>> \in Reserved /\ <<q, k>> # <<p, n + 1>>
      <4>1. q \in Procs
        BY Zenon DEF Active
      <4>2. CASE q = p
        BY <1>1, <1>2, <1>3, <2>1, <4>1, <4>2 DEF Reserved
      <4>3. CASE q # p
        BY <1>2, <4>1, <4>3, Zenon DEF Reserved
      <4> QED
        BY <4>2, <4>3, Zenon
    <3>2. Reserved \subseteq Active \X (1..MAXOPBLOCKS) /\ Reserved' \subseteq Active \X (1..MAXOPBLOCKS)
      BY <1>2, Zenon DEF Reserved
    <3> QED
      BY <3>1, <3>2
  <2>4. Cardinality(Reserved') = Cardinality(Reserved) - 1
    BY Zenon, <1>0, <2>2, <2>3, SizeWithout
  <2>5. Len(lh') = Len(lh) + 1 /\ Len(lh) \in Nat
    BY SMTT(30), <1>8, AppendFacts DEF log_write, LogInv, TypeOK
  <2>6. Len(lh') + Cardinality(Reserved') <= LOGBLOCKS
    BY <1>0, <2>4, <2>5 DEF RoomInv
  <2> QED
    BY <1>6, <2>6, Zenon DEF RoomInv
<1> QED
  BY <1>7, <1>8, Zenon

\* end_op() gives back what its call did not use.
LEMMA Room_end_op ==
  ASSUME NEW p \in Procs, LogInv, RoomInv, end_op(p)
  PROVE  RoomInv'
<1>1. /\ Active' = Active \ {p} /\ lh' = lh
      /\ \A q \in Procs : wrote'[q] = IF q = p THEN {} ELSE wrote[q]
  BY Zenon DEF end_op, Active, LogInv, TypeOK, FirstPhase, wakeup
<1>2. Reserved' \subseteq Reserved
  BY <1>1, Zenon DEF Reserved, Active
<1>3. Cardinality(Reserved') <= Cardinality(Reserved) /\ Cardinality(Reserved') \in Nat
  BY <1>2, ReservedIsFinite, SizeOfPart, SizeIsNat, Zenon DEF LogInv
<1>4. Len(lh') + Cardinality(Reserved') <= LOGBLOCKS
  BY <1>1, <1>3, ReservedIsFinite DEF RoomInv, LogInv, TypeOK
<1>5. \A q \in Procs : pc'[q] # "op" /\ q # p => pc[q] # "op"
  BY <1>1, Zenon DEF Active
<1>6. Logged' = Logged
  BY <1>1, Zenon DEF Logged
<1> QED
  BY <1>1, <1>4, <1>5, <1>6, SizeOfNone DEF RoomInv

\* Every step keeps the reservation within the log.
LEMMA Room_Next == LogInv /\ LogInv' /\ RoomInv /\ [Next]_vars => RoomInv'
<1> SUFFICES ASSUME LogInv, LogInv', RoomInv, [Next]_vars PROVE RoomInv'
  BY Zenon
<1>1. CASE Recover
  <2>1. Active' = {} /\ \A p \in Procs : wrote'[p] = {}
    BY <1>1 DEF Recover, read_head, recover_install, recover_clear, CopyHome, Active,
                LogInv, QuietInv, RoomInv
  <2> QED
    BY <2>1, Room_NoCalls, Zenon DEF LogInv
<1>2. ASSUME NEW p \in Procs, Commit(p)
      PROVE  RoomInv'
  <2>1. Active = {} /\ wrote' = wrote
    BY Zenon, <1>2 DEF Commit, write_log, commit_head, install_trans, clear_head, commit_done,
                CopyHome, Active, LogInv, QuietInv, CommitPhases
  <2>2. Active' = {}
    BY ZenonT(30), <1>2, <2>1 DEF Commit, write_log, commit_head, install_trans, clear_head, commit_done,
                wakeup, Active, LogInv, TypeOK
  <2>3. \A q \in Procs : wrote'[q] = {}
    BY <2>1, Zenon DEF Active, RoomInv
  <2> QED
    BY Zenon, <2>2, <2>3, Room_NoCalls DEF LogInv
<1>3. ASSUME NEW p \in Procs, Enter(p)
      PROVE  RoomInv'
  <2>1. Active' = Active /\ UNCHANGED <<lh, wrote>>
    BY <1>3, Zenon DEF Enter, memory, Active, LogInv, TypeOK
  <2> QED
    BY <2>1, Room_Same, Zenon
<1>4. ASSUME NEW b \in Blocks, Fetch(b) \/ Recycle(b)
      PROVE  RoomInv'
  <2>1. Active' = Active /\ UNCHANGED <<lh, wrote>>
    BY <1>4, Zenon DEF Fetch, Recycle, local, Active
  <2> QED
    BY <2>1, Room_Same, Zenon
<1>5. CASE Crash
  <2>1. Active' = {} /\ \A p \in Procs : wrote'[p] = {}
    BY <1>5, Zenon DEF Crash, Active
  <2> QED
    BY <2>1, Room_NoCalls, Zenon DEF LogInv
<1>6. CASE UNCHANGED vars
  <2>1. Active' = Active /\ UNCHANGED <<lh, wrote>>
    BY <1>6, Zenon DEF vars, memory, local, Active
  <2> QED
    BY <2>1, Room_Same, Zenon
<1> QED
  BY <1>1, <1>2, <1>3, <1>4, <1>5, <1>6, Room_begin_op, Room_log_write, Room_end_op, Zenon DEF Next

\* Nothing is logged and nothing reserved at first.
LEMMA Room_Init == Init => RoomInv
<1> SUFFICES ASSUME Init PROVE RoomInv
  BY Zenon
<1>1. Reserved = {}
  BY Zenon DEF Init, Reserved, Active
<1> QED
  BY <1>1, SizeOfNone DEF Init, RoomInv, Logged

\* If no call logs as many as MAXOPBLOCKS distinct blocks, log_write() never
\* panics.
THEOREM LogNeverFull == OpBlocks < MAXOPBLOCKS /\ Spec => []LogHasRoom
<1> SUFFICES ASSUME OpBlocks < MAXOPBLOCKS PROVE Spec => []LogHasRoom
  BY Zenon
<1>1. ASSUME LogInv, RoomInv
      PROVE  LogHasRoom
  <2> SUFFICES ASSUME NEW p \in Procs, NEW b \in Blocks, MayLog(p, b)
               PROVE  Len(lh) < LOGBLOCKS /\ outstanding >= 1
    BY Zenon DEF LogHasRoom
  <2>1. p \in Active /\ TypeOK
    BY <1>1, Zenon DEF MayLog, Active, LogInv
  <2>2. Cardinality(wrote[p]) \in Nat /\ Cardinality(wrote[p]) <= OpBlocks
    BY <1>1, SizeIsNat, Zenon DEF RoomInv
  <2>3. <<p, MAXOPBLOCKS>> \in Reserved
    BY <1>1, <2>1, <2>2 DEF Reserved
  <2>4. Cardinality(Reserved) >= 1
    BY <2>1, <2>3, ReservedIsFinite, SizeOfNone
  <2>5. outstanding >= 1
    BY <1>1, <2>1, ActiveIsFinite, SizeOfNone DEF LogInv, CountInv
  <2>6. Len(lh) < LOGBLOCKS
    BY <1>1, <2>1, <2>4, ReservedIsFinite DEF RoomInv, TypeOK
  <2> QED
    BY <2>5, <2>6, Zenon
<1> QED
  BY <1>1, Room_Init, Room_Next, LogInvariant, PTL DEF Spec
=============================================================================
