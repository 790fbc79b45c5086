------------------------------ MODULE LogProofs -----------------------------
(***************************************************************************)
(* Proofs about kernel/log.c for any number of processes, blocks and       *)
(* contents, and any sizes of the log and of a call.                       *)
(***************************************************************************)
EXTENDS Log, TLAPS

USE LogAssumption

-----------------------------------------------------------------------------
(* The inductive invariant.                                                *)

\* log.outstanding counts the calls between begin_op() and end_op().
CountInv == outstanding = Cardinality(Active)

\* One process commits at a time and no call runs meanwhile; nothing runs
\* before recovery is over.
QuietInv ==
  /\ \A p \in Procs : pc[p] \in CommitPhases => committing
  /\ committing => \E p \in Procs : pc[p] \in CommitPhases
  /\ committing => \A p \in Procs : pc[p] # "op"
  /\ \A p, q \in Procs : pc[p] \in CommitPhases /\ pc[q] \in CommitPhases => p = q
  /\ boot # "done" => \A p \in Procs : pc[p] = "idle"

\* When nobody is in a call or a commit the in-memory log is empty.
WaitInv ==
  /\ SleeperHasWaker
  /\ boot = "done" /\ ~committing /\ outstanding = 0 => lh = <<>>

\* A block is logged once; the on-disk header is the in-memory one from the
\* commit point until it is cleared, and empty otherwise; tail is in bounds.
HeadInv ==
  /\ \A i, j \in 1..Len(lh) : lh[i] = lh[j] => i = j
  /\ \A i, j \in 1..Len(head) : head[i] = head[j] => i = j
  /\ boot \in {"install", "clear_head"} => lh = head
  /\ boot = "install" => tail < Len(lh)
  /\ \A p \in Procs : pc[p] \in {"install", "clear_head"} => head = lh
  /\ boot = "done" /\ (\A p \in Procs : pc[p] \notin {"install", "clear_head"})
       => head = <<>>
  /\ \A p \in Procs : pc[p] \in {"write_log", "install"} => tail < Len(lh)
  /\ \A p \in Procs : pc[p] = "commit_head" => Len(lh) > 0
  /\ \A p \in Procs : pc[p] = "committed" => lh = <<>>
  /\ boot # "install" /\ (\A p \in Procs : pc[p] \notin {"write_log", "install"})
       => tail = 0

\* The log blocks hold what the cache holds, up to where write_log() is, and
\* the home blocks what the log holds, up to where install_trans() is.
CopyInv ==
  /\ \A p \in Procs : pc[p] = "write_log" => \A i \in 1..tail : logdata[i] = bread(lh[i])
  /\ \A p \in Procs : pc[p] \in {"commit_head", "install", "clear_head"} =>
       \A i \in 1..Len(lh) : logdata[i] = bread(lh[i])
  /\ \A p \in Procs : pc[p] = "install" => \A i \in 1..tail : home[lh[i]] = logdata[i]
  /\ \A p \in Procs : pc[p] = "clear_head" => \A i \in 1..Len(lh) : home[lh[i]] = logdata[i]
  /\ boot = "install" => \A i \in 1..tail : home[lh[i]] = logdata[i]
  /\ boot = "clear_head" => \A i \in 1..Len(lh) : home[lh[i]] = logdata[i]

\* Block b has an update that is not in its home block yet.
Pending(b) ==
  /\ boot = "done"
  /\ \A p \in Procs : pc[p] # "clear_head"
  /\ \E i \in 1..Len(lh) : lh[i] = b /\ \A p \in Procs : pc[p] = "install" => i > tail

\* The log pins exactly the pending blocks; any other cached block is clean.
CacheInv ==
  \A b \in Blocks :
    /\ Pending(b) => pins[b] = 1 /\ cache[b] # Nil
    /\ ~Pending(b) => pins[b] = 0 /\ cache[b] \in {Nil, home[b]}

LogInv ==
  /\ TypeOK
  /\ CountInv
  /\ QuietInv
  /\ WaitInv
  /\ HeadInv
  /\ CopyInv
  /\ CacheInv


\* What Append does to the length and the elements of a sequence.
LEMMA AppendFacts ==
  ASSUME NEW s \in Seq(Blocks), NEW b \in Blocks
  PROVE  /\ Append(s, b) \in Seq(Blocks)
         /\ Len(Append(s, b)) = Len(s) + 1
         /\ \A i \in 1..Len(s) : Append(s, b)[i] = s[i]
         /\ Append(s, b)[Len(s) + 1] = b
OBVIOUS

\* A step that leaves alone what one part of the invariant is about keeps it.
LEMMA CountKept ==
  ASSUME CountInv, UNCHANGED <<pc, outstanding>>
  PROVE  CountInv'
BY Zenon DEF CountInv, Active

LEMMA QuietKept ==
  ASSUME QuietInv, UNCHANGED <<pc, committing, boot>>
  PROVE  QuietInv'
BY Zenon DEF QuietInv

LEMMA WaitKept ==
  ASSUME WaitInv, UNCHANGED <<pc, committing, outstanding, boot, lh>>
  PROVE  WaitInv'
BY Zenon DEF WaitInv, SleeperHasWaker

LEMMA HeadKept ==
  ASSUME HeadInv, UNCHANGED <<pc, boot, lh, head, tail>>
  PROVE  HeadInv'
BY DEF HeadInv

\* read_head preserves the invariant.
LEMMA Inv_read_head ==
  ASSUME LogInv, read_head
  PROVE  LogInv'
<1> USE DEF LogInv, disk, memory, local, CommitPhases, bread, Logged, read_head
<1>1. TypeOK'
  BY Zenon DEF CacheInv, HeadInv, Pending, QuietInv, TypeOK
<1>2. CountInv'
  BY Zenon DEF Active, CountInv, HeadInv, QuietInv, TypeOK
<1>3. QuietInv'
  BY Zenon DEF HeadInv, QuietInv, TypeOK
<1>4. WaitInv'
  BY Zenon DEF HeadInv, QuietInv, SleeperHasWaker, TypeOK, WaitInv
<1>5. HeadInv'
  BY DEF HeadInv, QuietInv, TypeOK
<1>6. CopyInv'
  BY DEF CopyInv, HeadInv, QuietInv, TypeOK
<1>7. CacheInv'
  BY Zenon DEF CacheInv, HeadInv, Pending, QuietInv, TypeOK
<1> QED
  BY <1>1, <1>2, <1>3, <1>4, <1>5, <1>6, <1>7, Zenon

\* recover_install preserves the invariant.
LEMMA Inv_recover_install ==
  ASSUME LogInv, recover_install
  PROVE  LogInv'
<1> USE DEF LogInv, disk, memory, local, CommitPhases, bread, Logged, recover_install, CopyHome, NextTurn, LastTurn
<1>1. TypeOK'
  BY DEF CacheInv, HeadInv, Pending, QuietInv, TypeOK
<1>2. CountInv'
  BY Zenon DEF Active, CountInv, HeadInv, QuietInv, TypeOK
<1>3. QuietInv'
  BY Zenon DEF HeadInv, QuietInv, TypeOK
<1>4. WaitInv'
  BY Zenon DEF HeadInv, QuietInv, SleeperHasWaker, TypeOK, WaitInv
<1>5. HeadInv'
  BY DEF HeadInv, QuietInv, TypeOK
<1>6. CopyInv'
  <2>1. tail \in Nat /\ tail < Len(lh) /\ lh[tail + 1] \in Blocks
    BY DEF HeadInv, TypeOK
  <2>2. ASSUME NEW i \in 1..(tail + 1)
        PROVE  home'[lh[i]] = logdata[i]
    <3>1. lh[i] \in Blocks
      BY <2>1, <2>2 DEF TypeOK
    <3>2. CASE i = tail + 1
      BY <2>1, <3>2, Zenon DEF TypeOK
    <3>3. CASE i # tail + 1
      <4>1. lh[i] # lh[tail + 1]
        BY <2>1, <2>2, <3>3 DEF HeadInv
      <4>2. home[lh[i]] = logdata[i]
        BY <2>1, <2>2, <3>3 DEF CopyInv
      <4> QED
        BY <3>1, <4>1, <4>2, Zenon DEF TypeOK
    <3> QED
      BY <3>2, <3>3, Zenon
  <2>3. \A q \in Procs : pc'[q] = "idle"
    BY Zenon DEF QuietInv
  <2> QED
    BY SMTT(30), <2>1, <2>2, <2>3 DEF CopyInv, TypeOK
<1>7. CacheInv'
  BY DEF CacheInv, HeadInv, Pending, QuietInv, TypeOK
<1> QED
  BY <1>1, <1>2, <1>3, <1>4, <1>5, <1>6, <1>7, Zenon

\* recover_clear preserves the invariant.
LEMMA Inv_recover_clear ==
  ASSUME LogInv, recover_clear
  PROVE  LogInv'
<1> USE DEF LogInv, disk, memory, local, CommitPhases, bread, Logged, recover_clear
<1>1. TypeOK'
  BY DEF CacheInv, HeadInv, Pending, QuietInv, TypeOK
<1>2. CountInv'
  BY Zenon DEF Active, CountInv, HeadInv, QuietInv, TypeOK
<1>3. QuietInv'
  BY Zenon DEF HeadInv, QuietInv, TypeOK
<1>4. WaitInv'
  BY Zenon DEF HeadInv, QuietInv, SleeperHasWaker, TypeOK, WaitInv
<1>5. HeadInv'
  BY DEF HeadInv, QuietInv, TypeOK
<1>6. CopyInv'
  BY Zenon DEF CopyInv, HeadInv, QuietInv, TypeOK
<1>7. CacheInv'
  BY DEF CacheInv, HeadInv, Pending, QuietInv, TypeOK
<1> QED
  BY <1>1, <1>2, <1>3, <1>4, <1>5, <1>6, <1>7, Zenon

\* Enter preserves the invariant.
LEMMA Inv_Enter ==
  ASSUME NEW p \in Procs, LogInv, Enter(p)
  PROVE  LogInv'
<1> USE DEF LogInv, disk, memory, local, CommitPhases, bread, Logged, Enter
<1>1. TypeOK'
  BY Zenon DEF CacheInv, HeadInv, Pending, QuietInv, TypeOK
<1>2. CountInv'
  BY Zenon DEF Active, CountInv, HeadInv, QuietInv, TypeOK
<1>3. QuietInv'
  BY DEF HeadInv, QuietInv, TypeOK
<1>4. WaitInv'
  BY Zenon DEF HeadInv, QuietInv, SleeperHasWaker, TypeOK, WaitInv
<1>5. HeadInv'
  BY DEF HeadInv, QuietInv, TypeOK
<1>6. CopyInv'
  BY DEF CopyInv, HeadInv, QuietInv, TypeOK
<1>7. CacheInv'
  BY SMTT(30) DEF CacheInv, HeadInv, Pending, QuietInv, TypeOK
<1> QED
  BY <1>1, <1>2, <1>3, <1>4, <1>5, <1>6, <1>7, Zenon

\* log_write preserves the invariant.
LEMMA Inv_log_write ==
  ASSUME NEW p \in Procs, NEW b \in Blocks, NEW v \in Values, LogInv, log_write(p, b, v)
  PROVE  LogInv'
<1> USE DEF LogInv, disk, memory, local, CommitPhases, bread, Logged, log_write, MayLog, bpin
<1>a. /\ pc[p] = "op" /\ boot = "done" /\ ~committing
      /\ \A q \in Procs : pc[q] \notin CommitPhases
  BY Zenon DEF QuietInv, TypeOK
<1>b. \/ /\ \E i \in 1..Len(lh) : lh[i] = b
         /\ lh' = lh /\ pins' = pins
      \/ /\ \A i \in 1..Len(lh) : lh[i] # b
         /\ lh' \in Seq(Blocks)
         /\ Len(lh') = Len(lh) + 1
         /\ \A i \in 1..Len(lh) : lh'[i] = lh[i]
         /\ lh'[Len(lh) + 1] = b
         /\ pins' = [pins EXCEPT ![b] = @ + 1]
  <2>1. CASE b \in Logged
    BY Zenon, <2>1
  <2>2. CASE b \notin Logged
    <3>1. lh' = Append(lh, b) /\ pins' = [pins EXCEPT ![b] = @ + 1]
      BY <2>2, Zenon
    <3>2. \A i \in 1..Len(lh) : lh[i] # b
      BY Zenon, <2>2
    <3> QED
      BY <3>1, <3>2, AppendFacts DEF TypeOK
  <2> QED
    BY <2>1, <2>2, Zenon
<1>c. /\ Len(lh) \in Nat /\ Len(lh) < LOGBLOCKS
      /\ cache' = [cache EXCEPT ![b] = v]
      /\ wrote' = [wrote EXCEPT ![p] = @ \cup {b}]
      /\ outstanding >= 1
      /\ UNCHANGED <<disk, outstanding, committing, boot, pc, tail>>
  BY DEF TypeOK
<1> HIDE DEF log_write
<1>1. TypeOK'
  <2>1. pins' \in [Blocks -> Nat]
    BY <1>b DEF TypeOK
  <2>2. lh' \in Seq(Blocks) /\ Len(lh') <= LOGBLOCKS
    BY <1>b, <1>c DEF TypeOK
  <2> QED
    BY ZenonT(30), <1>c, <2>1, <2>2 DEF TypeOK
<1>2. CountInv'
  BY <1>c, CountKept, Zenon
<1>3. QuietInv'
  BY <1>c, QuietKept, Zenon
<1>4. WaitInv'
  BY SMTT(30), <1>a, <1>b, <1>c DEF HeadInv, QuietInv, SleeperHasWaker, TypeOK, WaitInv
<1>5. HeadInv'
  <2>1. \A i, j \in 1..Len(lh') : lh'[i] = lh'[j] => i = j
    <3> SUFFICES ASSUME NEW i \in 1..Len(lh'), NEW j \in 1..Len(lh'), lh'[i] = lh'[j]
                 PROVE  i = j
      BY Zenon
    <3> QED
      BY SMTT(30), <1>b, <1>c DEF HeadInv
  <2> QED
    BY SMTT(30), <1>a, <1>c, <2>1 DEF HeadInv, TypeOK
<1>6. CopyInv'
  BY Zenon, <1>a, <1>b, <1>c DEF CopyInv, HeadInv, QuietInv, TypeOK
<1>7. CacheInv'
  <2>1. \A c \in Blocks : Pending(c) <=> \E i \in 1..Len(lh) : lh[i] = c
    BY <1>a, Zenon DEF Pending
  <2>2. \A c \in Blocks : Pending(c)' <=> \E i \in 1..Len(lh') : lh'[i] = c
    BY <1>a, <1>c, Zenon DEF Pending
  <2>3. \A c \in Blocks : (\E i \in 1..Len(lh') : lh'[i] = c)
                            <=> c = b \/ \E i \in 1..Len(lh) : lh[i] = c
    <3>1. CASE lh' = lh
      BY <1>b, <1>c, <3>1
    <3>2. CASE lh' # lh
      <4>1. 1..Len(lh') = 1..Len(lh) \cup {Len(lh) + 1}
        BY SMTT(30), <1>b, <1>c, <3>2
      <4> QED
        BY <1>b, <3>2, <4>1, Zenon
    <3> QED
      BY <3>1, <3>2, Zenon
  <2>4. ASSUME NEW c \in Blocks
        PROVE  /\ Pending(c)' => pins'[c] = 1 /\ cache'[c] # Nil
               /\ ~Pending(c)' => pins'[c] = 0 /\ cache'[c] \in {Nil, home'[c]}
    <3>1. CASE c = b
      <4>1. Pending(c)' /\ cache'[c] = v
        BY <2>2, <2>3, <3>1, <1>c, Zenon DEF TypeOK
      <4>2. pins'[c] = 1
        <5>1. CASE Pending(b)
          BY <2>1, <3>1, <5>1, <1>b, Zenon DEF CacheInv
        <5>2. CASE ~Pending(b)
          <6>1. pins[b] = 0 /\ pins' = [pins EXCEPT ![b] = @ + 1]
            BY Zenon, <2>1, <5>2, <1>b DEF CacheInv
          <6> QED
            BY <3>1, <6>1 DEF TypeOK
        <5> QED
          BY Zenon, <5>1, <5>2
      <4> QED
        BY Zenon, <4>1, <4>2
    <3>2. CASE c # b
      BY ZenonT(30), <2>1, <2>2, <2>3, <3>2, <1>b, <1>c DEF CacheInv, TypeOK
    <3> QED
      BY <3>1, <3>2, Zenon
  <2> QED
    BY <2>4, Zenon DEF CacheInv
<1> QED
  BY <1>1, <1>2, <1>3, <1>4, <1>5, <1>6, <1>7, Zenon

\* write_log preserves the invariant.
LEMMA Inv_write_log ==
  ASSUME NEW p \in Procs, LogInv, write_log(p)
  PROVE  LogInv'
<1> USE DEF LogInv, disk, memory, local, CommitPhases, bread, Logged, write_log, NextTurn, LastTurn
<1>a. /\ tail \in Nat /\ tail < Len(lh) /\ lh[tail + 1] \in Blocks
      /\ boot = "done" /\ tail + 1 \in 1..LOGBLOCKS
      /\ \A q \in Procs : q # p => pc[q] \notin CommitPhases
  BY SMTT(30) DEF QuietInv, HeadInv, TypeOK
<1>b. Pending(lh[tail + 1])
  BY <1>a DEF Pending
<1>c. cache' = cache
  BY Zenon, <1>a, <1>b DEF CacheInv, TypeOK
<1>1. TypeOK'
  BY SMTT(30) DEF CacheInv, HeadInv, Pending, QuietInv, TypeOK
<1>2. CountInv'
  BY Zenon DEF Active, CountInv, HeadInv, QuietInv, TypeOK
<1>3. QuietInv'
  BY SMTT(30) DEF HeadInv, QuietInv, TypeOK
<1>4. WaitInv'
  BY Zenon DEF HeadInv, QuietInv, SleeperHasWaker, TypeOK, WaitInv
<1>5. HeadInv'
  BY SMTT(30) DEF HeadInv, QuietInv, TypeOK
<1>6. CopyInv'
  <2>1. \A i \in 1..(tail + 1) : logdata'[i] = bread(lh[i])
    BY <1>a DEF CopyInv, TypeOK
  <2>2. \A c \in Blocks : bread(c)' = bread(c)
    BY <1>c, Zenon
  <2>3. \A q \in Procs : pc'[q] = "write_log" => tail' = tail + 1
    BY <1>a, Zenon DEF TypeOK
  <2>4. \A q \in Procs : pc'[q] = "commit_head" => tail + 1 = Len(lh)
    BY Zenon, <1>a DEF TypeOK
  <2>5. \A q \in Procs : pc'[q] \notin {"install", "clear_head"}
    BY Zenon, <1>a DEF TypeOK
  <2> QED
    BY <1>a, <1>c, <2>1, <2>2, <2>3, <2>4, <2>5 DEF CopyInv
<1>7. CacheInv'
  <2>1. \A c \in Blocks : Pending(c)' <=> Pending(c)
    BY Zenon, <1>a DEF Pending, TypeOK
  <2> QED
    BY Zenon, <1>c, <2>1 DEF CacheInv
<1> QED
  BY <1>1, <1>2, <1>3, <1>4, <1>5, <1>6, <1>7, Zenon

\* commit_head preserves the invariant.
LEMMA Inv_commit_head ==
  ASSUME NEW p \in Procs, LogInv, commit_head(p)
  PROVE  LogInv'
<1> USE DEF LogInv, disk, memory, local, CommitPhases, bread, Logged, commit_head
<1>a. /\ boot = "done" /\ tail = 0
      /\ \A q \in Procs : q # p => pc[q] \notin CommitPhases
  BY Zenon DEF QuietInv, HeadInv, TypeOK
<1>b. \A q \in Procs : pc'[q] = IF q = p THEN "install" ELSE pc[q]
  BY Zenon DEF TypeOK
<1>1. TypeOK'
  BY Zenon DEF CacheInv, HeadInv, Pending, QuietInv, TypeOK
<1>2. CountInv'
  BY Zenon DEF Active, CountInv, HeadInv, QuietInv, TypeOK
<1>3. QuietInv'
  BY DEF HeadInv, QuietInv, TypeOK
<1>4. WaitInv'
  BY Zenon DEF HeadInv, QuietInv, SleeperHasWaker, TypeOK, WaitInv
<1>5. HeadInv'
  <2>1. Len(lh) > 0
    BY Zenon DEF HeadInv, TypeOK
  <2> QED
    BY SMTT(30), <1>a, <1>b, <2>1 DEF HeadInv, TypeOK
<1>6. CopyInv'
  BY SMTT(30) DEF CopyInv, HeadInv, QuietInv, TypeOK
<1>7. CacheInv'
  <2>1. \A c \in Blocks : Pending(c)' <=> Pending(c)
    BY <1>a, <1>b DEF Pending, TypeOK
  <2> QED
    BY <2>1, Zenon DEF CacheInv
<1> QED
  BY <1>1, <1>2, <1>3, <1>4, <1>5, <1>6, <1>7, Zenon

\* install_trans preserves the invariant.
LEMMA Inv_install_trans ==
  ASSUME NEW p \in Procs, LogInv, install_trans(p)
  PROVE  LogInv'
<1> USE DEF LogInv, disk, memory, local, CommitPhases, bread, Logged, install_trans, CopyHome, NextTurn, LastTurn
<1>a. /\ tail \in Nat /\ tail < Len(lh) /\ lh[tail + 1] \in Blocks
      /\ boot = "done" /\ tail + 1 \in 1..LOGBLOCKS
      /\ \A q \in Procs : q # p => pc[q] \notin CommitPhases
  BY SMTT(30) DEF QuietInv, HeadInv, TypeOK
<1>b. Pending(lh[tail + 1])
  BY SMTT(30), <1>a DEF Pending, TypeOK
<1>c. \A q \in Procs : pc'[q] = IF q # p THEN pc[q]
                                ELSE IF tail + 1 = Len(lh) THEN "clear_head" ELSE "install"
  BY Zenon DEF TypeOK
<1>1. TypeOK'
  <2>1. pins' \in [Blocks -> Nat]
    BY SMTT(30), <1>a, <1>b DEF CacheInv, TypeOK
  <2>2. logdata[tail + 1] \in Values
    BY Zenon, <1>a DEF TypeOK
  <2> QED
    BY SMTT(30), <1>a, <2>1, <2>2 DEF TypeOK
<1>2. CountInv'
  BY Zenon DEF Active, CountInv, HeadInv, QuietInv, TypeOK
<1>3. QuietInv'
  BY DEF HeadInv, QuietInv, TypeOK
<1>4. WaitInv'
  BY Zenon DEF HeadInv, QuietInv, SleeperHasWaker, TypeOK, WaitInv
<1>5. HeadInv'
  BY SMTT(30) DEF HeadInv, QuietInv, TypeOK
<1>6. CopyInv'
  <2>1. tail \in Nat /\ tail < Len(lh) /\ lh[tail + 1] \in Blocks
    BY <1>a, Zenon
  <2>2. ASSUME NEW i \in 1..(tail + 1)
        PROVE  home'[lh[i]] = logdata[i]
    <3>1. lh[i] \in Blocks
      BY <2>1, <2>2 DEF TypeOK
    <3>2. CASE i = tail + 1
      BY <2>1, <3>2, Zenon DEF TypeOK
    <3>3. CASE i # tail + 1
      <4>1. lh[i] # lh[tail + 1]
        BY SMTT(30), <2>1, <2>2, <3>3 DEF HeadInv
      <4>2. home[lh[i]] = logdata[i]
        BY SMTT(30), <2>1, <2>2, <3>3 DEF CopyInv
      <4> QED
        BY Zenon, <3>1, <4>1, <4>2 DEF TypeOK
    <3> QED
      BY <3>2, <3>3, Zenon
  <2>3. logdata[tail + 1] = bread(lh[tail + 1]) /\ logdata[tail + 1] \in Values
    <3>1. tail + 1 \in 1..Len(lh) /\ pc[p] = "install"
      BY SMTT(30), <1>a DEF TypeOK
    <3>2. logdata[tail + 1] = bread(lh[tail + 1])
      BY Zenon, <3>1 DEF CopyInv
    <3> QED
      BY Zenon, <1>a, <3>2 DEF TypeOK
  <2>4. \A c \in Blocks : bread(c)' = bread(c)
    BY Zenon, <1>a, <1>b, <2>3 DEF CacheInv, TypeOK
  <2>5. \A i \in 1..Len(lh) : lh[i] \in Blocks /\ logdata[i] = bread(lh[i])
    BY SMTT(30) DEF CopyInv, TypeOK
  <2> HIDE DEF bread
  <2> QED
    BY SMTT(30), <1>a, <1>c, <2>2, <2>4, <2>5 DEF CopyInv, TypeOK
<1>7. CacheInv'
  <2>1. \A c \in Blocks : Pending(c) <=> \E i \in (tail + 1)..Len(lh) : lh[i] = c
    BY SMTT(30), <1>a DEF Pending, TypeOK
  <2>2. \A c \in Blocks : Pending(c)' <=> \E i \in (tail + 2)..Len(lh) : lh[i] = c
    BY SMTT(30), <1>a, <1>c DEF Pending, TypeOK
  <2>3. \A i \in (tail + 2)..Len(lh) : lh[i] # lh[tail + 1]
    BY SMTT(30), <1>a DEF HeadInv
  <2>4. (tail + 1)..Len(lh) = {tail + 1} \cup (tail + 2)..Len(lh)
    BY SMTT(30), <1>a DEF TypeOK
  <2>5. \A c \in Blocks : Pending(c)' <=> Pending(c) /\ c # lh[tail + 1]
    BY <2>1, <2>2, <2>3, <2>4, Zenon
  <2> QED
    BY SMTT(30), <1>a, <1>b, <2>5 DEF CacheInv, TypeOK
<1> QED
  BY <1>1, <1>2, <1>3, <1>4, <1>5, <1>6, <1>7, Zenon

\* clear_head preserves the invariant.
LEMMA Inv_clear_head ==
  ASSUME NEW p \in Procs, LogInv, clear_head(p)
  PROVE  LogInv'
<1> USE DEF LogInv, disk, memory, local, CommitPhases, bread, Logged, clear_head
<1>1. TypeOK'
  BY SMTT(30) DEF CacheInv, HeadInv, Pending, QuietInv, TypeOK
<1>2. CountInv'
  BY ZenonT(30) DEF Active, CountInv, HeadInv, QuietInv, TypeOK
<1>3. QuietInv'
  BY DEF HeadInv, QuietInv, TypeOK
<1>4. WaitInv'
  BY Zenon DEF HeadInv, QuietInv, SleeperHasWaker, TypeOK, WaitInv
<1>5. HeadInv'
  BY DEF HeadInv, QuietInv, TypeOK
<1>6. CopyInv'
  BY SMTT(30) DEF CopyInv, HeadInv, QuietInv, TypeOK
<1>7. CacheInv'
  BY DEF CacheInv, HeadInv, Pending, QuietInv, TypeOK
<1> QED
  BY <1>1, <1>2, <1>3, <1>4, <1>5, <1>6, <1>7, Zenon

\* commit_done preserves the invariant.
LEMMA Inv_commit_done ==
  ASSUME NEW p \in Procs, LogInv, commit_done(p)
  PROVE  LogInv'
<1> USE DEF LogInv, disk, memory, local, CommitPhases, bread, Logged, commit_done, wakeup
<1>1. TypeOK'
  BY Zenon DEF CacheInv, HeadInv, Pending, QuietInv, TypeOK
<1>2. CountInv'
  BY ZenonT(30) DEF Active, CountInv, HeadInv, QuietInv, TypeOK
<1>3. QuietInv'
  BY Zenon DEF HeadInv, QuietInv, TypeOK
<1>4. WaitInv'
  BY Zenon DEF HeadInv, QuietInv, SleeperHasWaker, TypeOK, WaitInv
<1>5. HeadInv'
  BY SMTT(30) DEF HeadInv, QuietInv, TypeOK
<1>6. CopyInv'
  BY SMTT(30) DEF CopyInv, HeadInv, QuietInv, TypeOK
<1>7. CacheInv'
  BY SMTT(30) DEF CacheInv, HeadInv, Pending, QuietInv, TypeOK
<1> QED
  BY <1>1, <1>2, <1>3, <1>4, <1>5, <1>6, <1>7, Zenon

\* Fetch preserves the invariant.
LEMMA Inv_Fetch ==
  ASSUME NEW b \in Blocks, LogInv, Fetch(b)
  PROVE  LogInv'
<1> USE DEF LogInv, disk, memory, local, CommitPhases, bread, Logged, Fetch
<1>1. TypeOK'
  BY SMTT(30) DEF CacheInv, HeadInv, Pending, QuietInv, TypeOK
<1>2. CountInv'
  BY CountKept, Zenon
<1>3. QuietInv'
  BY QuietKept, Zenon
<1>4. WaitInv'
  BY WaitKept, Zenon
<1>5. HeadInv'
  BY HeadKept, Zenon
<1>6. CopyInv'
  BY SMTT(30) DEF CopyInv, HeadInv, QuietInv, TypeOK
<1>7. CacheInv'
  BY SMTT(30) DEF CacheInv, HeadInv, Pending, QuietInv, TypeOK
<1> QED
  BY <1>1, <1>2, <1>3, <1>4, <1>5, <1>6, <1>7, Zenon

\* Recycle preserves the invariant.
LEMMA Inv_Recycle ==
  ASSUME NEW b \in Blocks, LogInv, Recycle(b)
  PROVE  LogInv'
<1> USE DEF LogInv, disk, memory, local, CommitPhases, bread, Logged, Recycle
<1>1. TypeOK'
  BY Zenon DEF CacheInv, HeadInv, Pending, QuietInv, TypeOK
<1>2. CountInv'
  BY CountKept, Zenon
<1>3. QuietInv'
  BY QuietKept, Zenon
<1>4. WaitInv'
  BY WaitKept, Zenon
<1>5. HeadInv'
  BY HeadKept, Zenon
<1>6. CopyInv'
  <2>1. cache[b] = home[b]
    BY DEF CacheInv
  <2>2. \A c \in Blocks : bread(c)' = bread(c)
    BY <2>1, Zenon DEF TypeOK
  <2> QED
    BY SMTT(30), <2>2 DEF CopyInv, TypeOK, HeadInv
<1>7. CacheInv'
  BY DEF CacheInv, HeadInv, Pending, QuietInv, TypeOK
<1> QED
  BY <1>1, <1>2, <1>3, <1>4, <1>5, <1>6, <1>7, Zenon

-----------------------------------------------------------------------------
(* The steps that count the calls.                                         *)

Sets == INSTANCE FiniteSetTheorems

\* IsFiniteSet and Cardinality are those of the library's theorems.
LEMMA SameSets ==
  \A S : (IsFiniteSet(S) <=> Sets!IsFiniteSet(S)) /\ Cardinality(S) = Sets!Cardinality(S)
BY Zenon DEF IsFiniteSet, Sets!IsFiniteSet, Cardinality, Sets!Cardinality

\* The sizes of the empty set, of a part of a set, of a set with one element
\* more or less, of an interval and of a product.
LEMMA SizeOfNone ==
  /\ IsFiniteSet({}) /\ Cardinality({}) = 0
  /\ \A S : IsFiniteSet(S) => (Cardinality(S) = 0 <=> S = {})
BY SameSets, Sets!FS_EmptySet, Zenon

LEMMA SizeIsNat ==
  ASSUME NEW S, IsFiniteSet(S)
  PROVE  Cardinality(S) \in Nat
BY SameSets, Sets!FS_CardinalityType, Zenon

LEMMA SizeOfPart ==
  ASSUME NEW S, IsFiniteSet(S), NEW T \in SUBSET S
  PROVE  IsFiniteSet(T) /\ Cardinality(T) <= Cardinality(S)
<1>1. Sets!IsFiniteSet(T) /\ Sets!Cardinality(T) <= Sets!Cardinality(S)
  BY SameSets, Sets!FS_Subset, Zenon
<1> QED
  BY <1>1, SameSets, Zenon

LEMMA SizeWith ==
  ASSUME NEW S, IsFiniteSet(S), NEW x
  PROVE  /\ IsFiniteSet(S \cup {x})
         /\ Cardinality(S \cup {x}) = IF x \in S THEN Cardinality(S) ELSE Cardinality(S) + 1
BY SameSets, Sets!FS_AddElement, Zenon

LEMMA SizeWithout ==
  ASSUME NEW S, IsFiniteSet(S), NEW x
  PROVE  Cardinality(S \ {x}) = IF x \in S THEN Cardinality(S) - 1 ELSE Cardinality(S)
BY SameSets, Sets!FS_RemoveElement, Zenon

LEMMA SizeOfInterval ==
  ASSUME NEW n \in Nat
  PROVE  IsFiniteSet(1..n) /\ Cardinality(1..n) = n
<1>1. Sets!IsFiniteSet(1..n) /\ Sets!Cardinality(1..n) = IF 1 > n THEN 0 ELSE n - 1 + 1
  BY Sets!FS_Interval
<1>2. Sets!Cardinality(1..n) = n
  BY <1>1
<1> QED
  BY <1>1, <1>2, SameSets, Zenon

LEMMA SizeOfProduct ==
  ASSUME NEW S, NEW T, IsFiniteSet(S), IsFiniteSet(T)
  PROVE  IsFiniteSet(S \X T) /\ Cardinality(S \X T) = Cardinality(S) * Cardinality(T)
<1>1. Sets!IsFiniteSet(S \X T) /\ Sets!Cardinality(S \X T) = Sets!Cardinality(S) * Sets!Cardinality(T)
  BY SameSets, Sets!FS_Product, Zenon
<1> QED
  BY <1>1, SameSets, Zenon

\* The processes inside a call are finitely many, as all processes are.
LEMMA ActiveIsFinite ==
  ASSUME TypeOK
  PROVE  IsFiniteSet(Active) /\ Cardinality(Active) \in Nat
<1>1. Active \subseteq Procs
  BY Zenon DEF Active
<1> QED
  BY <1>1, SizeOfPart, SizeIsNat, LogAssumption, Zenon

\* begin_op preserves the invariant.
LEMMA Inv_begin_op ==
  ASSUME NEW p \in Procs, LogInv, begin_op(p)
  PROVE  LogInv'
<1> USE DEF LogInv, disk, memory, local, CommitPhases, bread, Logged, begin_op, MustWait
<1>a. \/ /\ committing \/ outstanding > 0 \/ Len(lh) > 0
         /\ pc' = [pc EXCEPT ![p] = "sleep"]
         /\ outstanding' = outstanding
      \/ /\ ~committing
         /\ pc' = [pc EXCEPT ![p] = "op"]
         /\ outstanding' = outstanding + 1
  BY DEF NoSpace, TypeOK
<1>b. pc[p] = "begin" /\ UNCHANGED <<disk, lh, committing, cache, pins, boot, wrote, tail>>
  BY Zenon
<1> HIDE DEF begin_op, MustWait
<1>1. TypeOK'
  <2>1. pc' \in [Procs -> {"idle", "begin", "sleep", "op"} \cup CommitPhases]
    BY ZenonT(30), <1>a DEF TypeOK
  <2>2. outstanding' \in Nat
    BY <1>a DEF TypeOK
  <2> QED
    BY <1>b, <2>1, <2>2, Zenon DEF TypeOK
<1>2. CountInv'
  <2>1. \/ Active' = Active /\ outstanding' = outstanding
        \/ Active' = Active \cup {p} /\ p \notin Active /\ outstanding' = outstanding + 1
    BY <1>a, <1>b DEF Active, TypeOK
  <2>2. p \notin Active => Cardinality(Active \cup {p}) = Cardinality(Active) + 1
    BY ActiveIsFinite, SizeWith, Zenon
  <2> QED
    BY <2>1, <2>2, Zenon DEF CountInv
<1>3. QuietInv'
  BY SMTT(30), <1>a, <1>b DEF HeadInv, QuietInv, TypeOK
<1>4. WaitInv'
  BY SMTT(30), <1>a, <1>b DEF HeadInv, QuietInv, SleeperHasWaker, TypeOK, WaitInv
<1>5. HeadInv'
  BY SMTT(30), <1>a, <1>b DEF HeadInv, QuietInv, TypeOK
<1>6. CopyInv'
  BY SMTT(30), <1>a, <1>b DEF CopyInv, HeadInv, QuietInv, TypeOK
<1>7. CacheInv'
  <2>1. \A q \in Procs : pc'[q] = pc[q] \/ (pc[q] = "begin" /\ pc'[q] \in {"sleep", "op"})
    BY <1>a, <1>b, Zenon DEF TypeOK
  <2>2. \A c \in Blocks : Pending(c)' <=> Pending(c)
    BY <1>b, <2>1 DEF Pending
  <2> QED
    BY <1>b, <2>2, Zenon DEF CacheInv
<1> QED
  BY <1>1, <1>2, <1>3, <1>4, <1>5, <1>6, <1>7, Zenon

\* end_op preserves the invariant.
LEMMA Inv_end_op ==
  ASSUME NEW p \in Procs, LogInv, end_op(p)
  PROVE  LogInv'
<1> USE DEF LogInv, disk, memory, local, CommitPhases, bread, Logged, end_op, FirstPhase, wakeup
<1>a. /\ boot = "done" /\ tail = 0
      /\ \A q \in Procs : pc[q] \notin CommitPhases
  BY Zenon DEF QuietInv, HeadInv, TypeOK
<1>b. /\ \A q \in Procs : pc'[q] \in CommitPhases =>
           q = p /\ pc'[q] \in {"committed", "write_log"} /\ outstanding' = 0 /\ committing'
      /\ pc'[p] = "committed" => lh = <<>>
  BY <1>a, Zenon DEF TypeOK
<1>1. TypeOK'
  <2>1. outstanding' \in Nat
    <3>1. p \in Active
      BY Zenon DEF Active
    <3>2. outstanding # 0
      BY <3>1, ActiveIsFinite, SizeOfNone, Zenon DEF CountInv
    <3> QED
      BY <3>2 DEF TypeOK
  <2> QED
    BY Zenon, <2>1 DEF TypeOK
<1>2. CountInv'
  <2>1. Active' = Active \ {p} /\ p \in Active
    BY Zenon DEF Active, TypeOK
  <2> QED
    BY <2>1, ActiveIsFinite, SizeWithout, Zenon DEF CountInv
<1>3. QuietInv'
  <2>1. Active' \subseteq Procs
    BY Zenon DEF Active
  <2>2. outstanding' = 0 => Active' = {}
    BY <1>2, <2>1, SizeOfPart, SizeOfNone, LogAssumption, Zenon DEF CountInv
  <2>3. outstanding' = 0 => \A q \in Procs : pc'[q] # "op"
    BY Zenon, <2>2 DEF Active
  <2> QED
    BY <1>a, <1>b, <2>3 DEF QuietInv, TypeOK
<1>4. WaitInv'
  BY DEF HeadInv, QuietInv, SleeperHasWaker, TypeOK, WaitInv
<1>5. HeadInv'
  BY SMTT(30) DEF HeadInv, QuietInv, TypeOK
<1>6. CopyInv'
  BY <1>a, <1>b DEF CopyInv
<1>7. CacheInv'
  <2>1. \A c \in Blocks : Pending(c)' <=> Pending(c)
    BY Zenon, <1>a, <1>b DEF Pending
  <2> QED
    BY <2>1, Zenon DEF CacheInv
<1> QED
  BY <1>1, <1>2, <1>3, <1>4, <1>5, <1>6, <1>7, Zenon

\* Crash preserves the invariant.
LEMMA Inv_Crash ==
  ASSUME LogInv, Crash
  PROVE  LogInv'
<1> USE DEF LogInv, disk, memory, local, CommitPhases, bread, Logged, Crash
<1>1. TypeOK'
  <2>1. lh' \in Seq(Blocks) /\ Len(lh') <= LOGBLOCKS
    OBVIOUS
  <2>2. cache' \in [Blocks -> Values \cup {Nil}]
    BY Zenon
  <2>3. pins' \in [Blocks -> Nat]
    BY Zenon
  <2>4. pc' \in [Procs -> {"idle", "begin", "sleep", "op"} \cup CommitPhases]
    BY Zenon
  <2>5. wrote' \in [Procs -> SUBSET Blocks]
    BY Zenon
  <2>6. home' \in [Blocks -> Values] /\ logdata' \in [1..LOGBLOCKS -> Values]
    BY Zenon DEF TypeOK
  <2>7. head' \in Seq(Blocks) /\ Len(head') <= LOGBLOCKS
    BY Zenon DEF TypeOK
  <2>8. outstanding' \in Nat /\ tail' \in 0..LOGBLOCKS
    OBVIOUS
  <2>9. committing' \in BOOLEAN
    BY ZenonT(30)
  <2>10. boot' \in {"read_head", "install", "clear_head", "done"}
    BY Zenon
  <2> HIDE DEF Crash
  <2> QED
    BY Zenon, <2>1, <2>2, <2>3, <2>4, <2>5, <2>6, <2>7, <2>8, <2>9, <2>10 DEF TypeOK
<1>2. CountInv'
  <2>1. Active' = {}
    BY Zenon DEF Active
  <2> QED
    BY <2>1, SizeOfNone, Zenon DEF CountInv
<1>3. QuietInv'
  BY Zenon DEF HeadInv, QuietInv, TypeOK
<1>4. WaitInv'
  BY Zenon DEF HeadInv, QuietInv, SleeperHasWaker, TypeOK, WaitInv
<1>5. HeadInv'
  BY SMTT(30) DEF HeadInv, QuietInv, TypeOK
<1>6. CopyInv'
  BY ZenonT(30) DEF CopyInv, HeadInv, QuietInv, TypeOK
<1>7. CacheInv'
  BY Zenon DEF CacheInv, HeadInv, Pending, QuietInv, TypeOK
<1> QED
  BY <1>1, <1>2, <1>3, <1>4, <1>5, <1>6, <1>7, Zenon

\* The initial state, as mkfs leaves the disk, satisfies the invariant.
LEMMA Inv_Init == Init => LogInv
<1> SUFFICES ASSUME Init PROVE LogInv
  BY Zenon
<1> USE DEF Init
<1>1. TypeOK
  <2>1. lh \in Seq(Blocks) /\ Len(lh) <= LOGBLOCKS /\ head \in Seq(Blocks) /\ Len(head) <= LOGBLOCKS
    OBVIOUS
  <2>2. home \in [Blocks -> Values] /\ logdata \in [1..LOGBLOCKS -> Values]
    BY Zenon
  <2>3. cache \in [Blocks -> Values \cup {Nil}] /\ pins \in [Blocks -> Nat]
    BY Zenon
  <2>4. pc \in [Procs -> {"idle", "begin", "sleep", "op"} \cup CommitPhases]
    BY Zenon
  <2>5. wrote \in [Procs -> SUBSET Blocks] /\ outstanding \in Nat /\ tail \in 0..LOGBLOCKS
    OBVIOUS
  <2>6. committing \in BOOLEAN /\ boot \in {"read_head", "install", "clear_head", "done"}
    BY Zenon
  <2> HIDE DEF Init
  <2> QED
    BY Zenon, <2>1, <2>2, <2>3, <2>4, <2>5, <2>6 DEF TypeOK
<1>2. CountInv
  <2>1. Active = {}
    BY Zenon DEF Active
  <2> QED
    BY <2>1, SizeOfNone, Zenon DEF CountInv
<1>3. QuietInv /\ WaitInv
  BY Zenon DEF QuietInv, WaitInv, SleeperHasWaker, CommitPhases
<1>4. HeadInv
  BY DEF HeadInv
<1>5. CopyInv
  BY Zenon DEF CopyInv
<1>6. CacheInv
  BY Zenon DEF CacheInv, Pending
<1> QED
  BY <1>1, <1>2, <1>3, <1>4, <1>5, <1>6, Zenon DEF LogInv

-----------------------------------------------------------------------------
(* The invariant, and what follows from it.                                *)

\* Every step of the log preserves the invariant.
LEMMA Inv_Next == LogInv /\ [Next]_vars => LogInv'
<1> SUFFICES ASSUME LogInv, [Next]_vars PROVE LogInv'
  BY Zenon
<1>1. CASE Recover
  BY <1>1, Inv_read_head, Inv_recover_install, Inv_recover_clear, Zenon DEF Recover
<1>2. ASSUME NEW p \in Procs, Enter(p) \/ begin_op(p) \/ end_op(p) \/ Commit(p)
      PROVE  LogInv'
  BY Zenon, <1>2, Inv_Enter, Inv_begin_op, Inv_end_op, Inv_write_log, Inv_commit_head,
     Inv_install_trans, Inv_clear_head, Inv_commit_done DEF Commit
<1>3. ASSUME NEW p \in Procs, NEW b \in Blocks, NEW v \in Values, log_write(p, b, v)
      PROVE  LogInv'
  BY <1>3, Inv_log_write, Zenon
<1>4. ASSUME NEW b \in Blocks, Fetch(b) \/ Recycle(b)
      PROVE  LogInv'
  BY <1>4, Inv_Fetch, Inv_Recycle, Zenon
<1>5. CASE Crash
  BY <1>5, Inv_Crash, Zenon
<1>6. CASE UNCHANGED vars
  <2>1. UNCHANGED <<home, logdata, head, lh, outstanding, committing, cache, pins, boot, pc, wrote, tail>>
    BY Zenon, <1>6 DEF vars, disk, memory, local
  <2>2. TypeOK'
    BY <2>1, Zenon DEF LogInv, TypeOK
  <2>3. CountInv' /\ QuietInv' /\ WaitInv' /\ HeadInv'
    BY <2>1, CountKept, QuietKept, WaitKept, HeadKept, Zenon DEF LogInv
  <2>4. CopyInv'
    BY <2>1, ZenonT(30) DEF LogInv, CopyInv, bread
  <2>5. \A b \in Blocks : Pending(b)' = Pending(b)
    BY <2>1, Zenon DEF Pending
  <2>6. CacheInv'
    BY <2>1, <2>5, Zenon DEF LogInv, CacheInv
  <2> QED
    BY <2>2, <2>3, <2>4, <2>6, Zenon DEF LogInv
<1> QED
  BY <1>1, <1>2, <1>3, <1>4, <1>5, <1>6, Zenon DEF Next

\* The inductive invariant holds throughout.
THEOREM LogInvariant == Spec => []LogInv
BY Inv_Init, Inv_Next, PTL DEF Spec

\* Every variable of log.c keeps its type: in particular log.outstanding and
\* the reference counts never go below zero, and no loop leaves the log.
THEOREM LogTypeCorrect == Spec => []TypeOK
<1>1. LogInv => TypeOK
  BY Zenon DEF LogInv
<1> QED
  BY <1>1, LogInvariant, PTL

\* A commit only ever runs with no call in progress (log.c:13).
THEOREM CommitQuiescent == Spec => []CommitIsQuiescent
<1>1. LogInv => CommitIsQuiescent
  BY DEF LogInv, QuietInv, CommitIsQuiescent, Committers, Active
<1> QED
  BY <1>1, LogInvariant, PTL

\* No process sleeps in begin_op() with nobody left to wake it.
THEOREM NoLostWakeup == Spec => []SleeperHasWaker
<1>1. LogInv => SleeperHasWaker
  BY Zenon DEF LogInv, WaitInv
<1> QED
  BY <1>1, LogInvariant, PTL

\* bpin() and bunpin() balance, and no update is evicted before it is home.
THEOREM PinDiscipline == Spec => []PinnedUntilInstalled
<1>1. ASSUME LogInv, boot = "done", NEW b \in Blocks
      PROVE  b \in NotInstalled <=> Pending(b)
  <2> USE <1>1 DEF LogInv
  <2>1. CASE \E p \in Procs : pc[p] = "clear_head"
    <3>0. \A p \in Procs : pc[p] # "install"
      BY <2>1, Zenon DEF QuietInv, CommitPhases
    <3>1. Copied = Len(lh) /\ Len(lh) \in Nat
      BY <2>1, <3>0 DEF Copied, TypeOK
    <3>2. (Copied + 1)..Len(lh) = {}
      BY <3>1
    <3> QED
      BY <2>1, <3>2, Zenon DEF NotInstalled, Pending
  <2>2. CASE \E p \in Procs : pc[p] = "install"
    <3>1. \A p \in Procs : pc[p] # "clear_head"
      BY <2>2, Zenon DEF QuietInv, CommitPhases
    <3>2. Copied = tail
      BY <2>2, <3>1, Zenon DEF Copied
    <3>3. tail \in Nat /\ Len(lh) \in Nat
      BY DEF TypeOK
    <3>4. \A i \in 1..Len(lh) : i > tail <=> i \in (tail + 1)..Len(lh)
      BY <3>3
    <3>5. (tail + 1)..Len(lh) \subseteq 1..Len(lh)
      BY SMTT(30), <3>3
    <3> QED
      BY <2>2, <3>1, <3>2, <3>4, <3>5, Zenon DEF NotInstalled, Pending
  <2>3. CASE \A p \in Procs : pc[p] \notin {"install", "clear_head"}
    <3>1. Copied = 0
      BY <2>3, Zenon DEF Copied
    <3> QED
      BY SMTT(30), <2>3, <3>1 DEF NotInstalled, Pending, TypeOK
  <2> QED
    BY <2>1, <2>2, <2>3, Zenon
<1>2. LogInv => PinnedUntilInstalled
  BY <1>1, Zenon DEF PinnedUntilInstalled, LogInv, CacheInv
<1> QED
  BY <1>2, LogInvariant, PTL
=============================================================================
