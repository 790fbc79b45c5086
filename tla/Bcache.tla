------------------------------- MODULE Bcache -------------------------------
(***************************************************************************)
(* The buffer cache (kernel/bio.c) over the disk of Virtio: the list of    *)
(* buffers in the order of their use, linked through prev and next, their  *)
(* reference counts and sleep-locks, and the recycling of the least        *)
(* recently used one.                                                      *)
(*                                                                         *)
(* The users of the cache do what the file system does: read a block, and  *)
(* write it through before they let go of it (the log's own blocks) or pin *)
(* it in the cache to be written later by whoever commits (log_write() and *)
(* install_trans()).  The log pins a block once.                           *)
(***************************************************************************)
EXTENDS Virtio

CONSTANTS
  LOGSIZE,    \* how many blocks the log may have pinned
  NoProc      \* b->lock is free

VARIABLES
  blockno,    \* [Bufs]: b->blockno, or NoBlock while b->dev is 0
  valid,      \* [Bufs]: b->valid
  refcnt,     \* [Bufs]: b->refcnt
  lock,       \* [Bufs]: holder of b->lock
  prev,       \* b->prev, with Head for bcache.head
  next,       \* b->next
  pc,         \* [Procs]: where the process is
  cur,        \* [Procs]: the buffer it uses
  pinned      \* history: the blocks the log has pinned

Head == 0

ASSUME BcacheAssumption == LOGSIZE \in Nat /\ NoProc \notin Procs

cache == <<blockno, valid, refcnt, prev, next>>
vars == <<virtio, cache, lock, pc, cur, pinned>>

\* binit(): each buffer in turn goes to the front.
Init ==
  /\ VirtioInit
  /\ blockno = [b \in Bufs |-> NoBlock]
  /\ valid = [b \in Bufs |-> FALSE]
  /\ refcnt = [b \in Bufs |-> 0]
  /\ lock = [b \in Bufs |-> NoProc]
  /\ next = [b \in 0..NBUF |-> IF b = Head THEN NBUF ELSE b - 1]
  /\ prev = [b \in 0..NBUF |-> IF b = NBUF THEN Head ELSE b + 1]
  /\ pc = [p \in Procs |-> "idle"]
  /\ cur = [p \in Procs |-> NoBuf]
  /\ pinned = {}

At(p, place) == pc[p] = place
Goto(p, place) == pc' = [pc EXCEPT ![p] = place]

-----------------------------------------------------------------------------
(* bio.c                                                                   *)

\* The i-th buffer from the old end of the list.
Oldest(i) == LET walk[n \in 0..NBUF] == IF n = 0 THEN Head ELSE prev[walk[n - 1]] IN walk[i]

Cached(k) == {b \in Bufs : blockno[b] = k}

\* Mutant: a buffer that is in use is recycled.
Recyclable_Used(b) == lock[b] = NoProc

Recyclable(b) == refcnt[b] = 0

\* bget() finds the block, or recycles the least recently used free buffer; then
\* it waits for the buffer's lock.  With every buffer in use it would panic: that
\* call is not made.
bget(p, k) ==
  /\ At(p, "idle")
  /\ IF Cached(k) # {}
       THEN \E b \in Cached(k) :
              /\ refcnt' = [refcnt EXCEPT ![b] = @ + 1]
              /\ cur' = [cur EXCEPT ![p] = b]
              /\ UNCHANGED <<blockno, valid>>
       ELSE LET old == {i \in 1..NBUF : Recyclable(Oldest(i))}
                b == Oldest(Min(old)) IN
            /\ old # {}
            /\ blockno' = [blockno EXCEPT ![b] = k]
            /\ valid' = [valid EXCEPT ![b] = FALSE]
            /\ refcnt' = [refcnt EXCEPT ![b] = 1]
            /\ cur' = [cur EXCEPT ![p] = b]
  /\ Goto(p, "acquiresleep")
  /\ UNCHANGED <<virtio, lock, prev, next, pinned>>

\* The call of virtio_disk_rw().
Transfer(p, write) ==
  rq' = [rq EXCEPT ![p] = [at |-> "rw", b |-> cur[p], write |-> write, idx |-> 0]]

\* bread() has the lock: read the block in unless that is done.
bread(p) ==
  LET b == cur[p] IN
  /\ At(p, "acquiresleep") /\ lock[b] = NoProc
  /\ lock' = [lock EXCEPT ![b] = p]
  /\ IF valid[b] THEN Goto(p, "held") /\ UNCHANGED rq
                 ELSE Goto(p, "fill") /\ Transfer(p, FALSE)
  /\ UNCHANGED <<queue, device, bdisk, bdata, handler, irq, cache, cur, pinned>>

bread_done(p) ==
  /\ At(p, "fill")
  /\ virtio_disk_rw_done(p)
  /\ valid' = [valid EXCEPT ![cur[p]] = TRUE]
  /\ Goto(p, "held")
  /\ UNCHANGED <<blockno, refcnt, prev, next, lock, cur, pinned>>

bwrite(p) ==
  /\ \/ At(p, "dirty")
     \/ At(p, "held") /\ blockno[cur[p]] \in pinned
  /\ Transfer(p, TRUE)
  /\ Goto(p, "flush")
  /\ UNCHANGED <<queue, device, bdisk, bdata, handler, irq, cache, lock, cur, pinned>>

bwrite_done(p) ==
  /\ At(p, "flush")
  /\ virtio_disk_rw_done(p)
  /\ Goto(p, "flushed")
  /\ UNCHANGED <<cache, lock, cur, pinned>>

\* Mutant: bcache.head.next is assigned before it is followed.
Front_Swapped(b) ==
  LET p1 == [prev EXCEPT ![next[b]] = prev[b]]
      n1 == [next EXCEPT ![prev[b]] = next[b]]
      n2 == [n1 EXCEPT ![b] = n1[Head]]
      n3 == [n2 EXCEPT ![Head] = b]
      p2 == [p1 EXCEPT ![b] = Head]
      p3 == [p2 EXCEPT ![n3[Head]] = b] IN
  [prev |-> p3, next |-> n3]

\* The list after b was moved to the front: it is taken out and put back by the
\* assignments of the code, in their order.
Front(b) ==
  LET p1 == [prev EXCEPT ![next[b]] = prev[b]]
      n1 == [next EXCEPT ![prev[b]] = next[b]]
      n2 == [n1 EXCEPT ![b] = n1[Head]]
      p2 == [p1 EXCEPT ![b] = Head]
      p3 == [p2 EXCEPT ![n2[Head]] = b]
      n3 == [n2 EXCEPT ![Head] = b] IN
  [prev |-> p3, next |-> n3]

\* brelse(): let go of the buffer, and then of the reference.
brelse(p) ==
  /\ \/ At(p, "held") \/ At(p, "put")
     \/ At(p, "dirty") /\ blockno[cur[p]] \in pinned
  /\ lock' = [lock EXCEPT ![cur[p]] = NoProc]
  /\ Goto(p, "brelse")
  /\ UNCHANGED <<virtio, cache, cur, pinned>>

brelse_ref(p) ==
  LET b == cur[p] IN
  /\ At(p, "brelse")
  /\ refcnt' = [refcnt EXCEPT ![b] = @ - 1]
  /\ IF refcnt[b] = 1 THEN prev' = Front(b).prev /\ next' = Front(b).next
                      ELSE UNCHANGED <<prev, next>>
  /\ cur' = [cur EXCEPT ![p] = NoBuf]
  /\ Goto(p, "idle")
  /\ UNCHANGED <<virtio, blockno, valid, lock, pinned>>

\* Mutant: the buffer is left unpinned.
bpin_None(p) ==
  /\ At(p, "dirty") /\ Cardinality(pinned) < LOGSIZE /\ blockno[cur[p]] \notin pinned
  /\ pinned' = pinned \cup {blockno[cur[p]]}
  /\ Goto(p, "put")
  /\ UNCHANGED <<virtio, cache, lock, cur>>

\* bpin(), from log_write(); the block stays in the cache.
bpin(p) ==
  /\ At(p, "dirty") /\ Cardinality(pinned) < LOGSIZE /\ blockno[cur[p]] \notin pinned
  /\ pinned' = pinned \cup {blockno[cur[p]]}
  /\ refcnt' = [refcnt EXCEPT ![cur[p]] = @ + 1]
  /\ Goto(p, "put")
  /\ UNCHANGED <<virtio, blockno, valid, prev, next, lock, cur>>

\* bunpin(), from install_trans(), once the block is written.
bunpin(p) ==
  LET k == blockno[cur[p]] IN
  /\ At(p, "flushed")
  /\ refcnt' = IF k \in pinned THEN [refcnt EXCEPT ![cur[p]] = @ - 1] ELSE refcnt
  /\ pinned' = pinned \ {k}
  /\ Goto(p, "put")
  /\ UNCHANGED <<virtio, blockno, valid, prev, next, lock, cur>>

\* The user of the cache changes b->data: every other copy is out of date.
modify(p) ==
  LET k == blockno[cur[p]] IN
  /\ At(p, "held")
  /\ bdata' = [bdata EXCEPT ![cur[p]] = [of |-> k, latest |-> TRUE]]
  /\ store' = [store EXCEPT ![k].latest = FALSE]
  /\ Goto(p, "dirty")
  /\ UNCHANGED <<queue, dev_idx, busy, bdisk, rq, handler, irq, cache, lock, cur, pinned>>

\* virtio_disk_rw() of p.
transfer(p) ==
  /\ \/ virtio_disk_rw_full(p) \/ virtio_disk_rw_submit(p, blockno[cur[p]])
     \/ virtio_disk_rw_sleep(p) \/ kkill(p)
  /\ UNCHANGED <<cache, lock, pc, cur, pinned>>

\* What a process goes on with once it has called bread().
Step(p) ==
  \/ bread(p) \/ bread_done(p) \/ bwrite_done(p) \/ brelse_ref(p)
  \/ bunpin(p) \/ transfer(p)

Use(p) == bwrite(p) \/ brelse(p) \/ bpin(p) \/ modify(p) \/ \E k \in Blocks : bget(p, k)

DiskStep == Disk /\ UNCHANGED <<cache, lock, pc, cur, pinned>>

Next == DiskStep \/ \E p \in Procs : Step(p) \/ Use(p)

Spec == Init /\ [][Next]_vars

-----------------------------------------------------------------------------
(* Properties                                                              *)

TypeOK ==
  /\ VirtioTypeOK
  /\ blockno \in [Bufs -> Blocks \cup {NoBlock}]
  /\ valid \in [Bufs -> BOOLEAN]
  /\ refcnt \in [Bufs -> Nat]
  /\ lock \in [Bufs -> Procs \cup {NoProc}]
  /\ prev \in [0..NBUF -> 0..NBUF] /\ next \in [0..NBUF -> 0..NBUF]
  /\ pc \in [Procs -> {"idle", "acquiresleep", "fill", "held", "dirty", "flush",
                       "flushed", "put", "brelse"}]
  /\ cur \in [Procs -> Bufs \cup {NoBuf}]
  /\ pinned \subseteq Blocks

\* The list stays one ring of all the buffers, the same in both directions,
\* through every order of releases (bio.c:128-133).
ListLinked ==
  /\ {Oldest(i) : i \in 1..NBUF} = Bufs
  /\ \A b \in 0..NBUF : next[prev[b]] = b /\ prev[next[b]] = b

\* One copy of a block: two processes that want it share the buffer, and take
\* turns by its lock (bio.c:66-73).
CachedOnce ==
  \A b, c \in Bufs : b # c => blockno[b] # blockno[c] \/ blockno[b] = NoBlock

\* refcnt counts the processes at the buffer and the log's pin; a process's buffer
\* is still the buffer of the block it asked for, and the device owns a buffer only
\* for the process that has it locked.
BufferHeld ==
  /\ \A b \in Bufs :
       refcnt[b] = Cardinality({p \in Procs : cur[p] = b})
                     + Cardinality(pinned \cap {blockno[b]})
  /\ \A b \in Bufs : bdisk[b] => \E p \in Procs : lock[b] = p /\ rq[p].b = b

\* The promise of the cache: the holder of a buffer sees the last contents stored
\* in the block by anyone, and a block with no valid buffer is up to date on the
\* disk, so recycling a buffer loses nothing.
CacheCoherent ==
  \A k \in Blocks :
    LET copies == {b \in Cached(k) : valid[b]} IN
    /\ \A b \in copies : bdata[b] = [of |-> k, latest |-> TRUE]
    /\ copies = {} => store[k] = [of |-> k, latest |-> TRUE]

\* A buffer is its block's for as long as anyone needs it: bget() neither makes a
\* second copy of a block nor recycles a buffer in use.
BuffersShared == TypeOK /\ CachedOnce /\ BufferHeld
=============================================================================
