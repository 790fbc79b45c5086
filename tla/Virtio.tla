------------------------------- MODULE Virtio -------------------------------
(***************************************************************************)
(* The virtio disk driver (kernel/virtio_disk.c, kernel/virtio.h) and the  *)
(* device it talks to through descriptors and two rings in shared memory.  *)
(* A request is a chain of three descriptors: header, data, status.        *)
(*                                                                         *)
(* A critical section of vdisk_lock is one step, but for the interrupt     *)
(* handler: the device adds to the used ring while the handler runs, so    *)
(* the handler takes a step per entry and holds the lock in between.  The  *)
(* device (external) finishes requests in any order; it is assumed to      *)
(* report success, status 0.  Ring slots and headers that have been read   *)
(* are reset, so that states do not differ in what nobody reads again.     *)
(***************************************************************************)
EXTENDS Integers, FiniteSets, FiniteSetsExt

CONSTANTS
  NUM,        \* descriptors, and entries of each ring
  IdxMod,     \* range of the uint16 ring counters
  NBUF,       \* buffers
  Blocks,     \* block numbers
  NoBlock,    \* b->blockno while b->dev is 0
  Procs       \* processes

\* A ring slot is idx % NUM, so NUM must divide the range of idx.
ASSUME VirtioAssumption ==
  /\ NUM \in Nat /\ NUM >= 3
  /\ IdxMod \in Nat /\ IdxMod >= NUM /\ IdxMod % NUM = 0
  /\ NBUF \in Nat
  /\ NoBlock \notin Blocks

Descs == 0..(NUM - 1)
Bufs == 1..NBUF
NoBuf == 0

\* What a block or a buffer holds: the contents of which block, and whether they
\* are the last ones stored there.
Content == [of : Blocks \cup {NoBlock}, latest : BOOLEAN]

VARIABLES
  free,       \* [Descs]: disk.free
  desc,       \* [Descs]: disk.desc: addr, flags, next
  ops,        \* [Descs]: disk.ops: type and sector
  info,       \* [Descs]: disk.info: b and status
  avail,      \* disk.avail: idx and ring
  used,       \* disk.used: idx and ring
  used_idx,   \* disk.used_idx
  bdisk,      \* [Bufs]: b->disk
  bdata,      \* [Bufs]: b->data
  rq,         \* [Procs]: where a process is in virtio_disk_rw(), and its locals
  handler,    \* the interrupt handler is running, with vdisk_lock
  irq,        \* the device asks for an interrupt
  dev_idx,    \* how far the device has read the avail ring
  busy,       \* chains the device is working on
  store       \* [Blocks]: the disk

queue == <<free, desc, ops, info, avail, used, used_idx>>
device == <<dev_idx, busy, store>>
virtio == <<queue, device, bdisk, bdata, rq, handler, irq>>

NoRq == [at |-> "none", b |-> NoBuf, write |-> FALSE, idx |-> 0]
NoOp == [write |-> FALSE, sector |-> NoBlock]
NoDesc == [addr |-> <<"none", 0>>, flags |-> {}, next |-> 0]

\* virtio_disk_init(): zeroed rings, every descriptor free.
VirtioInit ==
  /\ free = [i \in Descs |-> TRUE]
  /\ desc = [i \in Descs |-> NoDesc]
  /\ ops = [i \in Descs |-> NoOp]
  /\ info = [i \in Descs |-> [b |-> NoBuf, status |-> 0]]
  /\ avail = [idx |-> 0, ring |-> [i \in Descs |-> 0]]
  /\ used = [idx |-> 0, ring |-> [i \in Descs |-> 0]]
  /\ used_idx = 0
  /\ bdisk = [b \in Bufs |-> FALSE]
  /\ bdata = [b \in Bufs |-> [of |-> NoBlock, latest |-> FALSE]]
  /\ rq = [p \in Procs |-> NoRq]
  /\ handler = FALSE /\ irq = FALSE
  /\ dev_idx = 0 /\ busy = {}
  /\ store = [k \in Blocks |-> [of |-> k, latest |-> TRUE]]

-----------------------------------------------------------------------------
(* The driver                                                              *)

FreeDescs == {i \in Descs : free[i]}

\* The descriptors of the chain that starts at i, as free_chain() follows it.
Chain(i) ==
  LET chain[d \in Descs] ==
        IF "NEXT" \in desc[d].flags THEN {d} \cup chain[desc[d].next] ELSE {d}
  IN chain[i]

\* wakeup(&disk.free[0]): who sleeps for descriptors tries again.
Awake(rqs) ==
  [p \in Procs |-> IF rqs[p].at = "sleep_free" THEN [rqs[p] EXCEPT !.at = "rw"] ELSE rqs[p]]

\* Mutant: the last of the descriptors that it had is not given back.
GivenBack_ButLast(taken) == {i \in taken : \E j \in taken : i < j}

GivenBack(taken) == taken

\* alloc3_desc() fails: free_desc() gives back the one or two it had and wakes
\* everyone else; the caller sleeps.
virtio_disk_rw_full(p) ==
  /\ rq[p].at = "rw" /\ ~handler
  /\ Cardinality(FreeDescs) < 3
  /\ free' = [i \in Descs |-> i \in GivenBack(FreeDescs)]
  /\ rq' = [(IF FreeDescs = {} THEN rq ELSE Awake(rq)) EXCEPT ![p].at = "sleep_free"]
  /\ UNCHANGED <<desc, ops, info, avail, used, used_idx, device, bdisk, bdata, handler, irq>>

\* The virtio_blk_req of a request.
Header(p, k) == [write |-> rq[p].write, sector |-> k]

\* alloc3_desc() succeeds: fill the chain, publish its head, notify the device and
\* sleep(b, &disk.vdisk_lock), all under the lock.  k is b->blockno.
virtio_disk_rw_submit(p, k) ==
  LET i0 == Min(FreeDescs)
      i1 == Min(FreeDescs \ {i0})
      i2 == Min(FreeDescs \ {i0, i1})
      b == rq[p].b IN
  /\ rq[p].at = "rw" /\ ~handler
  /\ Cardinality(FreeDescs) >= 3
  /\ free' = [free EXCEPT ![i0] = FALSE, ![i1] = FALSE, ![i2] = FALSE]
  /\ ops' = [ops EXCEPT ![i0] = Header(p, k)]
  /\ desc' = [desc EXCEPT
       ![i0] = [addr |-> <<"op", i0>>, flags |-> {"NEXT"}, next |-> i1],
       ![i1] = [addr |-> <<"buf", b>>, next |-> i2,
                flags |-> {"NEXT"} \cup (IF rq[p].write THEN {} ELSE {"WRITE"})],
       ![i2] = [addr |-> <<"status", i0>>, flags |-> {"WRITE"}, next |-> 0]]
  /\ info' = [info EXCEPT ![i0] = [b |-> b, status |-> 255]]
  /\ bdisk' = [bdisk EXCEPT ![b] = TRUE]
  /\ avail' = [idx |-> (avail.idx + 1) % IdxMod,
               ring |-> [avail.ring EXCEPT ![avail.idx % NUM] = i0]]
  /\ rq' = [rq EXCEPT ![p].at = "sleep", ![p].idx = i0]
  /\ UNCHANGED <<used, used_idx, device, bdata, handler, irq>>

\* Mutant: any wakeup will do.
Done_Woken(b) == TRUE

\* What virtio_disk_rw() tests each time it is woken.
Done(b) == ~bdisk[b]

\* Woken up by something else: sleep(b, &disk.vdisk_lock) again.
virtio_disk_rw_sleep(p) ==
  /\ rq[p].at = "woken" /\ ~handler /\ ~Done(rq[p].b)
  /\ rq' = [rq EXCEPT ![p].at = "sleep"]
  /\ UNCHANGED <<queue, device, bdisk, bdata, handler, irq>>

\* The handler has cleared b->disk: give the chain back and return.
virtio_disk_rw_done(p) ==
  /\ rq[p].at = "woken" /\ ~handler /\ Done(rq[p].b)
  /\ info' = [info EXCEPT ![rq[p].idx].b = NoBuf]
  /\ free' = [i \in Descs |-> free[i] \/ i \in Chain(rq[p].idx)]
  /\ desc' = [i \in Descs |-> IF i \in Chain(rq[p].idx) THEN NoDesc ELSE desc[i]]
  /\ ops' = [ops EXCEPT ![rq[p].idx] = NoOp]
  /\ rq' = [Awake(rq) EXCEPT ![p] = NoRq]
  /\ UNCHANGED <<avail, used, used_idx, device, bdisk, bdata, handler, irq>>

\* virtio_disk_intr(): acquire and acknowledge, then one step for each entry the
\* device has added, then release.
virtio_disk_intr ==
  /\ irq /\ ~handler
  /\ handler' = TRUE
  /\ irq' = FALSE
  /\ UNCHANGED <<queue, device, bdisk, bdata, rq>>

\* Mutant: nobody is woken up.
Woken_None(b) == rq

\* wakeup(b).
Woken(b) ==
  [p \in Procs |-> IF rq[p].at = "sleep" /\ rq[p].b = b THEN [rq[p] EXCEPT !.at = "woken"] ELSE rq[p]]

virtio_disk_intr_entry ==
  LET id == used.ring[used_idx % NUM] IN
  /\ handler /\ used_idx # used.idx
  /\ info[id].status = 0
  /\ bdisk' = [bdisk EXCEPT ![info[id].b] = FALSE]
  /\ rq' = Woken(info[id].b)
  /\ used_idx' = (used_idx + 1) % IdxMod
  /\ used' = [used EXCEPT !.ring[used_idx % NUM] = 0]
  /\ UNCHANGED <<free, desc, ops, info, avail, device, bdata, handler, irq>>

virtio_disk_intr_end ==
  /\ handler /\ used_idx = used.idx
  /\ handler' = FALSE
  /\ UNCHANGED <<queue, device, bdisk, bdata, rq, irq>>

\* kill() wakes up a process that sleeps in virtio_disk_rw(), on either channel.
kkill(p) ==
  /\ rq[p].at \in {"sleep", "sleep_free"}
  /\ rq' = [rq EXCEPT ![p].at = IF @ = "sleep" THEN "woken" ELSE "rw"]
  /\ UNCHANGED <<queue, device, bdisk, bdata, handler, irq>>

-----------------------------------------------------------------------------
(* The device (external): it takes chains off the avail ring, carries them *)
(* out in any order, and puts their heads on the used ring.                *)

device_take ==
  /\ dev_idx # avail.idx
  /\ busy' = busy \cup {avail.ring[dev_idx % NUM]}
  /\ dev_idx' = (dev_idx + 1) % IdxMod
  /\ avail' = [avail EXCEPT !.ring[dev_idx % NUM] = 0]
  /\ UNCHANGED <<free, desc, ops, info, used, used_idx, store, bdisk, bdata, rq, handler, irq>>

device_complete(h) ==
  LET data == desc[desc[h].next]
      status == desc[data.next]
      b == data.addr[2] IN
  /\ h \in busy
  /\ busy' = busy \ {h}
  /\ IF ops[h].write
       THEN store' = [store EXCEPT ![ops[h].sector] = bdata[b]] /\ UNCHANGED bdata
       ELSE bdata' = [bdata EXCEPT ![b] = store[ops[h].sector]] /\ UNCHANGED store
  /\ info' = [info EXCEPT ![status.addr[2]].status = 0]
  /\ used' = [idx |-> (used.idx + 1) % IdxMod,
              ring |-> [used.ring EXCEPT ![used.idx % NUM] = h]]
  /\ irq' = TRUE
  /\ UNCHANGED <<free, desc, ops, avail, used_idx, dev_idx, bdisk, rq, handler>>

\* The driver by itself: its callers hold the lock of the buffer they pass.
virtio_disk_rw(p, b, write) ==
  /\ rq[p].at = "none" /\ \A q \in Procs : rq[q].b # b
  /\ rq' = [rq EXCEPT ![p] = [at |-> "rw", b |-> b, write |-> write, idx |-> 0]]
  /\ UNCHANGED <<queue, device, bdisk, bdata, handler, irq>>

Disk ==
  \/ virtio_disk_intr \/ virtio_disk_intr_entry \/ virtio_disk_intr_end
  \/ device_take \/ \E h \in Descs : device_complete(h)

RwStep(p) ==
  \/ virtio_disk_rw_full(p) \/ virtio_disk_rw_sleep(p) \/ virtio_disk_rw_done(p) \/ kkill(p)
  \/ \E k \in Blocks : virtio_disk_rw_submit(p, k)

VirtioNext ==
  \/ Disk
  \/ \E p \in Procs : RwStep(p) \/ \E b \in Bufs, write \in BOOLEAN : virtio_disk_rw(p, b, write)

VirtioSpec == VirtioInit /\ [][VirtioNext]_virtio

-----------------------------------------------------------------------------
(* Properties                                                              *)

VirtioTypeOK ==
  /\ free \in [Descs -> BOOLEAN]
  /\ desc \in [Descs -> [addr : {"none", "op", "buf", "status"} \X Nat,
                         flags : SUBSET {"NEXT", "WRITE"}, next : Descs]]
  /\ ops \in [Descs -> [write : BOOLEAN, sector : Blocks \cup {NoBlock}]]
  /\ info \in [Descs -> [b : Bufs \cup {NoBuf}, status : {0, 255}]]
  /\ avail \in [idx : 0..(IdxMod - 1), ring : [Descs -> Descs]]
  /\ used \in [idx : 0..(IdxMod - 1), ring : [Descs -> Descs]]
  /\ used_idx \in 0..(IdxMod - 1) /\ dev_idx \in 0..(IdxMod - 1)
  /\ bdisk \in [Bufs -> BOOLEAN] /\ bdata \in [Bufs -> Content]
  /\ rq \in [Procs -> [at : {"none", "rw", "sleep_free", "sleep", "woken"}, b : Bufs \cup {NoBuf},
                       write : BOOLEAN, idx : Descs]]
  /\ handler \in BOOLEAN /\ irq \in BOOLEAN
  /\ busy \subseteq Descs /\ store \in [Blocks -> Content]

Waiting == {p \in Procs : rq[p].at \in {"sleep", "woken"}}

\* Ring entries between two counters.
Entries(ring, from, to) ==
  {ring[(from + i) % NUM] : i \in 0..(((to - from) % IdxMod) - 1)}

\* Every descriptor is free or in the chain of exactly one waiting request: none
\* is lost, none is freed twice (free_desc() would panic), and two requests never
\* share one.
ChainsDisjoint ==
  /\ FreeDescs = Descs \ UNION {Chain(rq[p].idx) : p \in Waiting}
  /\ \A p \in Waiting : Cardinality(Chain(rq[p].idx)) = 3
  /\ \A p, q \in Waiting : p # q => Chain(rq[p].idx) \cap Chain(rq[q].idx) = {}

\* A request is in exactly one place: on the avail ring, with the device, on the
\* used ring, or done; and b->disk is set up to and including the used ring.  The
\* rings hold no request twice and do not overflow.
RequestsTracked ==
  LET todo == Entries(avail.ring, dev_idx, avail.idx)
      done == Entries(used.ring, used_idx, used.idx) IN
  /\ (avail.idx - dev_idx) % IdxMod = Cardinality(todo)
  /\ (used.idx - used_idx) % IdxMod = Cardinality(done)
  /\ todo \cap busy = {} /\ busy \cap done = {} /\ done \cap todo = {}
  /\ todo \cup busy \cup done = {rq[p].idx : p \in {q \in Waiting : bdisk[rq[q].b]}}
  /\ \A h \in todo \cup busy \cup done :
       bdisk[info[h].b] /\ desc[desc[h].next].addr = <<"buf", info[h].b>>

\* A process sleeps for descriptors only while there are not enough for it.
DescriptorsWanted ==
  \A p \in Procs : rq[p].at = "sleep_free" => Cardinality(FreeDescs) < 3

\* The device's work is never forgotten: as long as the used ring has an entry the
\* driver has not looked at, an interrupt is pending or its handler is running.
CompletionSignalled == used_idx # used.idx => irq \/ handler

\* Nobody sleeps for what is already there: neither for descriptors (alloc3_desc()),
\* nor for a completion that no interrupt will announce, nor on a buffer that the
\* handler has finished (virtio_disk_intr()), whenever the interrupt comes.
WaitersServed ==
  /\ DescriptorsWanted
  /\ CompletionSignalled
  /\ \A p \in Procs : rq[p].at = "sleep" => bdisk[rq[p].b]
=============================================================================
