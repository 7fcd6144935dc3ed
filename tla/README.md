# Verification of the multimedia fence stack of kernel_oneplus_sm8650-modules

The repository is the tree of out-of-tree kernel modules of a phone: some forty
drivers (audio, camera, display, video, graphics, WLAN, IPA, NFC, touch, DSP,
secure services ...) that share little with one another.  This project models
the subsystem in which the hardest coordination happens: the **fence stack** of
`src/qcom/opensource/mm-drivers`, through which GPU, display, camera and video
tell each other that a buffer is ready without waking the CPU.

## 1. Inventory

### 1.1 The parts of the fence stack

| part | source (under `mm-drivers/`) | state it keeps | operations |
|---|---|---|---|
| Inter-VM lock | `hw_fence/src/hw_fence_drv_utils.c` (`_lock`, `_unlock`, `global_atomic_store`) | a 64-bit word per table entry and per client Rx queue; bit 0 = driver, bit 1 = fence controller (SVM) | lock, unlock, wake the SVM |
| Client queues | `hw_fence/src/hw_fence_drv_priv.c` (`hw_fence_update_queue`, `hw_fence_read_queue_helper`, `hw_fence_update_existing_txq_payload`, `hw_fence_utils_reset_queues`) | ring buffers in shared memory: read, write and "tx working" index, payload slots; optional index translation | append, read, mark an error in a queued payload, reset |
| Fence table | `hw_fence_drv_priv.c` (`_hw_fence_lookup_and_process`, `hw_fence_create`, `hw_fence_destroy`, ...) | open-addressed hash table of hw-fences in memory shared with the fence controller | create, create join, find, destroy |
| Waiting and join fences | `hw_fence_drv_priv.c` (`hw_fence_register_wait_client`, `hw_fence_process_fence_array`, `_cleanup_join_and_child_fences`) | wait mask, parents of each fence, pending children of each join fence | register a waiter, link an array to its children, undo on failure |
| Client recovery | `hw_fence_drv_priv.c` (`hw_fence_utils_cleanup_fence`), `msm_hw_fence.c` (`msm_hw_fence_reset_client`) | - | drop a client's waits, signal with error and destroy the fences it owns |
| Client registry | `msm_hw_fence.c` | `clients[]`, error callback of each client, readiness flags | register, deregister, register/deregister error callback, entry points |
| Doorbell | `hw_fence_drv_utils.c` (`hw_fence_utils_process_doorbell_mask`, `_process_fence_error_client_loopback`) | the control Rx queue | deliver fence errors to the clients' callbacks |
| Speculative fences | `sync_fence/src/qcom_sync_file.c` | open count, list of unbound fence arrays, a shared dummy fence | open, release, create, bind, wait for bind |
| Synx translation | `msm_hw_fence_synx_translation.c` | none | a thin wrapper of the hw-fence API |
| ioctl and debugfs | `hw_fence_ioctl.c`, `hw_fence_drv_debug.c` | validation clients | test interface |
| IPC registers | `hw_fence_drv_ipc.c` | register addresses | trigger a signal |
| External display | `msm_ext_display/src/msm_ext_display.c` | codec list, session state | hot-plug notification between display and audio |

### 1.2 How they interact

* A *client* (display, GPU, ...) registers, gets a Tx and an Rx queue, creates
  hw-fences in the table and later reports "this fence has signalled" by
  appending a payload to its Tx queue and ringing the fence controller.
* The *fence controller* (another VM, not in this repository) drains the Tx
  queues, marks the table entry signalled, decrements the pending count of the
  parents of the entry, and appends a payload to the Rx queue of every client
  in the wait mask.  The driver does the same itself when a fence turns out to
  be signalled at the moment a client starts to wait on it.
* Both sides synchronise only through the lock word of each entry and queue,
  the order of their stores, and IPC signals.
* A *waiter* reads its Rx queue without a lock; the writers of that queue (any
  driver thread, and the fence controller) share the client's lock word.
* A *client that recovers* (GPU hang, display reset) walks the whole table in
  `msm_hw_fence_reset_client`, while all other clients keep working.
* Speculative fences (`sync_fence`) hand out fence arrays before the fences
  exist; the arrays are then waited on like any other.

### 1.3 What is hard here

* **Lock words shared by two operating systems.** No side can sleep on the
  other's lock; the only tools are exclusive loads and stores and an IPC signal.
* **A hash table without a table lock.** A lookup locks one entry at a time, so
  creates and destroys happen in front of and behind a lookup under way, and
  destroyed entries are holes, not tombstones.
* **Checks outside the lock.** `hw_fence_register_wait_client` reads the signal
  flag after it has unlocked; `hw_fence_destroy_with_hash` and
  `hw_fence_utils_cleanup_fence` read allocator and key without the lock.
* **Two parties count down one counter.** While the driver links an array to its
  children, the fence controller already signals some of them.
* **Undo.** An array that fails half way must disappear from children that
  other arrays use too.
* **Recovery.** A reset touches every entry and races with everything.
* **Bounds.** A few parents per fence, a ring with one slot always free, a
  doorbell that drains at most a fixed number of payloads.

`PROJECT.json` lists each of these as a hazard, at its line.

### 1.4 What makes each part correct

| part | properties |
|---|---|
| Inter-VM lock | one owner; the request bit of the SVM is never overwritten; no wake-up is lost; the SVM is served |
| Client queues | a FIFO of whole payloads; refused only when full; no slot is written while it can be read |
| Fence table | a lookup misses nothing that is there all along; a create does not pass an entry that has its key; only the owner destroys |
| Waiting, join fences | the pending count is exact; nobody is signalled early or forgotten; errors reach the waiters; a failed array leaves nothing behind |
| Recovery | the client waits for nothing and owns nothing afterwards; the others do not notice, apart from the error |
| Client registry | an entry point never uses a client that is not, or no longer, initialised |
| Doorbell | every queued error reaches its callback |
| Speculative fences | an array is bound once; the dummy fence lives as long as a reference; a waiter is released |

### 1.5 The rest of the repository

The other drivers are listed in `PROJECT.json` as not modelled.  They are
independent of the fence stack or clients of it, each a project of its own
(camera, display, graphics, video, WLAN, IPA, DSP), or mostly register tables
and bus transfers (audio codecs, touch, fingerprint, NFC).

## 2. Modules

| module | models | state ↔ code |
|---|---|---|
| `HwFenceLock` | `_lock`, `_unlock`, one exclusive access per step | `lock` the word as the set of its one bits; `reg`, `mon` register and exclusive monitor of each CPU; `svm`, `irq` the other VM (external) and its pending interrupt |
| `HwFenceFifo` | what an Rx queue promises (abstract) | `q` the waiting payloads |
| `HwFenceRxQueue` | `hw_fence_update_queue` and `hw_fence_read_queue_helper` on an Rx queue, and its reset | `slot` the ring, each payload in two halves; `read_index`, `write_index`; `owner` of `client_lock_tbl[]`; `pc`/`idx`/`msg` the writers; `cpc`/`cidx`/`got` the reader |
| `HwFenceTxSpec` | what a Tx queue promises (abstract) | `q` the fences handed over, `published` how many of them the fence controller may take, `seen` the one it is about to take |
| `HwFenceTxQueue` | `hw_fence_update_queue` on a Tx queue, `hw_fence_update_existing_txq_payload`, the Tx half of `hw_fence_utils_reset_queues`; the client hardware and the fence controller | `slot` the ring; `read_index`, `write_index`, `tx_wm` the queue header, in the client's own counting; `queue` start, factor and `skip_wr_idx`; `pc` ... `tmp` the driver thread; `fpc`, `fidx`, `got` the fence controller |
| `HwFenceTable` | `_hw_fence_lookup_and_process` and all its callers, one probe per step | `tbl` the entries (valid, key, allocator); `op`/`key`/`client`/`hash`/`step` the lookup of each thread; `cand` and `dup` are history variables: the slots that have matched since the lookup began, and those that have held the key since the create began |
| `HwFenceWait` | waiting, fence arrays, signalling, reset | `tbl` the entries with wait mask, signal flag, error, parents and pending count; `th` call and locals of each thread; `ended`, `told`, `waits` are history variables: how fences ended, the signals clients received, the registrations that returned 0 |
| `HwFenceClients` | registration, error callbacks, and the doorbell with its drain loop | `clients` the array of pointers; `obj` the structures they point to (with `error_cb_lock` and callback); `handle` what each thread got; `pc`/`cur`/`cid`/`arg` the thread in a call, with the id that it stores only after the slot is published; `ctrlq` the control queue, `flag` the pending doorbell; `dpc`, `seen`, `more`, `iter`, `dobj` the doorbell callback |
| `SpecSync` | `qcom_sync_file.c`, one step per access that others can come between, and the display as the one who waits for binds | `available`, `tracked`, `dummy` are `device_available`, `fence_array_list` and the references to the dummy fence; `arr` the fence arrays with references, fences, pending count, callbacks and flags; `pc`/`cur`/`i` threads in an ioctl; `wpc`/`warr`/`wi` planes |
| `*Proofs` | theorems; those about `HwFenceWait` are in `HwFenceWaitProofs` (the effect of every action, resets) and `HwFenceJoinProofs` (join fences and waiters) | |
| `MC*` | instances for TLC | |

The modules build on each other by what they establish.  `HwFenceTable` makes
one probe a step because `HwFenceLock` establishes mutual exclusion; the owner
of `HwFenceRxQueue` is the same lock.  `HwFenceWait` makes a whole lookup one
step: `LookupComplete` of `HwFenceTable` says that a lookup finds an entry that is
there.  This stands for a lookup of a fence that stays in the table, or stays out
of it, while the lookup runs; the callers hold a reference to the dma-fence, which
is why it stays.  That a key has one entry is not something the table gives.  For
a fence it follows in `HwFenceWait` from its being created once.  For an array it
does not: `ArrayStart` may always make another join fence of the array, a create
in the code does so when it meets a free entry first, and `DestroyEntry` clears
one of the entries of the key, as the destroy by key does.  The rule `OneWaiter`
(below) keeps that from happening.  An array that turns out to be empty is undone
from its element 0, which the code reads without a look at `num_fences`; `Element`
lets it be anything.  The control queue of
`HwFenceClients` is the FIFO that `HwFenceRxQueue` is proved to implement.

Abstractions, all of data: payloads, contexts and seqnos are members of small
sets; errors are Booleans; indexes of Rx queues count payloads instead of words
(those of Tx queues keep the words, because they are translated); time stamps,
debug counters, `client_data` and messages are left out.

Assumptions about what is not in the repository:

* memory is sequentially consistent (the code's `mb`/`wmb` are placed for that;
  a weaker memory model is not explored);
* the SVM sets its bit, waits for bit 0 to be clear, sleeps only after it saw
  bit 0 set, and its interrupt is latched;
* the fence controller signals a fence in one step with its parents and their
  waiters: it holds the locks of child and parent, like the driver;
* the SVM queues an error and then rings the doorbell; the doorbell flag is
  latched until the callback reads it;
* a client that is reset makes no other call meanwhile;
* a client uses its Tx queue from one thread at a time: the driver side of the
  queue has no lock.  The display may not keep to that (observation 7);
* callers create a dma-fence once and destroy it once, when nobody has a
  reference to it.  Fence arrays are different: each client that waits on one
  creates its join fence, hence `SharedKeys` in `HwFenceTable`;
* dma-fence and dma-fence-array behave as in the kernel: references, one callback
  per fence, signalled when `num_pending` reaches 0, no callbacks while the
  enable bit is set.

Four constants switch a rule for callers on and off.  The code does not enforce
these rules, and the properties named here fail without them, so the hazards that
a rule excludes are listed in `PROJECT.json` as covered by no property, but for the
two binds of one array, which have a run (`spec_two_binders`):

| constant | rule | needed for |
|---|---|---|
| `Quiet` (`HwFenceTxQueue`) | neither the hardware nor the fence controller touches the Tx queue while the driver moves payloads in it or resets it | `PublishedFirst`, `RefinesTxSpec` |
| `OneWaiter` (`HwFenceWait`) | an array is waited for in one call only, so that it has one join fence | `TypeOK`, `JoinCount`, `ParentsAreLive`, `NoEarlySignal`, `NoWaiterForgotten`, `JoinErrorKept` |
| `Disciplined` (`HwFenceClients`) | a client registers its callback before it waits, and deregisters only with no error under way | `CallbackSafe` |
| `OneBinder` (`SpecSync`) | an array is bound by one thread at a time | `DummyBalance`, `BoundOnce` |

## 3. Runs

| run | instance | checks | shows |
|---|---|---|---|
| `lock` | 3 driver threads and the SVM | `Inv`, `MutualExclusion`, `NoLostWakeup`, `RequestKept`, `SvmServed` | the lock works, also when the SVM's request comes between any two accesses, and the SVM is not starved |
| `rx_queue` | 2 writers, 1 reader, ring of 4, 2 payloads | `TypeOK`, `WriterOwnsSlot`, `RefinesFifo` | the ring implements a FIFO of 3 whole payloads, resets included |
| `tx_queue` | ring of 4 payloads of 2 words, 4 fences, indexes from 0 and from 1, both ways of counting and of publishing | `TypeOK`, `PublishedFirst`, `RefinesTxSpec` | the fence controller gets every fence once, whole and in turn; a fence with an error comes first; the hardware never publishes what is not written |
| `table` | 2 threads, 2 clients, 3 entries, 4 keys of which two collide and one is shared | `TypeOK`, `LookupComplete`, `DuplicateSeen`, `OnlyOwnerDestroys` | lookups miss nothing; a create never passes an entry with its key, the shared one included; the other keys are destroyed by their owner |
| `wait` | 2 threads, 2 clients, 2 fences, 3 arrays, 5 entries | `TypeOK`, `JoinCount`, `ParentsAreLive`, `NoEarlySignal`, `NoWaiterForgotten`, `JoinErrorKept` | arrays that compete for the parents of one fence, with their failures |
| `wait_live` | 2 threads, 2 fences, 3 arrays (one empty), 3 entries | `WaitersServed` | registered waiters are signalled in the end |
| `wait_reset` | 2 threads, 2 clients, one of which is reset | `NoEarlySignal`, `ResetClean` | a reset leaves nothing behind and signals nobody early |
| `clients` | 2 threads, 1 id, 2 objects, control queue of 3, limit of 2 iterations | `TypeOK`, `HandleRegistered`, `RegisteredIsAllocated`, `CallbackSafe`, `DoorbellPending`, `ErrorsTaken` | one user per client id, callbacks that are whole and alive, no error left behind but by a drain that stopped at its limit |
| `spec_sync` | 2 threads, 2 planes, 1 array, 2 fences | `TypeOK`, `DummyBalance`, `RefsExact`, `NoDummyHooked`, `SignalledByFlags`, `BoundOnce`, `OnlyHwFences`, `WaiterReleased` | references balance through all failures; an array is bound once, signals as its flags say, and its bind releases who waits |
| `wait_hole` | 3 arrays, one with a fence that is no hw-fence | `JoinCount`, violated | finding 1 |
| `wait_late_error` | 1 fence, 1 client | `ErrorPropagated`, violated | finding 2 |
| `spec_two_binders` | 2 threads that bind one array | `DummyBalance`, violated | finding 3 |

Bounds.  Three driver threads let one hold the lock, one spin and one fail its
store.  A ring of 4 wraps around with two writers and keeps "full" (3) apart
from "one before full".  Payloads of two words keep the two ways of counting
apart, and an index that starts at 1 shows every comparison of a translated
index with an untranslated one.  Three entries and two colliding keys give holes,
wrap-around and a full table.  `MSM_HW_FENCE_MAX_JOIN_PARENTS` is 3 as in the
code, whose test leaves two usable places, so three arrays overflow it.  The arrays of
run `wait` have the fence they compete for last, so that an undo removes no link
of a fence that another array waits for; run `wait_hole` is about those that do.  Two client
objects let one be set up while the other is torn down.  One fence array is
enough for `SpecSync`: arrays share only the list, the dummy fence and the open
count; two planes let one time out while the other is woken.  `Capacity` and
`MaxIter` of `HwFenceClients` stand for the entries of the control queue and
`HW_FENCE_MAX_ITER_READ`; a queue longer than the limit is the case in which errors
stay behind (observation 4).  Nothing else is bounded: a fence is created once in `HwFenceWait` because its context and seqno
are new each time, which keeps histories finite; all other operations repeat
without limit.  Deadlock is checked everywhere but in `HwFenceWait`, which may
stop when all fences have ended and nobody waits.

Fairness.  `SvmServed` assumes that a driver thread that holds the lock goes on
to the end of `_unlock` (it runs with preemption disabled), that an exclusive
pair that is retried for ever succeeds in the end (strong fairness of
`UnlockStore`), and that an SVM that asked goes on.  Nothing is assumed of
threads that spin in `_lock`, and nobody has to ask.  `WaitersServed` assumes
that a call that began goes on and that fences are signalled in the end, as the
rules for dma-fences demand; it does not assume that anybody calls anything.
`ErrorsTaken` assumes that the doorbell callback is scheduled when its flag is
set, that `gh_dbl_read_and_clean` does not fail for ever (a failure leaves flag
and queue as they are, so it is a stuttering step), that the callback runs to its end, that calls that began go on (it may wait for an
`error_cb_lock`), and that the SVM rings after it has queued.  `WaiterReleased`
assumes that ioctls that began go on and that a plane that was woken does; the
timeout is not assumed to expire, so it is the bind that releases the plane.

## 4. Proofs

All proofs are checked by TLAPS and hold for every value of the constants that
satisfies the module's `ASSUME`.  Where a theorem has a further hypothesis, it is
named here and in the theorem.  The inductive invariants of `HwFenceTxQueue`,
`SpecSync` and `HwFenceWait` were checked by TLC on the instances of the runs
too.

* **Lock** (`HwFenceLockProofs`): `Inv`, `MutualExclusion`, `NoLostWakeup` and
  `RequestKept`, for any set of driver threads.  Mutual exclusion alone is not
  inductive: a thread between `LDAXR` and `STXR` must not store over a word
  that has changed.  `Inv` adds that an armed monitor means a fresh register
  (`MonitorFresh`) and that the bits tell the owner (`BitsTellOwner`).
* **Rx queue** (`HwFenceRxQueueProofs`): `TypeOK`, `WriterOwnsSlot` and
  `RefinesFifo`, for any writers and every length of the ring.  `RxInv` adds who
  has the lock, that a writer's copy of the write index is current and its slot
  free, half by half what it has stored, and that the reader is at the oldest
  payload.  `FitsMeansRoom` reduces the two cases of the free-space computation
  to "the next index is not the read index".  The refinement maps the ring to
  the sequence of slots from the read to the write index: the store of the write
  index appends (`ContentsAppended`), the store of the read index takes the head
  (`ContentsTail`), stores to the slot at the write index change nothing
  (`ContentsKept`), and `RxSimulation` goes through the actions.
* **Table** (`HwFenceTableProofs`): `TypeOK`, `LookupComplete`, `DuplicateSeen` and
  `OnlyOwnerDestroys`, for every table size, any keys, clients and threads.
  `LookupInv` says that a lookup at step *n* has probed the *n* slots from its
  first hash on and that every slot that matched all along is still ahead, and so is every entry
  that has held the key of a create since it began; this
  is an argument about circular distance (`Dist`, `NextHashWraps`), with no
  induction.  `OwnerInv` says that a key that callers create once has no entry
  and no second creator while it is being created, and that every key has at
  most one destroyer and keeps its entry until then; so the entry
  whose key `hw_fence_destroy_with_hash` reads without the lock cannot have
  changed hands.  It rests on the guards that state how callers behave; the
  allocator check of `hw_fence_destroy_with_hash` is not among them, its handle
  may be any slot.
* **Clients** (`HwFenceClientsProofs`): `TypeOK`, `HandleRegistered` and
  `RegisteredIsAllocated` for any threads, ids and objects; `DoorbellPending`
  for any length of the control queue and any limit of iterations; `CallbackSafe` if
  clients keep the rule `Disciplined`.  `RegistryInv` says that every object has
  one user, who either holds its handle or sets it up or tears it down, and that
  it is in its slot of `clients[]` exactly while it may be found there, with the id
  of the slot or, until that is stored, without one.
  `PendingInv` says that, while no doorbell is pending, the loop of the callback
  knows of all that is queued, and what it has taken and what is left are together
  no more than the queue holds: so it stops short only if the queue is longer than
  the limit.  `CallbackInv` says
  that an error under way has a client that is registered and settled, so that
  the client which the doorbell looked up without a lock is still the one in
  `clients[]`.

* **Tx queue** (`HwFenceTxQueueProofs`): `TypeOK` for every length of the ring,
  size of a payload and way of counting, also when the queue is disturbed;
  `PublishedFirst` and `RefinesTxSpec` if it is left alone during edits and
  resets (`Quiet`).  The argument is about payload slots: `RSlot`, `WSlot` and
  `TSlot` are the slots of the read, write and working index after translation,
  and `Gap` and `Pos` count slots around the ring, so that words and translated
  indexes appear only in a few lemmas on division.  `TxInv` says that the write
  index lies between the read and the working index (`PublishedFirst`, by itself
  not inductive), that an append works on the free slot behind the working index,
  that an edit knows both ends and moves payloads only if there are two, and that
  the fence controller is at the oldest payload, which is published and stays.
  The refinement maps the ring to the run of slots from the read to the working
  index, with the payload an edit has in its hands put back.  The store of the
  write index or of the working index appends, the store of the error flag, in
  place or in the middle of a move, is the abstract `Fail`, the reset of the
  working index is the abstract `Reset`, a full queue refuses, the hardware
  publishes, and the copy and the read index of the fence controller look and
  take; all other steps, those of a move included, change nothing there.
* **Speculative fences** (`SpecSyncProofs`): `TypeOK`, `RefsExact`,
  `DummyBalance`, `NoDummyHooked`, `OnlyHwFences`, `SignalledByFlags` and
  `BoundOnce`, for any threads, planes, arrays and fences, if an array is bound
  by one thread at a time (`OneBinder`; finding 3 is what happens otherwise).
  Everything rests on the references: an array in use is not freed only because
  each of its users has one.  `SpecInv` counts them as the number of the array's
  holders and callbacks, and the references of the dummy fence as its places in
  arrays.  `ThreadBind` says how far a bind has got: the dummy fences are the
  ones from its position on, and callbacks are set only when the last is
  replaced.  `Count` gives the pending count as the number of callbacks still to
  come, for arrays that are neither failed nor dropped.  Number and finiteness of
  a set that gains or loses one element come from `FiniteSetTheorems`.
* **Reset** (`HwFenceWaitProofs`): `ResetClean` for any table, threads, clients
  and arrays, several resets at once, with no further hypothesis: it does not need `OneWaiter`.  `Resets` says
  that the entries behind the reset have neither the client as a waiter nor, but
  for the one it looks at, as their owner, and that no other thread acts for the
  client; every action is then shown to give the client nothing (`NoGain`).  The
  type that this uses (`WideType`) lets `pending_child_cnt` be negative, as a hole
  or a reset can make it so.
* **Waiting and join fences** (`HwFenceJoinProofs`): `TypeOK`, `JoinCount`,
  `ParentsAreLive`, `NoEarlySignal`, `NoWaiterForgotten` and `JoinErrorKept`, for
  any threads, clients, fences and arrays and a table of any size.  None of them
  is inductive.  The parts of `WaitInv`:
  - a join fence belongs to one call until that call has linked all children,
    signalled it or undone it (`Holding`, `OneHolder`), so that nobody else
    destroys it meanwhile;
  - the count of a join fence is the number of elements to be linked plus the
    links of fences still to signal, and every element that has been passed has
    ended or is such a link, with its error stored in the join fence if it ended
    with one (`Accounts`); hence a count of zero means that all have ended, which
    is what `NoEarlySignal` and `JoinErrorKept` need;
  - the `signal` flag of a call is set exactly if it counted down to zero
    (`BuildInv`); a call that gives up leaves a count above zero, so that the
    fence controller never ends a join fence that is being undone, and has links
    only in elements still to be undone (`UndoInv`); a join fence that is
    destroyed has no links left (`EndInv`, `LinksLive`);
  - the registrations that returned 0 have been or will be answered by an entry
    that no call can take away (`WaitsKept`), and every signal was sent rightly
    (`Rightly`).

  There are three hypotheses.  `Resetters = {}`: a reset destroys fences that are
  still children of join fences (observation 2), so the counts are not exact
  after it.  `OneWaiter`: with two join fences of one array, a call may destroy the
  one of another call (observation 1), and all six fail.  The proof uses the rule
  for one fact: while a call builds a join fence, and as long as that stays in
  the table, its key has no other entry.  `FencesOnce` of `HwFenceWaitProofs` gives
  it for fences, which are created once; `JoinsKnown` gives it for arrays: a join
  fence belongs to a call under way or to a wait that was accepted, and either
  keeps others from joining.  `[]ListsClosed`: no list of parents has a hole.  A
  hole is finding 1, and run `wait_hole` shows `JoinCount` fail after one.  So the
  theorems have the form `Spec /\ []ListsClosed => []...`, that is, for any arrays
  in any order, in all behaviours in which that bug does not strike.

Only model-checked: the liveness properties (`SvmServed`, `WaitersServed`,
`ErrorsTaken`, `WaiterReleased`), which are out of the prover's reach; and
`NoEarlySignal` with resets (run `wait_reset`).  For the last, the invariant would
have to do without the exact counts.  The three properties of the violation runs
are false, of course, where those runs say so.

## 5. Findings

Shown by a run:

1. `hw_fence_drv_priv.c:1388`, run `wait_hole`: when an array fails, its parent
   link is removed without closing the gap in `parent_list`, but `parents_cnt`
   is the place of the next parent.  The next array overwrites a live parent,
   whose `pending_child_cnt` then never reaches zero.
2. `hw_fence_drv_priv.c:1595`, run `wait_late_error`: a client that registers
   after the fence has signalled with an error is told of no error.  The path
   for arrays does pass the error on.
3. `qcom_sync_file.c:378`, run `spec_two_binders`: the test that an array is
   unbound is made before `fence->lock` is taken and not again under it.  Two
   binds of one array can both pass; the second puts the dummy fence again for
   places that no longer hold it.

Observed while modelling, and listed with the hazards:

1. `hw_fence_drv_priv.c:1139`: create compares its key only with the entries
   before the first free one.  After a destroy has left a hole in front, a second
   create of the same key succeeds.  Join fences can meet this, when two clients
   wait on one array.  As join fences are destroyed by key (`:1402`, `:1532`), the
   call of one client can then destroy the join fence of the other.  With
   `OneWaiter = FALSE`, and one array of one fence that two clients wait on, TLC
   finds behaviours that violate `TypeOK`, `JoinCount`, `ParentsAreLive`,
   `NoWaiterForgotten` and `JoinErrorKept`; in the instance of run `wait_reset` it
   finds one that violates `NoEarlySignal`.
2. `hw_fence_drv_priv.c:1723`: the reset of a client signals the waiters of its
   fences but not the join fences these are children of; `:1578`: a reset of the
   owner between the lookup and the lock of a registration leaves a waiter
   without a signal.
3. `hw_fence_drv_priv.c:535` and `:1667`: the edit and the reset of a Tx queue
   are safe only if the fence controller leaves the queue alone (`Quiet`).
4. `hw_fence_drv_utils.c:253`: the drain of the control queue stops after 100
   payloads.  The length of the queue comes from the device tree; if more than
   100 payloads fit, errors stay behind without a doorbell, which is the exception
   (`StoppedShort`) in `DoorbellPending` and `ErrorsTaken`.
5. `msm_hw_fence.c:531`: the error callback is stored without `error_cb_lock`
   (`Disciplined`).
6. `hw_fence_drv_priv.c:1490`: a fence gets two parents at most, as the test is
   made on the count with the new parent in it; `hw_fence_drv_priv.h:63` says
   "Maximum number of parents that a fence can have for a join-fence" of 3.
7. `display-drivers/msm/sde/sde_encoder.c:2103` calls
   `msm_hw_fence_update_txq_error` outside the `list_lock` under which
   `sde_fence.c:602` calls `msm_hw_fence_update_txq`.  The driver side of a Tx
   queue has no lock; the model has one driver thread there.
8. `qcom_sync_file.c:118`: the last close counts `num_pending` down once per
   array, so a bound array signals before its fences, and an unbound one that
   waits for several fences is dropped without a signal.  `SignalledByFlags`
   leaves dropped arrays out.

## 6. Not modelled

Of the client registry, the readiness flags (`resources_ready`, `vm_ready`) and
the entry points that check them and forward.  The handover of shared memory at
VM start-up sets `vm_ready` once and waits for the resource manager, which is not
in the repository.  The call of `hw_fence_utils_fence_error_cb` by
`_fence_ctl_signal` (`hw_fence_drv_priv.c:1321`): the callback is reached from the
doorbell only.  `client_data` of join fences (hazard at
`hw_fence_drv_priv.c:1517`).  Device-tree parsing, memory layout, register
addresses, debugfs, the ioctl test interface and the synx translation layer keep
no state that changes concurrently, or only format and forward.  The 64-bit wrap
of the hash product is left out: it changes which slot a key hashes to, and no
property depends on that.  The other drivers of the tree are independent of the
fence stack or clients of it (1.5).

## 7. Plan

1. `NoEarlySignal` with resets, from an invariant in which the fences that a
   reset has destroyed are pending for ever.
2. The join fence's `client_data` (hazard at `hw_fence_drv_priv.c:1517`), which
   the fence controller may pass on before it is stored.
3. Composition of the Rx queue with signalling: a full queue and the waiter
   that never hears of its fence.
4. Join fences of one array that several clients wait on: which of the properties
   hold for the fences that are not in it, without `OneWaiter`.
5. Two driver threads on a Tx queue (observation 7).
6. `msm_ext_display`, and `vm_ready` with the entry points, as small modules of
   their own.
