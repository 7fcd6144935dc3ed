--------------------------- MODULE HwFenceClients ---------------------------
(***************************************************************************)
(* The registry of clients, and the way of a fence error from the fence    *)
(* controller (in the service VM, SVM) to the callback of a client.        *)
(*                                                                         *)
(* Threads of client drivers register and deregister a client              *)
(* (msm_hw_fence_register, msm_hw_fence_deregister) and its error callback *)
(* (msm_hw_fence_register_error_cb, msm_hw_fence_deregister_error_cb).     *)
(* The SVM puts an error for a client into the control queue and rings the *)
(* doorbell; the doorbell callback (_hw_fence_cb) drains the queue, looks  *)
(* the client up in clients[] without clients_register_lock, and calls its *)
(* callback under its error_cb_lock.                                       *)
(*                                                                         *)
(* The control queue is the FIFO that HwFenceRxQueue implements.  An error *)
(* is the id of the client it is for; BadId stands for a payload with a    *)
(* wrong type or an id out of range.                                       *)
(***************************************************************************)
EXTENDS Naturals, Sequences

CONSTANTS
  Threads,      \* threads of client drivers
  Ids,          \* client ids
  Objects,      \* memory for struct msm_hw_fence_client
  Data,         \* userdata of callbacks
  Capacity,     \* payloads the control queue can hold
  MaxIter,      \* HW_FENCE_MAX_ITER_READ
  Disciplined,  \* do clients set up and tear down only with no error under way?
  BadId, Null

ASSUME ClientsAssumption ==
  /\ Capacity \in Nat \ {0} /\ MaxIter \in Nat
  /\ Disciplined \in BOOLEAN
  /\ Null \notin Objects \union Data \union Threads \union Ids
  /\ BadId \notin Ids \union {Null}
  /\ "doorbell" \notin Threads \union {Null}

VARIABLES
  clients,      \* drv_data->clients[]
  obj,          \* the client structures
  handle,       \* the handle each thread got from register
  pc, cur,      \* each thread: where it is, and the object it works on
  cid, arg,     \* the client id and the data it was called with
  waiting,      \* ids that wait for fences, so that errors can be for them
  ctrlq,        \* Rx half of the control queue
  flag,         \* pending doorbell flag HW_FENCE_CTRL_QUEUE_DOORBELL
  spc,          \* where the SVM is
  dpc,          \* where the doorbell callback is
  seen,         \* payloads it saw in the queue
  more,         \* "read" of the loop
  iter,         \* "i" of the loop
  did, dobj, ddata  \* client id, client and userdata it works on

svars == <<waiting, ctrlq, flag, spc>>
dvars == <<dpc, seen, more, iter, did, dobj, ddata>>
tvars == <<handle, pc, cur, cid, arg>>
vars == <<clients, obj, tvars, svars, dvars>>

Doorbell == "doorbell"

\* An object: is it allocated, is its mutex initialised, who holds it, whose
\* client is it, is a callback set and with which data?
Client ==
  [alloc : BOOLEAN, ready : BOOLEAN, lock : Threads \union {Doorbell, Null},
   id : Ids \union {Null}, cb : BOOLEAN, data : Data \union {Null}]

Freed == [alloc |-> FALSE, ready |-> FALSE, lock |-> Null, id |-> Null,
          cb |-> FALSE, data |-> Null]

\* After kzalloc().
Fresh == [alloc |-> TRUE, ready |-> FALSE, lock |-> Null, id |-> Null,
          cb |-> FALSE, data |-> Null]

TypeOK ==
  /\ clients \in [Ids -> Objects \union {Null}]
  /\ obj \in [Objects -> Client]
  /\ handle \in [Threads -> Objects \union {Null}]
  /\ pc \in [Threads -> {"idle", "id", "init", "clear", "free", "cb_store",
                         "cb_first", "cb_second", "drop_cb", "drop_data", "unlock"}]
  /\ cur \in [Threads -> Objects \union {Null}]
  /\ cid \in [Threads -> Ids \union {Null}]
  /\ arg \in [Threads -> Data \union {Null}]
  /\ waiting \subseteq Ids
  /\ ctrlq \in Seq(Ids \union {BadId}) /\ Len(ctrlq) <= Capacity
  /\ flag \in BOOLEAN /\ spc \in {"idle", "ring"}
  /\ dpc \in {"idle", "loop", "take", "lookup", "lock", "test", "call", "unlock"}
  /\ seen \in 0 .. Capacity /\ more \in BOOLEAN /\ iter \in 0 .. MaxIter
  /\ did \in Ids \union {Null} /\ dobj \in Objects \union {Null}
  /\ ddata \in Data \union {Null}

Init ==
  /\ clients = [i \in Ids |-> Null]
  /\ obj = [o \in Objects |-> Freed]
  /\ handle = [t \in Threads |-> Null]
  /\ pc = [t \in Threads |-> "idle"]
  /\ cur = [t \in Threads |-> Null]
  /\ cid = [t \in Threads |-> Null]
  /\ arg = [t \in Threads |-> Null]
  /\ waiting = {} /\ ctrlq = <<>> /\ flag = FALSE /\ spc = "idle"
  /\ dpc = "idle" /\ seen = 0 /\ more = FALSE /\ iter = 0
  /\ did = Null /\ dobj = Null /\ ddata = Null

-----------------------------------------------------------------------------

Goto(t, from, to) == pc[t] = from /\ pc' = [pc EXCEPT ![t] = to]

\* Some error for this client is queued, or can be, or is being handled.
ErrorUnderWay(id) ==
  \/ id \in waiting
  \/ \E k \in 1 .. Len(ctrlq) : ctrlq[k] = id
  \/ did = id

\* The rule callers keep.
MayChange(id) == Disciplined => ~ErrorUnderWay(id)

-----------------------------------------------------------------------------
(* msm_hw_fence_register() and msm_hw_fence_deregister(). *)

\* Faulty variant of Claim: does not look whether the id is taken.
ClaimUnchecked(t, id, o) ==
  /\ Goto(t, "idle", "id")
  /\ handle[t] = Null
  /\ ~obj[o].alloc
  /\ obj' = [obj EXCEPT ![o] = Fresh]
  /\ clients' = [clients EXCEPT ![id] = o]
  /\ cur' = [cur EXCEPT ![t] = o]
  /\ cid' = [cid EXCEPT ![t] = id]
  /\ UNCHANGED <<handle, arg, svars, dvars>>

\* kzalloc(), then take the slot under clients_register_lock; a slot that is
\* taken makes the call fail, with nothing changed.  The client in the slot
\* is still all zero when the lock is released.
Claim(t, id, o) ==
  /\ Goto(t, "idle", "id")
  /\ handle[t] = Null
  /\ ~obj[o].alloc
  /\ clients[id] = Null
  /\ obj' = [obj EXCEPT ![o] = Fresh]
  /\ clients' = [clients EXCEPT ![id] = o]
  /\ cur' = [cur EXCEPT ![t] = o]
  /\ cid' = [cid EXCEPT ![t] = id]
  /\ UNCHANGED <<handle, arg, svars, dvars>>

\* ... hw_fence_client->client_id, stored without the lock.
StoreId(t) ==
  /\ Goto(t, "id", "init")
  /\ obj' = [obj EXCEPT ![cur[t]].id = cid[t]]
  /\ cid' = [cid EXCEPT ![t] = Null]
  /\ UNCHANGED <<clients, handle, cur, arg, svars, dvars>>

\* All resources found: mutex_init(&error_cb_lock) and return the handle.
RegisterDone(t) ==
  /\ Goto(t, "init", "idle")
  /\ obj' = [obj EXCEPT ![cur[t]].ready = TRUE, ![cur[t]].lock = Null]
  /\ handle' = [handle EXCEPT ![t] = cur[t]]
  /\ cur' = [cur EXCEPT ![t] = Null]
  /\ UNCHANGED <<clients, cid, arg, svars, dvars>>

\* Some resource is missing: goto error.
RegisterFails(t) ==
  /\ Goto(t, "init", "clear")
  /\ UNCHANGED <<clients, obj, handle, cur, cid, arg, svars, dvars>>

\* The caller gives its handle back, once, and waits for nothing any more.
Deregister(t) ==
  /\ handle[t] # Null
  /\ obj[handle[t]].id \notin waiting
  /\ MayChange(obj[handle[t]].id)
  /\ Goto(t, "idle", "clear")
  /\ cur' = [cur EXCEPT ![t] = handle[t]]
  /\ handle' = [handle EXCEPT ![t] = Null]
  /\ UNCHANGED <<clients, obj, cid, arg, svars, dvars>>

\* Faulty variant of CleanupClear: leaves the slot as it is.
CleanupClearNothing(t) ==
  /\ Goto(t, "clear", "free")
  /\ UNCHANGED <<clients, obj, handle, cur, cid, arg, svars, dvars>>

\* hw_fence_cleanup_client(): empty the slot under clients_register_lock ...
CleanupClear(t) ==
  /\ Goto(t, "clear", "free")
  /\ clients' = [clients EXCEPT ![obj[cur[t]].id] = Null]
  /\ UNCHANGED <<obj, handle, cur, cid, arg, svars, dvars>>

\* ... and kfree().
CleanupFree(t) ==
  /\ Goto(t, "free", "idle")
  /\ obj' = [obj EXCEPT ![cur[t]] = Freed]
  /\ cur' = [cur EXCEPT ![t] = Null]
  /\ UNCHANGED <<clients, handle, cid, arg, svars, dvars>>

-----------------------------------------------------------------------------
(* msm_hw_fence_register_error_cb() and msm_hw_fence_deregister_error_cb().*)

\* A callback that is already set makes the call fail, with nothing changed.
RegisterCb(t, d) ==
  /\ handle[t] # Null
  /\ ~obj[handle[t]].cb
  /\ MayChange(obj[handle[t]].id)
  /\ Goto(t, "idle", "cb_store")
  /\ arg' = [arg EXCEPT ![t] = d]
  /\ UNCHANGED <<clients, obj, handle, cur, cid, svars, dvars>>

\* Two plain stores, without lock or barrier: they may take effect in either
\* order.
StoreData(t) ==
  /\ \/ Goto(t, "cb_store", "cb_first")
     \/ Goto(t, "cb_second", "idle")
  /\ obj' = [obj EXCEPT ![handle[t]].data = arg[t]]
  /\ arg' = IF pc'[t] = "idle" THEN [arg EXCEPT ![t] = Null] ELSE arg
  /\ UNCHANGED <<clients, handle, cur, cid, svars, dvars>>

StoreCb(t) ==
  /\ \/ Goto(t, "cb_store", "cb_second")
     \/ Goto(t, "cb_first", "idle")
  /\ obj' = [obj EXCEPT ![handle[t]].cb = TRUE]
  /\ arg' = IF pc'[t] = "idle" THEN [arg EXCEPT ![t] = Null] ELSE arg
  /\ UNCHANGED <<clients, handle, cur, cid, svars, dvars>>

\* Faulty variant of DeregisterCb: takes the mutex for granted.
DeregisterCbUnlocked(t) ==
  /\ handle[t] # Null
  /\ obj[handle[t]].cb
  /\ Goto(t, "idle", "drop_cb")
  /\ UNCHANGED <<clients, obj, handle, cur, cid, arg, svars, dvars>>

\* mutex_trylock(): the call fails with -EAGAIN while the callback runs, and
\* leaves at once when there is no callback.
DeregisterCb(t) ==
  /\ handle[t] # Null
  /\ obj[handle[t]].lock = Null
  /\ obj[handle[t]].cb
  /\ Goto(t, "idle", "drop_cb")
  /\ obj' = [obj EXCEPT ![handle[t]].lock = t]
  /\ UNCHANGED <<clients, handle, cur, cid, arg, svars, dvars>>

DropCb(t) ==
  /\ Goto(t, "drop_cb", "drop_data")
  /\ obj' = [obj EXCEPT ![handle[t]].cb = FALSE]
  /\ UNCHANGED <<clients, handle, cur, cid, arg, svars, dvars>>

DropData(t) ==
  /\ Goto(t, "drop_data", "unlock")
  /\ obj' = [obj EXCEPT ![handle[t]].data = Null]
  /\ UNCHANGED <<clients, handle, cur, cid, arg, svars, dvars>>

DeregisterCbUnlock(t) ==
  /\ Goto(t, "unlock", "idle")
  /\ obj' = [obj EXCEPT ![handle[t]].lock = Null]
  /\ UNCHANGED <<clients, handle, cur, cid, arg, svars, dvars>>

-----------------------------------------------------------------------------
(* External: clients that wait for fences, and the fence controller.       *)

StartWaiting(t) ==
  /\ pc[t] = "idle" /\ handle[t] # Null
  /\ waiting' = waiting \union {obj[handle[t]].id}
  /\ UNCHANGED <<clients, obj, tvars, ctrlq, flag, spc, dvars>>

StopWaiting(t) ==
  /\ pc[t] = "idle" /\ handle[t] # Null
  /\ waiting' = waiting \ {obj[handle[t]].id}
  /\ UNCHANGED <<clients, obj, tvars, ctrlq, flag, spc, dvars>>

\* An error for a client that waits, or a payload the driver cannot use.
SvmSend(id) ==
  /\ spc = "idle" /\ spc' = "ring"
  /\ id \in waiting \union {BadId}
  /\ Len(ctrlq) < Capacity
  /\ ctrlq' = Append(ctrlq, id)
  /\ UNCHANGED <<clients, obj, tvars, waiting, flag, dvars>>

SvmRing ==
  /\ spc = "ring" /\ spc' = "idle"
  /\ flag' = TRUE
  /\ UNCHANGED <<clients, obj, tvars, waiting, ctrlq, dvars>>

-----------------------------------------------------------------------------
(* _hw_fence_cb() and _process_fence_error_client_loopback(). *)

\* gh_dbl_read_and_clean(), then the loop starts.  If the call fails the
\* callback returns, with flag and queue as they were: a stuttering step.
DblStart ==
  /\ dpc = "idle" /\ flag
  /\ flag' = FALSE
  /\ dpc' = "loop" /\ more' = TRUE /\ iter' = 0
  /\ UNCHANGED <<clients, obj, tvars, waiting, ctrlq, spc, seen, did, dobj, ddata>>

\* Faulty variant of DblIndexes: the loop has no limit.
DblIndexesForever ==
  /\ dpc = "loop" /\ more
  /\ seen' = Len(ctrlq)
  /\ dpc' = IF ctrlq = <<>> THEN "idle" ELSE "take"
  /\ UNCHANGED <<clients, obj, tvars, svars, more, iter, did, dobj, ddata>>

\* hw_fence_read_queue_helper(): read the indexes; an empty queue ends it all.
DblIndexes ==
  /\ dpc = "loop" /\ more /\ iter < MaxIter
  /\ seen' = Len(ctrlq)
  /\ dpc' = IF ctrlq = <<>> THEN "idle" ELSE "take"
  /\ UNCHANGED <<clients, obj, tvars, svars, more, iter, did, dobj, ddata>>

\* Faulty variant of MoreAfter: one payload too few is expected.
MoreAfterOffByOne(n) == n > 2

\* The helper returns 1 while the write index it read is not reached.
MoreAfter(n) == n > 1

\* Faulty variant of DblTake: a bad payload ends the loop.
DblTakeReturns ==
  /\ dpc = "take"
  /\ ctrlq' = Tail(ctrlq)
  /\ did' = IF Head(ctrlq) = BadId THEN Null ELSE Head(ctrlq)
  /\ dpc' = IF Head(ctrlq) = BadId THEN "idle" ELSE "lookup"
  /\ more' = MoreAfter(seen)
  /\ iter' = iter + 1
  /\ UNCHANGED <<clients, obj, tvars, waiting, flag, spc, seen, dobj, ddata>>

\* Copy the payload and store the read index.  The loop goes on at once for
\* a payload of a wrong type or with a wrong client id.
DblTake ==
  /\ dpc = "take"
  /\ ctrlq' = Tail(ctrlq)
  /\ did' = IF Head(ctrlq) = BadId THEN Null ELSE Head(ctrlq)
  /\ dpc' = IF Head(ctrlq) = BadId THEN "loop" ELSE "lookup"
  /\ more' = MoreAfter(seen)
  /\ iter' = iter + 1
  /\ UNCHANGED <<clients, obj, tvars, waiting, flag, spc, seen, dobj, ddata>>

\* clients[client_id], read without clients_register_lock.
DblLookup ==
  /\ dpc = "lookup"
  /\ dobj' = clients[did]
  /\ dpc' = IF clients[did] = Null THEN "loop" ELSE "lock"
  /\ did' = IF clients[did] = Null THEN Null ELSE did
  /\ UNCHANGED <<clients, obj, tvars, svars, seen, more, iter, ddata>>

\* hw_fence_utils_fence_error_cb()
DblLock ==
  /\ dpc = "lock" /\ obj[dobj].lock = Null
  /\ obj' = [obj EXCEPT ![dobj].lock = Doorbell]
  /\ dpc' = "test"
  /\ UNCHANGED <<clients, tvars, svars, seen, more, iter, did, dobj, ddata>>

\* With a callback, fill in cb_data.
DblTest ==
  /\ dpc = "test"
  /\ dpc' = IF obj[dobj].cb THEN "call" ELSE "unlock"
  /\ ddata' = IF obj[dobj].cb THEN obj[dobj].data ELSE Null
  /\ UNCHANGED <<clients, obj, tvars, svars, seen, more, iter, did, dobj>>

\* The callback runs and returns.
DblCall ==
  /\ dpc = "call"
  /\ dpc' = "unlock"
  /\ ddata' = Null
  /\ UNCHANGED <<clients, obj, tvars, svars, seen, more, iter, did, dobj>>

DblUnlock ==
  /\ dpc = "unlock"
  /\ obj' = [obj EXCEPT ![dobj].lock = Null]
  /\ dpc' = "loop" /\ did' = Null /\ dobj' = Null
  /\ UNCHANGED <<clients, tvars, svars, seen, more, iter, ddata>>

DblEnd ==
  /\ dpc = "loop" /\ (~more \/ iter >= MaxIter)
  /\ dpc' = "idle"
  /\ UNCHANGED <<clients, obj, tvars, svars, seen, more, iter, did, dobj, ddata>>

-----------------------------------------------------------------------------

\* Steps a thread takes once it is inside a call.
InCall(t) ==
  \/ StoreId(t) \/ RegisterDone(t) \/ RegisterFails(t)
  \/ CleanupClear(t) \/ CleanupFree(t)
  \/ StoreData(t) \/ StoreCb(t)
  \/ DropCb(t) \/ DropData(t) \/ DeregisterCbUnlock(t)

ThreadStep(t) ==
  \/ \E id \in Ids, o \in Objects : Claim(t, id, o)
  \/ Deregister(t)
  \/ \E d \in Data : RegisterCb(t, d)
  \/ DeregisterCb(t)
  \/ StartWaiting(t) \/ StopWaiting(t)
  \/ InCall(t)

SvmStep == SvmRing \/ \E id \in Ids \union {BadId} : SvmSend(id)

DoorbellStep ==
  \/ DblStart \/ DblIndexes \/ DblTake \/ DblLookup \/ DblLock \/ DblTest
  \/ DblCall \/ DblUnlock \/ DblEnd

Next == (\E t \in Threads : ThreadStep(t)) \/ SvmStep \/ DoorbellStep

Spec == Init /\ [][Next]_vars

\* The doorbell callback is scheduled while its flag is set, reads the flag
\* in the end, and runs to its end; a call that began goes on; the SVM rings
\* after it has queued.
FairSpec ==
  /\ Spec
  /\ WF_vars(DoorbellStep) /\ WF_vars(SvmRing)
  /\ \A t \in Threads : WF_vars(InCall(t))

-----------------------------------------------------------------------------
(* Properties. *)

(* However threads compete for a client id, a handle that was returned is  *)
(* the registered client of its id until it is given back, so one id never *)
(* has two users.                                                          *)
HandleRegistered ==
  \A t \in Threads : handle[t] # Null =>
    clients[obj[handle[t]].id] = handle[t]

(* A client in clients[] is allocated, so that whoever follows the pointer *)
(* finds a client.  It carries the id of its slot, but for the time in     *)
(* which msm_hw_fence_register() has published it and not yet stored the   *)
(* id: then the id is zero and its own thread is about to store it.        *)
RegisteredIsAllocated ==
  \A i \in Ids : clients[i] # Null =>
    /\ obj[clients[i]].alloc
    /\ \/ obj[clients[i]].id = i
       \/ /\ obj[clients[i]].id = Null
          /\ \E t \in Threads : pc[t] = "id" /\ cur[t] = clients[i] /\ cid[t] = i

Using == dpc \in {"lock", "test", "call", "unlock"}

(* Callers that keep the rule never see their client freed, its mutex      *)
(* initialised again or the callback changed under the doorbell callback:  *)
(* what runs is a callback that is registered, with its own data.          *)
CallbackSafe ==
  /\ Using => obj[dobj].alloc /\ obj[dobj].ready /\ obj[dobj].id = did
  /\ dpc \in {"test", "call", "unlock"} => obj[dobj].lock = Doorbell
  /\ dpc = "call" => obj[dobj].cb /\ ddata # Null /\ ddata = obj[dobj].data

\* The last drain of the control queue stopped at its limit of iterations,
\* which can only leave errors behind if the queue holds more than that.
StoppedShort == iter = MaxIter /\ Capacity > MaxIter

(* No error is left in the control queue without somebody on the way to    *)
(* take it: the loop has emptied the queue or a doorbell is pending,       *)
(* whenever the SVM queues it.  The one exception is a queue longer than   *)
(* HW_FENCE_MAX_ITER_READ, after a drain that reached this limit.          *)
DoorbellPending ==
  dpc = "idle" /\ ctrlq # <<>> => flag \/ spc = "ring" \/ StoppedShort

(* Every error that was queued is taken out in the end, or the loop stops  *)
(* at its limit with nobody left to ring.                                  *)
ErrorsTaken ==
  ctrlq # <<>> ~> dpc = "take" \/ (dpc = "idle" /\ ~flag /\ StoppedShort)
=============================================================================
