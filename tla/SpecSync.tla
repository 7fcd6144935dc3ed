------------------------------ MODULE SpecSync ------------------------------
(***************************************************************************)
(* Speculative fences (qcom_sync_file.c): a fence array is handed out      *)
(* before its fences exist, filled with references to one dummy fence, and *)
(* bound to the real fences later.  The display waits for the bind.        *)
(*                                                                         *)
(* Threads with the device open create and bind arrays.  The last close    *)
(* drops all arrays that are still tracked; an ioctl keeps its file open,  *)
(* so no bind or create is under way then.  Waiters take an array from its *)
(* file, wait for the bind with a timeout and look whether all fences are  *)
(* hw-fences.  dma-fences and dma-fence-arrays are external: references,   *)
(* the callback of an array on each of its fences, and its pending count.  *)
(***************************************************************************)
EXTENDS Integers, Sequences, FiniteSets

CONSTANTS
  Threads,      \* threads that use the device
  Waiters,      \* display threads
  Arrays,       \* memory for fence arrays
  Fences,       \* user fences
  HwFences,     \* those that are hw-fences
  FenceMax,     \* FENCE_MAX
  MaxDevices,   \* MAX_DEVICE_SUPPORTED
  OneBinder,    \* is an array bound by one thread at a time?
  Dummy,        \* sync_dev.dummy_fence
  Null

ASSUME SpecAssumption ==
  /\ HwFences \subseteq Fences
  /\ FenceMax \in Nat \ {0} /\ MaxDevices \in Nat \ {0}
  /\ OneBinder \in BOOLEAN
  /\ Dummy \notin Fences
  /\ Null \notin Threads \union Arrays
  /\ Threads \intersect Waiters = {}
  /\ {"fd", "list"} \intersect (Threads \union Waiters) = {}

VARIABLES
  available,    \* device_available
  opened,       \* does the thread have the device open?
  tracked,      \* fence_array_list
  dummy,        \* references to the dummy fence
  arr,          \* the fence arrays
  done,         \* user fences that have signalled
  pc, cur, i,   \* each thread: where it is, its array, its loop counter
  wpc, warr, wi \* the same for each waiter

tvars == <<available, opened, pc, cur, i>>
wvars == <<wpc, warr, wi>>
vars == <<tvars, tracked, dummy, arr, done, wvars>>

\* enable: DMA_FENCE_FLAG_ENABLE_SIGNAL_BIT; hooked: fences on which the array
\* has a callback; fd: user space has its file; dropped: by the last close.
Unused ==
  [refs |-> 0, fences |-> <<>>, any |-> FALSE, pending |-> 0, hooked |-> {},
   enable |-> FALSE, bound |-> FALSE, error |-> FALSE, signaled |-> FALSE,
   lock |-> Null, fd |-> FALSE, dropped |-> FALSE]

Init ==
  /\ available = 0 /\ opened = [t \in Threads |-> FALSE]
  /\ tracked = {} /\ dummy = 1 /\ done = {}
  /\ arr = [a \in Arrays |-> Unused]
  /\ pc = [t \in Threads |-> "idle"]
  /\ cur = [t \in Threads |-> Null] /\ i = [t \in Threads |-> 1]
  /\ wpc = [w \in Waiters |-> "idle"]
  /\ warr = [w \in Waiters |-> Null] /\ wi = [w \in Waiters |-> 1]

Num(a) == Len(arr[a].fences)
Dummies(a) == {n \in 1 .. Num(a) : arr[a].fences[n] = Dummy}

Goto(t, from, to) ==
  /\ pc[t] = from
  /\ pc' = [pc EXCEPT ![t] = to]

Finish(t, from) ==
  /\ Goto(t, from, "idle")
  /\ cur' = [cur EXCEPT ![t] = Null]
  /\ i' = [i EXCEPT ![t] = 1]

Stay == UNCHANGED <<available, opened, wvars>>

-----------------------------------------------------------------------------
(* External: dma-fence and dma-fence-array, on the record of one array. *)

Put(r) == [r EXCEPT !.refs = @ - 1]

IsSignaled(r) == r.signaled \/ r.pending <= 0

DoneUpTo(r, n) == Cardinality({m \in 1 .. n : r.fences[m] \in done})

\* The fences, if any, at which the loop of dma_fence_array_enable_signaling()
\* sees the pending count reach 0.
Stops(r) ==
  {n \in 1 .. Len(r.fences) : r.fences[n] \in done /\ DoneUpTo(r, n) = r.pending}

Hooked(r) ==
  LET hooks == {n \in 1 .. Len(r.fences) :
                  r.fences[n] \notin done /\ \A s \in Stops(r) : n < s} IN
  [r EXCEPT !.hooked = hooks, !.refs = @ + Cardinality(hooks),
            !.signaled = Stops(r) # {},
            !.pending = IF Stops(r) # {} THEN 0 ELSE @ - DoneUpTo(r, Len(r.fences))]

\* __dma_fence_enable_signaling()
Enabled(r) ==
  IF r.enable THEN r
  ELSE IF r.signaled THEN [r EXCEPT !.enable = TRUE]
  ELSE [Hooked(r) EXCEPT !.enable = TRUE]

\* The callbacks of the array on fence f: each counts down and puts the array.
CalledBack(r, f) ==
  LET hit == {n \in r.hooked : r.fences[n] = f} IN
  [r EXCEPT !.hooked = @ \ hit,
            !.refs = @ - Cardinality(hit),
            !.pending = @ - Cardinality(hit),
            !.signaled = @ \/ (r.pending > 0 /\ r.pending <= Cardinality(hit))]

FenceSignals(f) ==
  /\ f \notin done
  /\ done' = done \union {f}
  /\ arr' = [a \in Arrays |-> CalledBack(arr[a], f)]
  /\ UNCHANGED <<tvars, tracked, dummy, wvars>>

\* dma_fence_array_release(), after the last put: puts the fences.
ReleaseArray(a) ==
  /\ arr[a].refs = 0 /\ arr[a].fences # <<>>
  /\ \A t \in Threads : pc[t] = "create" => cur[t] # a
  /\ dummy' = dummy - Cardinality(Dummies(a))
  /\ arr' = [arr EXCEPT ![a] = Unused]
  /\ UNCHANGED <<tvars, tracked, done, wvars>>

\* User space closes the file of the array.
CloseFd(a) ==
  /\ arr[a].fd
  /\ arr' = [arr EXCEPT ![a] = [Put(arr[a]) EXCEPT !.fd = FALSE]]
  /\ UNCHANGED <<tvars, tracked, dummy, done, wvars>>

-----------------------------------------------------------------------------
(* The list of arrays, walked under l_lock.                                *)

Leaves(force) == {a \in tracked : force \/ IsSignaled(arr[a])}

\* Faulty variant of AfterClear: an array that stays on the list is put too.
AfterClearPutsAll(force) ==
  [a \in Arrays |->
     IF a \notin tracked THEN arr[a]
     ELSE LET r == arr[a] IN
       [r EXCEPT !.signaled = IsSignaled(r) \/ (force /\ r.pending = 1),
                 !.pending = IF force /\ ~IsSignaled(r) THEN @ - 1 ELSE @,
                 !.refs = @ - 1,
                 !.dropped = @ \/ force]]

\* clear_fence_array_tracker(): an array that leaves the list is put; by force,
\* its pending count is counted down once more first.  (array->fences is
\* never NULL for an array of the list.)
AfterClear(force) ==
  [a \in Arrays |->
     IF a \notin tracked THEN arr[a]
     ELSE LET r == arr[a] IN
       [r EXCEPT !.signaled = IsSignaled(r) \/ (force /\ r.pending = 1),
                 !.pending = IF force /\ ~IsSignaled(r) THEN @ - 1 ELSE @,
                 !.refs = IF a \in Leaves(force) THEN @ - 1 ELSE @,
                 !.dropped = @ \/ force]]

\* spec_sync_open()
Open(t) ==
  /\ pc[t] = "idle" /\ ~opened[t]
  /\ available < MaxDevices
  /\ available' = available + 1
  /\ opened' = [opened EXCEPT ![t] = TRUE]
  /\ UNCHANGED <<pc, cur, i, tracked, dummy, arr, done, wvars>>

\* spec_sync_release()
Release(t) ==
  /\ pc[t] = "idle" /\ opened[t]
  /\ available' = available - 1
  /\ opened' = [opened EXCEPT ![t] = FALSE]
  /\ IF available = 1
       THEN arr' = AfterClear(TRUE) /\ tracked' = {}
       ELSE UNCHANGED <<arr, tracked>>
  /\ UNCHANGED <<pc, cur, i, dummy, done, wvars>>

-----------------------------------------------------------------------------
(* spec_sync_create_array() *)

\* Memory for the pointers, and a reference to the dummy fence for each.
CreateGet(t, a, n, any) ==
  /\ opened[t]
  /\ Goto(t, "idle", "create")
  /\ arr[a] = Unused
  /\ n \in 1 .. FenceMax
  /\ dummy' = dummy + n
  /\ arr' = [arr EXCEPT ![a] = [Unused EXCEPT !.any = any,
                                              !.fences = [m \in 1 .. n |-> Dummy]]]
  /\ cur' = [cur EXCEPT ![t] = a]
  /\ UNCHANGED <<i, tracked, done>> /\ Stay

\* dma_fence_array_create() fails.
CreateArrayFails(t) ==
  /\ Finish(t, "create")
  /\ dummy' = dummy - Num(cur[t])
  /\ arr' = [arr EXCEPT ![cur[t]] = Unused]
  /\ UNCHANGED <<tracked, done>> /\ Stay

\* Faulty variant of CreateArray: the array is not marked as enabled.
CreateArrayPlain(t) ==
  /\ Goto(t, "create", "file")
  /\ arr' = [arr EXCEPT ![cur[t]].refs = 1,
                        ![cur[t]].pending = IF arr[cur[t]].any THEN 1 ELSE Num(cur[t])]
  /\ UNCHANGED <<cur, i, tracked, dummy, done>> /\ Stay

\* Faulty variant of CreateArray: the array waits for one fence always.
CreateArrayOne(t) ==
  /\ Goto(t, "create", "file")
  /\ arr' = [arr EXCEPT ![cur[t]].refs = 1, ![cur[t]].pending = 1,
                        ![cur[t]].enable = TRUE]
  /\ UNCHANGED <<cur, i, tracked, dummy, done>> /\ Stay

\* The array waits for one or for all of its fences.
CreateArray(t) ==
  /\ Goto(t, "create", "file")
  /\ arr' = [arr EXCEPT ![cur[t]].refs = 1,
                        ![cur[t]].pending = IF arr[cur[t]].any THEN 1 ELSE Num(cur[t]),
                        ![cur[t]].enable = TRUE]
  /\ UNCHANGED <<cur, i, tracked, dummy, done>> /\ Stay

\* sync_file_create() gets the array; fd_install().
CreateFile(t) ==
  /\ Goto(t, "file", "list")
  /\ arr' = [arr EXCEPT ![cur[t]].refs = @ + 1, ![cur[t]].fd = TRUE]
  /\ UNCHANGED <<cur, i, tracked, dummy, done>> /\ Stay

\* Faulty variant of CreateFileFails: the array is put once too often.
CreateFileFailsTwice(t) ==
  /\ Finish(t, "file")
  /\ arr' = [arr EXCEPT ![cur[t]] = Put(Put(@))]
  /\ UNCHANGED <<tracked, dummy, done>> /\ Stay

\* sync_file_create() or the allocation of the node fails.
CreateFileFails(t) ==
  /\ Finish(t, "file")
  /\ arr' = [arr EXCEPT ![cur[t]] = Put(@)]
  /\ UNCHANGED <<tracked, dummy, done>> /\ Stay

CreateList(t) ==
  /\ Finish(t, "list")
  /\ tracked' = tracked \union {cur[t]}
  /\ UNCHANGED <<dummy, arr, done>> /\ Stay

-----------------------------------------------------------------------------
(* spec_sync_bind_array() *)

\* Callers that keep the rule bind an array from one thread.
MayBind(a) == OneBinder => \A t \in Threads : cur[t] # a

\* sync_file_get_fence(); an array that has signalled is refused.
BindGet(t, a) ==
  /\ opened[t] /\ arr[a].fd
  /\ MayBind(a)
  /\ ~IsSignaled(arr[a])
  /\ Goto(t, "idle", "sanitize")
  /\ cur' = [cur EXCEPT ![t] = a]
  /\ arr' = [arr EXCEPT ![a].refs = @ + 1]
  /\ UNCHANGED <<i, tracked, dummy, done>> /\ Stay

\* sanitize_fence_array()
BindSanitize(t) ==
  /\ Goto(t, "sanitize", IF cur[t] \in tracked THEN "check" ELSE "put")
  /\ UNCHANGED <<cur, i, tracked, dummy, arr, done>> /\ Stay

\* Faulty variant of BindCheck: any array is taken for unbound.
BindCheckNothing(t) ==
  /\ Goto(t, "check", "copy")
  /\ UNCHANGED <<cur, i, tracked, dummy, arr, done>> /\ Stay

\* No fence of the array may have been replaced; read without the lock.
BindCheck(t) ==
  /\ Goto(t, "check", IF Cardinality(Dummies(cur[t])) = Num(cur[t]) THEN "copy" ELSE "put")
  /\ UNCHANGED <<cur, i, tracked, dummy, arr, done>> /\ Stay

\* kzalloc() and copy_from_user() of the fds; they may fail.
BindCopy(t) ==
  /\ Goto(t, "copy", "lock") \/ Goto(t, "copy", "put")
  /\ UNCHANGED <<cur, i, tracked, dummy, arr, done>> /\ Stay

BindLock(t) ==
  /\ Goto(t, "lock", "store")
  /\ arr[cur[t]].lock = Null
  /\ arr' = [arr EXCEPT ![cur[t]].lock = t]
  /\ UNCHANGED <<cur, i, tracked, dummy, done>> /\ Stay

\* Faulty variant of BindStore: the dummy fence keeps its reference.
BindStoreKeeps(t, f) ==
  /\ pc[t] = "store" /\ i[t] <= Num(cur[t])
  /\ arr' = [arr EXCEPT ![cur[t]].fences[i[t]] = f]
  /\ i' = [i EXCEPT ![t] = @ + 1]
  /\ UNCHANGED <<pc, cur, tracked, dummy, done>> /\ Stay

\* The next fd is fence f: it takes the place of a dummy fence, which is put.
BindStore(t, f) ==
  /\ pc[t] = "store" /\ i[t] <= Num(cur[t])
  /\ arr' = [arr EXCEPT ![cur[t]].fences[i[t]] = f]
  /\ dummy' = dummy - 1
  /\ i' = [i EXCEPT ![t] = @ + 1]
  /\ UNCHANGED <<pc, cur, tracked, done>> /\ Stay

\* The next fd is no fence: goto bind_invalid, with the lock.
BindInvalid(t) ==
  /\ Goto(t, "store", "bad_bound")
  /\ i[t] <= Num(cur[t])
  /\ UNCHANGED <<cur, i, tracked, dummy, arr, done>> /\ Stay

BindUnlock(t) ==
  /\ Goto(t, "store", "enable")
  /\ i[t] > Num(cur[t])
  /\ arr' = [arr EXCEPT ![cur[t]].enable = FALSE, ![cur[t]].lock = Null]
  /\ UNCHANGED <<cur, i, tracked, dummy, done>> /\ Stay

\* dma_fence_enable_sw_signaling() takes the lock of the fence.
BindEnable(t) ==
  /\ Goto(t, "enable", "clear")
  /\ arr[cur[t]].lock = Null
  /\ arr' = [arr EXCEPT ![cur[t]] = Enabled(@)]
  /\ UNCHANGED <<cur, i, tracked, dummy, done>> /\ Stay

Clear(t, from, to) ==
  /\ Goto(t, from, to)
  /\ arr' = AfterClear(FALSE)
  /\ tracked' = tracked \ Leaves(FALSE)
  /\ UNCHANGED <<cur, i, dummy, done>> /\ Stay

BindClear(t) == Clear(t, "clear", "bound")

\* SPEC_FENCE_FLAG_FENCE_ARRAY_BOUND, and wake_up_all().
SetBound(t, from, to) ==
  /\ Goto(t, from, to)
  /\ arr' = [arr EXCEPT ![cur[t]].bound = TRUE]
  /\ UNCHANGED <<cur, i, tracked, dummy, done>> /\ Stay

BindBound(t) == SetBound(t, "bound", "put")

\* Faulty variant of InvalidBound: a bind that fails wakes nobody.
InvalidBoundQuiet(t) ==
  /\ Goto(t, "bad_bound", "bad_error")
  /\ UNCHANGED <<cur, i, tracked, dummy, arr, done>> /\ Stay

InvalidBound(t) == SetBound(t, "bad_bound", "bad_error")

\* dma_fence_set_error(), and the lock is given back.
InvalidError(t) ==
  /\ Goto(t, "bad_error", "bad_signal")
  /\ arr' = [arr EXCEPT ![cur[t]].error = TRUE, ![cur[t]].lock = Null]
  /\ UNCHANGED <<cur, i, tracked, dummy, done>> /\ Stay

InvalidSignal(t) ==
  /\ Goto(t, "bad_signal", "bad_clear")
  /\ arr[cur[t]].lock = Null
  /\ arr' = [arr EXCEPT ![cur[t]].signaled = TRUE]
  /\ UNCHANGED <<cur, i, tracked, dummy, done>> /\ Stay

InvalidClear(t) == Clear(t, "bad_clear", "put")

BindPut(t) ==
  /\ Finish(t, "put")
  /\ arr' = [arr EXCEPT ![cur[t]] = Put(@)]
  /\ UNCHANGED <<tracked, dummy, done>> /\ Stay

-----------------------------------------------------------------------------
(* The display: _sde_plane_get_input_hw_fence() and                        *)
(* spec_sync_wait_bind_array().                                            *)

WGoto(w, from, to) ==
  /\ wpc[w] = from
  /\ wpc' = [wpc EXCEPT ![w] = to]

WStay == UNCHANGED <<tvars, tracked, dummy, done, warr>>

\* The plane has a reference to the array.
WaitBind(w, a) ==
  /\ arr[a].fd
  /\ WGoto(w, "idle", IF arr[a].bound THEN "inspect" ELSE "wait")
  /\ warr' = [warr EXCEPT ![w] = a]
  /\ arr' = [arr EXCEPT ![a].refs = @ + 1]
  /\ UNCHANGED <<tvars, tracked, dummy, done, wi>>

WaitWoken(w) ==
  /\ WGoto(w, "wait", "inspect")
  /\ arr[warr[w]].bound
  /\ WStay /\ UNCHANGED <<arr, wi>>

\* -ETIMEDOUT: the display goes on with the software fence.
WaitTimeout(w) ==
  /\ WGoto(w, "wait", "sw")
  /\ ~arr[warr[w]].bound
  /\ WStay /\ UNCHANGED <<arr, wi>>

\* Faulty variant of Inspect: the first fence decides.
InspectFirst(w) ==
  /\ WGoto(w, "inspect", IF arr[warr[w]].fences[wi[w]] \in HwFences THEN "hw" ELSE "sw")
  /\ WStay /\ UNCHANGED <<arr, wi>>

\* All fences must be hw-fences.
Inspect(w) ==
  LET ishw == arr[warr[w]].fences[wi[w]] \in HwFences IN
  /\ WGoto(w, "inspect", IF ~ishw THEN "sw"
                         ELSE IF wi[w] = Num(warr[w]) THEN "hw" ELSE "inspect")
  /\ wi' = [wi EXCEPT ![w] = @ + 1]
  /\ WStay /\ UNCHANGED arr

\* dma_fence_wait() enables the signalling.
SwWait(w) ==
  /\ WGoto(w, "sw", "unplug")
  /\ arr[warr[w]].lock = Null
  /\ arr' = [arr EXCEPT ![warr[w]] = Enabled(@)]
  /\ WStay /\ UNCHANGED wi

WaitEnd(w) ==
  /\ WGoto(w, "unplug", "idle") \/ WGoto(w, "hw", "idle")
  /\ warr' = [warr EXCEPT ![w] = Null]
  /\ wi' = [wi EXCEPT ![w] = 1]
  /\ arr' = [arr EXCEPT ![warr[w]] = Put(@)]
  /\ UNCHANGED <<tvars, tracked, dummy, done>>

-----------------------------------------------------------------------------

InCall(t) ==
  \/ CreateArrayFails(t) \/ CreateArray(t) \/ CreateFile(t) \/ CreateFileFails(t)
  \/ CreateList(t)
  \/ BindSanitize(t) \/ BindCheck(t) \/ BindCopy(t) \/ BindLock(t)
  \/ \E f \in Fences : BindStore(t, f)
  \/ BindInvalid(t) \/ BindUnlock(t) \/ BindEnable(t) \/ BindClear(t)
  \/ BindBound(t)
  \/ InvalidBound(t) \/ InvalidError(t) \/ InvalidSignal(t) \/ InvalidClear(t)
  \/ BindPut(t)

Call(t) ==
  \/ Open(t) \/ Release(t)
  \/ \E a \in Arrays, n \in 1 .. FenceMax, any \in BOOLEAN : CreateGet(t, a, n, any)
  \/ \E a \in Arrays : BindGet(t, a)

Resume(w) == WaitWoken(w) \/ Inspect(w) \/ SwWait(w) \/ WaitEnd(w)

WaiterStep(w) == WaitTimeout(w) \/ Resume(w) \/ \E a \in Arrays : WaitBind(w, a)

World ==
  \/ \E f \in Fences : FenceSignals(f)
  \/ \E a \in Arrays : ReleaseArray(a) \/ CloseFd(a)

Next ==
  \/ \E t \in Threads : Call(t) \/ InCall(t)
  \/ \E w \in Waiters : WaiterStep(w)
  \/ World

Spec == Init /\ [][Next]_vars

\* A call that began goes on, and so does a waiter that is woken; nothing is
\* assumed of the timeout.
FairSpec ==
  /\ Spec
  /\ \A t \in Threads : WF_vars(InCall(t))
  /\ \A w \in Waiters : WF_vars(Resume(w))

-----------------------------------------------------------------------------
(* Properties. *)

ArrayType ==
  [refs : Nat, fences : UNION {[1 .. n -> Fences \union {Dummy}] : n \in 0 .. FenceMax},
   any : BOOLEAN, pending : Int, hooked : SUBSET (1 .. FenceMax),
   enable : BOOLEAN, bound : BOOLEAN, error : BOOLEAN, signaled : BOOLEAN,
   lock : Threads \union {Null}, fd : BOOLEAN, dropped : BOOLEAN]

TypeOK ==
  /\ available \in 0 .. MaxDevices
  /\ opened \in [Threads -> BOOLEAN]
  /\ tracked \subseteq Arrays
  /\ dummy \in Nat
  /\ arr \in [Arrays -> ArrayType]
  /\ done \subseteq Fences
  /\ pc \in [Threads -> {"idle", "create", "file", "list", "sanitize", "check",
       "copy", "lock", "store", "enable", "clear", "bound", "bad_bound",
       "bad_error", "bad_signal", "bad_clear", "put"}]
  /\ cur \in [Threads -> Arrays \union {Null}]
  /\ i \in [Threads -> 1 .. FenceMax + 1]
  /\ wpc \in [Waiters -> {"idle", "wait", "inspect", "sw", "hw", "unplug"}]
  /\ warr \in [Waiters -> Arrays \union {Null}]
  /\ wi \in [Waiters -> 1 .. FenceMax + 1]

\* The places of the dummy fence in all arrays.
DummyPlaces ==
  {x \in Arrays \X (1 .. FenceMax) : x[2] \in Dummies(x[1])}

(* The dummy fence has its own reference and one for every place it has in *)
(* an array: it is neither freed under an array nor leaked.                *)
DummyBalance == dummy = 1 + Cardinality(DummyPlaces)

Binding == {"sanitize", "check", "copy", "lock", "store", "enable", "clear", "bound",
            "bad_bound", "bad_error", "bad_signal", "bad_clear", "put"}

\* Who refers to the array, apart from callbacks.
Holders(a) ==
  {t \in Threads : cur[t] = a /\ pc[t] \in Binding}
    \union {w \in Waiters : warr[w] = a}
    \union (IF arr[a].fd THEN {"fd"} ELSE {})
    \union (IF a \in tracked \/ \E t \in Threads : cur[t] = a /\ pc[t] \in {"file", "list"}
              THEN {"list"} ELSE {})

(* An array has one reference for each of: its file, the list, its         *)
(* creator until it is on the list, every thread that binds it, every      *)
(* plane, every callback.  So it is not freed in use, and is freed.        *)
RefsExact ==
  \A a \in Arrays : arr[a].refs = Cardinality(Holders(a)) + Cardinality(arr[a].hooked)

(* The callbacks of an array are set on real fences only: neither a wait   *)
(* before the bind nor the last close makes it wait for the dummy fence.   *)
NoDummyHooked == \A a \in Arrays : arr[a].hooked \intersect Dummies(a) = {}

(* An array signals as its flags say: after one or after all of its        *)
(* fences, unless its bind failed or the last close dropped it.            *)
SignalledByFlags ==
  \A a \in Arrays :
    arr[a].signaled /\ ~arr[a].error /\ ~arr[a].dropped =>
        LET signalled == {n \in 1 .. Num(a) : arr[a].fences[n] \in done} IN
        IF arr[a].any THEN signalled # {} ELSE signalled = 1 .. Num(a)

(* A fence that was bound to an array stays there until the array is       *)
(* freed: an array is bound once, whatever fails and is tried again.       *)
BoundOnce ==
  [][\A a \in Arrays : arr'[a] # Unused =>
       \A n \in 1 .. Num(a) :
         arr[a].fences[n] # Dummy => arr'[a].fences[n] = arr[a].fences[n]]_vars

(* When the display takes an array for a hw-fence, all of its fences are   *)
(* hw-fences, also if the bind failed half way.                            *)
OnlyHwFences ==
  \A w \in Waiters : wpc[w] = "hw" =>
    \A n \in 1 .. Num(warr[w]) : arr[warr[w]].fences[n] \in HwFences

(* A bind that replaces fences releases those that wait for it, whether it *)
(* succeeds or fails, and without the help of the timeout.                 *)
WaiterReleased ==
  \A w \in Waiters, a \in Arrays :
    (/\ wpc[w] = "wait" /\ warr[w] = a
     /\ \E t \in Threads : cur[t] = a /\ pc[t] = "store") ~> wpc[w] # "wait"
=============================================================================
