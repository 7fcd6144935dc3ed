----------------------------- MODULE HwFenceWait -----------------------------
(***************************************************************************)
(* Waiting on hw-fences: clients that register for a fence, fence arrays   *)
(* that become join fences with child fences, the fence controller that    *)
(* signals fences, and the recovery of a client.                           *)
(*                                                                         *)
(* A lookup is one step here (HwFenceTable shows what a lookup promises);  *)
(* a hash is the slot a create happened to get.  A section of code under   *)
(* the lock of an entry is one step (HwFenceLock); what the code does      *)
(* without the lock, and between two locked sections, interleaves.  The    *)
(* parent is locked while the lock of the child is held, so a step on a    *)
(* child and its join fence is one step too.                               *)
(***************************************************************************)
EXTENDS Integers, Sequences, FiniteSets

CONSTANTS
  Threads,      \* driver threads
  Clients,      \* clients that wait, create and reset
  Fences,       \* dma-fences with a hw-fence, by context and seqno
  Arrays,       \* fence arrays, by context and seqno
  Children,     \* the fences of each array, in order
  Owner,        \* the client that creates each fence
  Slots,        \* entries of the table
  Waiters,      \* which client may wait for which fence or array
  Resetters,    \* clients that may be reset
  OneWaiter,    \* whether an array is waited for once only
  INVALID,      \* HW_FENCE_INVALID_PARENT_FENCE
  JoinClient,   \* HW_FENCE_JOIN_FENCE_CLIENT_ID
  NotHw,        \* a dma-fence that is not a hw-fence
  None

MSM_HW_FENCE_MAX_JOIN_PARENTS == 3

ASSUME WaitAssumption ==
  /\ \A a \in Arrays : Children[a] \in Seq(Fences \union {NotHw})
  /\ Owner \in [Fences -> Clients]
  /\ Waiters \subseteq Clients \X (Fences \union Arrays)
  /\ Resetters \subseteq Clients
  /\ OneWaiter \in BOOLEAN
  /\ IsFiniteSet(Slots) /\ INVALID \notin Slots
  /\ JoinClient \notin Clients
  /\ Fences \intersect Arrays = {}
  /\ NotHw \notin Fences \union Arrays \union {None}
  /\ None \notin Slots \union Clients \union Fences \union Arrays \union {JoinClient}

VARIABLES
  tbl,          \* the hw-fence table
  th,           \* the call each thread is in, and its local variables
  ended,        \* how each fence ended, if it did
  told,         \* signals delivered: client, fence, and whether with an error
  waits         \* registrations that returned 0

vars == <<tbl, th, ended, told, waits>>

Keys == Fences \union Arrays
Parents == 1 .. MSM_HW_FENCE_MAX_JOIN_PARENTS

Entry == [key : Keys \union {None}, alloc : Clients \union {JoinClient, None},
          mask : SUBSET Clients, sig : BOOLEAN, error : BOOLEAN,
          parent_list : [Parents -> Slots \union {INVALID}],
          parents_cnt : 0 .. MSM_HW_FENCE_MAX_JOIN_PARENTS,
          pending_child_cnt : Nat]

Free == [key |-> None, alloc |-> None, mask |-> {}, sig |-> FALSE,
         error |-> FALSE, parent_list |-> [p \in Parents |-> INVALID],
         parents_cnt |-> 0, pending_child_cnt |-> 0]

Pcs == {"idle", "reg_lock", "reg_check", "arr_mask", "arr_child", "arr_link",
        "arr_done", "arr_destroy", "arr_undo", "arr_fail", "rst_entry",
        "rst_owner", "rst_signal", "rst_destroy"}

Local == [pc : Pcs, client : Clients \union {None}, key : Keys \union {None},
          slot : Slots \union {None}, child : Slots \union {None}, i : Nat,
          signal : BOOLEAN, slots : SUBSET Slots, clients : SUBSET Clients,
          error : BOOLEAN, destroy : BOOLEAN]

Idle == [pc |-> "idle", client |-> None, key |-> None, slot |-> None,
         child |-> None, i |-> 0, signal |-> FALSE, slots |-> {},
         clients |-> {}, error |-> FALSE, destroy |-> FALSE]

TypeOK ==
  /\ tbl \in [Slots -> Entry]
  /\ th \in [Threads -> Local]
  /\ ended \in [Fences -> {"new", "no", "ok", "error", "reset"}]
  /\ told \subseteq Clients \X (Keys \union {None}) \X BOOLEAN
  /\ waits \subseteq Clients \X Keys

Init ==
  /\ tbl = [s \in Slots |-> Free]
  /\ th = [t \in Threads |-> Idle]
  /\ ended = [f \in Fences |-> "new"]
  /\ told = {}
  /\ waits = {}

-----------------------------------------------------------------------------
(* The table. *)

\* msm_hw_fence_find(): the entries of key k, of which it finds one.  A fence
\* has one entry at most, as it is created once; an array has, if OneWaiter.
Find(k) == {s \in Slots : tbl[s].key = k}

\* _hw_fence_lookup_and_process(DESTROY): the entry of key k that is found
\* first is cleared.
DestroyEntry(k) ==
  \/ \E s \in Find(k) : tbl' = [tbl EXCEPT ![s] = Free]
  \/ Find(k) = {} /\ UNCHANGED tbl

IsChild(f, a) == \E n \in DOMAIN Children[a] : Children[a][n] = f

\* Somebody has a reference to dma-fence f, as a caller or through an array.
Referenced(f) ==
  \/ \E t \in Threads : \/ th[t].key = f
                        \/ th[t].key \in Arrays /\ IsChild(f, th[t].key)
  \/ \E s \in Slots : tbl[s].key \in Arrays /\ IsChild(f, tbl[s].key)

\* Client c runs msm_hw_fence_reset_client(), and nothing else meanwhile.
Resetting(c) ==
  \E t \in Threads :
    /\ th[t].client = c
    /\ th[t].pc \in {"rst_entry", "rst_owner", "rst_signal", "rst_destroy"}

\* hw_fence_create().  A dma-fence is created once.
Create(f) ==
  /\ ended[f] = "new"
  /\ ~Resetting(Owner[f])
  /\ \E s \in Find(None) :
       tbl' = [tbl EXCEPT ![s] = [Free EXCEPT !.key = f, !.alloc = Owner[f]]]
  /\ ended' = [ended EXCEPT ![f] = "no"]
  /\ UNCHANGED <<th, told, waits>>

\* hw_fence_destroy(), which the owner calls when the dma-fence is released:
\* it has signalled and nobody has a reference to it.
Destroy(f) ==
  /\ \E s \in Find(f) : tbl[s].sig
  /\ ~Referenced(f)
  /\ ~Resetting(Owner[f])
  /\ DestroyEntry(f)
  /\ UNCHANGED <<th, ended, told, waits>>

-----------------------------------------------------------------------------
(* The fence controller (external) signals the fence in entry s: it passes *)
(* the error on to the parents, and a join fence whose last child this is  *)
(* is signalled to its waiters and destroyed.                              *)

Links(s, j) == Cardinality({p \in Parents : tbl[s].parent_list[p] = j})

FctlSignal(s, err) ==
  LET Left(j) == tbl[j].pending_child_cnt - Links(s, j)
      Ends(j) == Links(s, j) > 0 /\ Left(j) = 0 IN
  /\ tbl[s].key \in Fences
  /\ ~tbl[s].sig
  /\ tbl' = [j \in Slots |->
       IF j = s THEN [tbl[s] EXCEPT !.sig = TRUE, !.error = err]
       ELSE IF Ends(j) THEN Free
       ELSE IF Links(s, j) > 0
       THEN [tbl[j] EXCEPT !.error = @ \/ err, !.pending_child_cnt = Left(j)]
       ELSE tbl[j]]
  /\ ended' = [ended EXCEPT ![tbl[s].key] = IF err THEN "error" ELSE "ok"]
  /\ told' = told
       \union {<<c, tbl[s].key, err>> : c \in tbl[s].mask}
       \union UNION {{<<c, tbl[j].key, tbl[j].error \/ err>> : c \in tbl[j].mask} :
                       j \in {r \in Slots : Ends(r)}}
  /\ UNCHANGED <<th, waits>>

-----------------------------------------------------------------------------
(* hw_fence_process_fence() and hw_fence_register_wait_client() *)

\* Thread t goes on with the local variables l.
At(t, pc) == th[t].pc = pc
Goto(t, l) == th' = [th EXCEPT ![t] = l]

Tell(c, s, err) == told' = told \union {<<c, tbl[s].key, err>>}

\* Look the fence up; a fence that is not found is an error.
RegisterWait(t, c, f) ==
  /\ At(t, "idle")
  /\ ~Resetting(c)
  /\ <<c, f>> \notin waits
  /\ \E s \in Find(f) :
       Goto(t, [Idle EXCEPT !.pc = "reg_lock", !.client = c,
                            !.key = f, !.slot = s])
  /\ UNCHANGED <<tbl, ended, told, waits>>

\* Under the lock: become a waiter of the entry.
RegisterLock(t) ==
  LET l == th[t] IN
  /\ At(t, "reg_lock")
  /\ Goto(t, [l EXCEPT !.pc = "reg_check"])
  /\ tbl' = [tbl EXCEPT ![l.slot].mask = @ \union {l.client}]
  /\ UNCHANGED <<ended, told, waits>>

\* Faulty variant of RegisterCheck: takes for granted that the fence signals.
RegisterCheckNothing(t) ==
  LET l == th[t] IN
  /\ At(t, "reg_check")
  /\ Goto(t, Idle)
  /\ waits' = waits \union {<<l.client, l.key>>}
  /\ UNCHANGED <<tbl, ended, told>>

\* Faulty variant of RegisterCheck: signals the client at once.
RegisterCheckAlways(t) ==
  LET l == th[t] IN
  /\ At(t, "reg_check")
  /\ Goto(t, Idle)
  /\ Tell(l.client, l.slot, FALSE)
  /\ waits' = waits \union {<<l.client, l.key>>}
  /\ UNCHANGED <<tbl, ended>>

\* Without the lock: if the fence has signalled already, signal the client,
\* with error 0.
RegisterCheck(t) ==
  LET l == th[t] IN
  /\ At(t, "reg_check")
  /\ Goto(t, Idle)
  /\ \/ tbl[l.slot].sig /\ Tell(l.client, l.slot, FALSE)
     \/ ~tbl[l.slot].sig /\ UNCHANGED told
  /\ waits' = waits \union {<<l.client, l.key>>}
  /\ UNCHANGED <<tbl, ended>>

-----------------------------------------------------------------------------
(* hw_fence_process_fence_array() *)

Num(t) == Len(Children[th[t].key])

\* The rule of the callers, if any: nobody waits, or has waited, for array a.
\* The code has no such rule.  Its create refuses a key only if it meets it
\* before a free entry: otherwise a second join fence of the array is made.
MayJoin(a) ==
  OneWaiter => /\ \A u \in Threads : th[u].key # a
               /\ \A d \in Clients : <<d, a>> \notin waits

\* Faulty variant of ArrayStart: one child too few is counted.
ArrayStartOneShort(t, c, a) ==
  /\ At(t, "idle")
  /\ ~Resetting(c)
  /\ <<c, a>> \notin waits
  /\ MayJoin(a)
  /\ \E s \in Find(None) :
       /\ tbl' = [tbl EXCEPT ![s] = [Free EXCEPT !.key = a, !.alloc = JoinClient,
                                       !.pending_child_cnt = Len(Children[a]) - 1]]
       /\ Goto(t, [Idle EXCEPT !.pc = "arr_mask", !.client = c,
                               !.key = a, !.slot = s, !.i = 1])
  /\ UNCHANGED <<ended, told, waits>>

\* Create the join fence; without room, or if the key is met, the call fails
\* and changes nothing.
ArrayStart(t, c, a) ==
  /\ At(t, "idle")
  /\ ~Resetting(c)
  /\ <<c, a>> \notin waits
  /\ MayJoin(a)
  /\ \E s \in Find(None) :
       /\ tbl' = [tbl EXCEPT ![s] = [Free EXCEPT !.key = a, !.alloc = JoinClient,
                                       !.pending_child_cnt = Len(Children[a])]]
       /\ Goto(t, [Idle EXCEPT !.pc = "arr_mask", !.client = c,
                               !.key = a, !.slot = s, !.i = 1])
  /\ UNCHANGED <<ended, told, waits>>

\* The caller becomes a waiter of the join fence.
ArrayMask(t) ==
  LET l == th[t] IN
  /\ At(t, "arr_mask")
  /\ Goto(t, [l EXCEPT !.pc = "arr_child"])
  /\ tbl' = [tbl EXCEPT ![l.slot].mask = @ \union {l.client}]
  /\ UNCHANGED <<ended, told, waits>>

\* The next element of the array: a hw-fence that is found, or an error.
ArrayChild(t) ==
  LET l == th[t]
      f == Children[l.key][l.i] IN
  /\ At(t, "arr_child")
  /\ l.i <= Num(t)
  /\ \/ \E s \in Find(f) :
          Goto(t, [l EXCEPT !.pc = "arr_link", !.child = s])
     \/ /\ Find(f) = {}
        /\ Goto(t, [l EXCEPT !.pc = "arr_undo"])
  /\ UNCHANGED <<tbl, ended, told, waits>>

NextChild(l) == [l EXCEPT !.pc = "arr_child", !.child = None, !.i = @ + 1]

\* Faulty variant of LinkSignalled: the child is not counted.
LinkSignalledUncounted(t) ==
  LET l == th[t] IN
  /\ At(t, "arr_link")
  /\ tbl[l.child].sig
  /\ tbl' = [tbl EXCEPT ![l.slot].error = @ \/ tbl[l.child].error]
  /\ Goto(t, NextChild(l))
  /\ UNCHANGED <<ended, told, waits>>

\* Faulty variant of LinkSignalled: the error of the child is dropped.
LinkSignalledNoError(t) ==
  LET l == th[t]
      left == tbl[l.slot].pending_child_cnt - 1 IN
  /\ At(t, "arr_link")
  /\ tbl[l.child].sig
  /\ tbl' = [tbl EXCEPT ![l.slot].pending_child_cnt = left]
  /\ Goto(t, [NextChild(l) EXCEPT !.signal = @ \/ left = 0])
  /\ UNCHANGED <<ended, told, waits>>

\* Under the locks of child and join fence: a child that has signalled.
LinkSignalled(t) ==
  LET l == th[t]
      left == tbl[l.slot].pending_child_cnt - 1 IN
  /\ At(t, "arr_link")
  /\ tbl[l.child].sig
  /\ tbl' = [tbl EXCEPT ![l.slot] =
               [@ EXCEPT !.error = tbl[l.slot].error \/ tbl[l.child].error,
                         !.pending_child_cnt = left]]
  /\ Goto(t, [NextChild(l) EXCEPT !.signal = @ \/ left = 0])
  /\ UNCHANGED <<ended, told, waits>>

\* Under the lock of the child: a child still to signal gets a parent.
LinkPending(t) ==
  LET l == th[t]
      cnt == tbl[l.child].parents_cnt + 1 IN
  /\ At(t, "arr_link")
  /\ ~tbl[l.child].sig
  /\ \/ /\ cnt < MSM_HW_FENCE_MAX_JOIN_PARENTS
        /\ tbl' = [tbl EXCEPT ![l.child] = [@ EXCEPT !.parents_cnt = cnt,
                                                    !.parent_list[cnt] = l.slot]]
        /\ Goto(t, NextChild(l))
     \/ /\ cnt >= MSM_HW_FENCE_MAX_JOIN_PARENTS
        /\ Goto(t, [l EXCEPT !.pc = "arr_undo", !.child = None])
        /\ UNCHANGED tbl
  /\ UNCHANGED <<ended, told, waits>>

\* After the last child: signal the caller if all children had signalled,
\* undo an empty array, or leave the rest to the fence controller.
ArrayDone(t) ==
  LET l == th[t] IN
  /\ At(t, "arr_child")
  /\ l.i > Num(t)
  /\ \/ /\ l.signal
        /\ Goto(t, [l EXCEPT !.pc = "arr_destroy"])
        /\ Tell(l.client, l.slot, tbl[l.slot].error)
        /\ UNCHANGED waits
     \/ /\ ~l.signal /\ Num(t) = 0
        /\ Goto(t, [l EXCEPT !.pc = "arr_undo"])
        /\ UNCHANGED <<told, waits>>
     \/ /\ ~l.signal /\ Num(t) > 0
        /\ Goto(t, Idle)
        /\ waits' = waits \union {<<l.client, l.key>>}
        /\ UNCHANGED told
  /\ UNCHANGED <<tbl, ended>>

\* The join fence has done its job.
ArrayDestroy(t) ==
  LET l == th[t] IN
  /\ At(t, "arr_destroy")
  /\ Goto(t, Idle)
  /\ DestroyEntry(l.key)
  /\ waits' = waits \union {<<l.client, l.key>>}
  /\ UNCHANGED <<ended, told>>

\* The child without parent j: only the first parents_cnt parents are
\* looked at, and the list is not closed up.
Unlinked(e, j) ==
  LET gone == {p \in 1 .. e.parents_cnt : e.parent_list[p] = j} IN
  [e EXCEPT !.parent_list = [p \in Parents |-> IF p \in gone THEN INVALID
                                               ELSE e.parent_list[p]],
            !.parents_cnt = @ - Cardinality(gone)]

\* array->fences[n].  An empty array is undone from its element 0 as well: what
\* is read there may be anything.
Element(a, n) ==
  IF n \in DOMAIN Children[a] THEN {Children[a][n]} ELSE Keys \union {NotHw}

\* Faulty variant of ArrayUndo: leaves out the first element.
ArrayUndoAllButFirst(t) ==
  LET l == th[t] IN
  /\ At(t, "arr_undo")
  /\ Goto(t, IF l.i <= 2 THEN [l EXCEPT !.pc = "arr_fail", !.i = 0]
                         ELSE [l EXCEPT !.i = @ - 1])
  /\ \E f \in Element(l.key, l.i) :
       tbl' = [s \in Slots |-> IF s \in Find(f) THEN Unlinked(tbl[s], l.slot)
                                               ELSE tbl[s]]
  /\ UNCHANGED <<ended, told, waits>>

\* _cleanup_join_and_child_fences(), from the failed element down to the
\* first; an element that is not found is skipped.
ArrayUndo(t) ==
  LET l == th[t] IN
  /\ At(t, "arr_undo")
  /\ Goto(t, IF l.i = 1 THEN [l EXCEPT !.pc = "arr_fail", !.i = 0]
                        ELSE [l EXCEPT !.i = @ - 1])
  /\ \E f \in Element(l.key, l.i) :
       tbl' = [s \in Slots |-> IF s \in Find(f) THEN Unlinked(tbl[s], l.slot)
                                               ELSE tbl[s]]
  /\ UNCHANGED <<ended, told, waits>>

\* ... and then the join fence is destroyed and the call fails.
ArrayFail(t) ==
  /\ At(t, "arr_fail")
  /\ Goto(t, Idle)
  /\ DestroyEntry(th[t].key)
  /\ UNCHANGED <<ended, told, waits>>

-----------------------------------------------------------------------------
(* msm_hw_fence_reset_client() and hw_fence_utils_cleanup_fence() *)

\* The client stops all else; what it waited for is forgotten.
Reset(t, c, err, destroy) ==
  /\ At(t, "idle")
  /\ \A u \in Threads : th[u].client # c
  /\ Goto(t, [Idle EXCEPT !.pc = "rst_entry", !.client = c,
                          !.slots = Slots, !.error = err, !.destroy = destroy])
  /\ waits' = {w \in waits : w[1] # c}
  /\ UNCHANGED <<tbl, ended, told>>

\* Faulty variant of ResetEntry: only looks at the client's own fences.
ResetEntryOwn(t, s) ==
  LET l == th[t] IN
  /\ At(t, "rst_entry")
  /\ s \in l.slots
  /\ Goto(t, [l EXCEPT !.pc = "rst_owner", !.slot = s,
                       !.slots = @ \ {s}])
  /\ tbl' = IF tbl[s].alloc # l.client THEN tbl
            ELSE [tbl EXCEPT ![s].mask = @ \ {l.client}]
  /\ UNCHANGED <<ended, told, waits>>

\* The next entry.  Under its lock: stop waiting for it.
ResetEntry(t, s) ==
  LET l == th[t] IN
  /\ At(t, "rst_entry")
  /\ s \in l.slots
  /\ Goto(t, [l EXCEPT !.pc = "rst_owner", !.slot = s,
                       !.slots = @ \ {s}])
  /\ tbl' = [tbl EXCEPT ![s].mask = @ \ {l.client}]
  /\ UNCHANGED <<ended, told, waits>>

NextEntry(l) == [l EXCEPT !.pc = "rst_entry", !.slot = None, !.clients = {}]

\* Without the lock: is the fence this client's, and has it signalled?
ResetOwner(t) ==
  LET l == th[t]
      e == tbl[l.slot] IN
  /\ At(t, "rst_owner")
  /\ \/ /\ e.alloc # l.client
        /\ Goto(t, NextEntry(l))
     \/ /\ e.alloc = l.client /\ e.sig
        /\ Goto(t, [l EXCEPT !.pc = "rst_destroy"])
     \/ /\ e.alloc = l.client /\ ~e.sig
        /\ Goto(t, [l EXCEPT !.pc = "rst_signal", !.clients = Clients])
  /\ UNCHANGED <<tbl, ended, told, waits>>

\* _signal_all_wait_clients(): one client after the other, without the lock.
ResetSignal(t, c) ==
  LET l == th[t]
      left == l.clients \ {c} IN
  /\ At(t, "rst_signal")
  /\ c \in l.clients
  /\ Goto(t, [l EXCEPT !.clients = left,
                       !.pc = IF left = {} THEN "rst_destroy" ELSE @])
  /\ \/ c \in tbl[l.slot].mask /\ Tell(c, l.slot, l.error)
     \/ c \notin tbl[l.slot].mask /\ UNCHANGED told
  /\ ended' = IF tbl[l.slot].key \in Fences /\ ~tbl[l.slot].sig
              THEN [ended EXCEPT ![tbl[l.slot].key] = "reset"] ELSE ended
  /\ UNCHANGED <<tbl, waits>>

\* Unless told otherwise, destroy the fence by its key.
ResetDestroy(t) ==
  LET l == th[t] IN
  /\ At(t, "rst_destroy")
  /\ Goto(t, NextEntry(l))
  /\ IF l.destroy THEN DestroyEntry(tbl[l.slot].key) ELSE UNCHANGED tbl
  /\ UNCHANGED <<ended, told, waits>>

\* hw_fence_utils_reset_queues(): what is queued for the client is dropped.
ResetReturn(t) ==
  /\ At(t, "rst_entry")
  /\ th[t].slots = {}
  /\ Goto(t, Idle)
  /\ told' = {x \in told : x[1] # th[t].client}
  /\ UNCHANGED <<tbl, ended, waits>>

-----------------------------------------------------------------------------

Call(t) ==
  \E c \in Clients :
    \/ \E f \in Fences : <<c, f>> \in Waiters /\ RegisterWait(t, c, f)
    \/ \E a \in Arrays : <<c, a>> \in Waiters /\ ArrayStart(t, c, a)
    \/ c \in Resetters /\ \E err, destroy \in BOOLEAN : Reset(t, c, err, destroy)

Step(t) ==
  \/ RegisterLock(t) \/ RegisterCheck(t)
  \/ ArrayMask(t) \/ ArrayChild(t) \/ LinkSignalled(t) \/ LinkPending(t)
  \/ ArrayDone(t) \/ ArrayDestroy(t) \/ ArrayUndo(t) \/ ArrayFail(t)
  \/ \E s \in Slots : ResetEntry(t, s)
  \/ \E c \in Clients : ResetSignal(t, c)
  \/ ResetOwner(t) \/ ResetDestroy(t) \/ ResetReturn(t)

Signalled == \E s \in Slots, err \in BOOLEAN : FctlSignal(s, err)

Next ==
  \/ \E f \in Fences : Create(f) \/ Destroy(f)
  \/ Signalled
  \/ \E t \in Threads : Call(t) \/ Step(t)

Spec == Init /\ [][Next]_vars

(* A call that has begun goes on, and the client of every fence reports it *)
(* in the end, as a dma-fence must.                                        *)
FairSpec == Spec /\ WF_vars(Signalled) /\ \A t \in Threads : WF_vars(Step(t))

-----------------------------------------------------------------------------
(* Properties. *)

HasEnded(f) == ended[f] \in {"ok", "error", "reset"}

(* Nobody is signalled early: a client hears of a fence only after the     *)
(* fence has signalled, or was reset, and of a join fence only after all   *)
(* its children have.                                                      *)
NoEarlySignal ==
  \A x \in told :
    /\ x[2] \in Fences => HasEnded(x[2])
    /\ x[2] \in Arrays =>
         \A n \in DOMAIN Children[x[2]] : HasEnded(Children[x[2]][n])

Told(c, k) == \E err \in BOOLEAN : <<c, k, err>> \in told

(* No waiter is forgotten: a client whose registration returned 0 has been *)
(* signalled, or it is in the wait mask of an entry that is still to       *)
(* signal.                                                                 *)
NoWaiterForgotten ==
  \A w \in waits :
    Told(w[1], w[2]) \/ \E s \in Find(w[2]) : w[1] \in tbl[s].mask /\ ~tbl[s].sig

\* The elements of the array that the thread which builds the join fence in
\* entry j has still to link.
ToLink(j) ==
  LET builders == {t \in Threads :
        th[t].slot = j /\ th[t].pc \in {"arr_mask", "arr_child", "arr_link"}} IN
  UNION {{t} \X (th[t].i .. Num(t)) : t \in builders}

\* The places where a fence still to signal has the entry j as a parent.
Waiting(j) ==
  {w \in Slots \X Parents : /\ tbl[w[1]].key \in Fences /\ ~tbl[w[1]].sig
                            /\ tbl[w[1]].parent_list[w[2]] = j}

Undoing(j) ==
  \E t \in Threads : th[t].slot = j /\ th[t].pc \in {"arr_undo", "arr_fail"}

(* pending_child_cnt counts the children a join fence waits for: those its *)
(* builder has still to link and those that have it as a parent and are    *)
(* still to signal, whoever of driver and fence controller counts down.    *)
JoinCount ==
  \A j \in Slots :
    tbl[j].alloc = JoinClient /\ ~Undoing(j) =>
      tbl[j].pending_child_cnt = Cardinality(ToLink(j)) + Cardinality(Waiting(j))

(* A fence still to signal has no parent that is gone: whatever            *)
(* _cleanup_join_and_child_fences() undoes, each parent it keeps is a join *)
(* fence of the table for an array that the fence is in.                   *)
ParentsAreLive ==
  \A s \in Slots, p \in Parents :
    LET j == tbl[s].parent_list[p] IN
    tbl[s].key \in Fences /\ ~tbl[s].sig /\ j # INVALID =>
      tbl[j].key \in Arrays /\ IsChild(tbl[s].key, tbl[j].key)

(* No parent of a fence stands behind the first parents_cnt places:        *)
(* hw_fence_process_fence_array() stores the next parent right behind      *)
(* them, and _cleanup_join_and_child_fences() looks no further.            *)
ListsClosed ==
  \A s \in Slots, p \in Parents :
    tbl[s].key \in Fences /\ ~tbl[s].sig /\ tbl[s].parent_list[p] # INVALID =>
      p <= tbl[s].parents_cnt

(* An error of a child reaches the waiters of the join fence, whether the  *)
(* child signalled before it was linked or after.                          *)
JoinErrorKept ==
  \A x \in told :
    x[2] \in Arrays /\ ~x[3] => \A f \in Fences : IsChild(f, x[2]) => ended[f] # "error"

(* An error of a fence reaches the clients that wait for it, also those    *)
(* that register when it has signalled already.                            *)
ErrorPropagated ==
  \A x \in told : x[2] \in Fences /\ ~x[3] => ended[x[2]] # "error"

(* When msm_hw_fence_reset_client() returns, the client waits for no entry *)
(* of the table and, unless it asked for the fences to be kept, owns none. *)
ResetClean ==
  [][\A t \in Threads :
       th[t].pc = "rst_entry" /\ th'[t].pc = "idle" =>
         \A s \in Slots : /\ th[t].client \notin tbl[s].mask
                          /\ th[t].destroy => tbl[s].alloc # th[t].client]_vars

(* Every client whose registration returned 0 is signalled in the end.     *)
WaitersServed ==
  \A c \in Clients, k \in Keys : <<c, k>> \in waits ~> Told(c, k)
=============================================================================
