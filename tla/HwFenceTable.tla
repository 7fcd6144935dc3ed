---------------------------- MODULE HwFenceTable ----------------------------
(***************************************************************************)
(* The hw-fence table: an open-addressed hash table of Size entries in     *)
(* memory shared by all clients.  Every operation is a run of probes of    *)
(* _hw_fence_lookup_and_process(); a probe locks one entry, compares it    *)
(* and processes it if it matches, so a probe is atomic (HwFenceLock) but  *)
(* probes of different threads interleave.  There are no tombstones: a     *)
(* destroyed entry is a hole that a later create may fill.                 *)
(*                                                                         *)
(* A fence is named by the context and the seqno of its dma-fence.  The    *)
(* rest of an entry (waiters, parents, flags) is the matter of HwFenceWait.*)
(***************************************************************************)
EXTENDS Integers

CONSTANTS
  Threads,      \* driver threads
  Clients,      \* hw-fence clients
  Keys,         \* context and seqno of the dma-fences
  Size,         \* hw_fence_table_entries
  SharedKeys,   \* those of fence arrays, created by each client that waits
  NoClient

ASSUME TableAssumption ==
  /\ Size \in Nat \ {0}
  /\ Keys \subseteq [ctx : Nat \ {0}, seq : Nat]
  /\ SharedKeys \subseteq Keys
  /\ NoClient \notin Clients

VARIABLES
  tbl,          \* the table
  op,           \* operation each thread runs
  key,          \* fence each thread looks up
  client,       \* client each thread works for
  hash,         \* last slot the thread has probed, or its argument
  step,         \* probes the thread has made
  cand,         \* history: slots that have matched since the lookup began
  dup           \* history: slots that have held the key since the create began

vars == <<tbl, op, key, client, hash, step, cand, dup>>

Slots == 0 .. Size - 1
NoKey == [ctx |-> 0, seq |-> 0]
Free  == [valid |-> FALSE, key |-> NoKey, alloc |-> NoClient]
Entry == [valid : BOOLEAN, key : Keys \union {NoKey},
          alloc : Clients \union {NoClient}]

Lookups == {"create", "find", "destroy"}

TypeOK ==
  /\ tbl \in [Slots -> Entry]
  /\ op \in [Threads -> Lookups \union {"idle", "read_key"}]
  /\ key \in [Threads -> Keys \union {NoKey}]
  /\ client \in [Threads -> Clients \union {NoClient}]
  /\ hash \in [Threads -> Slots]
  /\ step \in [Threads -> 0 .. Size]
  /\ cand \in [Threads -> SUBSET Slots]
  /\ dup \in [Threads -> SUBSET Slots]

\* init_hw_fences_table(): a zeroed table.
Init ==
  /\ tbl = [s \in Slots |-> Free]
  /\ op = [t \in Threads |-> "idle"]
  /\ key = [t \in Threads |-> NoKey]
  /\ client = [t \in Threads |-> NoClient]
  /\ hash = [t \in Threads |-> 0]
  /\ step = [t \in Threads |-> 0]
  /\ cand = [t \in Threads |-> {}]
  /\ dup = [t \in Threads |-> {}]

-----------------------------------------------------------------------------
(* The hash and the comparisons. *)

HW_FENCE_HASH_A_MULT == 4969
HW_FENCE_HASH_C_MULT == 907

\* _calculate_hash() at step 0.  (The code's 64-bit wrap only permutes keys.)
FirstHash(k) ==
  (HW_FENCE_HASH_A_MULT * k.seq * (2 * k.ctx - 1)
     + HW_FENCE_HASH_C_MULT * k.ctx) % Size

\* Faulty variant of NextHash: stays at the end of the table.
NextHashClamps(h) == IF h + 1 = Size THEN h ELSE h + 1

\* _calculate_hash() at the later steps.
NextHash(h) == (h + 1) % Size

\* _is_hw_fence_free() for create, _hw_fence_match() otherwise.
Compare(o, e, k) == IF o = "create" THEN ~e.valid ELSE e.key = k

\* _reserve_hw_fence(), _unreserve_hw_fence() and _fence_found().
Process(o, e, k, c) ==
  CASE o = "create"  -> [valid |-> TRUE, key |-> k, alloc |-> c]
    [] o = "destroy" -> Free
    [] OTHER         -> e

-----------------------------------------------------------------------------
(* The calls of the clients. *)

Matching(o, k) == {s \in Slots : Compare(o, tbl[s], k)}
Holding(o, k) == {s \in Slots : o = "create" /\ tbl[s].valid /\ tbl[s].key = k}

Begin(t, o, k, c) ==
  /\ op' = [op EXCEPT ![t] = o]
  /\ key' = [key EXCEPT ![t] = k]
  /\ client' = [client EXCEPT ![t] = c]
  /\ step' = [step EXCEPT ![t] = 0]
  /\ cand' = [cand EXCEPT ![t] = Matching(o, k)]
  /\ dup' = [dup EXCEPT ![t] = Holding(o, k)]

\* Nobody has, or is about to get, a fence with this key.
Unused(k) ==
  /\ \A s \in Slots : tbl[s].valid => tbl[s].key # k
  /\ \A t \in Threads : op[t] \in {"create", "destroy"} => key[t] # k

\* hw_fence_create(), and the creation of a join fence.  A caller creates a
\* dma-fence once; the fence array that several clients wait on is created
\* again by each of them.
Create(t, c, k) ==
  /\ op[t] = "idle"
  /\ k \in SharedKeys \/ Unused(k)
  /\ Begin(t, "create", k, c)
  /\ UNCHANGED <<tbl, hash>>

\* msm_hw_fence_find()
Find(t, c, k) ==
  /\ op[t] = "idle"
  /\ Begin(t, "find", k, c)
  /\ UNCHANGED <<tbl, hash>>

Destroying(k) ==
  \E t \in Threads : \/ op[t] = "destroy" /\ key[t] = k
                     \/ op[t] = "read_key" /\ tbl[hash[t]].key = k

\* What a caller of destroy keeps to: the fence is its own, and it destroys
\* the fence once.
MayDestroy(c, k) ==
  /\ \E s \in Slots : tbl[s].valid /\ tbl[s].key = k /\ tbl[s].alloc = c
  /\ ~Destroying(k)

\* hw_fence_destroy(), msm_hw_fence_destroy()
Destroy(t, c, k) ==
  /\ op[t] = "idle"
  /\ MayDestroy(c, k)
  /\ Begin(t, "destroy", k, c)
  /\ UNCHANGED <<tbl, hash>>

\* Faulty variant of DestroyWithHash: the allocator is not checked.
DestroyWithHashUnchecked(t, c, h) ==
  /\ op[t] = "idle"
  /\ ~Destroying(tbl[h].key)
  /\ op' = [op EXCEPT ![t] = "read_key"]
  /\ client' = [client EXCEPT ![t] = c]
  /\ hash' = [hash EXCEPT ![t] = h]
  /\ step' = [step EXCEPT ![t] = 0]
  /\ UNCHANGED <<tbl, key, cand, dup>>

\* hw_fence_destroy_with_hash(): the allocator is checked without the lock.
\* The handle may be any slot, the caller's own or not; all that the caller
\* keeps to is that nobody destroys the same fence at the same time.
DestroyWithHash(t, c, h) ==
  /\ op[t] = "idle"
  /\ tbl[h].alloc = c
  /\ ~Destroying(tbl[h].key)
  /\ op' = [op EXCEPT ![t] = "read_key"]
  /\ client' = [client EXCEPT ![t] = c]
  /\ hash' = [hash EXCEPT ![t] = h]
  /\ step' = [step EXCEPT ![t] = 0]
  /\ UNCHANGED <<tbl, key, cand, dup>>

\* ... and its context and seqno are read, again without the lock.
ReadKey(t) ==
  /\ op[t] = "read_key"
  /\ Begin(t, "destroy", tbl[hash[t]].key, client[t])
  /\ UNCHANGED <<tbl, hash>>

-----------------------------------------------------------------------------
(* One turn of the loop of _hw_fence_lookup_and_process(). *)

ProbeSlot(t) == IF step[t] = 0 THEN FirstHash(key[t]) ELSE NextHash(hash[t])

Probing(t) == op[t] \in Lookups /\ step[t] < Size

\* The candidates of the lookups under way, after entry s became e.
Keep(s, e) ==
  [u \in Threads |->
     IF op[u] \in Lookups /\ ~Compare(op[u], e, key[u])
     THEN cand[u] \ {s} ELSE cand[u]]

\* The entries that creates under way still have for their key, likewise.
KeepDup(s, e) ==
  [u \in Threads |->
     IF op[u] = "create" /\ ~(e.valid /\ e.key = key[u])
     THEN dup[u] \ {s} ELSE dup[u]]

\* The call of t is over; c and d is what the lookups under way keep.
Return(t, c, d) ==
  /\ op' = [op EXCEPT ![t] = "idle"]
  /\ key' = [key EXCEPT ![t] = NoKey]
  /\ client' = [client EXCEPT ![t] = NoClient]
  /\ hash' = [hash EXCEPT ![t] = 0]
  /\ step' = [step EXCEPT ![t] = 0]
  /\ cand' = [c EXCEPT ![t] = {}]
  /\ dup' = [d EXCEPT ![t] = {}]

\* The entry matches and is processed: the lookup is over.
ProbeHit(t) ==
  LET s == ProbeSlot(t)
      e == Process(op[t], tbl[s], key[t], client[t]) IN
  /\ Probing(t)
  /\ Compare(op[t], tbl[s], key[t])
  /\ tbl' = [tbl EXCEPT ![s] = e]
  /\ Return(t, Keep(s, e), KeepDup(s, e))

\* Create meets an entry with its own key and fails.
ProbeDuplicate(t) ==
  LET s == ProbeSlot(t) IN
  /\ Probing(t)
  /\ op[t] = "create"
  /\ tbl[s].valid /\ tbl[s].key = key[t]
  /\ Return(t, cand, dup)
  /\ UNCHANGED tbl

\* Faulty variant of ProbeMiss: the search ends at a hole.
ProbeMissStopsAtHole(t) ==
  LET s == ProbeSlot(t) IN
  /\ Probing(t)
  /\ ~Compare(op[t], tbl[s], key[t])
  /\ op[t] = "create" => tbl[s].key # key[t]
  /\ hash' = [hash EXCEPT ![t] = s]
  /\ step' = [step EXCEPT ![t] = IF tbl[s].valid THEN @ + 1 ELSE Size]
  /\ UNCHANGED <<tbl, op, key, client, cand, dup>>

\* Faulty variant of ProbeMiss: create goes on behind an entry with its key.
ProbeMissUnique(t) ==
  LET s == ProbeSlot(t) IN
  /\ Probing(t)
  /\ ~Compare(op[t], tbl[s], key[t])
  /\ hash' = [hash EXCEPT ![t] = s]
  /\ step' = [step EXCEPT ![t] = @ + 1]
  /\ UNCHANGED <<tbl, op, key, client, cand, dup>>

\* Faulty variant of ProbeMiss: the step is counted twice.
ProbeMissTwice(t) ==
  LET s == ProbeSlot(t) IN
  /\ Probing(t)
  /\ ~Compare(op[t], tbl[s], key[t])
  /\ op[t] = "create" => tbl[s].key # key[t]
  /\ hash' = [hash EXCEPT ![t] = s]
  /\ step' = [step EXCEPT ![t] = @ + 2]
  /\ UNCHANGED <<tbl, op, key, client, cand, dup>>

ProbeMiss(t) ==
  LET s == ProbeSlot(t) IN
  /\ Probing(t)
  /\ ~Compare(op[t], tbl[s], key[t])
  /\ op[t] = "create" => tbl[s].key # key[t]
  /\ hash' = [hash EXCEPT ![t] = s]
  /\ step' = [step EXCEPT ![t] = @ + 1]
  /\ UNCHANGED <<tbl, op, key, client, cand, dup>>

\* The whole table was traversed: the lookup fails.
GiveUp(t) ==
  /\ op[t] \in Lookups /\ step[t] = Size
  /\ Return(t, cand, dup)
  /\ UNCHANGED tbl

-----------------------------------------------------------------------------

Call(t) ==
  \E c \in Clients :
    \/ \E k \in Keys : Create(t, c, k) \/ Find(t, c, k) \/ Destroy(t, c, k)
    \/ \E h \in Slots : DestroyWithHash(t, c, h)

Lookup(t) ==
  ReadKey(t) \/ ProbeHit(t) \/ ProbeDuplicate(t) \/ ProbeMiss(t) \/ GiveUp(t)

Next == \E t \in Threads : Call(t) \/ Lookup(t)

Spec == Init /\ [][Next]_vars

-----------------------------------------------------------------------------
(* Properties. *)

(* A lookup misses nothing: when it has traversed the table and fails, no  *)
(* entry has matched all along.  So find and destroy never fail on a fence *)
(* that exists, holes in its probe sequence or not, and create never fails *)
(* while an entry stays free, whatever other threads do meanwhile.         *)
LookupComplete ==
  \A t \in Threads : op[t] \in Lookups /\ step[t] = Size => cand[t] = {}

\* How many probes after slot h slot s is reached.
Dist(h, s) == IF s >= h THEN s - h ELSE s - h + Size

(* Create never passes an entry with its own key ("ctx & seqno must be     *)
(* unique creating a hw-fence"): the slot that it fills lies in front of   *)
(* every entry that has had the key ever since the call began, for the     *)
(* keys of fence arrays too and whatever other threads create and destroy  *)
(* between its probes.  This is all that the check for duplicates gives:   *)
(* an entry behind a hole is not seen, and then the key is there twice.    *)
DuplicateSeen ==
  [][\A t \in Threads, s \in Slots :
       op[t] = "create" /\ op'[t] = "idle" /\ tbl'[s] # tbl[s] =>
         \A r \in dup[t] : Dist(FirstHash(key[t]), s) < Dist(FirstHash(key[t]), r)]_vars

(* An entry in use whose key is not shared is only taken away by a destroy *)
(* of the client that allocated it, although hw_fence_destroy_with_hash()  *)
(* checks the allocator and reads the key without the lock.                *)
OnlyOwnerDestroys ==
  [][\A s \in Slots :
       tbl[s].valid /\ tbl[s].key \notin SharedKeys /\ tbl'[s] # tbl[s] =>
         \E t \in Threads : /\ op[t] = "destroy" /\ op'[t] = "idle"
                            /\ key[t] = tbl[s].key
                            /\ client[t] = tbl[s].alloc]_vars

-----------------------------------------------------------------------------
(* The invariants behind them. *)

(* A lookup at step n has probed the n slots from the first hash on, and   *)
(* every slot that has matched all along is still ahead of it; so is every *)
(* entry that has had the key of a create.                                 *)
LookupInv ==
  /\ TypeOK
  /\ \A t \in Threads : op[t] \in Lookups =>
       /\ step[t] > 0 => Dist(FirstHash(key[t]), hash[t]) = step[t] - 1
       /\ \A s \in cand[t] : /\ Compare(op[t], tbl[s], key[t])
                             /\ Dist(FirstHash(key[t]), s) >= step[t]
       /\ op[t] = "create" =>
            \A s \in dup[t] : /\ tbl[s].valid /\ tbl[s].key = key[t]
                              /\ Dist(FirstHash(key[t]), s) >= step[t]

\* The keys that their callers create once have one entry each.
UniqueAmong(K) ==
  \A r, s \in Slots :
    tbl[r].valid /\ tbl[s].valid /\ tbl[r].key = tbl[s].key /\ tbl[r].key \in K
      => r = s

\* The key whose entry thread t is about to take away.
DoomedKey(t) == IF op[t] = "read_key" THEN tbl[hash[t]].key ELSE key[t]

(* A key that is not shared has no entry and no other creator while it is  *)
(* being created.  Any fence that is being destroyed is there until then,  *)
(* and its key has one destroyer; so the entry whose key                   *)
(* hw_fence_destroy_with_hash() reads cannot have changed hands.           *)
OwnerInv ==
  /\ TypeOK
  /\ UniqueAmong(Keys \ SharedKeys)
  /\ \A s \in Slots : /\ tbl[s].valid => tbl[s].key \in Keys
                      /\ ~tbl[s].valid => tbl[s] = Free
  /\ \A t \in Threads :
       /\ op[t] = "create" =>
            /\ key[t] \in Keys
            /\ key[t] \notin SharedKeys =>
                 /\ \A s \in Slots : tbl[s].key # key[t]
                 /\ \A u \in Threads :
                      op[u] = "create" /\ key[u] = key[t] => u = t
       /\ op[t] \in {"destroy", "read_key"} =>
            /\ \E s \in Slots : /\ tbl[s].valid
                                /\ tbl[s].key = DoomedKey(t)
                                /\ tbl[s].alloc = client[t]
            /\ \A u \in Threads :
                 op[u] \in {"destroy", "read_key"} /\ DoomedKey(u) = DoomedKey(t)
                   => u = t
       /\ op[t] = "read_key" =>
            tbl[hash[t]].valid /\ tbl[hash[t]].alloc = client[t]
=============================================================================
