------------------------- MODULE HwFenceTableProofs -------------------------
(***************************************************************************)
(* The hw-fence table for any table size, any set of keys and any number   *)
(* of threads and clients.  LookupInv is inductive whatever the callers    *)
(* do; OwnerInv rests on the rules that callers of create and destroy keep.*)
(***************************************************************************)
EXTENDS HwFenceTable, TLAPS

(* The hash of a key is a slot of the table. *)
LEMMA FirstHashType == ASSUME NEW k \in Keys \union {NoKey}
                       PROVE  FirstHash(k) \in Slots
<1> DEFINE x == HW_FENCE_HASH_A_MULT * k.seq * (2 * k.ctx - 1)
                  + HW_FENCE_HASH_C_MULT * k.ctx
<1>1. k.seq \in Int /\ k.ctx \in Int
  BY TableAssumption DEF NoKey
<1>2. HW_FENCE_HASH_A_MULT * k.seq \in Int
  BY <1>1 DEF HW_FENCE_HASH_A_MULT
<1>3. x \in Int
  BY <1>1, <1>2 DEF HW_FENCE_HASH_C_MULT
<1> HIDE DEF x
<1>4. x % Size \in Slots
  BY <1>3, TableAssumption DEF Slots
<1>. QED
  BY <1>4 DEF FirstHash, x

(* The next hash is the next slot, with the wrap-around. *)
LEMMA NextHashWraps == ASSUME NEW h \in Slots
                       PROVE  NextHash(h) = IF h + 1 = Size THEN 0 ELSE h + 1
<1>1. CASE h + 1 = Size
  BY <1>1, TableAssumption DEF NextHash, Slots
<1>2. CASE h + 1 # Size
  BY <1>2, TableAssumption DEF NextHash, Slots
<1>. QED
  BY <1>1, <1>2

LEMMA NextHashType == ASSUME NEW h \in Slots PROVE NextHash(h) \in Slots
BY NextHashWraps, TableAssumption DEF Slots

(* The slot that is Dist(h, s) probes after h is s and no other. *)
LEMMA DistProps ==
  ASSUME NEW h \in Slots, NEW r \in Slots, NEW s \in Slots
  PROVE  /\ Dist(h, s) \in 0 .. Size - 1
         /\ Dist(h, r) = Dist(h, s) => r = s
         /\ Dist(h, h) = 0
BY TableAssumption DEF Dist, Slots

(* A probe at step n looks at the slot at distance n. *)
LEMMA ProbeSlotProps ==
  ASSUME LookupInv, NEW t \in Threads, Probing(t)
  PROVE  /\ ProbeSlot(t) \in Slots
         /\ Dist(FirstHash(key[t]), ProbeSlot(t)) = step[t]
<1>1. /\ key[t] \in Keys \union {NoKey} /\ hash[t] \in Slots
      /\ step[t] \in 0 .. Size /\ step[t] < Size
  BY DEF LookupInv, TypeOK, Probing
<1>2. FirstHash(key[t]) \in Slots
  BY <1>1, FirstHashType
<1>3. CASE step[t] = 0
  BY <1>1, <1>2, <1>3, DistProps DEF ProbeSlot
<1>4. CASE step[t] # 0
  <2>1. Dist(FirstHash(key[t]), hash[t]) = step[t] - 1
    BY <1>1, <1>4 DEF LookupInv, Probing
  <2>2. ProbeSlot(t) = IF hash[t] + 1 = Size THEN 0 ELSE hash[t] + 1
    BY <1>1, <1>4, NextHashWraps DEF ProbeSlot
  <2>. QED
    BY <1>1, <1>2, <2>1, <2>2, TableAssumption DEF Slots, Dist
<1>. QED
  BY <1>3, <1>4

(* Processing an entry gives an entry. *)
LEMMA ProcessType ==
  ASSUME NEW o \in Lookups, NEW e \in Entry, NEW k \in Keys \union {NoKey},
         NEW c \in Clients \union {NoClient}
  PROVE  Process(o, e, k, c) \in Entry
BY DEF Process, Lookups, Entry, Free

-----------------------------------------------------------------------------
(* Type correctness. *)

(* The type invariant holds initially. *)
LEMMA InitType == Init => TypeOK
BY TableAssumption DEF Init, TypeOK, Slots, Free, Entry, NoKey, Lookups

(* Every call and every probe keeps the types. *)
LEMMA NextType == LookupInv /\ [Next]_vars => TypeOK'
<1> SUFFICES ASSUME LookupInv, [Next]_vars PROVE TypeOK'
  OBVIOUS
<1>0. TypeOK
  BY DEF LookupInv
<1>a. NoKey \in Keys \union {NoKey} /\ NoClient \in Clients \union {NoClient} /\ 0 \in Slots
      /\ 0 \in 0 .. Size
  BY TableAssumption DEF Slots
<1>b. ASSUME NEW t \in Threads, NEW o \in Lookups, NEW k \in Keys \union {NoKey},
             NEW c \in Clients \union {NoClient}, Begin(t, o, k, c),
             UNCHANGED <<tbl, hash>>
      PROVE  TypeOK'
  <2>1. Matching(o, k) \in SUBSET Slots /\ Holding(o, k) \in SUBSET Slots
    BY DEF Matching, Holding
  <2>. QED
    BY <1>0, <1>a, <1>b, <2>1 DEF TypeOK, Begin
<1>c. ASSUME NEW t \in Threads, NEW c \in [Threads -> SUBSET Slots],
             NEW d \in [Threads -> SUBSET Slots], Return(t, c, d),
             tbl' \in [Slots -> Entry]
      PROVE  TypeOK'
  BY <1>0, <1>a, <1>c DEF TypeOK, Return
<1>1. ASSUME NEW t \in Threads, NEW c \in Clients, NEW k \in Keys,
             Create(t, c, k) \/ Find(t, c, k) \/ Destroy(t, c, k)
      PROVE  TypeOK'
  BY <1>1, <1>b DEF Create, Find, Destroy, Lookups
<1>2. ASSUME NEW t \in Threads, NEW c \in Clients, NEW h \in Slots,
             DestroyWithHash(t, c, h)
      PROVE  TypeOK'
  BY <1>0, <1>2, <1>a DEF TypeOK, DestroyWithHash
<1>3. ASSUME NEW t \in Threads, ReadKey(t) PROVE TypeOK'
  <2>1. /\ tbl[hash[t]].key \in Keys \union {NoKey}
        /\ client[t] \in Clients \union {NoClient}
    BY <1>0 DEF TypeOK, Entry
  <2>. QED
    BY <1>3, <2>1, <1>b DEF ReadKey, Lookups
<1>4. ASSUME NEW t \in Threads, ProbeHit(t) PROVE TypeOK'
  <2> DEFINE s == ProbeSlot(t)
             e == Process(op[t], tbl[s], key[t], client[t])
  <2>1. s \in Slots /\ op[t] \in Lookups
    BY <1>4, ProbeSlotProps DEF ProbeHit, Probing
  <2>2. e \in Entry
    BY <1>0, <2>1, ProcessType DEF TypeOK
  <2>3. tbl' = [tbl EXCEPT ![s] = e] /\ Return(t, Keep(s, e), KeepDup(s, e))
    BY <1>4 DEF ProbeHit
  <2> HIDE DEF s, e
  <2>4. tbl' \in [Slots -> Entry]
    BY <1>0, <2>1, <2>2, <2>3 DEF TypeOK
  <2>5. /\ Keep(s, e) \in [Threads -> SUBSET Slots]
        /\ KeepDup(s, e) \in [Threads -> SUBSET Slots]
    BY <1>0 DEF Keep, KeepDup, TypeOK
  <2>. QED
    BY <2>3, <2>4, <2>5, <1>c
<1>5. ASSUME NEW t \in Threads, ProbeDuplicate(t) \/ GiveUp(t) PROVE TypeOK'
  BY <1>0, <1>5, <1>c DEF TypeOK, ProbeDuplicate, GiveUp
<1>6. ASSUME NEW t \in Threads, ProbeMiss(t) PROVE TypeOK'
  <2>1. /\ ProbeSlot(t) \in Slots
        /\ step[t] + 1 \in 0 .. Size
    BY <1>0, <1>6, ProbeSlotProps, TableAssumption DEF ProbeMiss, Probing, TypeOK
  <2>. QED
    BY <1>0, <1>6, <2>1 DEF TypeOK, ProbeMiss
<1>7. CASE UNCHANGED vars
  BY <1>0, <1>7 DEF TypeOK, vars
<1>. QED
  BY <1>1, <1>2, <1>3, <1>4, <1>5, <1>6, <1>7 DEF Next, Call, Lookup

-----------------------------------------------------------------------------
(* A lookup misses nothing. *)

\* The part of LookupInv about thread t.
ThreadInv(t) ==
  op[t] \in Lookups =>
    /\ step[t] > 0 => Dist(FirstHash(key[t]), hash[t]) = step[t] - 1
    /\ \A s \in cand[t] : /\ Compare(op[t], tbl[s], key[t])
                          /\ Dist(FirstHash(key[t]), s) >= step[t]
    /\ op[t] = "create" =>
         \A s \in dup[t] : /\ tbl[s].valid /\ tbl[s].key = key[t]
                           /\ Dist(FirstHash(key[t]), s) >= step[t]

(* With a new lookup the candidates are the entries that match now, and    *)
(* none has been probed.                                                   *)
LEMMA BeginThreadInv ==
  ASSUME LookupInv, NEW t \in Threads, NEW o \in Lookups,
         NEW k \in Keys \union {NoKey}, NEW c, Begin(t, o, k, c),
         UNCHANGED <<tbl, hash>>, NEW u \in Threads
  PROVE  ThreadInv(u)'
<1>1. CASE u # t
  BY <1>1 DEF Begin, ThreadInv, LookupInv, TypeOK
<1>2. CASE u = t
  <2>1. /\ op'[t] = o /\ key'[t] = k /\ step'[t] = 0
        /\ cand'[t] = Matching(o, k) /\ dup'[t] = Holding(o, k)
    BY DEF Begin, LookupInv, TypeOK
  <2>2. \A s \in Slots : Dist(FirstHash(k), s) >= 0
    BY FirstHashType, DistProps
  <2>. QED
    BY <1>2, <2>1, <2>2 DEF ThreadInv, Matching, Holding
<1>. QED
  BY <1>1, <1>2

(* A thread whose call returns has nothing left to show; the others keep   *)
(* the candidates that still match.                                        *)
LEMMA ReturnThreadInv ==
  ASSUME LookupInv, NEW t \in Threads, NEW u \in Threads,
         NEW c \in [Threads -> SUBSET Slots],
         NEW d \in [Threads -> SUBSET Slots], Return(t, c, d),
         op[u] \in Lookups =>
           \A s \in c[u] : s \in cand[u] /\ Compare(op[u], tbl'[s], key[u]),
         op[u] = "create" =>
           \A s \in d[u] : s \in dup[u] /\ tbl'[s].valid /\ tbl'[s].key = key[u]
  PROVE  ThreadInv(u)'
<1>1. CASE u # t
  BY <1>1 DEF Return, ThreadInv, LookupInv, TypeOK
<1>2. CASE u = t
  BY <1>2 DEF Return, ThreadInv, LookupInv, TypeOK, Lookups
<1>. QED
  BY <1>1, <1>2

(* LookupInv is inductive. *)
LEMMA NextLookupInv == LookupInv /\ [Next]_vars => LookupInv'
<1> SUFFICES ASSUME LookupInv, [Next]_vars PROVE LookupInv'
  OBVIOUS
<1>0. TypeOK /\ TypeOK'
  BY NextType DEF LookupInv
<1> SUFFICES ASSUME NEW u \in Threads PROVE ThreadInv(u)'
  BY <1>0 DEF LookupInv, ThreadInv
<1>u. ThreadInv(u)
  BY DEF LookupInv, ThreadInv
<1>1. ASSUME NEW t \in Threads, NEW c \in Clients, NEW k \in Keys,
             Create(t, c, k) \/ Find(t, c, k) \/ Destroy(t, c, k)
      PROVE  ThreadInv(u)'
  BY <1>1, BeginThreadInv DEF Create, Find, Destroy, Lookups
<1>2. ASSUME NEW t \in Threads, NEW c \in Clients, NEW h \in Slots,
             DestroyWithHash(t, c, h)
      PROVE  ThreadInv(u)'
  <2>1. CASE u = t
    BY <1>0, <1>2, <2>1 DEF DestroyWithHash, TypeOK, ThreadInv, Lookups
  <2>2. CASE u # t
    BY <1>0, <1>u, <1>2, <2>2 DEF DestroyWithHash, TypeOK, ThreadInv
  <2>. QED
    BY <2>1, <2>2
<1>3. ASSUME NEW t \in Threads, ReadKey(t) PROVE ThreadInv(u)'
  <2>1. tbl[hash[t]].key \in Keys \union {NoKey}
    BY <1>0 DEF TypeOK, Entry
  <2>. QED
    BY <1>3, <2>1, BeginThreadInv DEF ReadKey, Lookups
<1>4. ASSUME NEW t \in Threads, ProbeHit(t) PROVE ThreadInv(u)'
  <2> DEFINE s == ProbeSlot(t)
             e == Process(op[t], tbl[s], key[t], client[t])
  <2>1. s \in Slots
    BY <1>4, ProbeSlotProps DEF ProbeHit
  <2>2. tbl' = [tbl EXCEPT ![s] = e] /\ Return(t, Keep(s, e), KeepDup(s, e))
    BY <1>4 DEF ProbeHit
  <2> HIDE DEF s, e
  <2>3. /\ Keep(s, e) \in [Threads -> SUBSET Slots]
        /\ KeepDup(s, e) \in [Threads -> SUBSET Slots]
    BY <1>0 DEF Keep, KeepDup, TypeOK
  <2>4. op[u] \in Lookups =>
          \A r \in Keep(s, e)[u] :
             r \in cand[u] /\ Compare(op[u], tbl'[r], key[u])
    BY <1>0, <1>u, <2>1, <2>2 DEF Keep, ThreadInv, TypeOK
  <2>5. op[u] = "create" =>
          \A r \in KeepDup(s, e)[u] :
             r \in dup[u] /\ tbl'[r].valid /\ tbl'[r].key = key[u]
    <3> SUFFICES ASSUME op[u] = "create", NEW r \in KeepDup(s, e)[u]
                 PROVE  r \in dup[u] /\ tbl'[r].valid /\ tbl'[r].key = key[u]
      OBVIOUS
    <3>1. r \in dup[u] /\ (r = s => e.valid /\ e.key = key[u])
      BY <1>0 DEF KeepDup, TypeOK
    <3>2. r \in Slots /\ tbl[r].valid /\ tbl[r].key = key[u]
      BY <1>0, <1>u, <3>1 DEF ThreadInv, TypeOK, Lookups
    <3>. QED
      BY <1>0, <2>1, <2>2, <3>1, <3>2 DEF TypeOK
  <2>. QED
    BY <2>2, <2>3, <2>4, <2>5, ReturnThreadInv
<1>5. ASSUME NEW t \in Threads, ProbeDuplicate(t) \/ GiveUp(t)
      PROVE  ThreadInv(u)'
  <2>1. Return(t, cand, dup) /\ UNCHANGED tbl
    BY <1>5 DEF ProbeDuplicate, GiveUp
  <2>2. /\ cand \in [Threads -> SUBSET Slots]
        /\ dup \in [Threads -> SUBSET Slots]
    BY <1>0 DEF TypeOK
  <2>. QED
    BY <1>u, <2>1, <2>2, ReturnThreadInv DEF ThreadInv, Lookups
<1>6. ASSUME NEW t \in Threads, ProbeMiss(t) PROVE ThreadInv(u)'
  <2>1. CASE u # t
    BY <1>0, <1>u, <1>6, <2>1 DEF ProbeMiss, TypeOK, ThreadInv
  <2>2. CASE u = t
    <3> DEFINE s == ProbeSlot(t)  h == FirstHash(key[t])
    <3>1. /\ Probing(t) /\ ~Compare(op[t], tbl[s], key[t])
          /\ hash' = [hash EXCEPT ![t] = s] /\ step' = [step EXCEPT ![t] = @ + 1]
          /\ op[t] = "create" => tbl[s].key # key[t]
          /\ UNCHANGED <<tbl, op, key, client, cand, dup>>
      BY <1>6 DEF ProbeMiss
    <3>2. s \in Slots /\ Dist(h, s) = step[t] /\ h \in Slots
      BY <1>0, <3>1, ProbeSlotProps, FirstHashType DEF TypeOK
    <3>3. /\ step[t] \in Nat /\ step'[t] = step[t] + 1 /\ hash'[t] = s
          /\ cand[t] \subseteq Slots /\ dup[t] \subseteq Slots
      BY <1>0, <3>1 DEF TypeOK
    <3>4. ASSUME NEW r \in cand[t], op[t] \in Lookups
          PROVE  Compare(op[t], tbl[r], key[t]) /\ Dist(h, r) >= step[t] + 1
      <4>1. Compare(op[t], tbl[r], key[t]) /\ Dist(h, r) >= step[t]
        BY <1>u, <2>2, <3>4 DEF ThreadInv
      <4>2. r # s
        BY <4>1, <3>1
      <4>3. Dist(h, r) # Dist(h, s) /\ Dist(h, r) \in 0 .. Size - 1
        BY <3>2, <3>3, <4>2, DistProps
      <4>. QED
        BY <3>2, <3>3, <4>1, <4>3
    <3>d. ASSUME NEW r \in dup[t], op[t] = "create"
          PROVE  /\ tbl[r].valid /\ tbl[r].key = key[t]
                 /\ Dist(h, r) >= step[t] + 1
      <4>1. tbl[r].valid /\ tbl[r].key = key[t] /\ Dist(h, r) >= step[t]
        BY <1>u, <2>2, <3>d DEF ThreadInv, Lookups
      <4>2. r # s
        BY <4>1, <3>1, <3>d
      <4>3. Dist(h, r) # Dist(h, s) /\ Dist(h, r) \in 0 .. Size - 1
        BY <3>2, <3>3, <4>2, DistProps
      <4>. QED
        BY <3>2, <3>3, <4>1, <4>3
    <3> HIDE DEF s, h
    <3>5. FirstHash(key'[t]) = h
      BY <3>1 DEF h
    <3>. QED
      BY <2>2, <3>1, <3>2, <3>3, <3>4, <3>d, <3>5 DEF ThreadInv
  <2>. QED
    BY <2>1, <2>2
<1>7. CASE UNCHANGED vars
  BY <1>u, <1>7 DEF vars, ThreadInv
<1>. QED
  BY <1>1, <1>2, <1>3, <1>4, <1>5, <1>6, <1>7 DEF Next, Call, Lookup

(* Holds in every reachable state, whatever the callers do. *)
THEOREM LookupInvariance == Spec => []LookupInv
<1>1. Init => LookupInv
  BY InitType DEF Init, LookupInv, Lookups
<1>. QED
  BY <1>1, NextLookupInv, PTL DEF Spec

(* Type correctness of the table and of the lookups. *)
THEOREM TableTypeCorrect == Spec => []TypeOK
<1>1. LookupInv => TypeOK
  BY DEF LookupInv
<1>. QED
  BY <1>1, LookupInvariance, PTL

(* For any table size and any interleaving of creates, finds and destroys, *)
(* a lookup that fails had no entry that matched throughout the call.      *)
THEOREM TableLookupComplete == Spec => []LookupComplete
<1>1. LookupInv => LookupComplete
  <2> SUFFICES ASSUME LookupInv, NEW t \in Threads, op[t] \in Lookups,
                      step[t] = Size, NEW s \in cand[t]
               PROVE  FALSE
    BY DEF LookupComplete
  <2>1. /\ s \in Slots /\ FirstHash(key[t]) \in Slots
    BY FirstHashType DEF LookupInv, TypeOK
  <2>2. Dist(FirstHash(key[t]), s) >= Size
    BY DEF LookupInv
  <2>. QED
    BY <2>1, <2>2, DistProps, TableAssumption
<1>. QED
  BY <1>1, LookupInvariance, PTL

(* For any table size and any interleaving, a create that succeeds fills a *)
(* slot in front of every entry that has had its key throughout the call,  *)
(* whatever the callers do.                                                *)
THEOREM TableDuplicateSeen == Spec => DuplicateSeen
<1> DEFINE Seen == \A t \in Threads, s \in Slots :
                     op[t] = "create" /\ op'[t] = "idle" /\ tbl'[s] # tbl[s] =>
                       \A r \in dup[t] :
                         Dist(FirstHash(key[t]), s) < Dist(FirstHash(key[t]), r)
<1>1. LookupInv /\ [Next]_vars => [Seen]_vars
  <2> SUFFICES ASSUME LookupInv, Next, NEW t \in Threads, NEW s \in Slots,
                      op[t] = "create", op'[t] = "idle", tbl'[s] # tbl[s],
                      NEW r \in dup[t]
               PROVE  Dist(FirstHash(key[t]), s) < Dist(FirstHash(key[t]), r)
    OBVIOUS
  <2>1. /\ tbl \in [Slots -> Entry]
        /\ op \in [Threads -> Lookups \union {"idle", "read_key"}]
        /\ r \in Slots /\ key[t] \in Keys \union {NoKey} /\ step[t] \in 0 .. Size
    BY DEF LookupInv, TypeOK
  <2>2. PICK u \in Threads : ProbeHit(u)
    BY DEF Next, Call, Lookup, Create, Find, Destroy, DestroyWithHash, ReadKey,
           ProbeDuplicate, ProbeMiss, GiveUp
  <2>3. u = t
    BY <2>1, <2>2 DEF ProbeHit, Return
  <2>4. Probing(t) /\ s = ProbeSlot(t) /\ ~tbl[s].valid
    BY <2>1, <2>2, <2>3 DEF ProbeHit, Compare
  <2>5. Dist(FirstHash(key[t]), s) = step[t]
    BY <2>4, ProbeSlotProps
  <2>6. tbl[r].valid /\ Dist(FirstHash(key[t]), r) >= step[t]
    BY DEF LookupInv, Lookups
  <2>7. FirstHash(key[t]) \in Slots
    BY <2>1, FirstHashType
  <2>. QED
    BY <2>1, <2>4, <2>5, <2>6, <2>7, DistProps
<1>. QED
  BY <1>1, LookupInvariance, PTL DEF Spec, DuplicateSeen

-----------------------------------------------------------------------------
(* Callers that keep to the rules own what they destroy. *)

(* A destroy takes away the entry of its owner: the only one with its key. *)
LEMMA DestroyHitsOwn ==
  ASSUME OwnerInv, LookupInv, NEW t \in Threads, op[t] = "destroy",
         NEW s \in Slots, tbl[s].key = key[t]
  PROVE  tbl[s].valid /\ (key[t] \notin SharedKeys => tbl[s].alloc = client[t])
<1>1. PICK r \in Slots : tbl[r].valid /\ tbl[r].key = key[t] /\ tbl[r].alloc = client[t]
  BY DEF OwnerInv, DoomedKey
<1>2. key[t] \in Keys
  BY <1>1 DEF OwnerInv
<1>3. tbl[s].valid
  BY <1>2, TableAssumption DEF OwnerInv, Free, NoKey
<1>4. key[t] \notin SharedKeys => s = r
  BY <1>1, <1>2, <1>3 DEF OwnerInv, UniqueAmong
<1>. QED
  BY <1>1, <1>3, <1>4

(* OwnerInv is inductive, shared keys or not. *)
LEMMA NextOwnerInv ==
  ASSUME LookupInv, OwnerInv, [Next]_vars
  PROVE  OwnerInv'
<1>0. TypeOK /\ TypeOK'
  BY NextType DEF LookupInv
<1>n. NoKey \notin Keys
  BY TableAssumption DEF NoKey
<1>1. ASSUME NEW t \in Threads, NEW c \in Clients, NEW k \in Keys, Create(t, c, k)
      PROVE  OwnerInv'
  <2>1. /\ k \in SharedKeys \/ Unused(k)
        /\ UNCHANGED <<tbl, hash>> /\ op[t] = "idle"
        /\ op' = [op EXCEPT ![t] = "create"] /\ key' = [key EXCEPT ![t] = k]
        /\ client' = [client EXCEPT ![t] = c]
    BY <1>1 DEF Create, Begin
  <2>2. k \notin SharedKeys => \A s \in Slots : tbl[s].key # k
    BY <2>1, <1>n DEF Unused, OwnerInv, Free
  <2>. QED
    BY <1>0, <2>1, <2>2 DEF OwnerInv, UniqueAmong, Unused, DoomedKey, TypeOK
<1>2. ASSUME NEW t \in Threads, NEW c \in Clients, NEW k \in Keys, Find(t, c, k)
      PROVE  OwnerInv'
  BY <1>0, <1>2 DEF Find, Begin, OwnerInv, UniqueAmong, DoomedKey, TypeOK
<1>3. ASSUME NEW t \in Threads, NEW c \in Clients, NEW k \in Keys, Destroy(t, c, k)
      PROVE  OwnerInv'
  BY <1>0, <1>3 DEF Destroy, MayDestroy, Destroying, Begin, OwnerInv,
                    UniqueAmong, DoomedKey, TypeOK
<1>4. ASSUME NEW t \in Threads, NEW c \in Clients, NEW h \in Slots,
             DestroyWithHash(t, c, h)
      PROVE  OwnerInv'
  <2>1. tbl[h].valid /\ tbl[h].alloc = c
    BY <1>4, TableAssumption DEF DestroyWithHash, OwnerInv, Free
  <2>. QED
    BY <1>0, <1>4, <2>1 DEF DestroyWithHash, Destroying, OwnerInv,
                    UniqueAmong, DoomedKey, TypeOK
<1>5. ASSUME NEW t \in Threads, ReadKey(t) PROVE OwnerInv'
  BY <1>0, <1>5 DEF ReadKey, Begin, OwnerInv, UniqueAmong, DoomedKey, TypeOK
<1>6. ASSUME NEW t \in Threads, ProbeHit(t) PROVE OwnerInv'
  <2> DEFINE s == ProbeSlot(t)
             e == Process(op[t], tbl[s], key[t], client[t])
  <2>1. s \in Slots /\ op[t] \in Lookups
    BY <1>6, ProbeSlotProps DEF ProbeHit, Probing
  <2>2. /\ tbl' = [tbl EXCEPT ![s] = e] /\ Return(t, Keep(s, e), KeepDup(s, e))
        /\ Compare(op[t], tbl[s], key[t])
    BY <1>6 DEF ProbeHit
  <2> HIDE DEF s, e
  <2>t. /\ \A r \in Slots : tbl'[r] = IF r = s THEN e ELSE tbl[r]
        /\ op'[t] = "idle"
        /\ \A u \in Threads : u # t => /\ op'[u] = op[u] /\ key'[u] = key[u]
                                       /\ client'[u] = client[u]
                                       /\ hash'[u] = hash[u]
    BY <1>0, <2>1, <2>2 DEF Return, TypeOK
  <2>h. \A u \in Threads : hash[u] \in Slots
    BY <1>0 DEF TypeOK
  <2>3. CASE op[t] = "create"
    <3>1. /\ e.valid /\ e.key = key[t] /\ e.alloc = client[t]
          /\ ~tbl[s].valid /\ key[t] \in Keys
      BY <2>2, <2>3 DEF Compare, Process, OwnerInv, s, e
    <3>2. \A u \in Threads : op'[u] = "read_key" =>
             u # t /\ hash[u] # s /\ DoomedKey(u)' = DoomedKey(u)
      BY <1>0, <2>t, <2>h, <2>3, <3>1 DEF OwnerInv, DoomedKey
    <3>3. \A u \in Threads : op'[u] = "destroy" =>
             u # t /\ DoomedKey(u)' = DoomedKey(u)
      BY <2>t DEF DoomedKey
    <3>4. UniqueAmong(Keys \ SharedKeys)'
      BY <2>1, <2>t, <2>3, <3>1, <1>n DEF OwnerInv, UniqueAmong, Free
    <3>5. \A r \in Slots : /\ tbl'[r].valid => tbl'[r].key \in Keys
                           /\ ~tbl'[r].valid => tbl'[r] = Free
      <4> TAKE r \in Slots
      <4>1. CASE r = s
        BY <2>t, <2>3, <3>1, <4>1 DEF Free
      <4>2. CASE r # s
        BY <2>t, <4>2 DEF OwnerInv
      <4>. QED
        BY <4>1, <4>2
    <3>6. ASSUME NEW u \in Threads, op'[u] = "create"
          PROVE  /\ key'[u] \in Keys
                 /\ key'[u] \notin SharedKeys =>
                      /\ \A r \in Slots : tbl'[r].key # key'[u]
                      /\ \A v \in Threads :
                           op'[v] = "create" /\ key'[v] = key'[u] => v = u
      BY <2>1, <2>t, <2>3, <3>1, <3>6, <1>n DEF OwnerInv, Free
    <3>7. ASSUME NEW u \in Threads, op'[u] \in {"destroy", "read_key"}
          PROVE  /\ \E r \in Slots : /\ tbl'[r].valid /\ tbl'[r].key = DoomedKey(u)'
                                     /\ tbl'[r].alloc = client'[u]
                 /\ \A v \in Threads :
                      op'[v] \in {"destroy", "read_key"} /\ DoomedKey(v)' = DoomedKey(u)'
                        => v = u
                 /\ op'[u] = "read_key" =>
                      tbl'[hash'[u]].valid /\ tbl'[hash'[u]].alloc = client'[u]
      <4>1. u # t /\ op[u] \in {"destroy", "read_key"} /\ DoomedKey(u)' = DoomedKey(u)
        BY <2>t, <3>2, <3>3, <3>7
      <4>2. PICK r \in Slots : /\ tbl[r].valid /\ tbl[r].key = DoomedKey(u)
                               /\ tbl[r].alloc = client[u]
        BY <4>1 DEF OwnerInv
      <4>3. r # s
        BY <2>3, <3>1, <4>1, <4>2 DEF OwnerInv, DoomedKey
      <4>4. tbl'[r] = tbl[r] /\ client'[u] = client[u]
        BY <2>t, <4>1, <4>3
      <4>5. \A v \in Threads :
               op'[v] \in {"destroy", "read_key"} /\ DoomedKey(v)' = DoomedKey(u)' => v = u
        BY <2>t, <3>2, <3>3, <4>1 DEF OwnerInv
      <4>6. op'[u] = "read_key" =>
               tbl'[hash'[u]].valid /\ tbl'[hash'[u]].alloc = client'[u]
        BY <2>t, <2>h, <3>2, <4>1 DEF OwnerInv
      <4>. QED
        BY <4>1, <4>2, <4>4, <4>5, <4>6
    <3>. QED
      BY <1>0, <3>4, <3>5, <3>6, <3>7 DEF OwnerInv
  <2>4. CASE op[t] = "destroy"
    <3>1. /\ e = Free
          /\ tbl[s].valid /\ tbl[s].key = key[t]
      BY <2>1, <2>2, <2>4, DestroyHitsOwn DEF Compare, Process, s, e
    <3>2. \A u \in Threads : op'[u] = "read_key" =>
             u # t /\ hash[u] # s /\ DoomedKey(u)' = DoomedKey(u)
      BY <1>0, <2>t, <2>h, <2>4, <3>1 DEF OwnerInv, DoomedKey
    <3>3. \A u \in Threads : op'[u] = "destroy" =>
             u # t /\ DoomedKey(u)' = DoomedKey(u)
      BY <2>t DEF DoomedKey
    <3>4. UniqueAmong(Keys \ SharedKeys)'
      BY <2>1, <2>t, <2>4, <3>1, <1>n DEF OwnerInv, UniqueAmong, Free
    <3>5. \A r \in Slots : /\ tbl'[r].valid => tbl'[r].key \in Keys
                           /\ ~tbl'[r].valid => tbl'[r] = Free
      <4> TAKE r \in Slots
      <4>1. CASE r = s
        <5>1. ~Free.valid
          BY DEF Free
        <5>. QED
          BY <2>t, <3>1, <4>1, <5>1
      <4>2. CASE r # s
        BY <2>t, <4>2 DEF OwnerInv
      <4>. QED
        BY <4>1, <4>2
    <3>6. ASSUME NEW u \in Threads, op'[u] = "create"
          PROVE  /\ key'[u] \in Keys
                 /\ key'[u] \notin SharedKeys =>
                      /\ \A r \in Slots : tbl'[r].key # key'[u]
                      /\ \A v \in Threads :
                           op'[v] = "create" /\ key'[v] = key'[u] => v = u
      BY <2>1, <2>t, <2>4, <3>1, <3>6, <1>n DEF OwnerInv, Free
    <3>7. ASSUME NEW u \in Threads, op'[u] \in {"destroy", "read_key"}
          PROVE  /\ \E r \in Slots : /\ tbl'[r].valid /\ tbl'[r].key = DoomedKey(u)'
                                     /\ tbl'[r].alloc = client'[u]
                 /\ \A v \in Threads :
                      op'[v] \in {"destroy", "read_key"} /\ DoomedKey(v)' = DoomedKey(u)'
                        => v = u
                 /\ op'[u] = "read_key" =>
                      tbl'[hash'[u]].valid /\ tbl'[hash'[u]].alloc = client'[u]
      <4>1. u # t /\ op[u] \in {"destroy", "read_key"} /\ DoomedKey(u)' = DoomedKey(u)
        BY <2>t, <3>2, <3>3, <3>7
      <4>2. PICK r \in Slots : /\ tbl[r].valid /\ tbl[r].key = DoomedKey(u)
                               /\ tbl[r].alloc = client[u]
        BY <4>1 DEF OwnerInv
      <4>3. r # s
        BY <2>4, <3>1, <4>1, <4>2 DEF OwnerInv, DoomedKey
      <4>4. tbl'[r] = tbl[r] /\ client'[u] = client[u]
        BY <2>t, <4>1, <4>3
      <4>5. \A v \in Threads :
               op'[v] \in {"destroy", "read_key"} /\ DoomedKey(v)' = DoomedKey(u)' => v = u
        BY <2>t, <3>2, <3>3, <4>1 DEF OwnerInv
      <4>6. op'[u] = "read_key" =>
               tbl'[hash'[u]].valid /\ tbl'[hash'[u]].alloc = client'[u]
        BY <2>t, <2>h, <3>2, <4>1 DEF OwnerInv
      <4>. QED
        BY <4>1, <4>2, <4>4, <4>5, <4>6
    <3>. QED
      BY <1>0, <3>4, <3>5, <3>6, <3>7 DEF OwnerInv
  <2>5. CASE op[t] = "find"
    <3>1. tbl' = tbl
      BY <1>0, <2>1, <2>2, <2>5 DEF Process, TypeOK, s, e
    <3>. QED
      BY <1>0, <2>2, <2>5, <3>1
         DEF Return, OwnerInv, UniqueAmong, DoomedKey, TypeOK
  <2>. QED
    BY <2>1, <2>3, <2>4, <2>5 DEF Lookups
<1>7. ASSUME NEW t \in Threads, ProbeDuplicate(t) \/ GiveUp(t) PROVE OwnerInv'
  <2>1. Return(t, cand, dup) /\ UNCHANGED tbl
    BY <1>7 DEF ProbeDuplicate, GiveUp
  <2>. QED
    BY <1>0, <2>1 DEF Return, OwnerInv, UniqueAmong, DoomedKey, TypeOK
<1>8. ASSUME NEW t \in Threads, ProbeMiss(t) PROVE OwnerInv'
  <2>1. /\ op[t] \in Lookups /\ UNCHANGED <<tbl, op, key, client>>
        /\ \A u \in Threads : u # t => hash'[u] = hash[u]
    BY <1>0, <1>8 DEF ProbeMiss, Probing, TypeOK
  <2>. QED
    BY <1>0, <2>1 DEF OwnerInv, UniqueAmong, DoomedKey, Lookups
<1>9. CASE UNCHANGED vars
  BY <1>9 DEF vars, OwnerInv, UniqueAmong, DoomedKey, TypeOK
<1>. QED
  BY <1>1, <1>2, <1>3, <1>4, <1>5, <1>6, <1>7, <1>8, <1>9 DEF Next, Call, Lookup

(* Both invariants always hold. *)
LEMMA OwnerInvariance == Spec => [](LookupInv /\ OwnerInv)
<1>1. Init => LookupInv /\ OwnerInv
  BY InitType DEF Init, LookupInv, OwnerInv, UniqueAmong, DoomedKey, Lookups, Free
<1>2. LookupInv /\ OwnerInv /\ [Next]_vars => (LookupInv /\ OwnerInv)'
  BY NextLookupInv, NextOwnerInv
<1>. QED
  BY <1>1, <1>2, PTL DEF Spec

(* For any table size and any number of threads, an entry in use is only   *)
(* taken away by a destroy of the client that allocated it, fence arrays   *)
(* apart.                                                                  *)
THEOREM TableOnlyOwnerDestroys == Spec => OnlyOwnerDestroys
<1> DEFINE Own == \A s \in Slots :
                    tbl[s].valid /\ tbl[s].key \notin SharedKeys /\ tbl'[s] # tbl[s] =>
                      \E t \in Threads : /\ op[t] = "destroy" /\ op'[t] = "idle"
                                         /\ key[t] = tbl[s].key
                                         /\ client[t] = tbl[s].alloc
<1>1. LookupInv /\ OwnerInv /\ [Next]_vars => [Own]_vars
  <2> SUFFICES ASSUME LookupInv, OwnerInv, Next, NEW r \in Slots,
                      tbl[r].valid, tbl[r].key \notin SharedKeys, tbl'[r] # tbl[r]
               PROVE  \E t \in Threads : /\ op[t] = "destroy" /\ op'[t] = "idle"
                                         /\ key[t] = tbl[r].key
                                         /\ client[t] = tbl[r].alloc
    OBVIOUS
  <2>1. PICK t \in Threads : ProbeHit(t)
    BY DEF Next, Call, Lookup, Create, Find, Destroy, DestroyWithHash, ReadKey,
           ProbeDuplicate, ProbeMiss, GiveUp
  <2> DEFINE s == ProbeSlot(t)
             e == Process(op[t], tbl[s], key[t], client[t])
  <2>2. /\ tbl' = [tbl EXCEPT ![s] = e] /\ Return(t, Keep(s, e), KeepDup(s, e))
        /\ Compare(op[t], tbl[s], key[t]) /\ op[t] \in Lookups
    BY <2>1 DEF ProbeHit, Probing
  <2>3. tbl \in [Slots -> Entry] /\ op \in [Threads -> Lookups \union {"idle", "read_key"}]
    BY DEF LookupInv, TypeOK
  <2>4. r = s
    BY <2>2, <2>3
  <2>5. op[t] = "destroy" /\ tbl[r].key = key[t]
    BY <2>2, <2>3, <2>4 DEF Compare, Process, Lookups
  <2>6. tbl[r].alloc = client[t]
    BY <2>5, DestroyHitsOwn
  <2>. QED
    BY <2>2, <2>3, <2>5, <2>6 DEF Return
<1>. QED
  BY <1>1, OwnerInvariance, PTL DEF Spec, OnlyOwnerDestroys
=============================================================================
