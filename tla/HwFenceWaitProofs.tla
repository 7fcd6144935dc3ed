-------------------------- MODULE HwFenceWaitProofs --------------------------
(***************************************************************************)
(* Theorems about HwFenceWait, for any threads, clients, fences and arrays *)
(* and a table of any size: what its steps do, record by record, and what  *)
(* the reset of a client achieves.  HwFenceJoinProofs goes on from here.   *)
(***************************************************************************)
EXTENDS HwFenceWait, FiniteSetTheorems, TLAPS

-----------------------------------------------------------------------------
(* Types. *)

\* Where a call is: it builds a join fence, undoes it, has it, or resets a client.
BuildPcs == {"arr_mask", "arr_child", "arr_link"}
UndoPcs == {"arr_undo", "arr_fail"}
ArrayPcs == BuildPcs \union UndoPcs \union {"arr_destroy"}
ResetPcs == {"rst_entry", "rst_owner", "rst_signal", "rst_destroy"}

\* Entry, without the claim that the count of children is not negative.
WideEntry == [key : Keys \union {None}, alloc : Clients \union {JoinClient, None},
              mask : SUBSET Clients, sig : BOOLEAN, error : BOOLEAN,
              parent_list : [Parents -> Slots \union {INVALID}],
              parents_cnt : 0 .. MSM_HW_FENCE_MAX_JOIN_PARENTS,
              pending_child_cnt : Int]

\* The local variables l that a call uses are set.
Sound(l) ==
  /\ l \in Local
  /\ l.pc \in {"reg_lock", "reg_check"} =>
       l.client \in Clients /\ l.key \in Fences /\ l.slot \in Slots
  /\ l.pc \in ArrayPcs =>
       l.client \in Clients /\ l.key \in Arrays /\ l.slot \in Slots
  /\ l.pc = "arr_mask" => l.i = 1
  /\ l.pc \in BuildPcs => l.i \in 1 .. Len(Children[l.key]) + 1
  /\ l.pc = "arr_link" => l.i \in 1 .. Len(Children[l.key]) /\ l.child \in Slots
  /\ l.pc = "arr_undo" => \/ l.i \in 1 .. Len(Children[l.key])
                          \/ l.i = 1 /\ Len(Children[l.key]) = 0
  /\ l.pc \in ResetPcs => l.client \in Clients
  /\ l.pc \in ResetPcs \ {"rst_entry"} => l.slot \in Slots

\* The type of the state, and of the local variables of every call.
WideType ==
  /\ tbl \in [Slots -> WideEntry]
  /\ th \in [Threads -> Local] /\ \A t \in Threads : Sound(th[t])
  /\ ended \in [Fences -> {"new", "no", "ok", "error", "reset"}]
  /\ told \subseteq Clients \X (Keys \union {None}) \X BOOLEAN
  /\ waits \subseteq Clients \X Keys

\* The call with the local variables l still has the join fence of its array:
\* it has elements to link, or the array is its to signal or to destroy.
Holding(l) ==
  /\ l.pc \in ArrayPcs
  /\ l.pc = "arr_child" =>
       \/ l.i <= Len(Children[l.key]) \/ l.signal \/ Len(Children[l.key]) = 0

-----------------------------------------------------------------------------
(* Entries of the table as records. *)

\* Whose entry it is and how it ended; its place among the parents.
SameFence(q, r) == q.key = r.key /\ q.alloc = r.alloc /\ q.sig = r.sig
SameList(q, r) == q.parent_list = r.parent_list /\ q.parents_cnt = r.parents_cnt
SameCount(q, r) == q.error = r.error /\ q.pending_child_cnt = r.pending_child_cnt

\* The fields of an entry.
LEMMA EntryFields ==
  ASSUME NEW e \in WideEntry
  PROVE  /\ e.key \in Keys \union {None} /\ e.alloc \in Clients \union {JoinClient, None}
         /\ e.mask \subseteq Clients /\ e.sig \in BOOLEAN /\ e.error \in BOOLEAN
         /\ e.parent_list \in [Parents -> Slots \union {INVALID}]
         /\ e.parents_cnt \in 0 .. 3 /\ e.pending_child_cnt \in Int
  BY DEF WideEntry, MSM_HW_FENCE_MAX_JOIN_PARENTS

\* The entry after _cleanup_hw_fence().
LEMMA FreeEntry ==
  /\ Free \in WideEntry
  /\ Free.key = None /\ Free.alloc = None /\ Free.mask = {}
  /\ Free.sig = FALSE /\ Free.error = FALSE
  /\ Free.parent_list \in [Parents -> Slots \union {INVALID}]
  /\ Free.parents_cnt = 0 /\ Free.pending_child_cnt = 0
  /\ \A p \in Parents : Free.parent_list[p] = INVALID
  BY DEF Free, WideEntry, Parents, MSM_HW_FENCE_MAX_JOIN_PARENTS

\* The entry of a new fence.
LEMMA NewFence ==
  ASSUME NEW k \in Keys, NEW c \in Clients
  PROVE  LET q == [Free EXCEPT !.key = k, !.alloc = c] IN
         /\ q \in WideEntry /\ q.key = k /\ q.alloc = c /\ q.mask = {} /\ q.sig = FALSE
         /\ SameList(q, Free) /\ SameCount(q, Free)
  BY FreeEntry DEF WideEntry, SameList, SameCount

\* The entry of a new join fence.
LEMMA NewJoin ==
  ASSUME NEW k \in Keys, NEW n \in Int
  PROVE  LET q == [Free EXCEPT !.key = k, !.alloc = JoinClient, !.pending_child_cnt = n] IN
         /\ q \in WideEntry /\ q.key = k /\ q.alloc = JoinClient /\ q.mask = {}
         /\ q.sig = FALSE /\ SameList(q, Free)
         /\ q.error = FALSE /\ q.pending_child_cnt = n
  BY FreeEntry DEF WideEntry, SameList

\* The entry after a store to its wait mask.
LEMMA StoreMask ==
  ASSUME NEW r \in WideEntry, NEW m \in SUBSET Clients
  PROVE  LET q == [r EXCEPT !.mask = m] IN
         /\ q \in WideEntry /\ q.mask = m
         /\ SameFence(q, r) /\ SameList(q, r) /\ SameCount(q, r)
  BY DEF WideEntry, SameFence, SameList, SameCount

\* The entry of a join fence after a child has been counted.
LEMMA StoreCount ==
  ASSUME NEW r \in WideEntry, NEW b \in BOOLEAN, NEW n \in Int
  PROVE  LET q == [r EXCEPT !.error = b, !.pending_child_cnt = n] IN
         /\ q \in WideEntry /\ q.mask = r.mask
         /\ q.error = b /\ q.pending_child_cnt = n
         /\ SameFence(q, r) /\ SameList(q, r)
  BY DEF WideEntry, SameFence, SameList

\* The entry of a fence that has signalled.
LEMMA StoreSig ==
  ASSUME NEW r \in WideEntry, NEW b \in BOOLEAN
  PROVE  LET q == [r EXCEPT !.sig = TRUE, !.error = b] IN
         /\ q \in WideEntry /\ q.mask = r.mask /\ q.key = r.key /\ q.alloc = r.alloc
         /\ q.sig = TRUE /\ q.error = b /\ q.pending_child_cnt = r.pending_child_cnt
         /\ SameList(q, r)
  BY DEF WideEntry, SameList

\* The entry of a child that has got parent j.
LEMMA StoreParent ==
  ASSUME NEW r \in WideEntry, NEW n \in Parents, NEW j \in Slots
  PROVE  LET q == [r EXCEPT !.parents_cnt = n, !.parent_list[n] = j] IN
         /\ q \in WideEntry /\ q.mask = r.mask
         /\ SameFence(q, r) /\ SameCount(q, r)
         /\ q.parents_cnt = n
         /\ \A p \in Parents : q.parent_list[p] = IF p = n THEN j ELSE r.parent_list[p]
  <1> DEFINE list == [r.parent_list EXCEPT ![n] = j]
  <1>1. r.parent_list \in [Parents -> Slots \union {INVALID}]
    BY EntryFields
  <1>2. /\ list \in [Parents -> Slots \union {INVALID}]
        /\ \A p \in Parents : list[p] = IF p = n THEN j ELSE r.parent_list[p]
    BY <1>1
  <1>3. n \in 0 .. MSM_HW_FENCE_MAX_JOIN_PARENTS
    BY DEF Parents, MSM_HW_FENCE_MAX_JOIN_PARENTS
  <1>4. [r EXCEPT !.parents_cnt = n, !.parent_list[n] = j]
          = [r EXCEPT !.parents_cnt = n, !.parent_list = list]
    BY DEF WideEntry
  <1> HIDE DEF list
  <1> QED
    BY <1>2, <1>3, <1>4 DEF WideEntry, SameFence, SameCount

\* A set of places in the list of parents.
LEMMA PlacesFinite ==
  ASSUME NEW S \in SUBSET Parents
  PROVE  IsFiniteSet(S) /\ Cardinality(S) \in Nat
  <1>1. MSM_HW_FENCE_MAX_JOIN_PARENTS \in Int
    BY DEF MSM_HW_FENCE_MAX_JOIN_PARENTS
  <1>2. IsFiniteSet(1 .. MSM_HW_FENCE_MAX_JOIN_PARENTS)
    BY <1>1, FS_Interval
  <1>3. S \in SUBSET (1 .. MSM_HW_FENCE_MAX_JOIN_PARENTS)
    BY DEF Parents
  <1>4. IsFiniteSet(S)
    BY <1>2, <1>3, FS_Subset
  <1> QED
    BY <1>4, FS_CardinalityType

\* The entry of a child that has lost parent j.
LEMMA StoreUnlinked ==
  ASSUME NEW r \in WideEntry, NEW j \in Slots
  PROVE  LET q == Unlinked(r, j) IN
         /\ q \in WideEntry /\ q.mask = r.mask
         /\ SameFence(q, r) /\ SameCount(q, r)
         /\ \A p \in Parents :
              q.parent_list[p] = IF p <= r.parents_cnt /\ r.parent_list[p] = j
                                 THEN INVALID ELSE r.parent_list[p]
         /\ (\A p \in Parents : p <= r.parents_cnt => r.parent_list[p] # j) =>
              q.parents_cnt = r.parents_cnt
  <1> DEFINE gone == {p \in 1 .. r.parents_cnt : r.parent_list[p] = j}
             list == [p \in Parents |-> IF p \in gone THEN INVALID ELSE r.parent_list[p]]
             cnt == r.parents_cnt - Cardinality(gone)
  <1>1. r.parents_cnt \in 0 .. 3 /\ Parents = 1 .. 3
        /\ r.parent_list \in [Parents -> Slots \union {INVALID}]
    BY EntryFields DEF Parents, MSM_HW_FENCE_MAX_JOIN_PARENTS
  <1>2. IsFiniteSet(1 .. r.parents_cnt) /\ Cardinality(1 .. r.parents_cnt) = r.parents_cnt
    <2>1. \A a, b \in Int : /\ IsFiniteSet(a .. b)
                            /\ Cardinality(a .. b) = IF a > b THEN 0 ELSE b - a + 1
      BY FS_Interval
    <2> QED
      BY <1>1, <2>1
  <1>3. gone \in SUBSET (1 .. r.parents_cnt) /\ gone \in SUBSET Parents
    BY <1>1
  <1>4. Cardinality(gone) <= r.parents_cnt /\ Cardinality(gone) \in Nat
    <2>1. Cardinality(gone) <= Cardinality(1 .. r.parents_cnt)
      BY <1>2, <1>3, FS_Subset
    <2>2. Cardinality(gone) \in Nat
      BY <1>3, PlacesFinite
    <2> QED
      BY <1>2, <2>1, <2>2
  <1>5. cnt \in 0 .. 3
    BY <1>1, <1>4
  <1>6. list \in [Parents -> Slots \union {INVALID}]
    BY <1>1
  <1>7. gone = {} => cnt = r.parents_cnt
    BY <1>1, FS_EmptySet
  <1>8. \A p \in Parents :
           list[p] = IF p <= r.parents_cnt /\ r.parent_list[p] = j
                     THEN INVALID ELSE r.parent_list[p]
    BY <1>1
  <1>9. (\A p \in Parents : p <= r.parents_cnt => r.parent_list[p] # j) => gone = {}
    BY <1>1
  <1>10. Unlinked(r, j) = [r EXCEPT !.parent_list = list, !.parents_cnt = cnt]
    BY DEF Unlinked
  <1> HIDE DEF gone, list, cnt
  <1> QED
    BY <1>5, <1>6, <1>7, <1>8, <1>9, <1>10
    DEF WideEntry, SameFence, SameCount, MSM_HW_FENCE_MAX_JOIN_PARENTS

-----------------------------------------------------------------------------
(* The steps keep the types. *)

\* A store to one entry.
LEMMA Stores ==
  ASSUME WideType, NEW s \in Slots, NEW e \in WideEntry,
         tbl' = [tbl EXCEPT ![s] = e]
  PROVE  /\ tbl' \in [Slots -> WideEntry]
         /\ tbl'[s] = e
         /\ \A r \in Slots : r # s => tbl'[r] = tbl[r]
  BY DEF WideType

\* Idle is the state of a thread in no call.
LEMMA IdleSound == Sound(Idle) /\ Idle.pc = "idle" /\ ~Holding(Idle) /\ Idle.slot = None
  BY DEF Sound, Idle, Local, Pcs, ArrayPcs, BuildPcs, UndoPcs, ResetPcs, Holding

\* A step of thread t leaves the local variables of the others alone.
LEMMA Moves ==
  ASSUME WideType, NEW t \in Threads, NEW l, Sound(l), Goto(t, l)
  PROVE  /\ th' \in [Threads -> Local] /\ \A u \in Threads : Sound(th'[u])
         /\ th'[t] = l
         /\ \A u \in Threads : u # t => th'[u] = th[u]
  BY DEF WideType, Goto, Sound

\* An array is a sequence of fences, some of them without a hw-fence.
LEMMA ArrayElements ==
  ASSUME NEW a \in Arrays
  PROVE  /\ Len(Children[a]) \in Nat
         /\ DOMAIN Children[a] = 1 .. Len(Children[a])
         /\ \A n \in 1 .. Len(Children[a]) : Children[a][n] \in Fences \union {NotHw}
  BY WaitAssumption

\* Key k has one entry at most.
Unique(k) == \A r, s \in Slots : tbl[r].key = k /\ tbl[s].key = k => r = s

\* DestroyEntry() clears an entry of the key: the one there is, if it is unique.
LEMMA DestroyEntryEffect ==
  ASSUME WideType, NEW k, DestroyEntry(k)
  PROVE  /\ tbl' \in [Slots -> WideEntry]
         /\ \A s \in Slots : tbl'[s] = Free \/ tbl'[s] = tbl[s]
         /\ Unique(k) =>
              \A s \in Slots : tbl'[s] = IF tbl[s].key = k THEN Free ELSE tbl[s]
  <1>1. ASSUME NEW r \in Slots, tbl[r].key = k, tbl' = [tbl EXCEPT ![r] = Free]
        PROVE  /\ tbl' \in [Slots -> WideEntry] /\ tbl'[r] = Free
               /\ \A s \in Slots : s # r => tbl'[s] = tbl[s]
    BY <1>1, FreeEntry, Stores
  <1>2. CASE \E r \in Find(k) : tbl' = [tbl EXCEPT ![r] = Free]
    <2>1. PICK r \in Slots : tbl[r].key = k /\ tbl' = [tbl EXCEPT ![r] = Free]
      BY <1>2 DEF Find
    <2> QED
      BY <1>1, <2>1 DEF Unique
  <1>3. CASE Find(k) = {} /\ UNCHANGED tbl
    BY <1>3 DEF Find, WideType
  <1> QED
    BY <1>2, <1>3 DEF DestroyEntry

\* The type of what Tell() adds.
LEMMA TellType ==
  ASSUME WideType, NEW c \in Clients, NEW s \in Slots, NEW e \in BOOLEAN, Tell(c, s, e)
  PROVE  /\ told' \subseteq Clients \X (Keys \union {None}) \X BOOLEAN
         /\ told' = told \union {<<c, tbl[s].key, e>>}
  <1>1. tbl[s].key \in Keys \union {None}
    BY DEF WideType, WideEntry
  <1> QED
    BY <1>1 DEF Tell, WideType

\* Fences are created and destroyed.
LEMMA FenceTypes ==
  ASSUME WideType,
         NEW f \in Fences, Create(f) \/ Destroy(f)
  PROVE  WideType'
  <1>1. CASE Create(f)
    <2>1. PICK s \in Find(None) :
            tbl' = [tbl EXCEPT ![s] = [Free EXCEPT !.key = f, !.alloc = Owner[f]]]
      BY <1>1 DEF Create
    <2>3. tbl' \in [Slots -> WideEntry]
      BY <2>1, NewFence, Stores, WaitAssumption DEF Keys, Find
    <2>4. ended' \in [Fences -> {"new", "no", "ok", "error", "reset"}]
      BY <1>1 DEF Create, WideType
    <2> QED
      BY <1>1, <2>3, <2>4 DEF Create, WideType
  <1>2. CASE Destroy(f)
    BY <1>2, DestroyEntryEffect DEF Destroy, WideType
  <1> QED
    BY <1>1, <1>2

\* The fence controller signals a fence.
LEMMA SignalTypes ==
  ASSUME WideType, NEW s \in Slots, NEW err \in BOOLEAN, FctlSignal(s, err)
  PROVE  WideType'
  <1> DEFINE Left(j) == tbl[j].pending_child_cnt - Links(s, j)
             Ends(j) == Links(s, j) > 0 /\ Left(j) = 0
  <1>1. \A j \in Slots : Links(s, j) \in Nat
    <2> SUFFICES ASSUME NEW j \in Slots PROVE Links(s, j) \in Nat
      OBVIOUS
    <2> QED
      BY PlacesFinite DEF Links
  <1>2. \A j \in Slots : /\ Left(j) \in Int
                         /\ tbl[j].error \in BOOLEAN /\ tbl[j].key \in Keys \union {None}
                         /\ tbl[j].mask \subseteq Clients
    BY <1>1 DEF WideType, WideEntry
  <1>3. Free \in WideEntry
    BY FreeEntry
  <1>4. [tbl[s] EXCEPT !.sig = TRUE, !.error = err] \in WideEntry
    BY StoreSig DEF WideType
  <1>5. ASSUME NEW j \in Slots
        PROVE  [tbl[j] EXCEPT !.error = @ \/ err, !.pending_child_cnt = Left(j)] \in WideEntry
    <2> HIDE DEF Left
    <2>1. (tbl[j].error \/ err) \in BOOLEAN /\ tbl[j] \in WideEntry
      BY <1>2 DEF WideType
    <2> QED
      BY <1>2, <2>1, StoreCount
  <1>6. tbl' \in [Slots -> WideEntry]
    <2>1. tbl' = [j \in Slots |->
             IF j = s THEN [tbl[s] EXCEPT !.sig = TRUE, !.error = err]
             ELSE IF Ends(j) THEN Free
             ELSE IF Links(s, j) > 0
             THEN [tbl[j] EXCEPT !.error = @ \/ err, !.pending_child_cnt = Left(j)]
             ELSE tbl[j]]
      BY DEF FctlSignal
    <2> HIDE DEF Left, Ends
    <2> QED
      BY <2>1, <1>3, <1>4, <1>5 DEF WideType
  <1>7. ended' \in [Fences -> {"new", "no", "ok", "error", "reset"}]
    BY DEF FctlSignal, WideType
  <1>8. told' \subseteq Clients \X (Keys \union {None}) \X BOOLEAN
    <2>1. told' = told
             \union {<<c, tbl[s].key, err>> : c \in tbl[s].mask}
             \union UNION {{<<c, tbl[j].key, tbl[j].error \/ err>> : c \in tbl[j].mask} :
                             j \in {r \in Slots : Ends(r)}}
      BY DEF FctlSignal
    <2> HIDE DEF Left, Ends
    <2> QED
      BY <2>1, <1>2 DEF WideType
  <1> QED
    BY <1>6, <1>7, <1>8 DEF WideType, FctlSignal

\* The calls that register for a fence.
LEMMA RegisterTypes ==
  ASSUME WideType, NEW t \in Threads,
         \/ \E c \in Clients, f \in Fences : RegisterWait(t, c, f)
         \/ RegisterLock(t) \/ RegisterCheck(t)
  PROVE  WideType'
  <1> USE DEF ArrayPcs, BuildPcs, UndoPcs, ResetPcs
  <1>0. Sound(th[t])
    BY DEF WideType
  <1>1. ASSUME NEW c \in Clients, NEW f \in Fences, RegisterWait(t, c, f)
        PROVE  WideType'
    <2>1. PICK s \in Find(f) :
            Goto(t, [Idle EXCEPT !.pc = "reg_lock", !.client = c, !.key = f, !.slot = s])
      BY <1>1 DEF RegisterWait
    <2>2. Sound([Idle EXCEPT !.pc = "reg_lock", !.client = c, !.key = f, !.slot = s])
      BY DEF Sound, Idle, Local, Pcs, Keys, Find
    <2> QED
      BY <1>1, <2>1, <2>2, Moves DEF RegisterWait, WideType
  <1>2. CASE RegisterLock(t)
    <2>1. Sound([th[t] EXCEPT !.pc = "reg_check"])
      BY <1>0, <1>2 DEF RegisterLock, At, Sound, Local, Pcs
    <2>2. tbl' \in [Slots -> WideEntry]
      <3>1. th[t].client \in Clients /\ th[t].slot \in Slots
        BY <1>0, <1>2 DEF RegisterLock, At, Sound
      <3>2. /\ tbl[th[t].slot] \in WideEntry
            /\ tbl[th[t].slot].mask \union {th[t].client} \in SUBSET Clients
        BY <3>1, EntryFields DEF WideType
      <3> QED
        BY <1>2, <3>1, <3>2, StoreMask, Stores DEF RegisterLock
    <2> QED
      BY <1>2, <2>1, <2>2, Moves DEF RegisterLock, WideType
  <1>3. CASE RegisterCheck(t)
    <2>1. th[t].client \in Clients /\ th[t].slot \in Slots /\ th[t].key \in Fences
      BY <1>0, <1>3 DEF RegisterCheck, At, Sound
    <2>2. told' \subseteq Clients \X (Keys \union {None}) \X BOOLEAN
      BY <1>3, <2>1, TellType DEF RegisterCheck, WideType
    <2>3. waits' \subseteq Clients \X Keys
      BY <1>3, <2>1 DEF RegisterCheck, WideType, Keys
    <2> QED
      BY <1>3, <2>2, <2>3, IdleSound, Moves DEF RegisterCheck, WideType
  <1> QED
    BY <1>1, <1>2, <1>3

\* The calls that build a join fence.
LEMMA ArrayTypes ==
  ASSUME WideType, NEW t \in Threads,
         \/ \E c \in Clients, a \in Arrays : ArrayStart(t, c, a)
         \/ ArrayMask(t) \/ ArrayChild(t) \/ LinkSignalled(t) \/ LinkPending(t)
  PROVE  WideType'
  <1> USE DEF ArrayPcs, BuildPcs, UndoPcs, ResetPcs
  <1>0. Sound(th[t])
    BY DEF WideType
  <1>1. ASSUME NEW c \in Clients, NEW a \in Arrays, ArrayStart(t, c, a)
        PROVE  WideType'
    <2>1. PICK s \in Find(None) :
            /\ tbl' = [tbl EXCEPT ![s] = [Free EXCEPT !.key = a, !.alloc = JoinClient,
                                            !.pending_child_cnt = Len(Children[a])]]
            /\ Goto(t, [Idle EXCEPT !.pc = "arr_mask", !.client = c,
                                    !.key = a, !.slot = s, !.i = 1])
      BY <1>1 DEF ArrayStart
    <2>2. Sound([Idle EXCEPT !.pc = "arr_mask", !.client = c,
                             !.key = a, !.slot = s, !.i = 1])
      <3>1. Len(Children[a]) \in Nat /\ 1 \in 1 .. Len(Children[a]) + 1
        BY ArrayElements
      <3> QED
        BY <3>1 DEF Sound, Idle, Local, Pcs, Keys, Find
    <2>4. tbl' \in [Slots -> WideEntry]
      <3>1. Len(Children[a]) \in Int /\ a \in Keys /\ s \in Slots
        BY ArrayElements DEF Keys, Find
      <3> QED
        BY <2>1, <3>1, NewJoin, Stores
    <2> QED
      BY <1>1, <2>1, <2>2, <2>4, Moves DEF ArrayStart, WideType
  <1>2. CASE ArrayMask(t)
    <2>1. Sound([th[t] EXCEPT !.pc = "arr_child"])
      BY <1>0, <1>2 DEF ArrayMask, At, Sound, Local, Pcs
    <2>2. tbl' \in [Slots -> WideEntry]
      <3>1. th[t].client \in Clients /\ th[t].slot \in Slots
        BY <1>0, <1>2 DEF ArrayMask, At, Sound
      <3>2. /\ tbl[th[t].slot] \in WideEntry
            /\ tbl[th[t].slot].mask \union {th[t].client} \in SUBSET Clients
        BY <3>1, EntryFields DEF WideType
      <3> QED
        BY <1>2, <3>1, <3>2, StoreMask, Stores DEF ArrayMask
    <2> QED
      BY <1>2, <2>1, <2>2, Moves DEF ArrayMask, WideType
  <1>3. CASE ArrayChild(t)
    <2>0. th[t].key \in Arrays /\ th[t].i \in 1 .. Len(Children[th[t].key])
      <3>1. th[t].key \in Arrays /\ th[t].i \in 1 .. Len(Children[th[t].key]) + 1
        BY <1>0, <1>3 DEF ArrayChild, At, Sound
      <3>2. Len(Children[th[t].key]) \in Nat /\ th[t].i <= Len(Children[th[t].key])
        BY <1>3, <3>1, ArrayElements DEF ArrayChild, Num
      <3> QED
        BY <3>1, <3>2, SMTT(30)
    <2>1. ASSUME NEW s \in Slots
          PROVE  Sound([th[t] EXCEPT !.pc = "arr_link", !.child = s])
      BY <1>0, <1>3, <2>0 DEF ArrayChild, At, Sound, Local, Pcs
    <2>2. Sound([th[t] EXCEPT !.pc = "arr_undo"])
      BY <1>0, <1>3, <2>0 DEF ArrayChild, At, Sound, Local, Pcs
    <2>3. \E l : Sound(l) /\ Goto(t, l)
      BY <1>3, <2>1, <2>2 DEF ArrayChild, Find
    <2> QED
      BY <1>3, <2>3, Moves DEF ArrayChild, WideType
  <1>4. ASSUME th[t].pc = "arr_link", NEW b \in BOOLEAN
        PROVE  Sound(NextChild(th[t])) /\ Sound([NextChild(th[t]) EXCEPT !.signal = b])
    <2>1. th[t].key \in Arrays /\ th[t].i \in 1 .. Len(Children[th[t].key])
      BY <1>0, <1>4 DEF Sound
    <2>2. Len(Children[th[t].key]) \in Nat
      BY <2>1, ArrayElements
    <2>3. th[t].i + 1 \in 1 .. Len(Children[th[t].key]) + 1 /\ th[t].i + 1 \in Nat
      BY <2>1, <2>2
    <2> QED
      BY <1>0, <1>4, <2>3 DEF NextChild, Sound, Local, Pcs
  <1>5. CASE LinkSignalled(t)
    <2>0. th[t].slot \in Slots /\ th[t].child \in Slots
      BY <1>0, <1>5 DEF LinkSignalled, At, Sound
    <2> DEFINE left == tbl[th[t].slot].pending_child_cnt - 1
    <2>1. tbl[th[t].slot].pending_child_cnt \in Int /\ left \in Int
      BY <2>0 DEF WideType, WideEntry
    <2>2. tbl' \in [Slots -> WideEntry]
      <3>1. /\ tbl[th[t].slot] \in WideEntry
            /\ (tbl[th[t].slot].error \/ tbl[th[t].child].error) \in BOOLEAN
        BY <2>0 DEF WideType, WideEntry
      <3> QED
        BY <1>5, <2>0, <2>1, <3>1, StoreCount, Stores DEF LinkSignalled
    <2>3. NextChild(th[t]).signal \in BOOLEAN
      BY <1>0 DEF NextChild, Sound, Local
    <2>4. Sound([NextChild(th[t]) EXCEPT !.signal = @ \/ left = 0])
      BY <1>4, <1>5, <2>3 DEF LinkSignalled, At
    <2> QED
      BY <1>5, <2>2, <2>4, Moves DEF LinkSignalled, WideType
  <1>6. CASE LinkPending(t)
    <2>0. th[t].slot \in Slots /\ th[t].child \in Slots
      BY <1>0, <1>6 DEF LinkPending, At, Sound
    <2> DEFINE cnt == tbl[th[t].child].parents_cnt + 1
    <2>1. tbl[th[t].child] \in WideEntry /\ cnt \in Nat
      BY <2>0 DEF WideType, WideEntry
    <2>2. CASE cnt < MSM_HW_FENCE_MAX_JOIN_PARENTS
      <3>1. tbl' = [tbl EXCEPT ![th[t].child] = [@ EXCEPT !.parents_cnt = cnt,
                                                          !.parent_list[cnt] = th[t].slot]]
        BY <1>6, <2>2, <2>1 DEF LinkPending, MSM_HW_FENCE_MAX_JOIN_PARENTS
      <3>2. cnt \in Parents /\ cnt \in 0 .. MSM_HW_FENCE_MAX_JOIN_PARENTS
        BY <2>1, <2>2 DEF Parents, MSM_HW_FENCE_MAX_JOIN_PARENTS, WideEntry
      <3>3. tbl' \in [Slots -> WideEntry]
        <4> HIDE DEF cnt
        <4> QED BY <3>1, <3>2, <2>0, <2>1, StoreParent, Stores
      <3>4. Goto(t, NextChild(th[t]))
        BY <1>6, <2>2, <2>1 DEF LinkPending, MSM_HW_FENCE_MAX_JOIN_PARENTS
      <3> QED
        BY <1>6, <3>3, <3>4, <1>4, Moves DEF LinkPending, At, WideType
    <2>3. CASE ~(cnt < MSM_HW_FENCE_MAX_JOIN_PARENTS)
      <3>1. Sound([th[t] EXCEPT !.pc = "arr_undo", !.child = None])
        BY <1>0, <1>6 DEF LinkPending, At, Sound, Local, Pcs
      <3>2. /\ Goto(t, [th[t] EXCEPT !.pc = "arr_undo", !.child = None])
            /\ UNCHANGED tbl
        BY <1>6, <2>3, <2>1 DEF LinkPending
      <3> QED
        BY <1>6, <3>1, <3>2, Moves DEF LinkPending, WideType
    <2> QED
      BY <2>2, <2>3
  <1> QED
    BY <1>1, <1>2, <1>3, <1>5, <1>6

\* The ends of these calls.
LEMMA ArrayEndTypes ==
  ASSUME WideType, NEW t \in Threads,
         ArrayDone(t) \/ ArrayDestroy(t) \/ ArrayUndo(t) \/ ArrayFail(t)
  PROVE  WideType'
  <1> USE DEF ArrayPcs, BuildPcs, UndoPcs, ResetPcs
  <1>0. Sound(th[t])
    BY DEF WideType
  <1>1. /\ th[t].client \in Clients /\ th[t].key \in Arrays /\ th[t].slot \in Slots
        /\ <<th[t].client, th[t].key>> \in Clients \X Keys
    BY <1>0 DEF ArrayDone, ArrayDestroy, ArrayUndo, ArrayFail, At, Sound, Keys
  <1>2. tbl[th[t].slot].error \in BOOLEAN
    BY <1>1, EntryFields DEF WideType
  <1>3. CASE ArrayDone(t)
    <2>1. Sound([th[t] EXCEPT !.pc = "arr_destroy"])
      BY <1>0, <1>3 DEF ArrayDone, At, Sound, Local, Pcs
    <2>5. Num(t) = 0 => Sound([th[t] EXCEPT !.pc = "arr_undo"])
      BY <1>0, <1>3, <1>1 DEF ArrayDone, At, Sound, Local, Pcs, Num
    <2>2. \E l : Sound(l) /\ Goto(t, l)
      BY <1>3, <2>1, <2>5, IdleSound DEF ArrayDone
    <2>3. told' \subseteq Clients \X (Keys \union {None}) \X BOOLEAN
      BY <1>1, <1>2, <1>3, TellType DEF ArrayDone, WideType
    <2>4. waits' \subseteq Clients \X Keys
      BY <1>1, <1>3 DEF ArrayDone, WideType
    <2> QED
      BY <1>3, <2>2, <2>3, <2>4, Moves DEF ArrayDone, WideType
  <1>4. CASE ArrayDestroy(t)
    BY <1>1, <1>4, IdleSound, Moves, DestroyEntryEffect DEF ArrayDestroy, WideType
  <1>5. CASE ArrayUndo(t)
    <2>1. /\ th[t].i \in 1 .. Len(Children[th[t].key]) \/ th[t].i = 1
          /\ Len(Children[th[t].key]) \in Nat
      BY <1>0, <1>1, <1>5, ArrayElements DEF ArrayUndo, At, Sound
    <2>2. Sound([th[t] EXCEPT !.pc = "arr_fail", !.i = 0])
      BY <1>0, <1>5 DEF ArrayUndo, At, Sound, Local, Pcs
    <2>3. th[t].i # 1 => th[t].i - 1 \in 1 .. Len(Children[th[t].key]) /\ th[t].i - 1 \in Nat
      BY <2>1
    <2>4. th[t].i # 1 => Sound([th[t] EXCEPT !.i = @ - 1])
      BY <1>0, <1>5, <2>3 DEF ArrayUndo, At, Sound, Local, Pcs
    <2>5. \E l : Sound(l) /\ Goto(t, l)
      BY <1>5, <2>2, <2>4 DEF ArrayUndo
    <2>6. tbl' \in [Slots -> WideEntry]
      BY <1>1, <1>5, StoreUnlinked DEF ArrayUndo, WideType
    <2> QED
      BY <1>5, <2>5, <2>6, Moves DEF ArrayUndo, WideType
  <1>6. CASE ArrayFail(t)
    BY <1>6, IdleSound, Moves, DestroyEntryEffect DEF ArrayFail, WideType
  <1> QED
    BY <1>3, <1>4, <1>5, <1>6

\* The reset of a client.
LEMMA ResetTypes ==
  ASSUME WideType, NEW t \in Threads,
         \/ \E c \in Clients, err, destroy \in BOOLEAN : Reset(t, c, err, destroy)
         \/ \E s \in Slots : ResetEntry(t, s)
         \/ \E c \in Clients : ResetSignal(t, c)
         \/ ResetOwner(t) \/ ResetDestroy(t) \/ ResetReturn(t)
  PROVE  WideType'
  <1> USE DEF ArrayPcs, BuildPcs, UndoPcs, ResetPcs
  <1>0. Sound(th[t])
    BY DEF WideType
  <1>1. ASSUME NEW c \in Clients, NEW err \in BOOLEAN, NEW destroy \in BOOLEAN,
               Reset(t, c, err, destroy)
        PROVE  WideType'
    <2>1. Sound([Idle EXCEPT !.pc = "rst_entry", !.client = c,
                             !.slots = Slots, !.error = err, !.destroy = destroy])
      BY DEF Sound, Idle, Local, Pcs
    <2> QED
      BY <1>1, <2>1, Moves DEF Reset, WideType
  <1>2. ASSUME NEW s \in Slots, ResetEntry(t, s)
        PROVE  WideType'
    <2>1. Sound([th[t] EXCEPT !.pc = "rst_owner", !.slot = s, !.slots = @ \ {s}])
      BY <1>0, <1>2 DEF ResetEntry, At, Sound, Local, Pcs
    <2>2. tbl[s] \in WideEntry /\ tbl[s].mask \ {th[t].client} \in SUBSET Clients
      BY EntryFields DEF WideType
    <2>3. tbl' \in [Slots -> WideEntry]
      BY <1>2, <2>2, StoreMask, Stores DEF ResetEntry
    <2> QED
      BY <1>2, <2>1, <2>3, Moves DEF ResetEntry, WideType
  <1>3. th[t].pc \in ResetPcs => Sound(NextEntry(th[t]))
    BY <1>0 DEF NextEntry, Sound, Local, Pcs
  <1>4. ASSUME NEW c \in Clients, ResetSignal(t, c)
        PROVE  WideType'
    <2>1. Sound([th[t] EXCEPT !.clients = th[t].clients \ {c},
                  !.pc = IF th[t].clients \ {c} = {} THEN "rst_destroy" ELSE @])
      BY <1>0, <1>4 DEF ResetSignal, At, Sound, Local, Pcs
    <2>2. th[t].slot \in Slots /\ th[t].error \in BOOLEAN
      BY <1>0, <1>4 DEF ResetSignal, At, Sound, Local
    <2>3. told' \subseteq Clients \X (Keys \union {None}) \X BOOLEAN
      BY <1>4, <2>2, TellType DEF ResetSignal, WideType
    <2>4. ended' \in [Fences -> {"new", "no", "ok", "error", "reset"}]
      BY <1>4 DEF ResetSignal, WideType
    <2> QED
      BY <1>4, <2>1, <2>3, <2>4, Moves DEF ResetSignal, WideType
  <1>5. CASE ResetOwner(t)
    <2>1. /\ Sound([th[t] EXCEPT !.pc = "rst_destroy"])
          /\ Sound([th[t] EXCEPT !.pc = "rst_signal", !.clients = Clients])
      BY <1>0, <1>5 DEF ResetOwner, At, Sound, Local, Pcs
    <2>2. \E l : Sound(l) /\ Goto(t, l)
      BY <1>3, <1>5, <2>1 DEF ResetOwner, At
    <2> QED
      BY <1>5, <2>2, Moves DEF ResetOwner, WideType
  <1>6. CASE ResetDestroy(t)
    BY <1>3, <1>6, Moves, DestroyEntryEffect DEF ResetDestroy, At, WideType
  <1>7. CASE ResetReturn(t)
    BY <1>7, IdleSound, Moves DEF ResetReturn, WideType
  <1> QED
    BY <1>1, <1>2, <1>4, <1>5, <1>6, <1>7

\* Every step keeps the type, whatever arrays there are and who is reset.
LEMMA TypeStep == WideType /\ [Next]_vars => WideType'
  <1> SUFFICES ASSUME WideType, [Next]_vars PROVE WideType'
    OBVIOUS
  <1>1. CASE \E f \in Fences : Create(f) \/ Destroy(f)
    BY <1>1, FenceTypes
  <1>2. CASE Signalled
    BY <1>2, SignalTypes DEF Signalled
  <1>3. ASSUME NEW t \in Threads, Call(t) PROVE WideType'
    BY <1>3, RegisterTypes, ArrayTypes, ResetTypes DEF Call
  <1>4. ASSUME NEW t \in Threads, Step(t) PROVE WideType'
    BY <1>4, RegisterTypes, ArrayTypes, ArrayEndTypes, ResetTypes DEF Step
  <1>5. CASE UNCHANGED vars
    BY <1>5 DEF vars, WideType
  <1> QED
    BY <1>1, <1>2, <1>3, <1>4, <1>5 DEF Next

\* The initial state.
LEMMA TypeInit == Init => WideType
  BY FreeEntry, IdleSound DEF Init, WideType, Sound

-----------------------------------------------------------------------------
(* What the steps do to the table and to the local variables of a thread. *)

\* Only entry s changes; only thread t moves.
OnlyEntry(s) == \A r \in Slots : r # s => tbl'[r] = tbl[r]
OnlyThread(t) == \A u \in Threads : u # t => th'[u] = th[u]

\* The local variables that name the call, before and after.
SameCall(l, k) == l.client = k.client /\ l.key = k.key /\ l.slot = k.slot

\* hw_fence_register_wait_client() has found the entry of fence f.
LEMMA RegisterWaitEffect ==
  ASSUME WideType, NEW t \in Threads, NEW c \in Clients, NEW f \in Fences,
         RegisterWait(t, c, f)
  PROVE  /\ \E s \in Slots :
              /\ tbl[s].key = f
              /\ th'[t].pc = "reg_lock" /\ th'[t].client = c
              /\ th'[t].key = f /\ th'[t].slot = s
         /\ OnlyThread(t) /\ th[t].pc = "idle"
         /\ UNCHANGED <<tbl, ended, told, waits>>
  BY DEF RegisterWait, Goto, At, Find, Idle, OnlyThread, WideType

\* The client joins the wait mask of the entry.
LEMMA RegisterLockEffect ==
  ASSUME WideType, NEW t \in Threads, RegisterLock(t)
  PROVE  /\ th[t].pc = "reg_lock" /\ th'[t].pc = "reg_check"
         /\ th[t].slot \in Slots /\ th[t].client \in Clients /\ th[t].key \in Fences
         /\ SameCall(th'[t], th[t]) /\ OnlyThread(t)
         /\ tbl'[th[t].slot].mask = tbl[th[t].slot].mask \union {th[t].client}
         /\ SameFence(tbl'[th[t].slot], tbl[th[t].slot])
         /\ SameList(tbl'[th[t].slot], tbl[th[t].slot])
         /\ SameCount(tbl'[th[t].slot], tbl[th[t].slot])
         /\ OnlyEntry(th[t].slot)
         /\ UNCHANGED <<ended, told, waits>>
  <1>1. /\ th[t].pc = "reg_lock" /\ th[t].slot \in Slots
        /\ th[t].client \in Clients /\ th[t].key \in Fences /\ th[t] \in Local
    BY DEF RegisterLock, At, WideType, Sound
  <1>2. /\ tbl[th[t].slot] \in WideEntry
        /\ tbl[th[t].slot].mask \union {th[t].client} \in SUBSET Clients
    BY <1>1, EntryFields DEF WideType
  <1>3. /\ tbl'[th[t].slot] = [tbl[th[t].slot] EXCEPT !.mask = @ \union {th[t].client}]
        /\ OnlyEntry(th[t].slot)
    BY <1>1, <1>2 DEF RegisterLock, OnlyEntry, WideType
  <1>4. th'[t].pc = "reg_check" /\ SameCall(th'[t], th[t]) /\ OnlyThread(t)
    BY <1>1 DEF RegisterLock, Goto, SameCall, OnlyThread, WideType, Local
  <1>5. /\ tbl'[th[t].slot].mask = tbl[th[t].slot].mask \union {th[t].client}
        /\ SameFence(tbl'[th[t].slot], tbl[th[t].slot])
        /\ SameList(tbl'[th[t].slot], tbl[th[t].slot])
        /\ SameCount(tbl'[th[t].slot], tbl[th[t].slot])
    BY <1>2, <1>3, StoreMask
  <1>6. UNCHANGED <<ended, told, waits>>
    BY DEF RegisterLock
  <1> QED
    BY <1>1, <1>3, <1>4, <1>5, <1>6

\* The call returns and signals the client if the fence has signalled.
LEMMA RegisterCheckEffect ==
  ASSUME WideType, NEW t \in Threads, RegisterCheck(t)
  PROVE  /\ th[t].pc = "reg_check" /\ th'[t] = Idle
         /\ th[t].slot \in Slots /\ th[t].client \in Clients /\ th[t].key \in Fences
         /\ OnlyThread(t)
         /\ told' = IF tbl[th[t].slot].sig
                    THEN told \union {<<th[t].client, tbl[th[t].slot].key, FALSE>>}
                    ELSE told
         /\ waits' = waits \union {<<th[t].client, th[t].key>>}
         /\ UNCHANGED <<tbl, ended>>
  <1>1. /\ th[t].pc = "reg_check" /\ th[t].slot \in Slots
        /\ th[t].client \in Clients /\ th[t].key \in Fences
    BY DEF RegisterCheck, At, WideType, Sound
  <1> QED
    BY <1>1 DEF RegisterCheck, Goto, Tell, OnlyThread, WideType

\* The join fence of array a has an entry, and the call its index.
LEMMA ArrayStartEffect ==
  ASSUME WideType, NEW t \in Threads, NEW c \in Clients, NEW a \in Arrays,
         ArrayStart(t, c, a)
  PROVE  /\ \E s \in Slots :
              /\ tbl[s].key = None
              /\ tbl'[s].key = a /\ tbl'[s].alloc = JoinClient /\ tbl'[s].mask = {}
              /\ ~tbl'[s].sig /\ SameList(tbl'[s], Free) /\ ~tbl'[s].error
              /\ tbl'[s].pending_child_cnt = Len(Children[a])
              /\ OnlyEntry(s)
              /\ th'[t].pc = "arr_mask" /\ th'[t].client = c /\ th'[t].key = a
              /\ th'[t].slot = s /\ th'[t].i = 1 /\ ~th'[t].signal
         /\ OnlyThread(t) /\ th[t].pc = "idle" /\ <<c, a>> \notin waits /\ MayJoin(a)
         /\ UNCHANGED <<ended, told, waits>>
  <1>1. PICK s \in Find(None) :
          /\ tbl' = [tbl EXCEPT ![s] = [Free EXCEPT !.key = a, !.alloc = JoinClient,
                                          !.pending_child_cnt = Len(Children[a])]]
          /\ Goto(t, [Idle EXCEPT !.pc = "arr_mask", !.client = c,
                                  !.key = a, !.slot = s, !.i = 1])
    BY DEF ArrayStart
  <1>2. /\ Len(Children[a]) \in Int /\ a \in Keys /\ s \in Slots /\ tbl[s].key = None
    BY ArrayElements DEF Keys, Find
  <1>3. /\ tbl'[s] = [Free EXCEPT !.key = a, !.alloc = JoinClient,
                                  !.pending_child_cnt = Len(Children[a])]
        /\ OnlyEntry(s)
    BY <1>1, <1>2 DEF OnlyEntry, WideType
  <1>4. /\ th'[t].pc = "arr_mask" /\ th'[t].client = c /\ th'[t].key = a
        /\ th'[t].slot = s /\ th'[t].i = 1 /\ ~th'[t].signal /\ OnlyThread(t)
    BY <1>1, <1>2 DEF Goto, Idle, OnlyThread, WideType
  <1>5. /\ tbl'[s].key = a /\ tbl'[s].alloc = JoinClient /\ tbl'[s].mask = {}
        /\ ~tbl'[s].sig /\ SameList(tbl'[s], Free) /\ ~tbl'[s].error
        /\ tbl'[s].pending_child_cnt = Len(Children[a])
    BY <1>2, <1>3, FreeEntry DEF WideEntry, SameList
  <1>6. /\ th[t].pc = "idle" /\ <<c, a>> \notin waits /\ MayJoin(a)
        /\ UNCHANGED <<ended, told, waits>>
    BY DEF ArrayStart, At
  <1> QED
    BY <1>2, <1>3, <1>4, <1>5, <1>6

\* The client joins the wait mask of the join fence.
LEMMA ArrayMaskEffect ==
  ASSUME WideType, NEW t \in Threads, ArrayMask(t)
  PROVE  /\ th[t].pc = "arr_mask" /\ th'[t].pc = "arr_child" /\ th[t].i = 1
         /\ th[t].slot \in Slots /\ th[t].client \in Clients /\ th[t].key \in Arrays
         /\ SameCall(th'[t], th[t]) /\ OnlyThread(t)
         /\ th'[t].i = th[t].i /\ th'[t].signal = th[t].signal
         /\ tbl'[th[t].slot].mask = tbl[th[t].slot].mask \union {th[t].client}
         /\ SameFence(tbl'[th[t].slot], tbl[th[t].slot])
         /\ SameList(tbl'[th[t].slot], tbl[th[t].slot])
         /\ SameCount(tbl'[th[t].slot], tbl[th[t].slot])
         /\ OnlyEntry(th[t].slot)
         /\ UNCHANGED <<ended, told, waits>>
  <1>1. /\ th[t].pc = "arr_mask" /\ th[t].slot \in Slots /\ th[t].i = 1
        /\ th[t].client \in Clients /\ th[t].key \in Arrays /\ th[t] \in Local
    BY DEF ArrayMask, At, WideType, Sound, ArrayPcs, BuildPcs
  <1>2. /\ tbl[th[t].slot] \in WideEntry
        /\ tbl[th[t].slot].mask \union {th[t].client} \in SUBSET Clients
    BY <1>1, EntryFields DEF WideType
  <1>3. /\ tbl'[th[t].slot] = [tbl[th[t].slot] EXCEPT !.mask = @ \union {th[t].client}]
        /\ OnlyEntry(th[t].slot)
    BY <1>1, <1>2 DEF ArrayMask, OnlyEntry, WideType
  <1>4. /\ th'[t].pc = "arr_child" /\ SameCall(th'[t], th[t]) /\ OnlyThread(t)
        /\ th'[t].i = th[t].i /\ th'[t].signal = th[t].signal
    BY <1>1 DEF ArrayMask, Goto, SameCall, OnlyThread, WideType, Local
  <1>5. /\ tbl'[th[t].slot].mask = tbl[th[t].slot].mask \union {th[t].client}
        /\ SameFence(tbl'[th[t].slot], tbl[th[t].slot])
        /\ SameList(tbl'[th[t].slot], tbl[th[t].slot])
        /\ SameCount(tbl'[th[t].slot], tbl[th[t].slot])
    BY <1>2, <1>3, StoreMask
  <1>6. UNCHANGED <<ended, told, waits>>
    BY DEF ArrayMask
  <1> QED
    BY <1>1, <1>3, <1>4, <1>5, <1>6

\* The next element is found, or the call gives up.
LEMMA ArrayChildEffect ==
  ASSUME WideType, NEW t \in Threads, ArrayChild(t)
  PROVE  /\ th[t].pc = "arr_child"
         /\ th[t].slot \in Slots /\ th[t].client \in Clients /\ th[t].key \in Arrays
         /\ th[t].i \in 1 .. Len(Children[th[t].key])
         /\ SameCall(th'[t], th[t]) /\ OnlyThread(t)
         /\ th'[t].i = th[t].i /\ th'[t].signal = th[t].signal
         /\ \/ /\ th'[t].pc = "arr_link" /\ th'[t].child \in Slots
               /\ tbl[th'[t].child].key = Children[th[t].key][th[t].i]
            \/ th'[t].pc = "arr_undo"
         /\ UNCHANGED <<tbl, ended, told, waits>>
  <1>1. /\ th[t].pc = "arr_child" /\ th[t].slot \in Slots
        /\ th[t].client \in Clients /\ th[t].key \in Arrays /\ th[t] \in Local
        /\ th[t].i \in 1 .. Len(Children[th[t].key]) + 1
    BY DEF ArrayChild, At, WideType, Sound, ArrayPcs, BuildPcs
  <1>2. th[t].i \in 1 .. Len(Children[th[t].key])
    <2>1. Len(Children[th[t].key]) \in Nat /\ th[t].i <= Len(Children[th[t].key])
      BY <1>1, ArrayElements DEF ArrayChild, Num
    <2> QED
      BY <1>1, <2>1, SMTT(30)
  <1>3. /\ SameCall(th'[t], th[t]) /\ OnlyThread(t)
        /\ th'[t].i = th[t].i /\ th'[t].signal = th[t].signal
        /\ \/ /\ th'[t].pc = "arr_link" /\ th'[t].child \in Slots
              /\ tbl[th'[t].child].key = Children[th[t].key][th[t].i]
           \/ th'[t].pc = "arr_undo"
    <2>1. CASE \E s \in Find(Children[th[t].key][th[t].i]) :
                 Goto(t, [th[t] EXCEPT !.pc = "arr_link", !.child = s])
      BY <1>1, <2>1 DEF Find, Goto, SameCall, OnlyThread, WideType, Local
    <2>2. CASE Goto(t, [th[t] EXCEPT !.pc = "arr_undo"])
      BY <1>1, <2>2 DEF Goto, SameCall, OnlyThread, WideType, Local
    <2> QED
      BY <2>1, <2>2 DEF ArrayChild
  <1> QED
    BY <1>1, <1>2, <1>3 DEF ArrayChild

\* The join fence counts a child that has signalled.
LEMMA LinkSignalledEffect ==
  ASSUME WideType, NEW t \in Threads, LinkSignalled(t)
  PROVE  /\ th[t].pc = "arr_link" /\ th'[t].pc = "arr_child"
         /\ th[t].slot \in Slots /\ th[t].client \in Clients /\ th[t].key \in Arrays
         /\ th[t].child \in Slots /\ tbl[th[t].child].sig
         /\ th[t].i \in 1 .. Len(Children[th[t].key])
         /\ SameCall(th'[t], th[t]) /\ OnlyThread(t) /\ th'[t].i = th[t].i + 1
         /\ th'[t].signal = (th[t].signal \/ tbl'[th[t].slot].pending_child_cnt = 0)
         /\ tbl'[th[t].slot].mask = tbl[th[t].slot].mask
         /\ SameFence(tbl'[th[t].slot], tbl[th[t].slot])
         /\ SameList(tbl'[th[t].slot], tbl[th[t].slot])
         /\ tbl'[th[t].slot].error = (tbl[th[t].slot].error \/ tbl[th[t].child].error)
         /\ tbl'[th[t].slot].pending_child_cnt = tbl[th[t].slot].pending_child_cnt - 1
         /\ OnlyEntry(th[t].slot)
         /\ UNCHANGED <<ended, told, waits>>
  <1>1. /\ th[t].pc = "arr_link" /\ th[t].slot \in Slots /\ th[t].child \in Slots
        /\ th[t].client \in Clients /\ th[t].key \in Arrays /\ th[t] \in Local
        /\ th[t].i \in 1 .. Len(Children[th[t].key]) /\ tbl[th[t].child].sig
    BY DEF LinkSignalled, At, WideType, Sound, ArrayPcs, BuildPcs
  <1> DEFINE left == tbl[th[t].slot].pending_child_cnt - 1
             err == tbl[th[t].slot].error \/ tbl[th[t].child].error
  <1>2. tbl[th[t].slot] \in WideEntry /\ err \in BOOLEAN /\ left \in Int
    BY <1>1, EntryFields DEF WideType
  <1>4. tbl' = [tbl EXCEPT ![th[t].slot] =
                   [tbl[th[t].slot] EXCEPT !.error = err, !.pending_child_cnt = left]]
    BY DEF LinkSignalled
  <1>8. Goto(t, [NextChild(th[t]) EXCEPT !.signal = @ \/ left = 0])
    BY DEF LinkSignalled
  <1> HIDE DEF left, err
  <1>3. /\ tbl'[th[t].slot] = [tbl[th[t].slot] EXCEPT !.error = err,
                                                      !.pending_child_cnt = left]
        /\ OnlyEntry(th[t].slot)
    BY <1>1, <1>2, <1>4 DEF OnlyEntry, WideType
  <1>5. /\ tbl'[th[t].slot].mask = tbl[th[t].slot].mask
        /\ SameFence(tbl'[th[t].slot], tbl[th[t].slot])
        /\ SameList(tbl'[th[t].slot], tbl[th[t].slot])
        /\ tbl'[th[t].slot].error = err
        /\ tbl'[th[t].slot].pending_child_cnt = left
    BY <1>2, <1>3 DEF WideEntry, SameFence, SameList
  <1>6. /\ th'[t].pc = "arr_child" /\ SameCall(th'[t], th[t]) /\ OnlyThread(t)
        /\ th'[t].i = th[t].i + 1
        /\ th'[t].signal = (th[t].signal \/ left = 0)
    BY <1>1, <1>8 DEF NextChild, Goto, SameCall, OnlyThread, WideType, Local
  <1>7. UNCHANGED <<ended, told, waits>>
    BY DEF LinkSignalled
  <1> QED
    BY <1>1, <1>3, <1>5, <1>6, <1>7 DEF left, err

\* The child gets the join fence as a parent, or the call gives up.
LEMMA LinkPendingEffect ==
  ASSUME WideType, NEW t \in Threads, LinkPending(t)
  PROVE  /\ th[t].pc = "arr_link"
         /\ th[t].slot \in Slots /\ th[t].client \in Clients /\ th[t].key \in Arrays
         /\ th[t].child \in Slots /\ ~tbl[th[t].child].sig
         /\ th[t].i \in 1 .. Len(Children[th[t].key])
         /\ SameCall(th'[t], th[t]) /\ OnlyThread(t) /\ th'[t].signal = th[t].signal
         /\ \/ /\ th'[t].pc = "arr_child" /\ th'[t].i = th[t].i + 1
               /\ tbl'[th[t].child].mask = tbl[th[t].child].mask
               /\ SameFence(tbl'[th[t].child], tbl[th[t].child])
               /\ SameCount(tbl'[th[t].child], tbl[th[t].child])
               /\ tbl'[th[t].child].parents_cnt = tbl[th[t].child].parents_cnt + 1
               /\ tbl'[th[t].child].parents_cnt \in Parents
               /\ \A p \in Parents :
                    tbl'[th[t].child].parent_list[p] =
                      IF p = tbl'[th[t].child].parents_cnt THEN th[t].slot
                      ELSE tbl[th[t].child].parent_list[p]
               /\ OnlyEntry(th[t].child)
            \/ th'[t].pc = "arr_undo" /\ th'[t].i = th[t].i /\ UNCHANGED tbl
         /\ UNCHANGED <<ended, told, waits>>
  <1>1. /\ th[t].pc = "arr_link" /\ th[t].slot \in Slots /\ th[t].child \in Slots
        /\ th[t].client \in Clients /\ th[t].key \in Arrays /\ th[t] \in Local
        /\ th[t].i \in 1 .. Len(Children[th[t].key]) /\ ~tbl[th[t].child].sig
    BY DEF LinkPending, At, WideType, Sound, ArrayPcs, BuildPcs
  <1> DEFINE cnt == tbl[th[t].child].parents_cnt + 1
  <1>2. tbl[th[t].child] \in WideEntry /\ cnt \in Nat
    BY <1>1, EntryFields, SMTT(30) DEF WideType
  <1>3. UNCHANGED <<ended, told, waits>>
    BY DEF LinkPending
  <1>4. \/ /\ cnt < MSM_HW_FENCE_MAX_JOIN_PARENTS
           /\ tbl' = [tbl EXCEPT ![th[t].child] = [@ EXCEPT !.parents_cnt = cnt,
                                                    !.parent_list[cnt] = th[t].slot]]
           /\ Goto(t, NextChild(th[t]))
        \/ /\ Goto(t, [th[t] EXCEPT !.pc = "arr_undo", !.child = None])
           /\ UNCHANGED tbl
    BY DEF LinkPending
  <1>5. cnt < MSM_HW_FENCE_MAX_JOIN_PARENTS => cnt \in Parents
    BY <1>2, EntryFields DEF Parents, MSM_HW_FENCE_MAX_JOIN_PARENTS
  <1> HIDE DEF cnt
  <1>6. CASE /\ cnt < MSM_HW_FENCE_MAX_JOIN_PARENTS
             /\ tbl' = [tbl EXCEPT ![th[t].child] = [@ EXCEPT !.parents_cnt = cnt,
                                                      !.parent_list[cnt] = th[t].slot]]
             /\ Goto(t, NextChild(th[t]))
    <2>1. cnt \in Parents
      BY <1>5, <1>6
    <2>2. /\ tbl'[th[t].child] = [tbl[th[t].child] EXCEPT !.parents_cnt = cnt,
                                                          !.parent_list[cnt] = th[t].slot]
          /\ OnlyEntry(th[t].child)
      BY <1>1, <1>6 DEF OnlyEntry, WideType
    <2>3. /\ tbl'[th[t].child].mask = tbl[th[t].child].mask
          /\ SameFence(tbl'[th[t].child], tbl[th[t].child])
          /\ SameCount(tbl'[th[t].child], tbl[th[t].child])
          /\ tbl'[th[t].child].parents_cnt = cnt
          /\ \A p \in Parents : tbl'[th[t].child].parent_list[p] =
                 IF p = cnt THEN th[t].slot ELSE tbl[th[t].child].parent_list[p]
      BY <1>1, <1>2, <2>1, <2>2 DEF WideEntry, SameFence, SameCount
    <2>4. /\ th'[t].pc = "arr_child" /\ SameCall(th'[t], th[t]) /\ OnlyThread(t)
          /\ th'[t].i = th[t].i + 1 /\ th'[t].signal = th[t].signal
      BY <1>1, <1>6 DEF NextChild, Goto, SameCall, OnlyThread, WideType, Local
    <2> QED
      BY <1>1, <1>3, <2>1, <2>2, <2>3, <2>4 DEF cnt
  <1>7. CASE /\ Goto(t, [th[t] EXCEPT !.pc = "arr_undo", !.child = None])
             /\ UNCHANGED tbl
    <2>1. /\ th'[t].pc = "arr_undo" /\ SameCall(th'[t], th[t]) /\ OnlyThread(t)
          /\ th'[t].i = th[t].i /\ th'[t].signal = th[t].signal
      BY <1>1, <1>7 DEF Goto, SameCall, OnlyThread, WideType, Local
    <2> QED
      BY <1>1, <1>3, <1>7, <2>1
  <1> QED
    BY <1>4, <1>6, <1>7

\* The call is done with the children: signal, fail or return.
LEMMA ArrayDoneEffect ==
  ASSUME WideType, NEW t \in Threads, ArrayDone(t)
  PROVE  /\ th[t].pc = "arr_child"
         /\ th[t].slot \in Slots /\ th[t].client \in Clients /\ th[t].key \in Arrays
         /\ th[t].i = Len(Children[th[t].key]) + 1
         /\ OnlyThread(t)
         /\ \/ /\ th[t].signal
               /\ th'[t].pc = "arr_destroy" /\ SameCall(th'[t], th[t])
               /\ told' = told \union {<<th[t].client, tbl[th[t].slot].key,
                                         tbl[th[t].slot].error>>}
               /\ UNCHANGED waits
            \/ /\ ~th[t].signal /\ Len(Children[th[t].key]) = 0
               /\ th'[t].pc = "arr_undo" /\ SameCall(th'[t], th[t])
               /\ UNCHANGED <<told, waits>>
            \/ /\ ~th[t].signal /\ Len(Children[th[t].key]) > 0
               /\ th'[t] = Idle
               /\ waits' = waits \union {<<th[t].client, th[t].key>>}
               /\ UNCHANGED told
         /\ UNCHANGED <<tbl, ended>>
  <1>1. /\ th[t].pc = "arr_child" /\ th[t].slot \in Slots
        /\ th[t].client \in Clients /\ th[t].key \in Arrays /\ th[t] \in Local
        /\ th[t].i \in 1 .. Len(Children[th[t].key]) + 1
    BY DEF ArrayDone, At, WideType, Sound, ArrayPcs, BuildPcs
  <1>2. th[t].i = Len(Children[th[t].key]) + 1
    <2>1. Len(Children[th[t].key]) \in Nat /\ th[t].i > Len(Children[th[t].key])
      BY <1>1, ArrayElements DEF ArrayDone, Num
    <2> QED
      BY <1>1, <2>1
  <1>3. UNCHANGED <<tbl, ended>>
    BY DEF ArrayDone
  <1>4. CASE /\ th[t].signal /\ Goto(t, [th[t] EXCEPT !.pc = "arr_destroy"])
             /\ Tell(th[t].client, th[t].slot, tbl[th[t].slot].error) /\ UNCHANGED waits
    <2>1. th'[t].pc = "arr_destroy" /\ SameCall(th'[t], th[t]) /\ OnlyThread(t)
      BY <1>1, <1>4 DEF Goto, SameCall, OnlyThread, WideType, Local
    <2> QED
      BY <1>1, <1>2, <1>3, <1>4, <2>1 DEF Tell
  <1>5. CASE /\ ~th[t].signal /\ Num(t) = 0 /\ Goto(t, [th[t] EXCEPT !.pc = "arr_undo"])
             /\ UNCHANGED <<told, waits>>
    <2>1. th'[t].pc = "arr_undo" /\ SameCall(th'[t], th[t]) /\ OnlyThread(t)
      BY <1>1, <1>5 DEF Goto, SameCall, OnlyThread, WideType, Local
    <2> QED
      BY <1>1, <1>2, <1>3, <1>5, <2>1 DEF Num
  <1>6. CASE /\ ~th[t].signal /\ Num(t) > 0 /\ Goto(t, Idle)
             /\ waits' = waits \union {<<th[t].client, th[t].key>>} /\ UNCHANGED told
    <2>1. th'[t] = Idle /\ OnlyThread(t)
      BY <1>1, <1>6 DEF Goto, OnlyThread, WideType
    <2> QED
      BY <1>1, <1>2, <1>3, <1>6, <2>1 DEF Num
  <1> QED
    BY <1>4, <1>5, <1>6 DEF ArrayDone

\* The join fence is destroyed and the call returns.
LEMMA ArrayEndEffect ==
  ASSUME WideType, NEW t \in Threads, ArrayDestroy(t) \/ ArrayFail(t)
  PROVE  /\ th[t].slot \in Slots /\ th[t].client \in Clients /\ th[t].key \in Arrays
         /\ th'[t] = Idle /\ OnlyThread(t)
         /\ \A s \in Slots : tbl'[s] = Free \/ tbl'[s] = tbl[s]
         /\ Unique(th[t].key) =>
              \A s \in Slots : tbl'[s] = IF tbl[s].key = th[t].key THEN Free ELSE tbl[s]
         /\ \/ /\ th[t].pc = "arr_destroy"
               /\ waits' = waits \union {<<th[t].client, th[t].key>>}
            \/ th[t].pc = "arr_fail" /\ UNCHANGED waits
         /\ UNCHANGED <<ended, told>>
  <1>1. /\ th[t].slot \in Slots /\ th[t].client \in Clients /\ th[t].key \in Arrays
    BY DEF ArrayDestroy, ArrayFail, At, WideType, Sound, ArrayPcs, UndoPcs
  <1>2. /\ \A s \in Slots : tbl'[s] = Free \/ tbl'[s] = tbl[s]
        /\ Unique(th[t].key) =>
             \A s \in Slots : tbl'[s] = IF tbl[s].key = th[t].key THEN Free ELSE tbl[s]
    BY DestroyEntryEffect DEF ArrayDestroy, ArrayFail
  <1> QED
    BY <1>1, <1>2 DEF ArrayDestroy, ArrayFail, At, Goto, OnlyThread, WideType

\* An element is undone and the call goes on to the one before.
LEMMA ArrayUndoEffect ==
  ASSUME WideType, NEW t \in Threads, ArrayUndo(t)
  PROVE  /\ th[t].pc = "arr_undo"
         /\ th[t].slot \in Slots /\ th[t].client \in Clients /\ th[t].key \in Arrays
         /\ SameCall(th'[t], th[t]) /\ OnlyThread(t)
         /\ \/ th[t].i = 1 /\ th'[t].pc = "arr_fail"
            \/ th[t].i # 1 /\ th'[t].pc = "arr_undo" /\ th'[t].i = th[t].i - 1
         /\ \E f :
              /\ f # None
              /\ \/ th[t].i \in 1 .. Len(Children[th[t].key]) /\ f = Children[th[t].key][th[t].i]
                 \/ th[t].i = 1 /\ Len(Children[th[t].key]) = 0
              /\ \A s \in Slots :
                   tbl'[s] = IF tbl[s].key = f THEN Unlinked(tbl[s], th[t].slot) ELSE tbl[s]
         /\ UNCHANGED <<ended, told, waits>>
  <1>1. /\ th[t].pc = "arr_undo" /\ th[t].slot \in Slots
        /\ th[t].client \in Clients /\ th[t].key \in Arrays /\ th[t] \in Local
        /\ \/ th[t].i \in 1 .. Len(Children[th[t].key])
           \/ th[t].i = 1 /\ Len(Children[th[t].key]) = 0
    BY DEF ArrayUndo, At, WideType, Sound, ArrayPcs, UndoPcs
  <1>2. \E f :
          /\ f # None
          /\ \/ th[t].i \in 1 .. Len(Children[th[t].key]) /\ f = Children[th[t].key][th[t].i]
             \/ th[t].i = 1 /\ Len(Children[th[t].key]) = 0
          /\ \A s \in Slots :
               tbl'[s] = IF tbl[s].key = f THEN Unlinked(tbl[s], th[t].slot) ELSE tbl[s]
    <2>1. PICK f \in Element(th[t].key, th[t].i) :
            tbl' = [s \in Slots |-> IF s \in Find(f) THEN Unlinked(tbl[s], th[t].slot)
                                                    ELSE tbl[s]]
      BY DEF ArrayUndo
    <2>2. \A s \in Slots :
            tbl'[s] = IF tbl[s].key = f THEN Unlinked(tbl[s], th[t].slot) ELSE tbl[s]
      BY <2>1 DEF Find
    <2>3. th[t].i \in 1 .. Len(Children[th[t].key]) => f = Children[th[t].key][th[t].i]
      BY <1>1, <2>1, ArrayElements DEF Element
    <2>4. f # None
      <3>1. f \in Keys \union {NotHw}
        BY <1>1, <2>1, <2>3, ArrayElements DEF Element, Keys
      <3> QED
        BY <3>1, WaitAssumption DEF Keys
    <2> QED
      BY <1>1, <2>2, <2>3, <2>4
  <1>3. /\ SameCall(th'[t], th[t]) /\ OnlyThread(t)
        /\ \/ th[t].i = 1 /\ th'[t].pc = "arr_fail"
           \/ th[t].i # 1 /\ th'[t].pc = "arr_undo" /\ th'[t].i = th[t].i - 1
    <2>1. CASE th[t].i = 1
      BY <1>1, <2>1 DEF ArrayUndo, Goto, SameCall, OnlyThread, WideType, Local
    <2>2. CASE th[t].i # 1
      BY <1>1, <2>2 DEF ArrayUndo, Goto, SameCall, OnlyThread, WideType, Local
    <2> QED
      BY <2>1, <2>2
  <1>4. UNCHANGED <<ended, told, waits>>
    BY DEF ArrayUndo
  <1> QED
    BY <1>1, <1>2, <1>3, <1>4

\* ... whatever element that is, only links change.
LEMMA UndoLinks ==
  ASSUME WideType, NEW t \in Threads, ArrayUndo(t), NEW s \in Slots
  PROVE  /\ SameFence(tbl'[s], tbl[s]) /\ SameCount(tbl'[s], tbl[s])
         /\ tbl'[s].mask = tbl[s].mask
  <1>1. PICK f \in Element(th[t].key, th[t].i) :
          tbl' = [r \in Slots |-> IF r \in Find(f) THEN Unlinked(tbl[r], th[t].slot)
                                                  ELSE tbl[r]]
    BY DEF ArrayUndo
  <1>2. th[t].slot \in Slots /\ tbl[s] \in WideEntry
    BY ArrayUndoEffect DEF WideType
  <1> QED
    BY <1>1, <1>2, StoreUnlinked DEF SameFence, SameCount

\* Fence f has an entry.
LEMMA CreateEffect ==
  ASSUME WideType, NEW f \in Fences, Create(f)
  PROVE  /\ \E s \in Slots :
              /\ tbl[s].key = None
              /\ tbl'[s].key = f /\ tbl'[s].alloc = Owner[f] /\ tbl'[s].mask = {}
              /\ tbl'[s].sig = FALSE /\ SameList(tbl'[s], Free) /\ SameCount(tbl'[s], Free)
              /\ OnlyEntry(s)
         /\ Owner[f] \in Clients /\ ~Resetting(Owner[f])
         /\ ended[f] = "new" /\ ended' = [ended EXCEPT ![f] = "no"]
         /\ UNCHANGED <<th, told, waits>>
  <1>1. PICK s \in Find(None) :
          tbl' = [tbl EXCEPT ![s] = [Free EXCEPT !.key = f, !.alloc = Owner[f]]]
    BY DEF Create
  <1>2. s \in Slots /\ tbl[s].key = None /\ Owner[f] \in Clients /\ f \in Keys
    BY WaitAssumption DEF Find, Keys
  <1>3. tbl'[s] = [Free EXCEPT !.key = f, !.alloc = Owner[f]] /\ OnlyEntry(s)
    BY <1>1, <1>2 DEF OnlyEntry, WideType
  <1>4. /\ tbl'[s].key = f /\ tbl'[s].alloc = Owner[f] /\ tbl'[s].mask = {}
        /\ tbl'[s].sig = FALSE /\ SameList(tbl'[s], Free) /\ SameCount(tbl'[s], Free)
    BY <1>2, <1>3, FreeEntry DEF WideEntry, SameList, SameCount
  <1>5. /\ ~Resetting(Owner[f]) /\ ended[f] = "new" /\ ended' = [ended EXCEPT ![f] = "no"]
        /\ UNCHANGED <<th, told, waits>>
    BY DEF Create
  <1> QED
    BY <1>2, <1>3, <1>4, <1>5

\* Fence f has no entry.
LEMMA DestroyEffect ==
  ASSUME WideType, NEW f \in Fences, Destroy(f)
  PROVE  /\ \E s \in Slots : tbl[s].key = f /\ tbl[s].sig
         /\ ~Referenced(f)
         /\ \A s \in Slots : tbl'[s] = Free \/ tbl'[s] = tbl[s]
         /\ Unique(f) => \A s \in Slots : tbl'[s] = IF tbl[s].key = f THEN Free ELSE tbl[s]
         /\ UNCHANGED <<th, ended, told, waits>>
  BY DestroyEntryEffect DEF Destroy, Find

\* How many links from entry s to join fence j there are.
Places(s, j) == {p \in Parents : tbl[s].parent_list[p] = j}

\* Links() counts places.
LEMMA LinksPlaces ==
  ASSUME NEW s \in Slots, NEW j \in Slots
  PROVE  Links(s, j) = Cardinality(Places(s, j)) /\ Links(s, j) \in Nat
  BY PlacesFinite DEF Links, Places

\* Every entry after the fence of entry s has signalled.
LEMMA SignalStores ==
  ASSUME WideType, NEW s \in Slots, NEW err \in BOOLEAN, FctlSignal(s, err),
         NEW j \in Slots
  PROVE  tbl'[j] = IF j = s THEN [tbl[s] EXCEPT !.sig = TRUE, !.error = err]
                   ELSE IF Links(s, j) > 0 /\ tbl[j].pending_child_cnt = Links(s, j) THEN Free
                   ELSE IF Links(s, j) > 0
                   THEN [tbl[j] EXCEPT !.error = @ \/ err,
                           !.pending_child_cnt = tbl[j].pending_child_cnt - Links(s, j)]
                   ELSE tbl[j]
  <1> DEFINE Left(i) == tbl[i].pending_child_cnt - Links(s, i)
             Ends(i) == Links(s, i) > 0 /\ Left(i) = 0
  <1>1. Links(s, j) \in Nat /\ tbl[j].pending_child_cnt \in Int
    BY LinksPlaces, EntryFields DEF WideType
  <1>2. Ends(j) <=> Links(s, j) > 0 /\ tbl[j].pending_child_cnt = Links(s, j)
    BY <1>1
  <1>3. tbl'[j] = IF j = s THEN [tbl[s] EXCEPT !.sig = TRUE, !.error = err]
             ELSE IF Ends(j) THEN Free
             ELSE IF Links(s, j) > 0
             THEN [tbl[j] EXCEPT !.error = @ \/ err, !.pending_child_cnt = Left(j)]
             ELSE tbl[j]
    BY DEF FctlSignal
  <1> HIDE DEF Ends
  <1> QED
    BY <1>2, <1>3

\* The fence that signals.
LEMMA SignalOwn ==
  ASSUME WideType, NEW s \in Slots, NEW err \in BOOLEAN, FctlSignal(s, err)
  PROVE  /\ tbl[s].key \in Fences /\ ~tbl[s].sig
         /\ tbl'[s].key = tbl[s].key /\ tbl'[s].alloc = tbl[s].alloc
         /\ tbl'[s].mask = tbl[s].mask
         /\ tbl'[s].sig = TRUE /\ tbl'[s].error = err
         /\ tbl'[s].pending_child_cnt = tbl[s].pending_child_cnt
  <1>1. tbl'[s] = [tbl[s] EXCEPT !.sig = TRUE, !.error = err] /\ tbl[s] \in WideEntry
    BY SignalStores DEF WideType
  <1>2. tbl[s].key \in Fences /\ ~tbl[s].sig
    BY DEF FctlSignal
  <1> QED
    BY <1>1, <1>2, StoreSig DEF WideEntry

\* A join fence of which this was the last child.
LEMMA SignalEnds ==
  ASSUME WideType, NEW s \in Slots, NEW err \in BOOLEAN, FctlSignal(s, err),
         NEW j \in Slots, j # s, Links(s, j) > 0, tbl[j].pending_child_cnt = Links(s, j)
  PROVE  tbl'[j] = Free
  BY SignalStores

\* A join fence that waits for more children.
LEMMA SignalCounts ==
  ASSUME WideType, NEW s \in Slots, NEW err \in BOOLEAN, FctlSignal(s, err),
         NEW j \in Slots, j # s, Links(s, j) > 0, tbl[j].pending_child_cnt # Links(s, j)
  PROVE  /\ SameFence(tbl'[j], tbl[j]) /\ SameList(tbl'[j], tbl[j])
         /\ tbl'[j].mask = tbl[j].mask
         /\ (tbl'[j].error <=> tbl[j].error \/ err)
         /\ tbl'[j].pending_child_cnt = tbl[j].pending_child_cnt - Links(s, j)
  <1> DEFINE left == tbl[j].pending_child_cnt - Links(s, j)
  <1>1. tbl'[j] = [tbl[j] EXCEPT !.error = @ \/ err, !.pending_child_cnt = left]
    BY SignalStores
  <1>2. tbl[j] \in WideEntry /\ left \in Int /\ (tbl[j].error \/ err) \in BOOLEAN
    BY LinksPlaces, EntryFields DEF WideType
  <1> HIDE DEF left
  <1>3. /\ SameFence(tbl'[j], tbl[j]) /\ SameList(tbl'[j], tbl[j])
        /\ tbl'[j].mask = tbl[j].mask
        /\ tbl'[j].error = (tbl[j].error \/ err)
        /\ tbl'[j].pending_child_cnt = left
    BY <1>1, <1>2 DEF WideEntry, SameFence, SameList
  <1> QED
    BY <1>3 DEF left

\* All other entries.
LEMMA SignalOthers ==
  ASSUME WideType, NEW s \in Slots, NEW err \in BOOLEAN, FctlSignal(s, err),
         NEW j \in Slots, j # s, Links(s, j) = 0
  PROVE  tbl'[j] = tbl[j]
  <1>1. ~(Links(s, j) > 0)
    OBVIOUS
  <1> QED
    BY <1>1, SignalStores

\* What the fence controller keeps outside of the table.
LEMMA SignalEnded ==
  ASSUME WideType, NEW s \in Slots, NEW err \in BOOLEAN, FctlSignal(s, err)
  PROVE  /\ ended' = [ended EXCEPT ![tbl[s].key] = IF err THEN "error" ELSE "ok"]
         /\ UNCHANGED <<th, waits>>
  BY DEF FctlSignal

\* After this step client c has been signalled about k.
Tells(c, k) == \E e \in BOOLEAN : <<c, k, e>> \in told'

\* The waiters of the fence and of a join fence that ends are signalled.
LEMMA SignalTells ==
  ASSUME WideType, NEW s \in Slots, NEW err \in BOOLEAN, FctlSignal(s, err)
  PROVE  /\ told \subseteq told'
         /\ \A c \in tbl[s].mask : Tells(c, tbl[s].key)
         /\ \A j \in Slots :
              Links(s, j) > 0 /\ tbl[j].pending_child_cnt = Links(s, j) =>
                \A c \in tbl[j].mask : Tells(c, tbl[j].key)
  <1> DEFINE Left(i) == tbl[i].pending_child_cnt - Links(s, i)
             Ends(i) == Links(s, i) > 0 /\ Left(i) = 0
             Err(i) == tbl[i].error \/ err
  <1>1. told' = told
           \union {<<c, tbl[s].key, err>> : c \in tbl[s].mask}
           \union UNION {{<<c, tbl[i].key, Err(i)>> : c \in tbl[i].mask} :
                           i \in {r \in Slots : Ends(r)}}
    BY DEF FctlSignal
  <1>2. ASSUME NEW j \in Slots, Links(s, j) > 0, tbl[j].pending_child_cnt = Links(s, j)
        PROVE  Ends(j) /\ Err(j) \in BOOLEAN
    BY <1>2, LinksPlaces, EntryFields DEF WideType
  <1> HIDE DEF Ends, Err
  <1>3. told \subseteq told' /\ \A c \in tbl[s].mask : Tells(c, tbl[s].key)
    BY <1>1 DEF Tells
  <1>4. ASSUME NEW j \in Slots, Links(s, j) > 0, tbl[j].pending_child_cnt = Links(s, j),
               NEW c \in tbl[j].mask
        PROVE  Tells(c, tbl[j].key)
    <2>1. <<c, tbl[j].key, Err(j)>> \in told' /\ Err(j) \in BOOLEAN
      BY <1>1, <1>2, <1>4
    <2>2. PICK e \in BOOLEAN : e = Err(j)
      BY <2>1
    <2>3. <<c, tbl[j].key, e>> \in told'
      BY <2>1, <2>2
    <2> QED
      BY <2>3 DEF Tells
  <1> QED
    BY <1>3, <1>4

\* Every signal is about the fence that signalled or a join fence that ends.
LEMMA SignalTold ==
  ASSUME WideType, NEW s \in Slots, NEW err \in BOOLEAN, FctlSignal(s, err),
         NEW x \in told', x \notin told
  PROVE  \/ x[2] = tbl[s].key
         \/ \E j \in Slots : /\ Links(s, j) > 0 /\ tbl[j].pending_child_cnt = Links(s, j)
                             /\ x[2] = tbl[j].key /\ x[3] = (tbl[j].error \/ err)
  <1> DEFINE Left(i) == tbl[i].pending_child_cnt - Links(s, i)
             Ends(i) == Links(s, i) > 0 /\ Left(i) = 0
  <1>1. told' = told
           \union {<<c, tbl[s].key, err>> : c \in tbl[s].mask}
           \union UNION {{<<c, tbl[i].key, tbl[i].error \/ err>> : c \in tbl[i].mask} :
                           i \in {r \in Slots : Ends(r)}}
    BY DEF FctlSignal
  <1>2. \A j \in Slots :
          Ends(j) => Links(s, j) > 0 /\ tbl[j].pending_child_cnt = Links(s, j)
    <2> SUFFICES ASSUME NEW j \in Slots
                 PROVE Ends(j) => Links(s, j) > 0 /\ tbl[j].pending_child_cnt = Links(s, j)
      OBVIOUS
    <2>1. Links(s, j) \in Nat /\ tbl[j].pending_child_cnt \in Int
      BY PlacesFinite, EntryFields DEF Links, WideType
    <2> QED
      BY <2>1
  <1> HIDE DEF Ends
  <1>3. \/ \E c \in tbl[s].mask : x = <<c, tbl[s].key, err>>
        \/ \E j \in Slots : Ends(j) /\ \E c \in tbl[j].mask :
              x = <<c, tbl[j].key, tbl[j].error \/ err>>
    BY <1>1
  <1> QED
    BY <1>2, <1>3

-----------------------------------------------------------------------------
(* The reset of a client, against everything the others do. *)

\* What the thread that resets a client has achieved so far: nobody acts for
\* the client, and of the entries behind it none has the client as a waiter
\* or, but for the one it looks at, as its owner.
Resets(t) ==
  th[t].pc \in ResetPcs =>
    /\ \A u \in Threads : u # t => th[u].client # th[t].client
    /\ \A s \in Slots \ th[t].slots :
         /\ th[t].client \notin tbl[s].mask
         /\ th[t].destroy /\ tbl[s].alloc = th[t].client =>
              th[t].pc # "rst_entry" /\ th[t].slot = s

\* The entries of clients are fences, and a fence has one entry at most: it was
\* created, and it is created once.
FencesOnce ==
  /\ \A s \in Slots : tbl[s].alloc \in Clients => tbl[s].key \in Fences
  /\ \A s \in Slots : tbl[s].key \in Fences => ended[tbl[s].key] # "new"
  /\ \A f \in Fences : Unique(f)

\* In this step client c becomes neither a waiter nor the owner of an entry.
NoGain(c) ==
  \A s \in Slots : /\ c \in tbl'[s].mask => c \in tbl[s].mask
                   /\ tbl'[s].alloc = c => tbl[s].alloc = c

\* Steps that clear entries.
LEMMA NoGainDestroyed ==
  ASSUME WideType, NEW k, DestroyEntry(k), NEW c \in Clients
  PROVE  NoGain(c)
  BY DestroyEntryEffect, FreeEntry, WaitAssumption DEF NoGain

\* Fences come and go without a gain for a client that is reset.
LEMMA NoGainFence ==
  ASSUME WideType, NEW c \in Clients, Resetting(c),
         \/ \E f \in Fences : Create(f) \/ Destroy(f)
         \/ Signalled
  PROVE  NoGain(c) /\ UNCHANGED th
  <1>1. ASSUME NEW f \in Fences, Create(f) PROVE NoGain(c) /\ UNCHANGED th
    <2>1. Owner[f] # c /\ Owner[f] \in Clients
      BY <1>1, CreateEffect
    <2> QED
      BY <1>1, <2>1, CreateEffect DEF NoGain, OnlyEntry
  <1>2. ASSUME NEW f \in Fences, Destroy(f) PROVE NoGain(c) /\ UNCHANGED th
    BY <1>2, NoGainDestroyed DEF Destroy
  <1>3. ASSUME NEW s \in Slots, NEW err \in BOOLEAN, FctlSignal(s, err)
        PROVE  NoGain(c) /\ UNCHANGED th
    <2>1. ASSUME NEW j \in Slots
          PROVE  tbl'[j] = Free \/ (tbl'[j].mask = tbl[j].mask /\ tbl'[j].alloc = tbl[j].alloc)
      <3>1. Links(s, j) \in Nat
        BY LinksPlaces
      <3>2. CASE j = s
        BY <1>3, <3>2, SignalOwn
      <3>3. CASE j # s /\ Links(s, j) = 0
        BY <1>3, <3>3, SignalOthers
      <3>4. CASE j # s /\ Links(s, j) > 0
        BY <1>3, <3>4, SignalEnds, SignalCounts DEF SameFence
      <3> QED
        BY <3>1, <3>2, <3>3, <3>4
    <2>2. Free.mask = {} /\ Free.alloc # c
      BY FreeEntry, WaitAssumption
    <2>3. NoGain(c)
      BY <2>1, <2>2 DEF NoGain
    <2> QED
      BY <1>3, <2>3 DEF FctlSignal
  <1> QED
    BY <1>1, <1>2, <1>3 DEF Signalled

\* A step of thread u is no gain for another client that is reset, and u does
\* not begin to act for it.
LEMMA NoGainThread ==
  ASSUME WideType, NEW u \in Threads, Call(u) \/ Step(u),
         NEW c \in Clients, Resetting(c), th[u].client # c
  PROVE  NoGain(c) /\ th'[u].client # c /\ OnlyThread(u)
  <1> DEFINE Goal == NoGain(c) /\ th'[u].client # c /\ OnlyThread(u)
  <1>0. th[u] \in Local /\ th \in [Threads -> Local] /\ Idle.client = None /\ c # None
    BY WaitAssumption DEF WideType, Idle
  <1>1. (UNCHANGED tbl) => NoGain(c)
    BY DEF NoGain
  <1>2. ASSUME NEW b \in Clients, NEW f \in Fences, RegisterWait(u, b, f)
        PROVE  Goal
    <2>1. b # c
      BY <1>2 DEF RegisterWait
    <2> QED
      BY <1>1, <1>2, <2>1, RegisterWaitEffect
  <1>3. CASE RegisterLock(u)
    BY <1>3, RegisterLockEffect DEF NoGain, OnlyEntry, SameFence, SameCall
  <1>4. CASE RegisterCheck(u)
    BY <1>0, <1>1, <1>4, RegisterCheckEffect
  <1>5. ASSUME NEW b \in Clients, NEW a \in Arrays, ArrayStart(u, b, a)
        PROVE  Goal
    <2>1. b # c /\ JoinClient # c
      BY <1>5, WaitAssumption DEF ArrayStart
    <2>2. NoGain(c)
      BY <1>5, <2>1, ArrayStartEffect, ZenonT(40) DEF NoGain, OnlyEntry
    <2>3. th'[u].client = b /\ OnlyThread(u)
      BY <1>5, ArrayStartEffect
    <2> QED
      BY <2>1, <2>2, <2>3
  <1>6. CASE ArrayMask(u)
    BY <1>6, ArrayMaskEffect DEF NoGain, OnlyEntry, SameFence, SameCall
  <1>7. CASE ArrayChild(u)
    BY <1>1, <1>7, ArrayChildEffect DEF SameCall
  <1>8. CASE LinkSignalled(u)
    BY <1>8, LinkSignalledEffect DEF NoGain, OnlyEntry, SameFence, SameCall
  <1>9. CASE LinkPending(u)
    BY <1>1, <1>9, LinkPendingEffect DEF NoGain, OnlyEntry, SameFence, SameCall
  <1>10. CASE ArrayDone(u)
    BY <1>0, <1>1, <1>10, ArrayDoneEffect DEF SameCall
  <1>11. CASE ArrayDestroy(u) \/ ArrayFail(u)
    <2>1. NoGain(c)
      BY <1>11, NoGainDestroyed DEF ArrayDestroy, ArrayFail
    <2> QED
      BY <1>0, <1>11, <2>1, ArrayEndEffect
  <1>12. CASE ArrayUndo(u)
    <2>1. NoGain(c)
      BY <1>12, UndoLinks DEF NoGain, SameFence
    <2> QED
      BY <1>12, <2>1, ArrayUndoEffect DEF SameCall
  <1>14. ASSUME NEW b \in Clients, NEW err \in BOOLEAN, NEW destroy \in BOOLEAN,
                Reset(u, b, err, destroy)
         PROVE  Goal
    <2>1. b # c
      BY <1>14 DEF Reset, Resetting
    <2> QED
      BY <1>0, <1>1, <1>14, <2>1 DEF Reset, Goto, Idle, OnlyThread
  <1>15. ASSUME NEW s \in Slots, ResetEntry(u, s)
         PROVE  Goal
    <2>1. tbl[s] \in WideEntry /\ tbl[s].mask \ {th[u].client} \in SUBSET Clients
      BY EntryFields DEF WideType
    <2>2. tbl'[s] = [tbl[s] EXCEPT !.mask = @ \ {th[u].client}] /\ OnlyEntry(s)
      BY <1>15 DEF ResetEntry, OnlyEntry, WideType
    <2>3. tbl'[s].mask = tbl[s].mask \ {th[u].client} /\ tbl'[s].alloc = tbl[s].alloc
      BY <2>1, <2>2 DEF WideEntry
    <2>4. NoGain(c)
      BY <2>2, <2>3 DEF NoGain, OnlyEntry
    <2> QED
      BY <1>0, <1>15, <2>4 DEF ResetEntry, Goto, Local, OnlyThread
  <1>16. ASSUME NEW b \in Clients, ResetSignal(u, b)
         PROVE  Goal
    <2>1. NoGain(c)
      BY <1>1, <1>16 DEF ResetSignal
    <2>2. \E pc : Goto(u, [th[u] EXCEPT !.clients = th[u].clients \ {b}, !.pc = pc])
      BY <1>16 DEF ResetSignal
    <2> QED
      BY <1>0, <2>1, <2>2 DEF Goto, Local, OnlyThread
  <1>17. CASE ResetOwner(u)
    <2>1. NoGain(c)
      BY <1>1, <1>17 DEF ResetOwner
    <2>2. \/ Goto(u, NextEntry(th[u])) \/ Goto(u, [th[u] EXCEPT !.pc = "rst_destroy"])
          \/ Goto(u, [th[u] EXCEPT !.pc = "rst_signal", !.clients = Clients])
      BY <1>17 DEF ResetOwner
    <2> QED
      BY <1>0, <2>1, <2>2 DEF NextEntry, Goto, Local, OnlyThread
  <1>18. CASE ResetDestroy(u)
    <2>1. NoGain(c)
      BY <1>1, <1>18, NoGainDestroyed DEF ResetDestroy
    <2> QED
      BY <1>0, <1>18, <2>1 DEF ResetDestroy, NextEntry, Goto, Local, OnlyThread
  <1>19. CASE ResetReturn(u)
    BY <1>0, <1>1, <1>19 DEF ResetReturn, Goto, OnlyThread
  <1> QED
    BY <1>2, <1>3, <1>4, <1>5, <1>6, <1>7, <1>8, <1>9, <1>10, <1>11, <1>12,
       <1>14, <1>15, <1>16, <1>17, <1>18, <1>19 DEF Call, Step

\* A step of thread u leaves the local variables of the others alone.
LEMMA StepThread ==
  ASSUME WideType, NEW u \in Threads, Call(u) \/ Step(u)
  PROVE  OnlyThread(u)
  <1>1. ASSUME NEW l, Goto(u, l) PROVE OnlyThread(u)
    BY <1>1 DEF Goto, OnlyThread, WideType
  <1>2. CASE Call(u)
    BY <1>1, <1>2, ZenonT(40) DEF Call, RegisterWait, ArrayStart, Reset
  <1>3. CASE Step(u)
    <2>1. CASE RegisterLock(u) \/ RegisterCheck(u) \/ ArrayMask(u) \/ ArrayChild(u)
      BY <1>1, <2>1 DEF RegisterLock, RegisterCheck, ArrayMask, ArrayChild
    <2>2. CASE LinkSignalled(u) \/ LinkPending(u)
      BY <1>1, <2>2 DEF LinkSignalled, LinkPending
    <2>3. CASE ArrayDone(u) \/ ArrayDestroy(u) \/ ArrayUndo(u) \/ ArrayFail(u)
      BY <1>1, <2>3, SMTT(30) DEF ArrayDone, ArrayDestroy, ArrayUndo, ArrayFail
    <2>4. CASE \/ \E s \in Slots : ResetEntry(u, s)
               \/ \E c \in Clients : ResetSignal(u, c)
      BY <1>1, <2>4 DEF ResetEntry, ResetSignal
    <2>5. CASE ResetOwner(u) \/ ResetDestroy(u) \/ ResetReturn(u)
      BY <1>1, <2>5 DEF ResetOwner, ResetDestroy, ResetReturn
    <2> QED
      BY <1>3, <2>1, <2>2, <2>3, <2>4, <2>5 DEF Step
  <1> QED
    BY <1>2, <1>3

\* A step of anybody else keeps what the reset of thread t has achieved.
LEMMA ResetsFramed ==
  ASSUME WideType, NEW t \in Threads, Resets(t), th'[t] = th[t],
         th[t].pc \in ResetPcs => /\ NoGain(th[t].client)
                                  /\ \A u \in Threads : u # t => th'[u].client # th[t].client
  PROVE  Resets(t)'
  BY DEF Resets, NoGain

\* The begin of a reset.
LEMMA ResetBegins ==
  ASSUME WideType, NEW t \in Threads, NEW c \in Clients,
         NEW err \in BOOLEAN, NEW destroy \in BOOLEAN, Reset(t, c, err, destroy)
  PROVE  Resets(t)'
  <1>1. th'[t].slots = Slots /\ th'[t].client = c /\ OnlyThread(t)
    BY DEF Reset, Goto, Idle, OnlyThread, WideType
  <1>2. \A u \in Threads : u # t => th'[u].client # c
    BY <1>1 DEF Reset, OnlyThread
  <1> QED
    BY <1>1, <1>2 DEF Resets

\* The steps of the reset itself.
LEMMA ResetGoesOn ==
  ASSUME WideType, FencesOnce, NEW t \in Threads, Resets(t),
         \/ \E s \in Slots : ResetEntry(t, s)
         \/ \E c \in Clients : ResetSignal(t, c)
         \/ ResetOwner(t) \/ ResetDestroy(t) \/ ResetReturn(t)
  PROVE  Resets(t)'
  <1>0. /\ th[t] \in Local /\ th \in [Threads -> Local] /\ th[t].pc \in ResetPcs
        /\ th[t].client \in Clients
        /\ th[t].pc # "rst_entry" => th[t].slot \in Slots
    BY DEF WideType, Sound, ResetEntry, ResetSignal, ResetOwner, ResetDestroy,
           ResetReturn, At, ResetPcs
  <1>1. ASSUME th'[t].client = th[t].client, th'[t].destroy = th[t].destroy, OnlyThread(t)
        PROVE  \A u \in Threads : u # t => th'[u].client # th'[t].client
    BY <1>0, <1>1 DEF Resets, OnlyThread
  <1>2. ASSUME NEW s \in Slots, ResetEntry(t, s)
        PROVE  Resets(t)'
    <2>1. /\ th'[t].client = th[t].client /\ th'[t].destroy = th[t].destroy
          /\ th'[t].slots = th[t].slots \ {s} /\ th'[t].pc = "rst_owner" /\ th'[t].slot = s
          /\ OnlyThread(t) /\ th[t].pc = "rst_entry"
      BY <1>0, <1>2 DEF ResetEntry, Goto, Local, OnlyThread, At
    <2>2. tbl'[s] = [tbl[s] EXCEPT !.mask = @ \ {th[t].client}] /\ OnlyEntry(s)
      BY <1>2 DEF ResetEntry, OnlyEntry, WideType
    <2>3. tbl'[s].mask = tbl[s].mask \ {th[t].client} /\ tbl'[s].alloc = tbl[s].alloc
      BY <2>2 DEF WideType, WideEntry
    <2>4. ASSUME NEW r \in Slots \ th'[t].slots
          PROVE  /\ th'[t].client \notin tbl'[r].mask
                 /\ th'[t].destroy /\ tbl'[r].alloc = th'[t].client => th'[t].slot = r
      <3>1. CASE r = s
        BY <2>1, <2>3, <3>1
      <3>2. CASE r # s
        <4>1. r \in Slots \ th[t].slots /\ tbl'[r] = tbl[r]
          BY <2>1, <2>2, <3>2 DEF OnlyEntry
        <4> QED
          BY <1>0, <2>1, <4>1 DEF Resets
      <3> QED
        BY <3>1, <3>2
    <2> QED
      BY <1>1, <2>1, <2>4 DEF Resets
  <1>3. ASSUME NEW c \in Clients, ResetSignal(t, c)
        PROVE  Resets(t)'
    <2>1. \E pc \in {"rst_signal", "rst_destroy"} :
             Goto(t, [th[t] EXCEPT !.clients = th[t].clients \ {c}, !.pc = pc])
      BY <1>3 DEF ResetSignal, At
    <2>2. /\ th'[t].client = th[t].client /\ th'[t].destroy = th[t].destroy
          /\ th'[t].slots = th[t].slots /\ th'[t].pc \in {"rst_signal", "rst_destroy"}
          /\ th'[t].slot = th[t].slot /\ OnlyThread(t)
      BY <1>0, <2>1, SMTT(30) DEF Goto, Local, OnlyThread
    <2>3. UNCHANGED tbl
      BY <1>3 DEF ResetSignal
    <2> QED
      BY <1>0, <1>1, <2>2, <2>3, SMTT(30) DEF Resets
  <1>4. CASE ResetOwner(t)
    <2>1. th[t].pc = "rst_owner" /\ UNCHANGED tbl
      BY <1>4 DEF ResetOwner, At
    <2>2. CASE tbl[th[t].slot].alloc # th[t].client
      <3>1. Goto(t, NextEntry(th[t]))
        BY <1>4, <2>2 DEF ResetOwner
      <3>2. /\ th'[t].client = th[t].client /\ th'[t].destroy = th[t].destroy
            /\ th'[t].slots = th[t].slots /\ OnlyThread(t)
        BY <1>0, <3>1 DEF NextEntry, Goto, Local, OnlyThread
      <3> QED
        BY <1>0, <1>1, <2>1, <2>2, <3>2 DEF Resets
    <2>3. CASE tbl[th[t].slot].alloc = th[t].client
      <3>1. \/ Goto(t, [th[t] EXCEPT !.pc = "rst_destroy"])
            \/ Goto(t, [th[t] EXCEPT !.pc = "rst_signal", !.clients = Clients])
        BY <1>4, <2>3 DEF ResetOwner
      <3>2. /\ th'[t].client = th[t].client /\ th'[t].destroy = th[t].destroy
            /\ th'[t].slots = th[t].slots /\ th'[t].pc \in {"rst_signal", "rst_destroy"}
            /\ th'[t].slot = th[t].slot /\ OnlyThread(t)
        BY <1>0, <3>1 DEF Goto, Local, OnlyThread
      <3> QED
        BY <1>0, <1>1, <2>1, <3>2 DEF Resets
    <2> QED
      BY <2>2, <2>3
  <1>5. CASE ResetDestroy(t)
    <2>1. /\ th[t].pc = "rst_destroy" /\ Goto(t, NextEntry(th[t]))
          /\ IF th[t].destroy THEN DestroyEntry(tbl[th[t].slot].key) ELSE UNCHANGED tbl
      BY <1>5 DEF ResetDestroy, At
    <2>2. /\ th'[t].client = th[t].client /\ th'[t].destroy = th[t].destroy
          /\ th'[t].slots = th[t].slots /\ OnlyThread(t)
      BY <1>0, <2>1 DEF NextEntry, Goto, Local, OnlyThread
    <2>3. NoGain(th[t].client)
      BY <1>0, <2>1, NoGainDestroyed DEF NoGain
    <2>4. th[t].destroy => tbl'[th[t].slot].alloc # th[t].client
      <3>1. CASE tbl[th[t].slot].alloc # th[t].client
        BY <1>0, <2>1, <2>3, <3>1 DEF NoGain
      <3>2. CASE th[t].destroy /\ tbl[th[t].slot].alloc = th[t].client
        <4>1. Unique(tbl[th[t].slot].key)
          BY <1>0, <2>1, <3>2 DEF FencesOnce, ResetPcs
        <4>2. tbl'[th[t].slot] = Free
          BY <1>0, <2>1, <3>2, <4>1, DestroyEntryEffect
        <4> QED
          BY <1>0, <4>2, FreeEntry, WaitAssumption
      <3> QED
        BY <3>1, <3>2
    <2> QED
      BY <1>0, <1>1, <2>1, <2>2, <2>3, <2>4 DEF Resets, NoGain
  <1>6. CASE ResetReturn(t)
    BY <1>0, <1>6 DEF ResetReturn, Goto, Idle, Resets, ResetPcs
  <1> QED
    BY <1>2, <1>3, <1>4, <1>5, <1>6, SMTT(30)

\* A call that is not a reset does not become one.
LEMMA NotReset ==
  ASSUME WideType, NEW t \in Threads,
         \/ \E c \in Clients, f \in Fences : RegisterWait(t, c, f)
         \/ RegisterLock(t) \/ RegisterCheck(t)
         \/ \E c \in Clients, a \in Arrays : ArrayStart(t, c, a)
         \/ ArrayMask(t) \/ ArrayChild(t) \/ LinkSignalled(t) \/ LinkPending(t)
         \/ ArrayDone(t) \/ ArrayDestroy(t) \/ ArrayUndo(t) \/ ArrayFail(t)
  PROVE  th'[t].pc \notin ResetPcs
  <1>1. CASE \E c \in Clients, f \in Fences : RegisterWait(t, c, f)
    BY <1>1, RegisterWaitEffect DEF ResetPcs
  <1>2. CASE RegisterLock(t) \/ RegisterCheck(t)
    BY <1>2, RegisterLockEffect, RegisterCheckEffect, IdleSound DEF ResetPcs
  <1>3. CASE \E c \in Clients, a \in Arrays : ArrayStart(t, c, a)
    BY <1>3, ArrayStartEffect DEF ResetPcs
  <1>4. CASE ArrayMask(t) \/ ArrayChild(t)
    BY <1>4, ArrayMaskEffect, ArrayChildEffect DEF ResetPcs
  <1>5. CASE LinkSignalled(t)
    BY <1>5, LinkSignalledEffect DEF ResetPcs
  <1>6. CASE LinkPending(t)
    BY <1>6, LinkPendingEffect DEF ResetPcs
  <1>7. CASE ArrayDone(t)
    BY <1>7, ArrayDoneEffect, IdleSound DEF ResetPcs
  <1>8. CASE ArrayDestroy(t) \/ ArrayFail(t)
    BY <1>8, ArrayEndEffect, IdleSound DEF ResetPcs
  <1>9. CASE ArrayUndo(t)
    BY <1>9, ArrayUndoEffect DEF ResetPcs
  <1> QED
    BY <1>1, <1>2, <1>3, <1>4, <1>5, <1>6, <1>7, <1>8, <1>9

\* In this step no entry gets a key or an owner, and no fence is new again.
NoKey ==
  /\ \A s \in Slots : \/ tbl'[s] = Free
                      \/ tbl'[s].key = tbl[s].key /\ tbl'[s].alloc = tbl[s].alloc
  /\ \A f \in Fences : ended'[f] = "new" => ended[f] = "new"

\* Such a step keeps fences unique.
LEMMA NoKeyKeeps == WideType /\ FencesOnce /\ NoKey => FencesOnce'
  <1>1. Free.key = None /\ Free.alloc = None /\ None \notin Clients /\ None \notin Fences
    BY FreeEntry, WaitAssumption
  <1> QED
    BY <1>1 DEF FencesOnce, NoKey, Unique

\* The steps of the fence controller, and of the owner who destroys a fence.
LEMMA NoKeyFence ==
  ASSUME WideType, (\E f \in Fences : Destroy(f)) \/ Signalled
  PROVE  NoKey
  <1>1. ASSUME NEW f \in Fences, Destroy(f) PROVE NoKey
    BY <1>1, DestroyEffect DEF NoKey
  <1>2. ASSUME NEW s \in Slots, NEW err \in BOOLEAN, FctlSignal(s, err)
        PROVE  NoKey
    <2>1. ASSUME NEW j \in Slots
          PROVE  \/ tbl'[j] = Free
                 \/ tbl'[j].key = tbl[j].key /\ tbl'[j].alloc = tbl[j].alloc
      <3>1. Links(s, j) \in Nat
        BY LinksPlaces
      <3>2. CASE j = s
        BY <1>2, <3>2, SignalOwn
      <3>3. CASE j # s /\ Links(s, j) = 0
        BY <1>2, <3>3, SignalOthers
      <3>4. CASE j # s /\ Links(s, j) > 0
        BY <1>2, <3>4, SignalEnds, SignalCounts DEF SameFence
      <3> QED
        BY <3>1, <3>2, <3>3, <3>4
    <2>2. \A f \in Fences : ended'[f] = "new" => ended[f] = "new"
      BY <1>2 DEF FctlSignal, WideType
    <2> QED
      BY <2>1, <2>2 DEF NoKey
  <1> QED
    BY <1>1, <1>2 DEF Signalled

\* The steps of the threads, but for the create of a join fence.
LEMMA NoKeyThread ==
  ASSUME WideType, NEW u \in Threads, Call(u) \/ Step(u),
         ~\E c \in Clients, a \in Arrays : ArrayStart(u, c, a)
  PROVE  NoKey
  <1>1. (UNCHANGED <<tbl, ended>>) => NoKey
    BY DEF NoKey
  <1>2. CASE Call(u)
    BY <1>1, <1>2, ZenonT(40) DEF Call, RegisterWait, Reset
  <1>3. CASE RegisterCheck(u) \/ ArrayChild(u) \/ ArrayDone(u) \/ ResetOwner(u) \/ ResetReturn(u)
    BY <1>1, <1>3 DEF RegisterCheck, ArrayChild, ArrayDone, ResetOwner, ResetReturn
  <1>4. CASE RegisterLock(u)
    BY <1>4, RegisterLockEffect DEF NoKey, OnlyEntry, SameFence
  <1>5. CASE ArrayMask(u)
    BY <1>5, ArrayMaskEffect DEF NoKey, OnlyEntry, SameFence
  <1>6. CASE LinkSignalled(u)
    BY <1>6, LinkSignalledEffect DEF NoKey, OnlyEntry, SameFence
  <1>7. CASE LinkPending(u)
    BY <1>7, LinkPendingEffect, SMTT(30) DEF NoKey, OnlyEntry, SameFence
  <1>8. CASE ArrayDestroy(u) \/ ArrayFail(u)
    BY <1>8, ArrayEndEffect DEF NoKey
  <1>9. CASE ArrayUndo(u)
    BY <1>9, UndoLinks DEF NoKey, SameFence, ArrayUndo
  <1>10. ASSUME NEW s \in Slots, ResetEntry(u, s) PROVE NoKey
    <2>1. /\ tbl'[s] = [tbl[s] EXCEPT !.mask = @ \ {th[u].client}] /\ OnlyEntry(s)
          /\ UNCHANGED ended
      BY <1>10 DEF ResetEntry, OnlyEntry, WideType
    <2>2. tbl'[s].key = tbl[s].key /\ tbl'[s].alloc = tbl[s].alloc
      BY <2>1 DEF WideType, WideEntry
    <2> QED
      BY <2>1, <2>2 DEF NoKey, OnlyEntry
  <1>11. ASSUME NEW c \in Clients, ResetSignal(u, c) PROVE NoKey
    BY <1>11 DEF ResetSignal, NoKey, WideType
  <1>12. CASE ResetDestroy(u)
    <2>1. /\ IF th[u].destroy THEN DestroyEntry(tbl[th[u].slot].key) ELSE UNCHANGED tbl
          /\ UNCHANGED ended
      BY <1>12 DEF ResetDestroy
    <2> QED
      BY <1>1, <2>1, DestroyEntryEffect DEF NoKey
  <1> QED
    BY <1>2, <1>3, <1>4, <1>5, <1>6, <1>7, <1>8, <1>9, <1>10, <1>11, <1>12 DEF Step

\* The create of a join fence adds no fence.
LEMMA StartFences ==
  ASSUME WideType, FencesOnce, NEW t \in Threads, NEW c \in Clients, NEW a \in Arrays,
         ArrayStart(t, c, a)
  PROVE  FencesOnce'
  <1>1. PICK s \in Slots :
          /\ tbl[s].key = None
          /\ tbl'[s].key = a /\ tbl'[s].alloc = JoinClient /\ tbl'[s].mask = {}
          /\ ~tbl'[s].sig /\ SameList(tbl'[s], Free) /\ ~tbl'[s].error
          /\ tbl'[s].pending_child_cnt = Len(Children[a])
          /\ OnlyEntry(s)
          /\ th'[t].pc = "arr_mask" /\ th'[t].client = c /\ th'[t].key = a
          /\ th'[t].slot = s /\ th'[t].i = 1 /\ ~th'[t].signal
    BY ArrayStartEffect
  <1>2. a \notin Fences /\ JoinClient \notin Clients /\ UNCHANGED ended
    BY WaitAssumption DEF ArrayStart
  <1> QED
    BY <1>1, <1>2 DEF FencesOnce, OnlyEntry, Unique

\* Fences are unique in every state, whatever arrays there are.
LEMMA FencesStep == WideType /\ FencesOnce /\ [Next]_vars => FencesOnce'
  <1> SUFFICES ASSUME WideType, FencesOnce, [Next]_vars PROVE FencesOnce'
    OBVIOUS
  <1>1. ASSUME NEW f \in Fences, Create(f) PROVE FencesOnce'
    <2>1. PICK s \in Slots : tbl'[s].key = f /\ OnlyEntry(s)
      BY <1>1, CreateEffect
    <2>2. ended[f] = "new" /\ ended' = [ended EXCEPT ![f] = "no"]
      BY <1>1, CreateEffect
    <2>3. \A r \in Slots : tbl[r].key # f
      BY <2>2 DEF FencesOnce
    <2>4. \A g \in Fences : ended'[g] = IF g = f THEN "no" ELSE ended[g]
      BY <2>2 DEF WideType
    <2> QED
      BY <2>1, <2>3, <2>4 DEF FencesOnce, OnlyEntry, Unique
  <1>2. ASSUME NEW t \in Threads, NEW c \in Clients, NEW a \in Arrays, ArrayStart(t, c, a)
        PROVE  FencesOnce'
    BY <1>2, StartFences
  <1>3. CASE \/ \E f \in Fences : Destroy(f)
             \/ Signalled
             \/ \E t \in Threads : /\ Call(t) \/ Step(t)
                                   /\ ~\E c \in Clients, a \in Arrays : ArrayStart(t, c, a)
    BY <1>3, NoKeyFence, NoKeyThread, NoKeyKeeps
  <1>4. CASE UNCHANGED vars
    BY <1>4 DEF vars, FencesOnce, Unique
  <1> QED
    BY <1>1, <1>2, <1>3, <1>4 DEF Next

\* No fence has been created yet.
LEMMA FencesInit == Init => FencesOnce
  BY FreeEntry, WaitAssumption DEF Init, FencesOnce, Unique

ResetInv == WideType /\ FencesOnce /\ \A t \in Threads : Resets(t)

\* Every step keeps what every reset has achieved.
LEMMA ResetStep == ResetInv /\ [Next]_vars => ResetInv'
  <1> SUFFICES ASSUME WideType, FencesOnce, \A t \in Threads : Resets(t), [Next]_vars,
                      NEW t \in Threads
               PROVE  Resets(t)'
    BY TypeStep, FencesStep DEF ResetInv
  <1>0. th[t].pc \in ResetPcs => /\ th[t].client \in Clients /\ Resetting(th[t].client)
                                 /\ \A u \in Threads : u # t => th[u].client # th[t].client
    BY DEF WideType, Sound, Resetting, ResetPcs, Resets
  <1>1. CASE (\E f \in Fences : Create(f) \/ Destroy(f)) \/ Signalled
    <2>1. UNCHANGED th
      BY <1>1 DEF Create, Destroy, Signalled, FctlSignal
    <2>2. th[t].pc \in ResetPcs => NoGain(th[t].client)
      BY <1>0, <1>1, NoGainFence
    <2> QED
      BY <1>0, <2>1, <2>2, ResetsFramed
  <1>2. ASSUME NEW u \in Threads, u # t, Call(u) \/ Step(u)
        PROVE  Resets(t)'
    <2>1. th[t].pc \in ResetPcs =>
            NoGain(th[t].client) /\ th'[u].client # th[t].client
      BY <1>0, <1>2, NoGainThread
    <2>2. OnlyThread(u)
      BY <1>2, StepThread
    <2> QED
      BY <1>0, <1>2, <2>1, <2>2, ResetsFramed DEF OnlyThread
  <1>3. ASSUME Call(t) \/ Step(t)
        PROVE  Resets(t)'
    <2>1. th'[t].pc \notin ResetPcs => Resets(t)'
      BY DEF Resets, ResetPcs
    <2>2. CASE Call(t)
      BY <2>1, <2>2, NotReset, ResetBegins DEF Call
    <2>3. CASE Step(t)
      BY <2>1, <2>3, NotReset, ResetGoesOn DEF Step
    <2> QED
      BY <1>3, <2>2, <2>3
  <1>4. CASE UNCHANGED vars
    BY <1>4 DEF vars, Resets
  <1> QED
    BY <1>1, <1>2, <1>3, <1>4 DEF Next

\* A reset that is between two entries returns only after the last.
LEMMA ReturnsLast ==
  ASSUME WideType, [Next]_vars, NEW t \in Threads,
         th[t].pc = "rst_entry", th'[t].pc = "idle"
  PROVE  th[t].slots = {}
  <1>1. th'[t] # th[t]
    OBVIOUS
  <1>2. ASSUME NEW u \in Threads, Call(u) \/ Step(u) PROVE u = t
    BY <1>1, <1>2, StepThread DEF OnlyThread
  <1>3. Step(t)
    <2>1. ~Call(t)
      BY DEF Call, RegisterWait, ArrayStart, Reset, At
    <2>2. ~UNCHANGED th
      BY <1>1
    <2> QED
      BY <1>2, <2>1, <2>2 DEF Next, vars, Create, Destroy, Signalled, FctlSignal
  <1>4. (\E s \in Slots : ResetEntry(t, s)) \/ ResetReturn(t)
    BY <1>3 DEF Step, At, RegisterLock, RegisterCheck, ArrayMask, ArrayChild,
       LinkSignalled, LinkPending, ArrayDone, ArrayDestroy, ArrayUndo, ArrayFail,
       ResetSignal, ResetOwner, ResetDestroy
  <1>5. ASSUME NEW s \in Slots, ResetEntry(t, s) PROVE FALSE
    <2>1. Goto(t, [th[t] EXCEPT !.pc = "rst_owner", !.slot = s, !.slots = @ \ {s}])
      BY <1>5 DEF ResetEntry
    <2>2. th'[t].pc = "rst_owner"
      BY <2>1 DEF Goto, WideType, Local
    <2> QED
      BY <2>2
  <1> QED
    BY <1>4, <1>5 DEF ResetReturn

\* The invariant of the resets holds in every state, whatever arrays there are.
LEMMA ResetsKept == Spec => []ResetInv
  <1>1. Init => ResetInv
    BY TypeInit, IdleSound, FencesInit DEF Init, ResetInv, Resets, ResetPcs
  <1> QED
    BY <1>1, ResetStep, PTL DEF Spec

(* A client that was reset waits for no entry of the table and, unless it  *)
(* asked for the fences to be kept, owns none: for any number of threads   *)
(* that register, build join fences, create and destroy fences meanwhile,  *)
(* and for several resets at once.                                         *)
THEOREM WaitResetClean == Spec => ResetClean
  <1>1. ASSUME ResetInv, [Next]_vars, NEW t \in Threads,
               th[t].pc = "rst_entry", th'[t].pc = "idle", NEW s \in Slots
        PROVE  /\ th[t].client \notin tbl[s].mask
               /\ th[t].destroy => tbl[s].alloc # th[t].client
    <2>1. th[t].slots = {}
      BY <1>1, ReturnsLast DEF ResetInv
    <2> QED
      BY <1>1, <2>1 DEF ResetInv, Resets, ResetPcs
  <1>2. ResetInv /\ [Next]_vars =>
          [\A t \in Threads :
             th[t].pc = "rst_entry" /\ th'[t].pc = "idle" =>
               \A s \in Slots : /\ th[t].client \notin tbl[s].mask
                                /\ th[t].destroy => tbl[s].alloc # th[t].client]_vars
    BY <1>1
  <1> QED
    BY <1>2, ResetsKept, PTL DEF Spec, ResetClean
=============================================================================
