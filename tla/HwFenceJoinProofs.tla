-------------------------- MODULE HwFenceJoinProofs --------------------------
(***************************************************************************)
(* Theorems about the waiters and the join fences of HwFenceWait, for any  *)
(* threads, clients, fences and arrays and a table of any size.            *)
(***************************************************************************)
EXTENDS HwFenceWaitProofs

-----------------------------------------------------------------------------
(* The invariant. *)

\* A call has join fence j.
Held(j) == \E t \in Threads : th[t].slot = j /\ Holding(th[t])

\* In place p of its list of parents, the fence of entry s waits to count down
\* join fence j.
Linked(s, p, j) ==
  tbl[s].key \in Fences /\ ~tbl[s].sig /\ tbl[s].parent_list[p] = j

\* Fence f, of the array of join fence j, has ended or has j as a parent, and
\* j knows of its error.
Accounted(j, f) ==
  /\ f \in Fences /\ ended[f] # "new"
  /\ HasEnded(f) \/ \E s \in Slots, p \in Parents : Linked(s, p, j) /\ tbl[s].key = f
  /\ ended[f] = "error" => tbl[j].error

\* Join fence j of array a, of which the elements from n on are to be linked.
Accounts(j, a, n) ==
  /\ tbl[j].pending_child_cnt
       = (Len(Children[a]) + 1 - n) + Cardinality(Waiting(j))
  /\ \A m \in 1 .. Len(Children[a]) : m < n => Accounted(j, Children[a][m])

\* Fence f is one of the first n elements of array a.
Among(f, a, n) == \E m \in 1 .. Len(Children[a]) : m <= n /\ Children[a][m] = f

\* No two entries in use have the same key.
UniqueKey ==
  \A r, s \in Slots : tbl[r].key = tbl[s].key /\ tbl[s].key # None => r = s

\* The entry of a fence says how the fence ended; a join fence never signals, it is
\* destroyed.
EntryInv(s) ==
  LET e == tbl[s] IN
  /\ e.key = None => e = Free
  /\ e.key \in Fences => /\ e.alloc # JoinClient
                         /\ ended[e.key] \in {"no", "ok", "error"}
                         /\ (e.sig <=> ended[e.key] # "no")
                         /\ (e.error <=> ended[e.key] = "error")
  /\ e.key \in Arrays => e.alloc = JoinClient /\ ~e.sig

\* A join fence whose call has returned waits for all of its children.
JoinInv(j) ==
  tbl[j].key \in Arrays /\ ~Held(j) =>
    Accounts(j, tbl[j].key, Len(Children[tbl[j].key]) + 1)

\* Entry s will signal client c when fence k ends, whatever the calls still do.
Serves(s, c, k) ==
  tbl[s].key = k /\ c \in tbl[s].mask /\ ~tbl[s].sig /\ ~Held(s)

\* Client c has been signalled about k, or will be.
Awaits(c, k) == Told(c, k) \/ \E s \in Slots : Serves(s, c, k)

\* What a call with the local variables l knows: one that registers for a
\* fence,
RegisterInv(l) ==
  /\ l.pc \in {"reg_lock", "reg_check"} => tbl[l.slot].key = l.key
  /\ l.pc = "reg_check" => l.client \in tbl[l.slot].mask

\* one that has a join fence,
HolderInv(l) ==
  Holding(l) =>
    /\ tbl[l.slot].key = l.key /\ tbl[l.slot].mask \subseteq {l.client}
    /\ l.pc \in {"arr_child", "arr_link"} => l.client \in tbl[l.slot].mask

\* one that links its children,
BuildInv(l) ==
  Holding(l) /\ l.pc \in BuildPcs =>
    /\ (l.signal <=> l.i > 1 /\ tbl[l.slot].pending_child_cnt = 0)
    /\ Accounts(l.slot, l.key, l.i)
    /\ \A s \in Slots, p \in Parents :
         Linked(s, p, l.slot) => Among(tbl[s].key, l.key, l.i - 1)

\* one that has looked a child up, or has linked them all,
LinkInv(l) ==
  /\ l.pc = "arr_link" => tbl[l.child].key = Children[l.key][l.i]
  /\ l.pc = "arr_child" /\ ~Holding(l) => Awaits(l.client, l.key)

\* one that gives up: all links come from elements still to be undone, and one
\* element at least, if there is any, has none,
UndoInv(l) ==
  l.pc = "arr_undo" =>
    /\ Len(Children[l.key]) > 0 =>
         tbl[l.slot].pending_child_cnt >= 1 + Cardinality(Waiting(l.slot))
    /\ \A s \in Slots, p \in Parents :
         Linked(s, p, l.slot) => Among(tbl[s].key, l.key, l.i)

\* and one that is done with its join fence.
EndInv(l) ==
  /\ l.pc \in {"arr_fail", "arr_destroy"} =>
       \A s \in Slots, p \in Parents : ~Linked(s, p, l.slot)
  /\ l.pc = "arr_destroy" =>
       Told(l.client, l.key) /\ tbl[l.slot].pending_child_cnt = 0

\* All of it; nobody is reset.
CallInv(l) ==
  /\ l.pc \notin ResetPcs
  /\ RegisterInv(l) /\ HolderInv(l) /\ BuildInv(l) /\ LinkInv(l) /\ UndoInv(l) /\ EndInv(l)

\* At most one call has a join fence.
OneHolder ==
  \A t, u \in Threads :
    Holding(th[t]) /\ Holding(th[u]) /\ th[t].slot = th[u].slot => t = u

\* Every registration that returned 0 has been or will be answered.
WaitsKept == \A w \in waits : Awaits(w[1], w[2])

\* What a fence has as a parent is the join fence of an array it is in.
LinksLive ==
  \A s, j \in Slots, p \in Parents :
    Linked(s, p, j) => tbl[j].key \in Arrays /\ IsChild(tbl[s].key, tbl[j].key)

\* The signal x is not early, and one about a join fence has the error of its
\* children.
Rightly(x) ==
  /\ x[2] \in Fences => HasEnded(x[2])
  /\ x[2] \in Arrays =>
       \A n \in 1 .. Len(Children[x[2]]) :
         LET f == Children[x[2]][n] IN
         f \in Fences /\ HasEnded(f) /\ (ended[f] = "error" => x[3])

\* The inductive invariant.
WaitInv ==
  /\ WideType
  /\ UniqueKey /\ OneHolder
  /\ \A s \in Slots : EntryInv(s) /\ JoinInv(s) /\ tbl[s].pending_child_cnt \in Nat
  /\ \A t \in Threads : CallInv(th[t])
  /\ LinksLive
  /\ \A x \in told : Rightly(x)
  /\ WaitsKept

\* Array a is waited for: a call has begun that has not failed.
Known(a) ==
  \/ \E t \in Threads : th[t].pc \in ArrayPcs /\ th[t].key = a
  \/ \E c \in Clients : <<c, a>> \in waits

\* The arrays that have a join fence are.
JoinsKnown == \A s \in Slots : tbl[s].key \in Arrays => Known(tbl[s].key)

-----------------------------------------------------------------------------
(* What join fences, calls and waiters need of a step. *)

\* There are finitely many links.
LEMMA LinksFinite ==
  ASSUME NEW S \in SUBSET (Slots \X Parents)
  PROVE  IsFiniteSet(S) /\ Cardinality(S) \in Nat
  <1>1. IsFiniteSet(Parents)
    BY PlacesFinite
  <1>2. IsFiniteSet(Slots \X Parents)
    BY <1>1, FS_Product, WaitAssumption
  <1>3. IsFiniteSet(S)
    BY <1>2, FS_Subset
  <1> QED
    BY <1>3, FS_CardinalityType

\* Waiting() is a finite set.
LEMMA WaitingFinite ==
  ASSUME NEW j
  PROVE  /\ IsFiniteSet(Waiting(j)) /\ Cardinality(Waiting(j)) \in Nat
         /\ IsFiniteSet(Waiting(j)') /\ Cardinality(Waiting(j)') \in Nat
  <1>1. Waiting(j) \in SUBSET (Slots \X Parents) /\ Waiting(j)' \in SUBSET (Slots \X Parents)
    BY DEF Waiting
  <1> QED
    BY <1>1, LinksFinite

\* Waiting() is the set of the links.
LEMMA WaitingLinked ==
  ASSUME NEW j, NEW s \in Slots, NEW p \in Parents
  PROVE  <<s, p>> \in Waiting(j) <=> Linked(s, p, j)
  BY DEF Waiting, Linked

\* Join fence j counts fewer links than before by what it loses of them.
Follows(j) ==
  /\ tbl'[j].key = tbl[j].key
  /\ tbl'[j].pending_child_cnt - Cardinality(Waiting(j)')
       = tbl[j].pending_child_cnt - Cardinality(Waiting(j))
  /\ \A s \in Slots, p \in Parents :
       Linked(s, p, j)' => Linked(s, p, j) /\ tbl'[s].key = tbl[s].key
  /\ \A f \in Fences : Accounted(j, f) => Accounted(j, f)'

\* The links of join fence j are as before.
Framed(j) ==
  /\ tbl'[j].key = tbl[j].key /\ SameCount(tbl'[j], tbl[j])
  /\ \A s \in Slots, p \in Parents :
       /\ Linked(s, p, j)' <=> Linked(s, p, j)
       /\ Linked(s, p, j) => tbl'[s].key = tbl[s].key

\* What has become of a fence stays.
EndsKept == \A f \in Fences : ended[f] # "new" => ended'[f] = ended[f]

\* A join fence with the same links and the same counts is accounted for as before.
LEMMA FramedFollows ==
  ASSUME NEW j \in Slots, Framed(j), EndsKept
  PROVE  Follows(j) /\ Waiting(j)' = Waiting(j)
  <1>1. Waiting(j)' = Waiting(j)
    <2>1. \A s \in Slots, p \in Parents : <<s, p>> \in Waiting(j)' <=> <<s, p>> \in Waiting(j)
      BY DEF Framed, Waiting, Linked
    <2>2. Waiting(j)' \subseteq Slots \X Parents /\ Waiting(j) \subseteq Slots \X Parents
      BY DEF Waiting
    <2> QED
      BY <2>1, <2>2
  <1>2. ASSUME NEW f \in Fences, Accounted(j, f) PROVE Accounted(j, f)'
    <2>1. ended'[f] = ended[f] /\ ended[f] # "new"
      BY <1>2 DEF Accounted, EndsKept
    <2>2. HasEnded(f) \/ \E s \in Slots, p \in Parents : Linked(s, p, j) /\ tbl[s].key = f
      BY <1>2 DEF Accounted
    <2>3. \/ HasEnded(f)'
          \/ \E s \in Slots, p \in Parents : Linked(s, p, j)' /\ tbl'[s].key = f
      BY <2>1, <2>2 DEF HasEnded, Framed
    <2>4. ended'[f] = "error" => tbl'[j].error
      BY <1>2, <2>1 DEF Accounted, Framed, SameCount
    <2> QED
      BY <2>1, <2>3, <2>4 DEF Accounted
  <1> QED
    BY <1>1, <1>2 DEF Follows, Framed, SameCount

\* The account of a join fence follows its links.
LEMMA AccountsFollows ==
  ASSUME WideType, WideType', NEW j \in Slots, NEW a \in Arrays, NEW n \in Int,
         Follows(j), Accounts(j, a, n)
  PROVE  Accounts(j, a, n)'
  <1>1. /\ Len(Children[a]) \in Nat
        /\ tbl[j].pending_child_cnt \in Int /\ tbl'[j].pending_child_cnt \in Int
        /\ Cardinality(Waiting(j)) \in Nat /\ Cardinality(Waiting(j)') \in Nat
    <2>1. Cardinality(Waiting(j)) \in Nat
      BY WaitingFinite
    <2>2. Cardinality(Waiting(j)') \in Nat
      BY WaitingFinite
    <2> QED
      BY <2>1, <2>2, ArrayElements DEF WideType, WideEntry
  <1>2. tbl'[j].pending_child_cnt = (Len(Children[a]) + 1 - n) + Cardinality(Waiting(j)')
    BY <1>1 DEF Accounts, Follows
  <1>3. \A m \in 1 .. Len(Children[a]) : m < n => Accounted(j, Children[a][m])'
    <2>1. \A m \in 1 .. Len(Children[a]) : m < n => Accounted(j, Children[a][m])
      BY DEF Accounts
    <2>2. \A f : Accounted(j, f) => Accounted(j, f)'
      BY DEF Follows, Accounted
    <2> QED
      BY <2>1, <2>2
  <1> QED
    BY <1>2, <1>3 DEF Accounts

\* The join fence of a call that has returned.
LEMMA JoinFollows ==
  ASSUME WideType, WideType', NEW j \in Slots, JoinInv(j),
         tbl'[j].key \in Arrays /\ ~Held(j)' => Follows(j) /\ ~Held(j)
  PROVE  JoinInv(j)'
  <1> SUFFICES ASSUME tbl'[j].key \in Arrays, ~Held(j)'
               PROVE  Accounts(j, tbl[j].key, Len(Children[tbl[j].key]) + 1)'
    BY DEF JoinInv
  <1>1. Follows(j) /\ ~Held(j) /\ tbl'[j].key = tbl[j].key /\ tbl[j].key \in Arrays
    BY DEF Follows
  <1>2. Accounts(j, tbl[j].key, Len(Children[tbl[j].key]) + 1)
    BY <1>1 DEF JoinInv
  <1>3. PICK a \in Arrays : a = tbl[j].key
    BY <1>1
  <1>4. Len(Children[a]) + 1 \in Int /\ Accounts(j, a, Len(Children[a]) + 1)
    BY <1>2, <1>3, ArrayElements
  <1>5. Accounts(j, a, Len(Children[a]) + 1)'
    BY <1>1, <1>4, AccountsFollows
  <1> QED
    BY <1>1, <1>3, <1>5

\* A call that does not move.
LEMMA CallFollows ==
  ASSUME WideType, WideType', NEW l, Sound(l), CallInv(l), told \subseteq told',
         l.pc \in {"reg_lock", "reg_check"} =>
           tbl'[l.slot].key = tbl[l.slot].key /\ tbl[l.slot].mask \subseteq tbl'[l.slot].mask,
         Holding(l) => Follows(l.slot) /\ tbl'[l.slot].mask = tbl[l.slot].mask,
         Holding(l) /\ l.pc \in BuildPcs =>
           (tbl'[l.slot].pending_child_cnt = 0 <=> tbl[l.slot].pending_child_cnt = 0),
         l.pc = "arr_link" => tbl'[l.child].key = tbl[l.child].key,
         l.client \in Clients /\ l.key \in Keys /\ Awaits(l.client, l.key) =>
           Awaits(l.client, l.key)'
  PROVE  CallInv(l)'
  <1>1. RegisterInv(l)'
    BY DEF CallInv, RegisterInv
  <1>2. HolderInv(l)'
    BY DEF CallInv, HolderInv, Follows
  <1>3. BuildInv(l)'
    <2> SUFFICES ASSUME Holding(l), l.pc \in BuildPcs
                 PROVE  /\ (l.signal <=> l.i > 1 /\ tbl'[l.slot].pending_child_cnt = 0)
                        /\ Accounts(l.slot, l.key, l.i)'
                        /\ \A s \in Slots, p \in Parents :
                             Linked(s, p, l.slot)' => Among(tbl'[s].key, l.key, l.i - 1)
      BY DEF BuildInv, Among
    <2>1. l.slot \in Slots /\ l.key \in Arrays /\ l.i \in Int
      BY DEF Sound, ArrayPcs, Local
    <2>2. /\ (l.signal <=> l.i > 1 /\ tbl[l.slot].pending_child_cnt = 0)
          /\ Accounts(l.slot, l.key, l.i)
          /\ \A s \in Slots, p \in Parents :
               Linked(s, p, l.slot) => Among(tbl[s].key, l.key, l.i - 1)
      BY DEF CallInv, BuildInv
    <2>3. Accounts(l.slot, l.key, l.i)'
      BY <2>1, <2>2, AccountsFollows
    <2>4. \A s \in Slots, p \in Parents :
            Linked(s, p, l.slot)' => Among(tbl'[s].key, l.key, l.i - 1)
      BY <2>2 DEF Follows
    <2> QED
      BY <2>2, <2>3, <2>4
  <1>4. LinkInv(l)'
    <2>1. l.pc = "arr_child" => l.client \in Clients /\ l.key \in Keys
      BY DEF Sound, ArrayPcs, BuildPcs, Keys
    <2> QED
      BY <2>1 DEF CallInv, LinkInv
  <1>5. UndoInv(l)'
    <2> SUFFICES ASSUME l.pc = "arr_undo"
                 PROVE  /\ Len(Children[l.key]) > 0 =>
                             tbl'[l.slot].pending_child_cnt >= 1 + Cardinality(Waiting(l.slot)')
                        /\ \A s \in Slots, p \in Parents :
                             Linked(s, p, l.slot)' => Among(tbl'[s].key, l.key, l.i)
      BY DEF UndoInv, Among
    <2>1. l.slot \in Slots /\ Holding(l) /\ Follows(l.slot)
      BY DEF Sound, ArrayPcs, UndoPcs, Holding
    <2>2. /\ Len(Children[l.key]) > 0 =>
               tbl[l.slot].pending_child_cnt >= 1 + Cardinality(Waiting(l.slot))
          /\ \A s \in Slots, p \in Parents :
               Linked(s, p, l.slot) => Among(tbl[s].key, l.key, l.i)
      BY DEF CallInv, UndoInv
    <2>3. /\ tbl[l.slot].pending_child_cnt \in Int /\ tbl'[l.slot].pending_child_cnt \in Int
          /\ Cardinality(Waiting(l.slot)) \in Nat
      BY <2>1, WaitingFinite DEF WideType, WideEntry
    <2>4. Cardinality(Waiting(l.slot)') \in Nat
      BY WaitingFinite
    <2>5. Len(Children[l.key]) > 0 =>
            tbl'[l.slot].pending_child_cnt >= 1 + Cardinality(Waiting(l.slot)')
      BY <2>1, <2>2, <2>3, <2>4 DEF Follows
    <2> QED
      BY <2>1, <2>2, <2>5 DEF Follows
  <1>6. EndInv(l)'
    <2>1. l.pc \in {"arr_fail", "arr_destroy"} => Holding(l)
      BY DEF Holding, ArrayPcs, UndoPcs
    <2>2. Told(l.client, l.key) => Told(l.client, l.key)'
      BY DEF Told
    <2>3. ASSUME l.pc = "arr_destroy" PROVE tbl'[l.slot].pending_child_cnt = 0
      <3>1. PICK j \in Slots : j = l.slot
        BY <2>3 DEF Sound, ArrayPcs
      <3>2. /\ Follows(j) /\ tbl[j].pending_child_cnt = 0
            /\ \A s \in Slots, p \in Parents : ~Linked(s, p, j)
        BY <2>1, <2>3, <3>1 DEF CallInv, EndInv
      <3>3. \A s \in Slots, p \in Parents : ~Linked(s, p, j)'
        BY <3>2 DEF Follows
      <3>4. Cardinality(Waiting(j)) = 0
        <4>1. Waiting(j) = {}
          BY <3>2 DEF Waiting, Linked
        <4> QED
          BY <4>1, FS_EmptySet
      <3>5. Cardinality(Waiting(j)') = 0
        <4>1. Waiting(j)' = {}
          BY <3>3 DEF Waiting, Linked
        <4> QED
          BY <4>1, FS_EmptySet
      <3>6. tbl'[j].pending_child_cnt \in Int
        BY DEF WideType, WideEntry
      <3>7. tbl'[j].pending_child_cnt - 0 = 0 - 0
        BY <3>2, <3>4, <3>5 DEF Follows
      <3> QED
        BY <3>1, <3>6, <3>7
    <2> QED
      BY <2>1, <2>2, <2>3 DEF CallInv, EndInv, Follows
  <1> QED
    BY <1>1, <1>2, <1>3, <1>4, <1>5, <1>6 DEF CallInv

\* What a call that has a join fence knows of it.
LEMMA HolderEntry ==
  ASSUME WaitInv, NEW t \in Threads, Holding(th[t])
  PROVE  /\ th[t].slot \in Slots /\ th[t].key \in Arrays /\ th[t].client \in Clients
         /\ tbl[th[t].slot].key = th[t].key /\ Held(th[t].slot)
  <1>1. Sound(th[t]) /\ CallInv(th[t])
    BY DEF WaitInv, WideType
  <1> QED
    BY <1>1 DEF Sound, Holding, CallInv, HolderInv, Held

\* What a call has is the join fence of an array.
LEMMA HeldEntry ==
  ASSUME WaitInv, NEW s, Held(s)
  PROVE  s \in Slots /\ tbl[s].key \in Arrays
  BY HolderEntry DEF Held

\* Keys are those of fences or of arrays, and never None.
LEMMA KeysApart ==
  /\ Keys = Fences \union Arrays /\ Fences \intersect Arrays = {}
  /\ None \notin Fences /\ None \notin Arrays /\ NotHw \notin Fences /\ NotHw \notin Arrays
  BY WaitAssumption DEF Keys

\* A waiter that is served goes on to be served, or is signalled.
LEMMA AwaitsFramed ==
  ASSUME NEW c, NEW k, Awaits(c, k), told \subseteq told',
         \A s \in Slots : Serves(s, c, k) => Serves(s, c, k)' \/ Tells(c, k)
  PROVE  Awaits(c, k)'
  <1>1. Told(c, k) \/ Tells(c, k) => Told(c, k)'
    BY DEF Told, Tells
  <1> QED
    BY <1>1 DEF Awaits

\* Signals stay right when fences that have ended stay so.
LEMMA ToldFramed ==
  ASSUME WaitInv, \A f \in Fences : HasEnded(f) => ended'[f] = ended[f],
         \A x \in told' : x \notin told => Rightly(x)'
  PROVE  \A x \in told' : Rightly(x)'
  <1>1. ASSUME NEW x \in told PROVE Rightly(x)'
    <2>1. Rightly(x)
      BY DEF WaitInv
    <2> QED
      BY <2>1 DEF Rightly, HasEnded
  <1> QED
    BY <1>1

-----------------------------------------------------------------------------
(* Steps that change no more of the table than wait masks. *)

QuietTable ==
  \A s \in Slots : /\ SameFence(tbl'[s], tbl[s]) /\ SameList(tbl'[s], tbl[s])
                   /\ SameCount(tbl'[s], tbl[s]) /\ tbl[s].mask \subseteq tbl'[s].mask

\* A step that changes wait masks leaves all links alone.
LEMMA QuietFollows ==
  ASSUME QuietTable, UNCHANGED ended, NEW j \in Slots
  PROVE  Framed(j) /\ Follows(j) /\ Waiting(j)' = Waiting(j)
  <1>1. Framed(j) /\ EndsKept
    BY DEF QuietTable, Framed, SameFence, SameList, Linked, EndsKept
  <1> QED
    BY <1>1, FramedFollows

\* Thread t keeps its hold on a join fence, if it has one.
HoldKept(t) ==
  /\ OnlyThread(t)
  /\ Holding(th'[t]) <=> Holding(th[t])
  /\ Holding(th[t]) => th'[t].slot = th[t].slot

\* If thread t keeps its hold, the same join fences are held as before.
LEMMA HeldSame ==
  ASSUME NEW t \in Threads, HoldKept(t)
  PROVE  /\ \A u \in Threads : /\ Holding(th'[u]) <=> Holding(th[u])
                               /\ Holding(th[u]) => th'[u].slot = th[u].slot
         /\ \A j : Held(j)' <=> Held(j)
         /\ OneHolder => OneHolder'
  <1>1. \A u \in Threads : /\ Holding(th'[u]) <=> Holding(th[u])
                           /\ Holding(th[u]) => th'[u].slot = th[u].slot
    BY DEF HoldKept, OnlyThread
  <1>2. \A j : Held(j)' <=> Held(j)
    BY <1>1 DEF Held
  <1>3. OneHolder => OneHolder'
    BY <1>1 DEF OneHolder
  <1> QED
    BY <1>1, <1>2, <1>3

\* A step of thread t that changes no more than wait masks keeps the invariant, if
\* what it says to clients and what t knows afterwards is right.
LEMMA QuietStep ==
  ASSUME WaitInv, WideType', QuietTable, UNCHANGED ended,
         NEW t \in Threads, HoldKept(t), CallInv(th[t])',
         \A s \in Slots :
           \/ tbl[s].key = None
           \/ \E u \in Threads : u # t /\ Holding(th[u]) /\ th[u].slot = s
           => tbl'[s] = tbl[s],
         told \subseteq told', \A x \in told' : x \notin told => Rightly(x)',
         \A w \in waits' : w \notin waits => Awaits(w[1], w[2])'
  PROVE  WaitInv'
  <1>1. WideType /\ UniqueKey /\ OneHolder /\ LinksLive
    BY DEF WaitInv
  <1>2. \A j \in Slots : Follows(j) /\ (Held(j)' <=> Held(j))
    BY QuietFollows, HeldSame
  <1>3. \A s \in Slots : /\ tbl'[s].key = tbl[s].key /\ tbl'[s].sig = tbl[s].sig
                         /\ tbl'[s].alloc = tbl[s].alloc /\ tbl'[s].error = tbl[s].error
                         /\ tbl'[s].parent_list = tbl[s].parent_list
                         /\ tbl'[s].pending_child_cnt = tbl[s].pending_child_cnt
                         /\ tbl[s].mask \subseteq tbl'[s].mask
    BY DEF QuietTable, SameFence, SameList, SameCount
  <1>4. UniqueKey' /\ OneHolder'
    BY <1>1, <1>3, HeldSame DEF UniqueKey
  <1>5. ASSUME NEW s \in Slots
        PROVE  EntryInv(s)' /\ JoinInv(s)' /\ tbl'[s].pending_child_cnt \in Nat
    <2>1. EntryInv(s) /\ JoinInv(s) /\ tbl[s].pending_child_cnt \in Nat
      BY DEF WaitInv
    <2>2. EntryInv(s)'
      BY <1>3, <2>1 DEF EntryInv
    <2>3. JoinInv(s)'
      BY <1>1, <1>2, <2>1, JoinFollows
    <2> QED
      BY <1>3, <2>1, <2>2, <2>3
  <1>6. LinksLive'
    BY <1>1, <1>3 DEF LinksLive, Linked
  <1>7. \A c, k : Awaits(c, k) => Awaits(c, k)'
    <2> SUFFICES ASSUME NEW c, NEW k, Awaits(c, k) PROVE Awaits(c, k)'
      OBVIOUS
    <2>1. \A s \in Slots : Serves(s, c, k) => Serves(s, c, k)'
      BY <1>2, <1>3 DEF Serves
    <2> QED
      BY <2>1, AwaitsFramed
  <1>8. WaitsKept'
    <2>1. \A w \in waits : Awaits(w[1], w[2])
      BY DEF WaitInv, WaitsKept
    <2>2. \A w \in waits' : Awaits(w[1], w[2])'
      BY <1>7, <2>1
    <2> QED
      BY <2>2 DEF WaitsKept
  <1>9. \A x \in told' : Rightly(x)'
    BY ToldFramed
  <1>10. ASSUME NEW u \in Threads PROVE CallInv(th[u])'
    <2>1. CASE u = t
      BY <2>1
    <2>2. CASE u # t
      <3>1. PICK l : l = th[u] /\ l = th'[u]
        BY <2>2 DEF HoldKept, OnlyThread
      <3>2. Sound(l) /\ CallInv(l)
        BY <3>1 DEF WaitInv, WideType
      <3>3. Holding(l) => l.slot \in Slots /\ tbl'[l.slot] = tbl[l.slot]
        BY <2>2, <3>1, HolderEntry
      <3>4. l.pc \in {"reg_lock", "reg_check"} => l.slot \in Slots
        BY <3>2 DEF Sound
      <3>5. l.pc = "arr_link" => l.child \in Slots
        BY <3>2 DEF Sound
      <3>6. CallInv(l)'
        BY <1>1, <1>2, <1>3, <1>7, <3>2, <3>3, <3>4, <3>5, CallFollows
      <3> QED
        BY <3>1, <3>6
    <2> QED
      BY <2>1, <2>2
  <1> QED
    BY <1>4, <1>5, <1>6, <1>8, <1>9, <1>10 DEF WaitInv

\* A call that has nothing to do with arrays.
LEMMA PlainCall ==
  ASSUME NEW l, l.pc \notin ArrayPcs \union ResetPcs
  PROVE  ~Holding(l) /\ (RegisterInv(l)' => CallInv(l)')
  <1>1. ~Holding(l)
    BY DEF Holding
  <1>2. /\ l.pc \notin ResetPcs /\ l.pc # "arr_child" /\ l.pc # "arr_link"
        /\ l.pc # "arr_undo" /\ l.pc # "arr_fail" /\ l.pc # "arr_destroy"
    BY DEF ArrayPcs, BuildPcs, UndoPcs
  <1> QED
    BY <1>1, <1>2 DEF CallInv, HolderInv, BuildInv, LinkInv, UndoInv, EndInv

\* A thread in no call knows nothing.
LEMMA IdleCall == CallInv(Idle)'
  <1>1. Idle.pc = "idle" /\ Idle.pc \notin ArrayPcs \union ResetPcs
    BY IdleSound DEF ArrayPcs, BuildPcs, UndoPcs, ResetPcs
  <1> QED
    BY <1>1, PlainCall DEF RegisterInv

\* The call of thread t has looked its fence up.
LEMMA RegisterWaitKeeps ==
  ASSUME WaitInv, WideType', NEW t \in Threads, NEW c \in Clients, NEW f \in Fences,
         RegisterWait(t, c, f)
  PROVE  WaitInv'
  <1>1. WideType
    BY DEF WaitInv
  <1>2. UNCHANGED <<tbl, ended, told, waits>> /\ OnlyThread(t) /\ th[t].pc = "idle"
    BY <1>1, RegisterWaitEffect
  <1>3. th'[t].pc = "reg_lock" /\ tbl'[th'[t].slot].key = th'[t].key
    BY <1>1, <1>2, RegisterWaitEffect
  <1>4. ~Holding(th[t]) /\ ~Holding(th'[t]) /\ CallInv(th[t])'
    BY <1>2, <1>3, PlainCall DEF RegisterInv, ArrayPcs, BuildPcs, UndoPcs, ResetPcs
  <1>5. QuietTable
    BY <1>2 DEF QuietTable, SameFence, SameList, SameCount
  <1> QED
    BY <1>2, <1>4, <1>5, QuietStep DEF HoldKept

\* The client becomes a waiter of the fence; nobody destroys the fence meanwhile.
LEMMA RegisterLockKeeps ==
  ASSUME WaitInv, WideType', NEW t \in Threads, RegisterLock(t)
  PROVE  WaitInv'
  <1>1. WideType /\ CallInv(th[t])
    BY DEF WaitInv
  <1>2. /\ th[t].pc = "reg_lock" /\ th'[t].pc = "reg_check"
        /\ th[t].slot \in Slots /\ th[t].key \in Fences
        /\ SameCall(th'[t], th[t]) /\ OnlyThread(t) /\ OnlyEntry(th[t].slot)
        /\ UNCHANGED <<ended, told, waits>>
    BY <1>1, RegisterLockEffect
  <1>3. /\ tbl'[th[t].slot].mask = tbl[th[t].slot].mask \union {th[t].client}
        /\ SameFence(tbl'[th[t].slot], tbl[th[t].slot])
        /\ SameList(tbl'[th[t].slot], tbl[th[t].slot])
        /\ SameCount(tbl'[th[t].slot], tbl[th[t].slot])
    BY <1>1, RegisterLockEffect
  <1>4. tbl[th[t].slot].key = th[t].key
    BY <1>1, <1>2 DEF CallInv, RegisterInv
  <1>5. ~Holding(th[t]) /\ ~Holding(th'[t]) /\ CallInv(th[t])'
    BY <1>2, <1>3, <1>4, PlainCall
    DEF RegisterInv, SameCall, SameFence, ArrayPcs, BuildPcs, UndoPcs, ResetPcs
  <1>6. QuietTable
    BY <1>2, <1>3 DEF QuietTable, OnlyEntry, SameFence, SameList, SameCount
  <1>7. ASSUME NEW s \in Slots,
               \/ tbl[s].key = None
               \/ \E u \in Threads : u # t /\ Holding(th[u]) /\ th[u].slot = s
        PROVE  tbl'[s] = tbl[s]
    <2>1. tbl[s].key \notin Fences
      BY <1>7, HolderEntry, KeysApart
    <2> QED
      BY <1>2, <1>4, <2>1 DEF OnlyEntry
  <1> QED
    BY <1>2, <1>5, <1>6, <1>7, QuietStep DEF HoldKept

\* A fence that signals before the check is seen by it, one that signals after it
\* finds the client in the mask.
LEMMA RegisterCheckKeeps ==
  ASSUME WaitInv, WideType', NEW t \in Threads, RegisterCheck(t)
  PROVE  WaitInv'
  <1>1. WideType /\ CallInv(th[t])
    BY DEF WaitInv
  <1>2. /\ th[t].pc = "reg_check" /\ th'[t] = Idle
        /\ th[t].slot \in Slots /\ th[t].client \in Clients /\ th[t].key \in Fences
        /\ OnlyThread(t)
        /\ told' = IF tbl[th[t].slot].sig
                   THEN told \union {<<th[t].client, tbl[th[t].slot].key, FALSE>>}
                   ELSE told
        /\ waits' = waits \union {<<th[t].client, th[t].key>>}
        /\ UNCHANGED <<tbl, ended>>
    BY <1>1, RegisterCheckEffect
  <1>3. tbl[th[t].slot].key = th[t].key /\ th[t].client \in tbl[th[t].slot].mask
    BY <1>1, <1>2 DEF CallInv, RegisterInv
  <1>4. ~Holding(th[t]) /\ ~Holding(th'[t]) /\ CallInv(th[t])'
    BY <1>2, PlainCall, IdleSound, IdleCall DEF ArrayPcs, BuildPcs, UndoPcs, ResetPcs
  <1>5. QuietTable
    BY <1>2 DEF QuietTable, SameFence, SameList, SameCount
  <1>6. PICK c, k, s : c = th[t].client /\ k = th[t].key /\ s = th[t].slot
    OBVIOUS
  <1>7. ~Held(s)'
    BY <1>2, <1>3, <1>4, <1>6, HeldSame, HeldEntry, KeysApart DEF HoldKept
  <1>8. ASSUME NEW x \in told', x \notin told PROVE Rightly(x)'
    <2>1. x[2] = k /\ tbl[s].sig
      <3>1. tbl[s].sig
        BY <1>2, <1>6, <1>8
      <3>2. x = <<c, k, FALSE>>
        BY <1>2, <1>3, <1>6, <1>8, <3>1
      <3> QED
        BY <3>1, <3>2
    <2>2. HasEnded(k)
      BY <1>2, <1>3, <1>6, <2>1 DEF WaitInv, EntryInv, HasEnded
    <2> QED
      BY <1>2, <1>6, <2>1, <2>2, KeysApart DEF Rightly, HasEnded
  <1>9. Awaits(c, k)'
    <2>1. CASE tbl[s].sig
      <3>1. <<c, k, FALSE>> \in told'
        BY <1>2, <1>3, <1>6, <2>1
      <3> QED
        BY <3>1 DEF Awaits, Told
    <2>2. CASE ~tbl[s].sig
      <3>1. s \in Slots /\ Serves(s, c, k)'
        BY <1>2, <1>3, <1>6, <1>7, <2>2 DEF Serves
      <3> QED
        BY <3>1 DEF Awaits
    <2> QED
      BY <2>1, <2>2
  <1>10. told \subseteq told'
    BY <1>2
  <1>11. ASSUME NEW w \in waits', w \notin waits PROVE Awaits(w[1], w[2])'
    <2>1. w = <<c, k>>
      BY <1>2, <1>6, <1>11
    <2>2. w[1] = c /\ w[2] = k
      BY <2>1
    <2> QED
      BY <1>9, <2>2
  <1> QED
    BY <1>2, <1>4, <1>5, <1>8, <1>10, <1>11, QuietStep DEF HoldKept

\* A call that goes on to link the children of an array.
LEMMA BuildKept ==
  ASSUME WideType, WideType', NEW l, NEW k, Sound(l), Holding(l), BuildInv(l),
         l.pc \in BuildPcs, SameCall(k, l), k.i = l.i, k.signal = l.signal,
         Follows(l.slot),
         tbl'[l.slot].pending_child_cnt = tbl[l.slot].pending_child_cnt
  PROVE  BuildInv(k)'
  <1>1. l.slot \in Slots /\ l.key \in Arrays /\ l.i \in Int
    BY DEF Sound, ArrayPcs, Local
  <1>2. Accounts(l.slot, l.key, l.i)'
    BY <1>1, AccountsFollows DEF BuildInv
  <1>3. \A s \in Slots, p \in Parents :
          Linked(s, p, l.slot)' => Among(tbl'[s].key, l.key, l.i - 1)
    BY DEF BuildInv, Follows
  <1> QED
    BY <1>2, <1>3 DEF BuildInv, SameCall, Among

\* A call that gives up before it has linked all children.
LEMMA UndoBegins ==
  ASSUME NEW l, NEW k, Sound(k), Holding(k), BuildInv(k), k.pc \in BuildPcs,
         k.key \in Arrays, k.i \in 1 .. Len(Children[k.key]),
         SameCall(l, k), l.i = k.i, UNCHANGED tbl
  PROVE  UndoInv(l)'
  <1> DEFINE num == Len(Children[k.key])
  <1>1. /\ tbl[k.slot].pending_child_cnt = (num + 1 - k.i) + Cardinality(Waiting(k.slot))
        /\ \A s \in Slots, p \in Parents :
             Linked(s, p, k.slot) => Among(tbl[s].key, k.key, k.i - 1)
    BY DEF BuildInv, Accounts
  <1>2. Cardinality(Waiting(k.slot)) \in Nat /\ num \in Nat
    BY WaitingFinite, ArrayElements
  <1>3. tbl[k.slot].pending_child_cnt >= 1 + Cardinality(Waiting(k.slot))
    BY <1>1, <1>2
  <1>4. \A s \in Slots, p \in Parents :
          Linked(s, p, k.slot) => Among(tbl[s].key, k.key, k.i)
    <2>1. \A f : Among(f, k.key, k.i - 1) => Among(f, k.key, k.i)
      BY <1>2 DEF Among
    <2> QED
      BY <1>1, <2>1
  <1>5. l.slot = k.slot /\ l.key = k.key /\ l.i = k.i
    BY DEF SameCall
  <1>6. /\ Waiting(l.slot)' = Waiting(k.slot)
        /\ \A s \in Slots, p \in Parents : Linked(s, p, l.slot)' <=> Linked(s, p, k.slot)
    BY <1>5 DEF Waiting, Linked
  <1> QED
    BY <1>3, <1>4, <1>5, <1>6 DEF UndoInv, Among

\* The client becomes the only waiter of its join fence.
LEMMA ArrayMaskKeeps ==
  ASSUME WaitInv, WideType', NEW t \in Threads, ArrayMask(t)
  PROVE  WaitInv'
  <1>1. WideType /\ CallInv(th[t]) /\ Sound(th[t]) /\ OneHolder
    BY DEF WaitInv, WideType
  <1>2. /\ th[t].pc = "arr_mask" /\ th'[t].pc = "arr_child" /\ th[t].i = 1
        /\ th[t].slot \in Slots /\ th[t].key \in Arrays
        /\ SameCall(th'[t], th[t]) /\ OnlyThread(t) /\ OnlyEntry(th[t].slot)
        /\ th'[t].i = th[t].i /\ th'[t].signal = th[t].signal
        /\ UNCHANGED <<ended, told, waits>>
    BY <1>1, ArrayMaskEffect
  <1>3. /\ tbl'[th[t].slot].mask = tbl[th[t].slot].mask \union {th[t].client}
        /\ SameFence(tbl'[th[t].slot], tbl[th[t].slot])
        /\ SameList(tbl'[th[t].slot], tbl[th[t].slot])
        /\ SameCount(tbl'[th[t].slot], tbl[th[t].slot])
    BY <1>1, ArrayMaskEffect
  <1>4. Holding(th[t]) /\ Holding(th'[t])
    <2>1. Len(Children[th[t].key]) \in Nat /\ th'[t].key = th[t].key
      BY <1>2, ArrayElements DEF SameCall
    <2> QED
      BY <1>2, <2>1 DEF Holding, ArrayPcs, BuildPcs
  <1>5. tbl[th[t].slot].key = th[t].key /\ tbl[th[t].slot].mask \subseteq {th[t].client}
    BY <1>1, <1>4 DEF CallInv, HolderInv
  <1>6. QuietTable
    BY <1>2, <1>3 DEF QuietTable, OnlyEntry, SameFence, SameList, SameCount
  <1>7. PICK l : l = th'[t]
    OBVIOUS
  <1>8. CallInv(l)'
    <2>1. RegisterInv(l)' /\ UndoInv(l)' /\ EndInv(l)' /\ l.pc \notin ResetPcs
      BY <1>2, <1>7 DEF RegisterInv, UndoInv, EndInv, ResetPcs
    <2>2. HolderInv(l)'
      BY <1>2, <1>3, <1>5, <1>7 DEF HolderInv, SameCall, SameFence
    <2>3. BuildInv(l)'
      <3>1. Follows(th[t].slot)
        BY <1>2, <1>6, QuietFollows
      <3>2. BuildInv(th[t]) /\ th[t].pc \in BuildPcs
        BY <1>1, <1>2 DEF CallInv, BuildPcs
      <3> QED
        BY <1>1, <1>2, <1>3, <1>4, <1>7, <3>1, <3>2, BuildKept DEF SameCount
    <2>4. LinkInv(l)'
      BY <1>2, <1>4, <1>7 DEF LinkInv
    <2> QED
      BY <2>1, <2>2, <2>3, <2>4 DEF CallInv
  <1>9. ASSUME NEW s \in Slots,
               \/ tbl[s].key = None
               \/ \E u \in Threads : u # t /\ Holding(th[u]) /\ th[u].slot = s
        PROVE  tbl'[s] = tbl[s]
    <2>1. s # th[t].slot
      BY <1>1, <1>2, <1>4, <1>5, <1>9, KeysApart DEF OneHolder
    <2> QED
      BY <1>2, <2>1 DEF OnlyEntry
  <1>10. HoldKept(t)
    BY <1>2, <1>4 DEF HoldKept, SameCall
  <1> QED
    BY <1>2, <1>6, <1>7, <1>8, <1>9, <1>10, QuietStep

\* The next child has an entry, or the call begins to undo.
LEMMA ArrayChildKeeps ==
  ASSUME WaitInv, WideType', NEW t \in Threads, ArrayChild(t)
  PROVE  WaitInv'
  <1>1. WideType /\ CallInv(th[t]) /\ Sound(th[t])
    BY DEF WaitInv, WideType
  <1>2. /\ th[t].pc = "arr_child" /\ th[t].slot \in Slots /\ th[t].key \in Arrays
        /\ th[t].i \in 1 .. Len(Children[th[t].key])
        /\ SameCall(th'[t], th[t]) /\ OnlyThread(t)
        /\ th'[t].i = th[t].i /\ th'[t].signal = th[t].signal
        /\ \/ /\ th'[t].pc = "arr_link" /\ th'[t].child \in Slots
              /\ tbl[th'[t].child].key = Children[th[t].key][th[t].i]
           \/ th'[t].pc = "arr_undo"
        /\ UNCHANGED <<tbl, ended, told, waits>>
    BY <1>1, ArrayChildEffect
  <1>3. Len(Children[th[t].key]) \in Nat
    BY <1>2, ArrayElements
  <1>4. Holding(th[t]) /\ Holding(th'[t])
    BY <1>2, <1>3 DEF Holding, ArrayPcs, BuildPcs, UndoPcs
  <1>5. QuietTable
    BY <1>2 DEF QuietTable, SameFence, SameList, SameCount
  <1>6. PICK l : l = th'[t]
    OBVIOUS
  <1>7. Follows(th[t].slot) /\ Waiting(th[t].slot)' = Waiting(l.slot)'
    BY <1>2, <1>5, <1>6, QuietFollows DEF SameCall
  <1>8. BuildInv(th[t])
    BY <1>1 DEF CallInv
  <1>9. CallInv(l)'
    <2>1. RegisterInv(l)' /\ EndInv(l)' /\ l.pc \notin ResetPcs /\ l.pc # "arr_child"
      BY <1>2, <1>6 DEF RegisterInv, EndInv, ResetPcs
    <2>2. HolderInv(l)'
      BY <1>1, <1>2, <1>4, <1>6 DEF CallInv, HolderInv, SameCall
    <2>3. BuildInv(l)'
      BY <1>1, <1>2, <1>4, <1>6, <1>7, <1>8, BuildKept DEF BuildPcs
    <2>4. LinkInv(l)'
      BY <1>2, <1>6, <2>1 DEF LinkInv, SameCall
    <2>5. UndoInv(l)'
      BY <1>1, <1>2, <1>3, <1>4, <1>6, <1>8, UndoBegins DEF BuildPcs
    <2> QED
      BY <2>1, <2>2, <2>3, <2>4, <2>5 DEF CallInv
  <1>10. HoldKept(t)
    BY <1>2, <1>4 DEF HoldKept, SameCall
  <1> QED
    BY <1>2, <1>5, <1>6, <1>9, <1>10, QuietStep

\* When the join fence has counted all its children, they have ended; if not, it is
\* left to the fence controller with all of them linked.
LEMMA ArrayDoneKeeps ==
  ASSUME WaitInv, WideType', NEW t \in Threads, ArrayDone(t)
  PROVE  WaitInv'
  <1>1. WideType /\ CallInv(th[t]) /\ Sound(th[t])
    BY DEF WaitInv, WideType
  <1>2. PICK k, a, j, c : k = th[t] /\ a = th[t].key /\ j = th[t].slot /\ c = th[t].client
    OBVIOUS
  <1>3. /\ k.pc = "arr_child" /\ j \in Slots /\ a \in Arrays
        /\ k.i = Len(Children[a]) + 1 /\ OnlyThread(t)
        /\ UNCHANGED <<tbl, ended>>
    BY <1>1, <1>2, ArrayDoneEffect
  <1>4. Len(Children[a]) \in Nat
    BY <1>3, ArrayElements
  <1>5. QuietTable
    BY <1>3 DEF QuietTable, SameFence, SameList, SameCount
  <1>6. RegisterInv(k) /\ HolderInv(k) /\ BuildInv(k) /\ LinkInv(k)
    BY <1>1, <1>2 DEF CallInv
  <1>7. PICK l : l = th'[t]
    OBVIOUS
  <1>8. Holding(k) => /\ tbl[j].key = a
                      /\ Accounts(j, a, Len(Children[a]) + 1)
                      /\ \A s \in Slots, p \in Parents :
                           Linked(s, p, j) => Among(tbl[s].key, a, Len(Children[a]))
                      /\ (k.signal <=> Len(Children[a]) > 0 /\ tbl[j].pending_child_cnt = 0)
    BY <1>2, <1>3, <1>4, <1>6 DEF HolderInv, BuildInv, BuildPcs
  <1>9. CASE k.signal
    <2>1. /\ l.pc = "arr_destroy" /\ SameCall(l, k)
          /\ told' = told \union {<<c, tbl[j].key, tbl[j].error>>} /\ UNCHANGED waits
      BY <1>1, <1>2, <1>7, <1>9, ArrayDoneEffect
    <2>2. Holding(k) /\ Holding(l)
      BY <1>3, <1>9, <2>1 DEF Holding, ArrayPcs, BuildPcs
    <2>3. tbl[j].pending_child_cnt = 0 /\ tbl[j].key = a
      BY <1>8, <1>9, <2>2
    <2>4. Cardinality(Waiting(j)) = 0
      BY <1>4, <1>8, <2>2, <2>3, WaitingFinite DEF Accounts
    <2>5. \A s \in Slots, p \in Parents : ~Linked(s, p, j)
      BY <2>4, WaitingFinite, FS_EmptySet, WaitingLinked
    <2>6. \A m \in 1 .. Len(Children[a]) :
            /\ Children[a][m] \in Fences /\ HasEnded(Children[a][m])
            /\ ended[Children[a][m]] = "error" => tbl[j].error
      BY <1>4, <1>8, <2>2, <2>5 DEF Accounts, Accounted
    <2>7. ASSUME NEW x \in told', x \notin told PROVE Rightly(x)'
      <3>1. x[2] = a /\ x[3] = tbl[j].error
        <4>1. x = <<c, tbl[j].key, tbl[j].error>>
          BY <2>1, <2>7
        <4> QED
          BY <2>3, <4>1
      <3> QED
        BY <1>3, <2>6, <3>1, KeysApart DEF Rightly, HasEnded
    <2>8. Tells(c, a)
      <3>1. PICK e \in BOOLEAN : e = tbl[j].error
        BY <1>1, <1>3, EntryFields DEF WideType
      <3>2. <<c, a, e>> \in told'
        BY <2>1, <2>3, <3>1
      <3> QED
        BY <3>2 DEF Tells
    <2>9. CallInv(l)'
      <3>1. /\ RegisterInv(l)' /\ BuildInv(l)' /\ LinkInv(l)' /\ UndoInv(l)'
            /\ l.pc \notin ResetPcs
        BY <2>1 DEF RegisterInv, BuildInv, LinkInv, UndoInv, ResetPcs, BuildPcs
      <3>2. HolderInv(l)'
        BY <1>3, <1>6, <2>1, <2>2 DEF HolderInv, SameCall
      <3>3. EndInv(l)'
        <4>1. Told(l.client, l.key)'
          BY <1>2, <2>1, <2>8 DEF Told, Tells, SameCall
        <4>2. \A s \in Slots, p \in Parents : ~Linked(s, p, l.slot)'
          BY <1>2, <1>3, <2>1, <2>5 DEF Linked, SameCall
        <4>3. tbl'[l.slot].pending_child_cnt = 0
          BY <1>2, <1>3, <2>1, <2>3 DEF SameCall
        <4> QED
          BY <4>1, <4>2, <4>3 DEF EndInv
      <3> QED
        BY <3>1, <3>2, <3>3 DEF CallInv
    <2>10. HoldKept(t)
      BY <1>2, <1>3, <1>7, <2>1, <2>2 DEF HoldKept, SameCall
    <2>11. told \subseteq told'
      BY <2>1
    <2> QED
      BY <1>3, <1>5, <1>7, <2>1, <2>7, <2>9, <2>10, <2>11, QuietStep
  <1>10. CASE ~k.signal /\ Len(Children[a]) = 0
    <2>1. /\ l.pc = "arr_undo" /\ SameCall(l, k) /\ UNCHANGED <<told, waits>>
      BY <1>1, <1>2, <1>4, <1>7, <1>10, ArrayDoneEffect
    <2>2. Holding(k) /\ Holding(l)
      BY <1>2, <1>3, <1>10, <2>1 DEF Holding, ArrayPcs, BuildPcs, UndoPcs
    <2>3. \A s \in Slots, p \in Parents : ~Linked(s, p, j)
      BY <1>8, <1>10, <2>2 DEF Among
    <2>4. CallInv(l)'
      <3>1. /\ RegisterInv(l)' /\ BuildInv(l)' /\ LinkInv(l)' /\ EndInv(l)'
            /\ l.pc \notin ResetPcs
        BY <2>1 DEF RegisterInv, BuildInv, LinkInv, EndInv, ResetPcs, BuildPcs
      <3>2. HolderInv(l)'
        BY <1>3, <1>6, <2>1, <2>2 DEF HolderInv, SameCall
      <3>3. UndoInv(l)'
        <4>1. l.slot = j /\ l.key = a
          BY <1>2, <2>1 DEF SameCall
        <4>2. \A s \in Slots, p \in Parents : ~Linked(s, p, j)'
          BY <1>3, <2>3 DEF Linked
        <4> QED
          BY <1>10, <4>1, <4>2 DEF UndoInv
      <3> QED
        BY <3>1, <3>2, <3>3 DEF CallInv
    <2>5. HoldKept(t)
      BY <1>2, <1>3, <1>7, <2>1, <2>2 DEF HoldKept, SameCall
    <2> QED
      BY <1>3, <1>5, <1>7, <2>1, <2>4, <2>5, QuietStep
  <1>11. CASE ~k.signal /\ Len(Children[a]) > 0
    <2>1. l = Idle /\ waits' = waits \union {<<c, a>>} /\ UNCHANGED told
      BY <1>1, <1>2, <1>4, <1>7, <1>11, ArrayDoneEffect
    <2>2. ~Holding(k) /\ ~Holding(l)
      BY <1>2, <1>3, <1>4, <1>11, <2>1, IdleSound DEF Holding
    <2>3. HoldKept(t)
      BY <1>2, <1>3, <1>7, <2>2 DEF HoldKept
    <2>4. Awaits(c, a)'
      <3>1. Awaits(c, a)
        BY <1>2, <1>3, <1>6, <2>2 DEF LinkInv
      <3>2. \A s \in Slots : Serves(s, c, a) => Serves(s, c, a)'
        BY <1>3, <2>3, HeldSame DEF Serves
      <3> QED
        BY <2>1, <3>1, <3>2, AwaitsFramed
    <2>5. ASSUME NEW w \in waits', w \notin waits PROVE Awaits(w[1], w[2])'
      <3>1. w = <<c, a>>
        BY <2>1, <2>5
      <3>2. w[1] = c /\ w[2] = a
        BY <3>1
      <3> QED
        BY <2>4, <3>2
    <2>6. CallInv(l)'
      BY <2>1, IdleCall
    <2> QED
      BY <1>3, <1>5, <1>7, <2>1, <2>3, <2>5, <2>6, QuietStep
  <1> QED
    BY <1>4, <1>9, <1>10, <1>11

-----------------------------------------------------------------------------
(* Steps that fill or clear one entry. *)

\* The call with the local variables l goes by entry s.
Uses(l, s) ==
  \/ l.slot = s /\ (Holding(l) \/ l.pc \in {"reg_lock", "reg_check"})
  \/ l.child = s /\ l.pc = "arr_link"

\* Entry s, which has no part in anything, changes; the threads of T do not
\* move.
EntryChange(s, T) ==
  /\ OnlyEntry(s) /\ EndsKept /\ UNCHANGED told
  /\ \A r \in Slots, p \in Parents : ~Linked(r, p, s) /\ ~Linked(s, p, r) /\ ~Linked(s, p, r)'
  /\ \A c, k : ~Serves(s, c, k)
  /\ \A u \in T : th'[u] = th[u] /\ ~Uses(th[u], s)
  /\ \A j \in Slots : j # s => (Held(j)' <=> Held(j))

\* All join fences but s keep their links.
LEMMA EntryFollows ==
  ASSUME WaitInv, NEW s \in Slots, NEW T, EntryChange(s, T), NEW j \in Slots, j # s
  PROVE  Follows(j)
  <1>1. Framed(j)
    <2>1. tbl'[j] = tbl[j]
      BY DEF EntryChange, OnlyEntry
    <2>2. ASSUME NEW r \in Slots, NEW p \in Parents
          PROVE  /\ Linked(r, p, j)' <=> Linked(r, p, j)
                 /\ Linked(r, p, j) => tbl'[r].key = tbl[r].key
      <3>1. CASE r = s
        BY <3>1 DEF EntryChange
      <3>2. CASE r # s
        <4>1. tbl'[r] = tbl[r]
          BY <3>2 DEF EntryChange, OnlyEntry
        <4> QED
          BY <4>1 DEF Linked
      <3> QED
        BY <3>1, <3>2
    <2> QED
      BY <2>1, <2>2 DEF Framed, SameCount
  <1> QED
    BY <1>1, FramedFollows DEF EntryChange

\* All waiters are served as before.
LEMMA EntryAwaits ==
  ASSUME NEW s \in Slots, NEW T, EntryChange(s, T), NEW c, NEW k, Awaits(c, k)
  PROVE  Awaits(c, k)'
  <1>1. ASSUME NEW r \in Slots, Serves(r, c, k) PROVE Serves(r, c, k)'
    <2>1. r # s
      BY <1>1 DEF EntryChange
    <2>2. tbl'[r] = tbl[r] /\ (Held(r)' <=> Held(r))
      BY <2>1 DEF EntryChange, OnlyEntry
    <2> QED
      BY <1>1, <2>2 DEF Serves
  <1> QED
    BY <1>1, AwaitsFramed DEF EntryChange

\* Such a step keeps the invariant, except for what is said of entry s and of
\* the threads that are not in T.
LEMMA EntryStep ==
  ASSUME WaitInv, WideType', NEW s \in Slots, NEW T \in SUBSET Threads, EntryChange(s, T)
  PROVE  /\ \A j \in Slots : j # s => /\ EntryInv(j)' /\ JoinInv(j)'
                                      /\ tbl'[j].pending_child_cnt \in Nat
         /\ \A u \in T : CallInv(th[u])'
         /\ LinksLive' /\ \A x \in told' : Rightly(x)'
         /\ \A w \in waits : Awaits(w[1], w[2])'
  <1>1. WideType /\ LinksLive
    BY DEF WaitInv
  <1>2. ASSUME NEW j \in Slots, j # s
        PROVE  EntryInv(j)' /\ JoinInv(j)' /\ tbl'[j].pending_child_cnt \in Nat
    <2>1. tbl'[j] = tbl[j] /\ EntryInv(j) /\ JoinInv(j) /\ tbl[j].pending_child_cnt \in Nat
      BY <1>2 DEF EntryChange, OnlyEntry, WaitInv
    <2>2. EntryInv(j)'
      BY <2>1 DEF EntryInv, EntryChange, EndsKept
    <2>3. JoinInv(j)'
      <3>1. Follows(j) /\ (Held(j)' <=> Held(j))
        BY <1>2, EntryFollows DEF EntryChange
      <3> QED
        BY <1>1, <2>1, <3>1, JoinFollows
    <2> QED
      BY <2>1, <2>2, <2>3
  <1>3. ASSUME NEW u \in T PROVE CallInv(th[u])'
    <2>1. PICK l : l = th[u] /\ l = th'[u]
      BY DEF EntryChange
    <2>2. Sound(l) /\ CallInv(l) /\ ~Uses(l, s)
      BY <2>1 DEF WaitInv, WideType, EntryChange
    <2>3. Holding(l) => /\ l.slot \in Slots /\ l.slot # s
                        /\ tbl'[l.slot] = tbl[l.slot] /\ Follows(l.slot)
      BY <2>2, EntryFollows DEF Uses, Holding, Sound, EntryChange, OnlyEntry
    <2>4. l.pc \in {"reg_lock", "reg_check"} => tbl'[l.slot] = tbl[l.slot]
      BY <2>2 DEF Uses, Sound, EntryChange, OnlyEntry
    <2>5. l.pc = "arr_link" => tbl'[l.child] = tbl[l.child]
      BY <2>2 DEF Uses, Sound, EntryChange, OnlyEntry
    <2>6. Awaits(l.client, l.key) => Awaits(l.client, l.key)'
      BY EntryAwaits
    <2>7. told \subseteq told'
      BY DEF EntryChange
    <2>8. CallInv(l)'
      BY <1>1, <2>2, <2>3, <2>4, <2>5, <2>6, <2>7, CallFollows
    <2> QED
      BY <2>1, <2>8
  <1>4. LinksLive'
    <2> SUFFICES ASSUME NEW r \in Slots, NEW j \in Slots, NEW p \in Parents, Linked(r, p, j)'
                 PROVE  tbl'[j].key \in Arrays /\ IsChild(tbl'[r].key, tbl'[j].key)
      BY DEF LinksLive, IsChild
    <2>1. r # s
      BY DEF EntryChange
    <2>2. tbl'[r] = tbl[r]
      BY <2>1 DEF EntryChange, OnlyEntry
    <2>3. Linked(r, p, j)
      BY <2>2 DEF Linked
    <2>4. tbl'[j] = tbl[j]
      BY <2>3 DEF EntryChange, OnlyEntry
    <2> QED
      BY <1>1, <2>2, <2>3, <2>4 DEF LinksLive
  <1>5. \A x \in told' : Rightly(x)'
    <2>1. \A f \in Fences : HasEnded(f) => ended'[f] = ended[f]
      BY DEF EntryChange, EndsKept, HasEnded
    <2>2. \A x \in told' : x \notin told => Rightly(x)'
      BY DEF EntryChange
    <2> QED
      BY <2>1, <2>2, ToldFramed
  <1>6. \A w \in waits : Awaits(w[1], w[2])'
    BY EntryAwaits DEF WaitInv, WaitsKept
  <1> QED
    BY <1>2, <1>3, <1>4, <1>5, <1>6

\* A call goes by an entry that is in use.
LEMMA UsedEntry ==
  ASSUME WaitInv, NEW u \in Threads, NEW s \in Slots, Uses(th[u], s)
  PROVE  /\ tbl[s].key # None
         /\ tbl[s].key \in Fences => Referenced(tbl[s].key)
         /\ tbl[s].key \in Arrays => Holding(th[u]) /\ th[u].slot = s
  <1>1. Sound(th[u]) /\ CallInv(th[u])
    BY DEF WaitInv, WideType
  <1>2. CASE Holding(th[u]) /\ th[u].slot = s
    BY <1>2, HolderEntry, KeysApart
  <1>3. CASE th[u].pc \in {"reg_lock", "reg_check"} /\ th[u].slot = s
    <2>1. tbl[s].key = th[u].key /\ th[u].key \in Fences
      BY <1>1, <1>3 DEF CallInv, RegisterInv, Sound
    <2> QED
      BY <2>1, KeysApart DEF Referenced
  <1>4. CASE th[u].child = s /\ th[u].pc = "arr_link"
    <2>1. /\ tbl[s].key = Children[th[u].key][th[u].i] /\ th[u].key \in Arrays
          /\ th[u].i \in 1 .. Len(Children[th[u].key])
      BY <1>1, <1>4 DEF CallInv, LinkInv, Sound, ArrayPcs, BuildPcs
    <2>2. tbl[s].key \in Fences \union {NotHw}
      BY <2>1, ArrayElements
    <2>3. IsChild(tbl[s].key, th[u].key)
      BY <2>1, ArrayElements DEF IsChild
    <2>4. NotHw # None /\ NotHw \notin Arrays /\ None \notin Fences
      BY WaitAssumption
    <2> QED
      BY <2>1, <2>2, <2>3, <2>4, KeysApart DEF Referenced
  <1> QED
    BY <1>2, <1>3, <1>4 DEF Uses

\* A free entry has no part in anything.
LEMMA FreeUnused ==
  ASSUME WaitInv, NEW s \in Slots, tbl[s].key = None
  PROVE  /\ tbl[s] = Free /\ ~Held(s)
         /\ \A r \in Slots, p \in Parents : ~Linked(r, p, s) /\ ~Linked(s, p, r)
         /\ \A c, k : ~Serves(s, c, k)
         /\ \A u \in Threads : ~Uses(th[u], s)
  <1>1. tbl[s] = Free
    BY DEF WaitInv, EntryInv
  <1>2. ~Held(s)
    BY HeldEntry, KeysApart
  <1>3. \A r \in Slots, p \in Parents : ~Linked(r, p, s) /\ ~Linked(s, p, r)
    BY KeysApart DEF WaitInv, LinksLive, Linked
  <1>4. \A c, k : ~Serves(s, c, k)
    BY <1>1, FreeEntry DEF Serves
  <1>5. \A u \in Threads : ~Uses(th[u], s)
    BY UsedEntry
  <1> QED
    BY <1>1, <1>2, <1>3, <1>4, <1>5

\* A fence is created in an entry that nobody has to do with.
LEMMA CreateKeeps ==
  ASSUME WaitInv, WideType', NEW f \in Fences, Create(f)
  PROVE  WaitInv'
  <1>1. WideType /\ UniqueKey /\ OneHolder
    BY DEF WaitInv
  <1>2. /\ ended[f] = "new" /\ ended' = [ended EXCEPT ![f] = "no"] /\ Owner[f] \in Clients
        /\ UNCHANGED <<th, told, waits>>
    BY <1>1, CreateEffect
  <1>3. PICK s \in Slots :
          /\ tbl[s].key = None
          /\ tbl'[s].key = f /\ tbl'[s].alloc = Owner[f] /\ tbl'[s].mask = {}
          /\ tbl'[s].sig = FALSE /\ SameList(tbl'[s], Free) /\ SameCount(tbl'[s], Free)
          /\ OnlyEntry(s)
    BY <1>1, CreateEffect
  <1>4. ended'[f] = "no" /\ EndsKept
    BY <1>1, <1>2 DEF WideType, EndsKept
  <1>5. \A p \in Parents, r \in Slots : ~Linked(s, p, r)'
    BY <1>3, FreeEntry, WaitAssumption DEF Linked, SameList
  <1>6. EntryChange(s, Threads)
    BY <1>2, <1>3, <1>4, <1>5, FreeUnused DEF EntryChange, Held
  <1>7. UniqueKey'
    <2>1. \A r \in Slots : tbl[r].key # f
      BY <1>2 DEF WaitInv, EntryInv
    <2> QED
      BY <1>1, <1>3, <2>1 DEF UniqueKey, OnlyEntry
  <1>8. OneHolder'
    BY <1>1, <1>2 DEF OneHolder
  <1>9. EntryInv(s)' /\ JoinInv(s)' /\ tbl'[s].pending_child_cnt \in Nat
    <2>1. f \notin Arrays /\ f # None /\ Owner[f] # JoinClient
      BY <1>2, KeysApart, WaitAssumption
    <2>2. tbl'[s].error = FALSE /\ tbl'[s].pending_child_cnt = 0
      BY <1>3, FreeEntry DEF SameCount
    <2> QED
      BY <1>3, <1>4, <2>1, <2>2 DEF EntryInv, JoinInv
  <1> QED
    BY <1>2, <1>6, <1>7, <1>8, <1>9, EntryStep DEF WaitInv, WaitsKept

\* A fence is destroyed that has signalled and that nobody has a reference to.
LEMMA DestroyKeeps ==
  ASSUME WaitInv, WideType', NEW f \in Fences, Destroy(f)
  PROVE  WaitInv'
  <1>1. WideType /\ UniqueKey /\ OneHolder
    BY DEF WaitInv
  <1>2. PICK s \in Slots : tbl[s].key = f /\ tbl[s].sig
    BY <1>1, DestroyEffect
  <1>3. /\ ~Referenced(f) /\ UNCHANGED <<th, ended, told, waits>>
        /\ tbl'[s] = Free /\ OnlyEntry(s)
    <2>1. \A r \in Slots : tbl[r].key = f => r = s
      BY <1>1, <1>2, KeysApart DEF UniqueKey
    <2>2. Unique(f)
      BY <2>1 DEF Unique
    <2> QED
      BY <1>1, <1>2, <2>1, <2>2, DestroyEffect DEF OnlyEntry
  <1>4. EntryChange(s, Threads)
    <2>1. \A u \in Threads : ~Uses(th[u], s)
      BY <1>2, <1>3, UsedEntry
    <2>2. \A r \in Slots, p \in Parents : ~Linked(r, p, s) /\ ~Linked(s, p, r) /\ ~Linked(s, p, r)'
      BY <1>2, <1>3, FreeEntry, KeysApart DEF WaitInv, LinksLive, Linked
    <2>3. \A c, k : ~Serves(s, c, k)
      BY <1>2 DEF Serves
    <2> QED
      BY <1>3, <2>1, <2>2, <2>3 DEF EntryChange, EndsKept, Held
  <1>5. UniqueKey'
    BY <1>1, <1>3, FreeEntry DEF UniqueKey, OnlyEntry
  <1>6. OneHolder'
    BY <1>1, <1>3 DEF OneHolder
  <1>7. EntryInv(s)' /\ JoinInv(s)' /\ tbl'[s].pending_child_cnt \in Nat
    BY <1>3, FreeEntry, KeysApart DEF EntryInv, JoinInv
  <1> QED
    BY <1>3, <1>4, <1>5, <1>6, <1>7, EntryStep DEF WaitInv, WaitsKept

\* A join fence is created, with no links and nobody to wait for it yet.
LEMMA ArrayStartKeeps ==
  ASSUME WaitInv, JoinsKnown, OneWaiter, WideType',
         NEW t \in Threads, NEW c \in Clients, NEW a \in Arrays,
         ArrayStart(t, c, a)
  PROVE  WaitInv'
  <1>1. WideType /\ UniqueKey /\ OneHolder
    BY DEF WaitInv
  <1>2. /\ \A s \in Slots : tbl[s].key # a
        /\ OnlyThread(t) /\ th[t].pc = "idle" /\ UNCHANGED <<ended, told, waits>>
    <2>1. \A s \in Slots : tbl[s].key # a
      BY DEF ArrayStart, MayJoin, JoinsKnown, Known
    <2>2. th[t].pc = "idle" /\ UNCHANGED <<ended, told, waits>>
      BY DEF ArrayStart, At
    <2>3. OnlyThread(t)
      BY <1>1, ArrayStartEffect
    <2> QED
      BY <2>1, <2>2, <2>3
  <1>3. PICK s \in Slots :
          /\ tbl[s].key = None
          /\ tbl'[s].key = a /\ tbl'[s].alloc = JoinClient /\ tbl'[s].mask = {}
          /\ ~tbl'[s].sig /\ SameList(tbl'[s], Free) /\ ~tbl'[s].error
          /\ tbl'[s].pending_child_cnt = Len(Children[a])
          /\ OnlyEntry(s)
          /\ th'[t].pc = "arr_mask" /\ th'[t].client = c /\ th'[t].key = a
          /\ th'[t].slot = s /\ th'[t].i = 1 /\ ~th'[t].signal
    BY <1>1, ArrayStartEffect
  <1>4. Len(Children[a]) \in Nat
    BY ArrayElements
  <1>5. ~Holding(th[t]) /\ Holding(th'[t])
    BY <1>2, <1>3 DEF Holding, ArrayPcs, BuildPcs, UndoPcs
  <1>6. \A p \in Parents, r \in Slots : ~Linked(s, p, r)'
    BY <1>3, KeysApart DEF Linked
  <1>7. EntryChange(s, Threads \ {t})
    <2>1. \A j \in Slots : j # s => (Held(j)' <=> Held(j))
      BY <1>2, <1>3, <1>5 DEF Held, OnlyThread
    <2> QED
      BY <1>2, <1>3, <1>6, <2>1, FreeUnused DEF EntryChange, EndsKept, OnlyThread
  <1>8. UniqueKey'
    BY <1>1, <1>2, <1>3 DEF UniqueKey, OnlyEntry
  <1>9. OneHolder'
    <2>1. \A u \in Threads : u # t /\ Holding(th'[u]) => th'[u].slot # s
      BY <1>2, <1>3, FreeUnused DEF OnlyThread, Held
    <2> QED
      BY <1>1, <1>2, <1>3, <1>5, <2>1 DEF OneHolder, OnlyThread
  <1>10. EntryInv(s)' /\ JoinInv(s)' /\ tbl'[s].pending_child_cnt \in Nat
    <2>1. Held(s)'
      BY <1>3, <1>5 DEF Held
    <2> QED
      BY <1>3, <1>4, <2>1, KeysApart DEF EntryInv, JoinInv
  <1>11. \A r \in Slots, p \in Parents : ~Linked(r, p, s)'
    <2> SUFFICES ASSUME NEW r \in Slots, NEW p \in Parents PROVE ~Linked(r, p, s)'
      OBVIOUS
    <2>1. CASE r = s
      BY <1>6, <2>1
    <2>2. CASE r # s
      <3>1. tbl'[r] = tbl[r] /\ ~Linked(r, p, s)
        BY <1>3, <2>2, FreeUnused DEF OnlyEntry
      <3> QED
        BY <3>1 DEF Linked
    <2> QED
      BY <2>1, <2>2
  <1>12. PICK l : l = th'[t]
    OBVIOUS
  <1>13. CallInv(l)'
    <2>1. /\ RegisterInv(l)' /\ LinkInv(l)' /\ UndoInv(l)' /\ EndInv(l)'
          /\ l.pc \notin ResetPcs
      BY <1>3, <1>12 DEF RegisterInv, LinkInv, UndoInv, EndInv, ResetPcs
    <2>2. HolderInv(l)'
      BY <1>3, <1>12 DEF HolderInv
    <2>3. Cardinality(Waiting(s)') = 0
      <3>1. Waiting(s)' = {}
        BY <1>11 DEF Waiting, Linked
      <3> QED
        BY <3>1, FS_EmptySet
    <2>4. Accounts(s, a, 1)'
      BY <1>3, <1>4, <2>3 DEF Accounts
    <2>5. BuildInv(l)'
      BY <1>3, <1>11, <1>12, <2>4 DEF BuildInv
    <2> QED
      BY <2>1, <2>2, <2>5 DEF CallInv
  <1>14. \A u \in Threads \ {t} : CallInv(th[u])'
    BY <1>7, EntryStep
  <1> QED
    BY <1>2, <1>7, <1>8, <1>9, <1>10, <1>12, <1>13, <1>14, EntryStep DEF WaitInv, WaitsKept

\* A join fence without links is destroyed by the call that has it.
LEMMA ArrayEndKeeps ==
  ASSUME WaitInv, WideType', NEW t \in Threads, ArrayDestroy(t) \/ ArrayFail(t)
  PROVE  WaitInv'
  <1>1. WideType /\ UniqueKey /\ OneHolder /\ CallInv(th[t])
    BY DEF WaitInv
  <1>2. PICK c, a, s : c = th[t].client /\ a = th[t].key /\ s = th[t].slot
    OBVIOUS
  <1>3. /\ s \in Slots /\ a \in Arrays /\ th'[t] = Idle /\ OnlyThread(t)
        /\ Unique(a) => \A r \in Slots : tbl'[r] = IF tbl[r].key = a THEN Free ELSE tbl[r]
        /\ \/ th[t].pc = "arr_destroy" /\ waits' = waits \union {<<c, a>>}
           \/ th[t].pc = "arr_fail" /\ UNCHANGED waits
        /\ UNCHANGED <<ended, told>>
    BY <1>1, <1>2, ArrayEndEffect
  <1>4. Holding(th[t]) /\ ~Holding(th'[t])
    BY <1>3, IdleSound DEF Holding, ArrayPcs, UndoPcs
  <1>5. tbl[s].key = a /\ Held(s)
    BY <1>2, <1>4, HolderEntry
  <1>6. tbl'[s] = Free /\ OnlyEntry(s)
    <2>1. \A r \in Slots : tbl[r].key = a => r = s
      BY <1>1, <1>3, <1>5, KeysApart DEF UniqueKey
    <2>2. Unique(a)
      BY <2>1 DEF Unique
    <2> QED
      BY <1>3, <1>5, <2>1, <2>2 DEF OnlyEntry
  <1>7. EntryChange(s, Threads \ {t})
    <2>1. ASSUME NEW u \in Threads \ {t} PROVE th'[u] = th[u] /\ ~Uses(th[u], s)
      BY <1>1, <1>2, <1>3, <1>4, <1>5, UsedEntry DEF OnlyThread, OneHolder
    <2>2. \A r \in Slots, p \in Parents : ~Linked(r, p, s)
      BY <1>1, <1>2, <1>3 DEF CallInv, EndInv
    <2>3. \A r \in Slots, p \in Parents : ~Linked(s, p, r) /\ ~Linked(s, p, r)'
      BY <1>3, <1>5, <1>6, FreeEntry, KeysApart DEF Linked
    <2>4. \A k, b : ~Serves(s, k, b)
      BY <1>5 DEF Serves
    <2>5. \A j \in Slots : j # s => (Held(j)' <=> Held(j))
      BY <1>2, <1>3, <1>4 DEF Held, OnlyThread
    <2> QED
      BY <1>3, <1>6, <2>1, <2>2, <2>3, <2>4, <2>5 DEF EntryChange, EndsKept
  <1>8. UniqueKey'
    BY <1>1, <1>6, FreeEntry DEF UniqueKey, OnlyEntry
  <1>9. OneHolder'
    BY <1>1, <1>3, <1>4 DEF OneHolder, OnlyThread
  <1>10. EntryInv(s)' /\ JoinInv(s)' /\ tbl'[s].pending_child_cnt \in Nat
    BY <1>6, FreeEntry, KeysApart DEF EntryInv, JoinInv
  <1>11. \A u \in Threads : CallInv(th[u])'
    <2>1. CallInv(th[t])'
      BY <1>3, IdleCall
    <2>2. \A u \in Threads \ {t} : CallInv(th[u])'
      BY <1>3, <1>7, EntryStep
    <2> QED
      BY <2>1, <2>2
  <1>12. WaitsKept'
    <2>1. \A w \in waits : Awaits(w[1], w[2])'
      BY <1>3, <1>7, EntryStep
    <2>2. th[t].pc = "arr_destroy" => Awaits(c, a)'
      <3>1. th[t].pc = "arr_destroy" => Awaits(c, a)
        BY <1>1, <1>2 DEF CallInv, EndInv, Awaits
      <3> QED
        BY <1>3, <1>7, <3>1, EntryAwaits
    <2>3. ASSUME NEW w \in waits', w \notin waits PROVE Awaits(w[1], w[2])'
      <3>1. w = <<c, a>> /\ th[t].pc = "arr_destroy"
        BY <1>3, <2>3
      <3>2. w[1] = c /\ w[2] = a
        BY <3>1
      <3> QED
        BY <2>2, <3>1, <3>2
    <2> QED
      BY <2>1, <2>3 DEF WaitsKept
  <1> QED
    BY <1>3, <1>7, <1>8, <1>9, <1>10, <1>11, <1>12, EntryStep DEF WaitInv

-----------------------------------------------------------------------------
(* Steps that link a child. *)

\* The child that a call is about to link.
LEMMA ChildEntry ==
  ASSUME WaitInv, NEW t \in Threads, th[t].pc = "arr_link"
  PROVE  /\ th[t].child \in Slots /\ tbl[th[t].child].key \in Fences
         /\ tbl[th[t].child].key = Children[th[t].key][th[t].i]
         /\ th[t].slot \in Slots /\ th[t].key \in Arrays
         /\ th[t].i \in 1 .. Len(Children[th[t].key]) /\ Len(Children[th[t].key]) \in Nat
         /\ Holding(th[t])
  <1>1. Sound(th[t]) /\ CallInv(th[t]) /\ WideType
    BY DEF WaitInv, WideType
  <1>2. /\ th[t].child \in Slots /\ th[t].slot \in Slots /\ th[t].key \in Arrays
        /\ th[t].i \in 1 .. Len(Children[th[t].key])
        /\ tbl[th[t].child].key = Children[th[t].key][th[t].i]
    BY <1>1 DEF Sound, CallInv, LinkInv, ArrayPcs, BuildPcs
  <1>3. Children[th[t].key][th[t].i] \in Fences \union {NotHw} /\ Len(Children[th[t].key]) \in Nat
    BY <1>2, ArrayElements
  <1>4. tbl[th[t].child].key \in Keys \union {None}
    BY <1>1, <1>2, EntryFields DEF WideType
  <1>5. NotHw \notin Keys \union {None}
    BY WaitAssumption DEF Keys
  <1>6. Holding(th[t])
    BY DEF Holding, ArrayPcs, BuildPcs
  <1> QED
    BY <1>2, <1>3, <1>4, <1>5, <1>6

\* Before the last child is linked, a join fence waits for something.
LEMMA BuildPending ==
  ASSUME NEW k, Holding(k), BuildInv(k), k.pc \in BuildPcs,
         k.key \in Arrays, k.i \in 1 .. Len(Children[k.key])
  PROVE  /\ tbl[k.slot].pending_child_cnt
              = (Len(Children[k.key]) + 1 - k.i) + Cardinality(Waiting(k.slot))
         /\ tbl[k.slot].pending_child_cnt >= 1 + Cardinality(Waiting(k.slot))
         /\ ~k.signal
  <1>1. tbl[k.slot].pending_child_cnt
           = (Len(Children[k.key]) + 1 - k.i) + Cardinality(Waiting(k.slot))
    BY DEF BuildInv, Accounts
  <1>2. Cardinality(Waiting(k.slot)) \in Nat /\ Len(Children[k.key]) \in Nat
    BY WaitingFinite, ArrayElements
  <1>3. tbl[k.slot].pending_child_cnt >= 1 + Cardinality(Waiting(k.slot))
    BY <1>1, <1>2
  <1>4. ~k.signal
    BY <1>2, <1>3 DEF BuildInv
  <1> QED
    BY <1>1, <1>3, <1>4

\* Thread t has linked element i of array a to its join fence j.
LinkChange(t, j, a, i) ==
  /\ th[t].pc = "arr_link" /\ th'[t].pc = "arr_child" /\ SameCall(th'[t], th[t])
  /\ th[t].slot = j /\ th[t].key = a /\ th[t].i = i /\ th'[t].i = i + 1
  /\ OnlyThread(t) /\ UNCHANGED <<ended, told, waits>>
  /\ \A r \in Slots : SameFence(tbl'[r], tbl[r]) /\ tbl'[r].mask = tbl[r].mask
  /\ \A r \in Slots : tbl[r].key = None => tbl'[r] = tbl[r]
  /\ \A r \in Slots : r # j => Framed(r)
  /\ th'[t].signal <=> tbl'[j].pending_child_cnt = 0
  /\ tbl'[j].pending_child_cnt \in Nat
  /\ Accounts(j, a, i + 1)'
  /\ \A s \in Slots, p \in Parents : Linked(s, p, j)' => Among(tbl'[s].key, a, i)

\* Such a step keeps the invariant.
LEMMA LinkStep ==
  ASSUME WaitInv, WideType', NEW t \in Threads, NEW j, NEW a, NEW i, LinkChange(t, j, a, i)
  PROVE  WaitInv'
  <1>1. WideType /\ UniqueKey /\ OneHolder /\ LinksLive /\ CallInv(th[t])
    BY DEF WaitInv
  <1>2. /\ j \in Slots /\ a \in Arrays /\ i \in 1 .. Len(Children[a])
        /\ Len(Children[a]) \in Nat /\ Holding(th[t])
    BY ChildEntry DEF LinkChange
  <1>3. tbl[j].key = a /\ Held(j)
    BY <1>2, HolderEntry DEF LinkChange
  <1>4. \A r \in Slots : /\ tbl'[r].key = tbl[r].key /\ tbl'[r].sig = tbl[r].sig
                         /\ tbl'[r].alloc = tbl[r].alloc /\ tbl'[r].mask = tbl[r].mask
    BY DEF LinkChange, SameFence
  <1>5. \A r \in Slots : r # j => /\ Follows(r) /\ SameCount(tbl'[r], tbl[r])
                                  /\ (Held(r)' <=> Held(r))
    <2>1. EndsKept
      BY DEF EndsKept, LinkChange
    <2>2. \A r \in Slots : r # j => Follows(r) /\ SameCount(tbl'[r], tbl[r])
      BY <2>1, FramedFollows DEF LinkChange, Framed
    <2>3. \A r \in Slots : r # j => (Held(r)' <=> Held(r))
      BY DEF Held, LinkChange, OnlyThread, SameCall
    <2> QED
      BY <2>2, <2>3
  <1>6. /\ \A u \in Threads : Holding(th'[u]) => Holding(th[u]) /\ th'[u].slot = th[u].slot
        /\ ~Holding(th'[t]) => ~Held(j)'
    BY <1>1, <1>2 DEF LinkChange, OnlyThread, SameCall, OneHolder, Held
  <1>7. UniqueKey' /\ OneHolder'
    BY <1>1, <1>4, <1>6 DEF UniqueKey, OneHolder
  <1>8. ~Holding(th'[t]) => i + 1 = Len(Children[a]) + 1
    <2>1. ~Holding(th'[t]) => ~(i + 1 <= Len(Children[a]))
      BY <1>2 DEF LinkChange, Holding, SameCall, ArrayPcs, BuildPcs
    <2> QED
      BY <1>2, <2>1
  <1>9. ASSUME NEW r \in Slots
        PROVE  EntryInv(r)' /\ JoinInv(r)' /\ tbl'[r].pending_child_cnt \in Nat
    <2>1. EntryInv(r) /\ JoinInv(r) /\ tbl[r].pending_child_cnt \in Nat
      BY DEF WaitInv
    <2>2. tbl[r].key \in Fences => tbl'[r].error = tbl[r].error
      BY <1>2, <1>3, <1>5, KeysApart DEF SameCount
    <2>3. EntryInv(r)'
      BY <1>4, <2>1, <2>2 DEF EntryInv, LinkChange
    <2>4. CASE r = j
      <3>1. ~Held(j)' => Accounts(j, a, Len(Children[a]) + 1)'
        <4>1. ~Held(j)' => ~Holding(th'[t])
          BY DEF Held, LinkChange, SameCall
        <4> QED
          BY <1>8, <4>1 DEF LinkChange
      <3>2. JoinInv(j)'
        BY <1>2, <1>3, <1>4, <3>1 DEF JoinInv
      <3> QED
        BY <2>3, <2>4, <3>2 DEF LinkChange
    <2>5. CASE r # j
      <3>1. JoinInv(r)'
        BY <1>1, <1>5, <2>1, <2>5, JoinFollows
      <3> QED
        BY <1>5, <2>1, <2>3, <2>5, <3>1 DEF SameCount
    <2> QED
      BY <2>4, <2>5
  <1>10. LinksLive'
    <2> SUFFICES ASSUME NEW s \in Slots, NEW r \in Slots, NEW p \in Parents, Linked(s, p, r)'
                 PROVE  tbl'[r].key \in Arrays /\ IsChild(tbl'[s].key, tbl'[r].key)
      BY DEF LinksLive, IsChild
    <2>1. CASE r = j
      <3>1. DOMAIN Children[a] = 1 .. Len(Children[a])
        BY <1>2, ArrayElements
      <3> QED
        BY <1>2, <1>3, <1>4, <2>1, <3>1 DEF LinkChange, Among, IsChild
    <2>2. CASE r # j
      BY <1>1, <1>4, <2>2 DEF LinksLive, LinkChange, Framed
    <2> QED
      BY <2>1, <2>2
  <1>11. \A c, k : Awaits(c, k) => Awaits(c, k)'
    <2> SUFFICES ASSUME NEW c, NEW k, Awaits(c, k) PROVE Awaits(c, k)'
      OBVIOUS
    <2>1. \A s \in Slots : Serves(s, c, k) => Serves(s, c, k)'
      BY <1>3, <1>4, <1>5 DEF Serves
    <2> QED
      BY <2>1, AwaitsFramed DEF LinkChange
  <1>12. WaitsKept' /\ \A x \in told' : Rightly(x)'
    <2>1. \A w \in waits' : Awaits(w[1], w[2])'
      BY <1>11 DEF WaitInv, WaitsKept, LinkChange
    <2>2. \A x \in told' : Rightly(x)'
      BY ToldFramed DEF LinkChange
    <2> QED
      BY <2>1, <2>2 DEF WaitsKept
  <1>13. CallInv(th[t])'
    <2>1. PICK l : l = th'[t]
      OBVIOUS
    <2>2. /\ l.pc = "arr_child" /\ l.slot = j /\ l.key = a /\ l.i = i + 1
          /\ l.client = th[t].client
          /\ (l.signal <=> tbl'[j].pending_child_cnt = 0)
      BY <2>1 DEF LinkChange, SameCall
    <2>3. tbl[j].mask \subseteq {l.client} /\ l.client \in tbl[j].mask
      BY <1>1, <1>2, <2>2 DEF CallInv, HolderInv, LinkChange
    <2>4. RegisterInv(l)' /\ UndoInv(l)' /\ EndInv(l)' /\ l.pc \notin ResetPcs
      BY <2>2 DEF RegisterInv, UndoInv, EndInv, ResetPcs
    <2>5. HolderInv(l)'
      BY <1>2, <1>3, <1>4, <2>2, <2>3 DEF HolderInv
    <2>6. BuildInv(l)'
      <3>1. i + 1 > 1 /\ (i + 1) - 1 = i
        BY <1>2
      <3> QED
        BY <2>2, <3>1 DEF BuildInv, LinkChange, Among
    <2>7. LinkInv(l)'
      <3>1. ASSUME ~Holding(l) PROVE Awaits(l.client, l.key)'
        <4>1. ~Held(j)'
          BY <1>6, <2>1, <3>1
        <4>2. ~tbl[j].sig
          BY <1>2, <1>3 DEF WaitInv, EntryInv
        <4>3. Serves(j, l.client, l.key)'
          BY <1>2, <1>3, <1>4, <2>2, <2>3, <4>1, <4>2 DEF Serves
        <4> QED
          BY <1>2, <4>3 DEF Awaits
      <3> QED
        BY <2>2, <3>1 DEF LinkInv
    <2>8. CallInv(l)'
      BY <2>4, <2>5, <2>6, <2>7 DEF CallInv
    <2> QED
      BY <2>1, <2>8
  <1>14. ASSUME NEW u \in Threads, u # t PROVE CallInv(th[u])'
    <2>1. PICK l : l = th[u] /\ l = th'[u]
      BY <1>14 DEF LinkChange, OnlyThread
    <2>2. Sound(l) /\ CallInv(l)
      BY <2>1 DEF WaitInv, WideType
    <2>3. Holding(l) => l.slot \in Slots /\ l.slot # j
      BY <1>1, <1>2, <1>14, <2>1, HolderEntry DEF OneHolder, LinkChange
    <2>4. l.pc \in {"reg_lock", "reg_check"} => l.slot \in Slots
      BY <2>2 DEF Sound
    <2>5. l.pc = "arr_link" => l.child \in Slots
      BY <2>2 DEF Sound
    <2>6. told \subseteq told'
      BY DEF LinkChange
    <2>7. CallInv(l)'
      BY <1>1, <1>4, <1>5, <1>11, <2>2, <2>3, <2>4, <2>5, <2>6, CallFollows DEF SameCount
    <2> QED
      BY <2>1, <2>7
  <1> QED
    BY <1>7, <1>9, <1>10, <1>12, <1>13, <1>14 DEF WaitInv

\* A child that has signalled is counted at once.
LEMMA LinkSignalledKeeps ==
  ASSUME WaitInv, WideType', NEW t \in Threads, LinkSignalled(t)
  PROVE  WaitInv'
  <1>1. WideType /\ CallInv(th[t])
    BY DEF WaitInv
  <1>2. PICK k, j, a, i, x : /\ k = th[t] /\ j = th[t].slot /\ a = th[t].key
                             /\ i = th[t].i /\ x = th[t].child
    OBVIOUS
  <1>3. /\ k.pc = "arr_link" /\ th'[t].pc = "arr_child" /\ SameCall(th'[t], k)
        /\ j \in Slots /\ x \in Slots /\ tbl[x].sig /\ th'[t].i = i + 1
        /\ OnlyThread(t) /\ OnlyEntry(j) /\ UNCHANGED <<ended, told, waits>>
    BY <1>1, <1>2, LinkSignalledEffect
  <1>4. /\ tbl'[j].mask = tbl[j].mask
        /\ SameFence(tbl'[j], tbl[j]) /\ SameList(tbl'[j], tbl[j])
        /\ tbl'[j].pending_child_cnt = tbl[j].pending_child_cnt - 1
    BY <1>1, <1>2, LinkSignalledEffect
  <1>5. /\ tbl'[j].error = (tbl[j].error \/ tbl[x].error)
        /\ th'[t].signal = (k.signal \/ tbl'[j].pending_child_cnt = 0)
    BY <1>1, <1>2, LinkSignalledEffect
  <1>6. /\ a \in Arrays /\ i \in 1 .. Len(Children[a]) /\ Len(Children[a]) \in Nat
        /\ tbl[x].key \in Fences /\ tbl[x].key = Children[a][i]
        /\ Holding(k)
    BY <1>2, <1>3, ChildEntry
  <1>7. tbl[j].key = a
    BY <1>2, <1>6, HolderEntry
  <1>8. BuildInv(k) /\ k.pc \in BuildPcs
    BY <1>1, <1>2, <1>3 DEF CallInv, BuildPcs
  <1>9. /\ tbl[j].pending_child_cnt = (Len(Children[a]) + 1 - i) + Cardinality(Waiting(j))
        /\ tbl[j].pending_child_cnt >= 1 + Cardinality(Waiting(j)) /\ ~k.signal
    BY <1>2, <1>6, <1>8, BuildPending
  <1>10. Cardinality(Waiting(j)) \in Nat /\ tbl[j].pending_child_cnt \in Nat
    BY <1>3, WaitingFinite DEF WaitInv
  <1>11. \A r \in Slots : SameFence(tbl'[r], tbl[r]) /\ SameList(tbl'[r], tbl[r])
    BY <1>3, <1>4 DEF OnlyEntry, SameFence, SameList
  <1>12. \A s, r \in Slots, p \in Parents : Linked(s, p, r)' <=> Linked(s, p, r)
    BY <1>11 DEF Linked, SameFence, SameList
  <1>13. \A r \in Slots : r # j => Framed(r)
    BY <1>3, <1>11, <1>12 DEF Framed, OnlyEntry, SameFence, SameCount
  <1>14. Waiting(j)' = Waiting(j)
    BY <1>11 DEF Waiting, SameFence, SameList
  <1>15. Accounts(j, a, i + 1)'
    <2>1. tbl'[j].pending_child_cnt
            = (Len(Children[a]) + 1 - (i + 1)) + Cardinality(Waiting(j)')
      <3>1. Cardinality(Waiting(j)') = Cardinality(Waiting(j))
        BY <1>14
      <3>2. PICK n, w, q, r : /\ n = Len(Children[a]) /\ w = Cardinality(Waiting(j))
                              /\ q = tbl[j].pending_child_cnt /\ r = tbl'[j].pending_child_cnt
        OBVIOUS
      <3>3. /\ n \in Nat /\ w \in Nat /\ q \in Nat /\ i \in 1 .. n
            /\ q = (n + 1 - i) + w /\ r = q - 1
        BY <1>4, <1>6, <1>9, <1>10, <3>2
      <3>4. r = (n + 1 - (i + 1)) + w
        BY <3>3
      <3> QED
        BY <3>1, <3>2, <3>4
    <2>2. ASSUME NEW m \in 1 .. Len(Children[a]), m < i + 1
          PROVE  Accounted(j, Children[a][m])'
      <3>1. PICK f : f = Children[a][m]
        OBVIOUS
      <3>2. CASE m = i
        <4>1. f = tbl[x].key /\ f \in Fences
          BY <1>6, <3>1, <3>2
        <4>2. ended[f] \in {"ok", "error"} /\ (ended[f] = "error" => tbl[x].error)
          BY <1>3, <4>1 DEF WaitInv, EntryInv
        <4>3. Accounted(j, f)'
          BY <1>3, <1>5, <4>1, <4>2 DEF Accounted, HasEnded
        <4> QED
          BY <3>1, <4>3
      <3>3. CASE m # i
        <4>1. m < i
          BY <1>6, <2>2, <3>3
        <4>2. Accounted(j, f)
          BY <1>2, <1>6, <1>8, <3>1, <4>1 DEF BuildInv, Accounts
        <4>3. \/ HasEnded(f)
              \/ \E s \in Slots, p \in Parents : Linked(s, p, j)' /\ tbl'[s].key = f
          BY <1>3, <1>11, <1>12, <4>2 DEF Accounted, SameFence
        <4>4. Accounted(j, f)'
          BY <1>3, <1>5, <4>2, <4>3 DEF Accounted, HasEnded
        <4> QED
          BY <3>1, <4>4
      <3> QED
        BY <3>2, <3>3
    <2> QED
      BY <2>1, <2>2 DEF Accounts
  <1>16. \A s \in Slots, p \in Parents : Linked(s, p, j)' => Among(tbl'[s].key, a, i)
    <2>1. \A s \in Slots, p \in Parents : Linked(s, p, j) => Among(tbl[s].key, a, i - 1)
      BY <1>2, <1>6, <1>8 DEF BuildInv
    <2>2. \A f : Among(f, a, i - 1) => Among(f, a, i)
      BY <1>6 DEF Among
    <2> QED
      BY <1>3, <1>11, <1>12, <2>1, <2>2 DEF SameFence
  <1>17. /\ \A r \in Slots : tbl'[r].mask = tbl[r].mask
         /\ \A r \in Slots : tbl[r].key = None => tbl'[r] = tbl[r]
    BY <1>3, <1>4, <1>6, <1>7, KeysApart DEF OnlyEntry
  <1>18. tbl'[j].pending_child_cnt \in Nat
    BY <1>4, <1>9, <1>10
  <1>19. LinkChange(t, j, a, i)
    BY <1>2, <1>3, <1>5, <1>9, <1>11, <1>13, <1>15, <1>16, <1>17, <1>18 DEF LinkChange
  <1> QED
    BY <1>19, LinkStep

\* A child still to signal is counted by its link.  The place behind the last
\* parent is free, since there are no parents behind it.
LEMMA LinkPendingKeeps ==
  ASSUME WaitInv, ListsClosed, WideType', NEW t \in Threads, LinkPending(t)
  PROVE  WaitInv'
  <1>1. WideType /\ CallInv(th[t]) /\ Sound(th[t])
    BY DEF WaitInv, WideType
  <1>2. PICK k, j, a, i, x : /\ k = th[t] /\ j = th[t].slot /\ a = th[t].key
                             /\ i = th[t].i /\ x = th[t].child
    OBVIOUS
  <1>3. /\ k.pc = "arr_link" /\ SameCall(th'[t], k) /\ th'[t].signal = k.signal
        /\ j \in Slots /\ x \in Slots /\ ~tbl[x].sig
        /\ OnlyThread(t) /\ UNCHANGED <<ended, told, waits>>
    BY <1>1, <1>2, LinkPendingEffect
  <1>4. /\ a \in Arrays /\ i \in 1 .. Len(Children[a]) /\ Len(Children[a]) \in Nat
        /\ tbl[x].key \in Fences /\ tbl[x].key = Children[a][i]
        /\ Holding(k)
    BY <1>2, <1>3, ChildEntry
  <1>5. tbl[j].key = a /\ x # j
    BY <1>2, <1>4, HolderEntry, KeysApart
  <1>6. BuildInv(k) /\ HolderInv(k) /\ k.pc \in BuildPcs
    BY <1>1, <1>2, <1>3 DEF CallInv, BuildPcs
  <1>7. /\ tbl[j].pending_child_cnt = (Len(Children[a]) + 1 - i) + Cardinality(Waiting(j))
        /\ tbl[j].pending_child_cnt >= 1 + Cardinality(Waiting(j)) /\ ~k.signal
    BY <1>2, <1>4, <1>6, BuildPending
  <1>8. Cardinality(Waiting(j)) \in Nat /\ tbl[j].pending_child_cnt \in Nat
    BY <1>3, WaitingFinite DEF WaitInv
  <1>9. CASE th'[t].pc = "arr_undo" /\ th'[t].i = i /\ UNCHANGED tbl
    <2>1. PICK l : l = th'[t]
      OBVIOUS
    <2>2. Holding(l)
      BY <1>9, <2>1 DEF Holding, ArrayPcs, UndoPcs
    <2>3. CallInv(l)'
      <3>1. /\ RegisterInv(l)' /\ BuildInv(l)' /\ LinkInv(l)' /\ EndInv(l)'
            /\ l.pc \notin ResetPcs
        BY <1>9, <2>1 DEF RegisterInv, BuildInv, LinkInv, EndInv, ResetPcs, BuildPcs
      <3>2. HolderInv(l)'
        BY <1>3, <1>4, <1>6, <1>9, <2>1 DEF HolderInv, SameCall
      <3>3. UndoInv(l)'
        BY <1>1, <1>2, <1>3, <1>4, <1>6, <1>9, <2>1, UndoBegins
      <3> QED
        BY <3>1, <3>2, <3>3 DEF CallInv
    <2>4. QuietTable
      BY <1>9 DEF QuietTable, SameFence, SameList, SameCount
    <2>5. HoldKept(t)
      BY <1>2, <1>3, <1>4, <2>1, <2>2 DEF HoldKept, SameCall
    <2> QED
      BY <1>3, <1>9, <2>1, <2>3, <2>4, <2>5, QuietStep
  <1>10. CASE ~(th'[t].pc = "arr_undo" /\ th'[t].i = i /\ UNCHANGED tbl)
    <2>1. /\ th'[t].pc = "arr_child" /\ th'[t].i = i + 1 /\ tbl'[x].mask = tbl[x].mask
          /\ SameFence(tbl'[x], tbl[x]) /\ SameCount(tbl'[x], tbl[x])
          /\ OnlyEntry(x)
      BY <1>1, <1>2, <1>10, LinkPendingEffect
    <2>2. PICK n : n = tbl'[x].parents_cnt
      OBVIOUS
    <2>3. /\ n = tbl[x].parents_cnt + 1 /\ n \in Parents
          /\ \A p \in Parents : tbl'[x].parent_list[p] =
                                  IF p = n THEN j ELSE tbl[x].parent_list[p]
      BY <1>1, <1>2, <1>10, <2>2, LinkPendingEffect
    <2>4. tbl[x].parent_list[n] \notin Slots
      <3>1. tbl[x].parents_cnt \in 0 .. 3
        BY <1>1, <1>3, EntryFields DEF WideType
      <3>2. ~(n <= tbl[x].parents_cnt)
        BY <2>3, <3>1
      <3>3. tbl[x].parent_list[n] = INVALID
        BY <1>3, <1>4, <2>3, <3>2 DEF ListsClosed
      <3> QED
        BY <3>3, WaitAssumption
    <2>5. \A r \in Slots : /\ SameFence(tbl'[r], tbl[r]) /\ SameCount(tbl'[r], tbl[r])
                           /\ tbl'[r].mask = tbl[r].mask
      BY <2>1 DEF OnlyEntry, SameFence, SameCount
    <2>6. ASSUME NEW s \in Slots, NEW r \in Slots, NEW p \in Parents
          PROVE  Linked(s, p, r)' <=> Linked(s, p, r) \/ (s = x /\ p = n /\ r = j)
      <3>1. CASE s = x
        BY <1>3, <1>4, <2>3, <2>4, <2>5, <3>1 DEF Linked, SameFence
      <3>2. CASE s # x
        BY <2>1, <3>2 DEF Linked, OnlyEntry
      <3> QED
        BY <3>1, <3>2
    <2>7. \A r \in Slots : r # j => Framed(r)
      BY <2>5, <2>6 DEF Framed, SameFence
    <2>8. Cardinality(Waiting(j)') = Cardinality(Waiting(j)) + 1
      <3>1. <<x, n>> \notin Waiting(j)
        <4>1. ~Linked(x, n, j)
          BY <1>3, <2>4 DEF Linked
        <4> QED
          BY <1>3, <2>3, <4>1, WaitingLinked
      <3>2. Waiting(j)' = Waiting(j) \union {<<x, n>>}
        <4>1. \A s \in Slots, p \in Parents :
                <<s, p>> \in Waiting(j)' <=> <<s, p>> \in Waiting(j) \/ <<s, p>> = <<x, n>>
          BY <1>3, <2>6 DEF Waiting, Linked
        <4>2. Waiting(j)' \subseteq Slots \X Parents /\ Waiting(j) \subseteq Slots \X Parents
          BY DEF Waiting
        <4>3. <<x, n>> \in Waiting(j)'
          BY <1>3, <2>3, <4>1
        <4>4. ASSUME NEW w \in Waiting(j)'
              PROVE  w \in Waiting(j) \union {<<x, n>>}
          <5>1. PICK s \in Slots, p \in Parents : w = <<s, p>>
            BY <4>2
          <5> QED
            BY <4>1, <4>4, <5>1
        <4>5. ASSUME NEW w \in Waiting(j)
              PROVE  w \in Waiting(j)'
          <5>1. PICK s \in Slots, p \in Parents : w = <<s, p>>
            BY <4>2
          <5> QED
            BY <4>1, <4>5, <5>1
        <4> QED
          BY <4>3, <4>4, <4>5
      <3> QED
        BY <3>1, <3>2, WaitingFinite, FS_AddElement
    <2>9. Accounts(j, a, i + 1)'
      <3>1. tbl'[j].pending_child_cnt
              = (Len(Children[a]) + 1 - (i + 1)) + Cardinality(Waiting(j)')
        <4>1. tbl'[j].pending_child_cnt = tbl[j].pending_child_cnt
          BY <1>3, <2>5 DEF SameCount
        <4>2. PICK c, w, q : /\ c = Len(Children[a]) /\ w = Cardinality(Waiting(j))
                             /\ q = tbl[j].pending_child_cnt
          OBVIOUS
        <4>3. /\ c \in Nat /\ w \in Nat /\ q \in Nat /\ i \in 1 .. c
              /\ q = (c + 1 - i) + w
          BY <1>4, <1>7, <1>8, <4>2
        <4>4. q = (c + 1 - (i + 1)) + (w + 1)
          BY <4>3
        <4> QED
          BY <2>8, <4>1, <4>2, <4>4
      <3>2. ASSUME NEW m \in 1 .. Len(Children[a]), m < i + 1
            PROVE  Accounted(j, Children[a][m])'
        <4>1. PICK f : f = Children[a][m]
          OBVIOUS
        <4>2. CASE m = i
          <5>1. f = tbl[x].key /\ f \in Fences /\ tbl'[x].key = f
            BY <1>3, <1>4, <2>5, <4>1, <4>2 DEF SameFence
          <5>2. ended[f] = "no"
            BY <1>3, <5>1 DEF WaitInv, EntryInv
          <5>3. Linked(x, n, j)'
            BY <1>3, <2>3, <2>6
          <5>4. Accounted(j, f)'
            BY <1>3, <2>3, <5>1, <5>2, <5>3 DEF Accounted
          <5> QED
            BY <4>1, <5>4
        <4>3. CASE m # i
          <5>1. m < i
            BY <1>4, <3>2, <4>3
          <5>2. Accounted(j, f)
            BY <1>2, <1>4, <1>6, <4>1, <5>1 DEF BuildInv, Accounts
          <5>3. \/ HasEnded(f)
                \/ \E s \in Slots, p \in Parents : Linked(s, p, j)' /\ tbl'[s].key = f
            BY <1>3, <2>5, <2>6, <5>2 DEF Accounted, SameFence
          <5>4. Accounted(j, f)'
            BY <1>3, <2>5, <5>2, <5>3 DEF Accounted, HasEnded, SameCount
          <5> QED
            BY <4>1, <5>4
        <4> QED
          BY <4>2, <4>3
      <3> QED
        BY <3>1, <3>2 DEF Accounts
    <2>10. ASSUME NEW s \in Slots, NEW p \in Parents, Linked(s, p, j)'
           PROVE  Among(tbl'[s].key, a, i)
      <3>1. tbl'[s].key = tbl[s].key
        BY <2>5 DEF SameFence
      <3>2. CASE Linked(s, p, j)
        <4>1. Among(tbl[s].key, a, i - 1)
          BY <1>2, <1>4, <1>6, <3>2 DEF BuildInv
        <4> QED
          BY <1>4, <3>1, <4>1 DEF Among
      <3>3. CASE s = x
        BY <1>4, <3>1, <3>3 DEF Among
      <3> QED
        BY <1>3, <2>6, <2>10, <3>2, <3>3
    <2>11. \A r \in Slots : tbl[r].key = None => tbl'[r] = tbl[r]
      BY <1>4, <2>1, KeysApart DEF OnlyEntry
    <2>12. /\ tbl'[j].pending_child_cnt \in Nat
           /\ th'[t].signal <=> tbl'[j].pending_child_cnt = 0
      BY <1>3, <1>7, <1>8, <2>5 DEF SameCount
    <2>13. LinkChange(t, j, a, i)
      BY <1>2, <1>3, <2>1, <2>5, <2>7, <2>9, <2>10, <2>11, <2>12 DEF LinkChange
    <2> QED
      BY <2>13, LinkStep
  <1> QED
    BY <1>9, <1>10

-----------------------------------------------------------------------------
(* A step that undoes a link. *)

\* What _cleanup_join_and_child_fences() does to an entry, when no parent stands
\* behind the first parents_cnt places.
LEMMA UndoEntries ==
  ASSUME WaitInv, ListsClosed, NEW t \in Threads, ArrayUndo(t),
         NEW j \in Slots, j = th[t].slot, NEW f,
         \A s \in Slots : tbl'[s] = IF tbl[s].key = f THEN Unlinked(tbl[s], j) ELSE tbl[s]
  PROVE  /\ \A s \in Slots : /\ SameFence(tbl'[s], tbl[s]) /\ SameCount(tbl'[s], tbl[s])
                             /\ tbl'[s].mask = tbl[s].mask
                             /\ tbl[s].key # f => tbl'[s] = tbl[s]
         /\ \A s, r \in Slots, p \in Parents :
              Linked(s, p, r)' <=> Linked(s, p, r) /\ ~(r = j /\ tbl[s].key = f)
  <1>1. WideType
    BY DEF WaitInv
  <1>2. /\ j \in Slots
        /\ \A s \in Slots : tbl'[s] = IF tbl[s].key = f THEN Unlinked(tbl[s], j) ELSE tbl[s]
    OBVIOUS
  <1>3. ASSUME NEW s \in Slots
        PROVE  /\ SameFence(tbl'[s], tbl[s]) /\ SameCount(tbl'[s], tbl[s])
               /\ tbl'[s].mask = tbl[s].mask
               /\ tbl[s].key # f => tbl'[s] = tbl[s]
    <2>1. tbl[s] \in WideEntry
      BY <1>1 DEF WideType
    <2> QED
      BY <1>2, <2>1, StoreUnlinked DEF SameFence, SameCount
  <1>4. ASSUME NEW s \in Slots, NEW r \in Slots, NEW p \in Parents
        PROVE  Linked(s, p, r)' <=> Linked(s, p, r) /\ ~(r = j /\ tbl[s].key = f)
    <2>1. CASE tbl[s].key # f
      BY <1>3, <2>1 DEF Linked
    <2>2. CASE tbl[s].key = f
      <3>1. tbl[s] \in WideEntry /\ tbl'[s] = Unlinked(tbl[s], j)
        BY <1>1, <1>2, <2>2 DEF WideType
      <3>2. tbl'[s].parent_list[p] = IF p <= tbl[s].parents_cnt /\ tbl[s].parent_list[p] = j
                                     THEN INVALID ELSE tbl[s].parent_list[p]
        BY <1>2, <3>1, StoreUnlinked, SMTT(30)
      <3>3. tbl'[s].key = tbl[s].key /\ tbl'[s].sig = tbl[s].sig
        BY <1>3 DEF SameFence
      <3>4. Linked(s, p, r) => p <= tbl[s].parents_cnt
        BY WaitAssumption DEF Linked, ListsClosed
      <3> QED
        BY <1>2, <2>2, <3>2, <3>3, <3>4, WaitAssumption DEF Linked
    <2> QED
      BY <2>1, <2>2
  <1> QED
    BY <1>3, <1>4

\* All links to the join fence from one element of its array are undone, since none
\* stands behind the places that are looked at.  An empty array has none.
LEMMA ArrayUndoKeeps ==
  ASSUME WaitInv, ListsClosed, WideType', NEW t \in Threads, ArrayUndo(t)
  PROVE  WaitInv'
  <1>1. WideType /\ UniqueKey /\ OneHolder /\ LinksLive /\ CallInv(th[t])
    BY DEF WaitInv
  <1>2. PICK k, j, a, i : /\ k = th[t] /\ j = th[t].slot /\ a = th[t].key /\ i = th[t].i
    OBVIOUS
  <1>3. /\ k.pc = "arr_undo" /\ j \in Slots /\ a \in Arrays
        /\ SameCall(th'[t], k) /\ OnlyThread(t) /\ UNCHANGED <<ended, told, waits>>
        /\ \/ i = 1 /\ th'[t].pc = "arr_fail"
           \/ i # 1 /\ th'[t].pc = "arr_undo" /\ th'[t].i = i - 1
    BY <1>1, <1>2, ArrayUndoEffect
  <1>20. PICK f :
           /\ f # None
           /\ \/ th[t].i \in 1 .. Len(Children[th[t].key]) /\ f = Children[th[t].key][th[t].i]
              \/ th[t].i = 1 /\ Len(Children[th[t].key]) = 0
           /\ \A s \in Slots :
                tbl'[s] = IF tbl[s].key = f THEN Unlinked(tbl[s], th[t].slot) ELSE tbl[s]
    BY <1>1, ArrayUndoEffect, ZenonT(30)
  <1>19. /\ f # None
         /\ \/ i \in 1 .. Len(Children[a]) /\ f = Children[a][i]
            \/ i = 1 /\ Len(Children[a]) = 0
         /\ \A s \in Slots : tbl'[s] = IF tbl[s].key = f THEN Unlinked(tbl[s], j) ELSE tbl[s]
    BY <1>2, <1>20
  <1>4. Len(Children[a]) \in Nat /\ f # None
    BY <1>3, <1>19, ArrayElements
  <1>5. Holding(k) /\ Holding(th'[t])
    BY <1>3 DEF Holding, ArrayPcs, UndoPcs
  <1>6. tbl[j].key = a /\ Held(j)
    BY <1>2, <1>5, HolderEntry
  <1>7. /\ \A s \in Slots : /\ SameFence(tbl'[s], tbl[s]) /\ SameCount(tbl'[s], tbl[s])
                            /\ tbl'[s].mask = tbl[s].mask
                            /\ tbl[s].key # f => tbl'[s] = tbl[s]
        /\ \A s, r \in Slots, p \in Parents :
             Linked(s, p, r)' <=> Linked(s, p, r) /\ ~(r = j /\ tbl[s].key = f)
    BY <1>2, <1>3, <1>19, UndoEntries
  <1>8. \A s \in Slots : /\ tbl'[s].key = tbl[s].key /\ tbl'[s].sig = tbl[s].sig
                         /\ tbl'[s].alloc = tbl[s].alloc /\ tbl'[s].error = tbl[s].error
                         /\ tbl'[s].pending_child_cnt = tbl[s].pending_child_cnt
                         /\ tbl'[s].mask = tbl[s].mask
    BY <1>7 DEF SameFence, SameCount
  <1>9. HoldKept(t)
    BY <1>2, <1>3, <1>5 DEF HoldKept, SameCall
  <1>10. \A r \in Slots : r # j => Follows(r)
    <2>1. EndsKept
      BY <1>3 DEF EndsKept
    <2>2. \A r \in Slots : r # j => Framed(r)
      BY <1>7, <1>8 DEF Framed, SameCount
    <2> QED
      BY <2>1, <2>2, FramedFollows
  <1>11. \A r \in Slots : Held(r)' <=> Held(r)
    BY <1>9, HeldSame
  <1>12. UniqueKey' /\ OneHolder'
    BY <1>1, <1>8, <1>9, HeldSame DEF UniqueKey
  <1>13. ASSUME NEW r \in Slots
         PROVE  EntryInv(r)' /\ JoinInv(r)' /\ tbl'[r].pending_child_cnt \in Nat
    <2>1. EntryInv(r) /\ JoinInv(r) /\ tbl[r].pending_child_cnt \in Nat
      BY DEF WaitInv
    <2>2. EntryInv(r)'
      BY <1>3, <1>4, <1>7, <1>8, <2>1 DEF EntryInv
    <2>3. r = j => JoinInv(r)'
      BY <1>6, <1>11 DEF JoinInv
    <2>4. r # j => JoinInv(r)'
      BY <1>1, <1>10, <1>11, <2>1, JoinFollows
    <2> QED
      BY <1>8, <2>1, <2>2, <2>3, <2>4
  <1>14. LinksLive'
    BY <1>1, <1>7, <1>8 DEF LinksLive, IsChild
  <1>15. \A c, b : Awaits(c, b) => Awaits(c, b)'
    <2> SUFFICES ASSUME NEW c, NEW b, Awaits(c, b) PROVE Awaits(c, b)'
      OBVIOUS
    <2>1. \A s \in Slots : Serves(s, c, b) => Serves(s, c, b)'
      BY <1>8, <1>11 DEF Serves
    <2> QED
      BY <1>3, <2>1, AwaitsFramed
  <1>16. WaitsKept' /\ \A x \in told' : Rightly(x)'
    <2>1. \A w \in waits' : Awaits(w[1], w[2])'
      BY <1>3, <1>15 DEF WaitInv, WaitsKept
    <2>2. \A x \in told' : Rightly(x)'
      BY <1>3, ToldFramed
    <2> QED
      BY <2>1, <2>2 DEF WaitsKept
  <1>17. CallInv(th[t])'
    <2>1. PICK l : l = th'[t]
      OBVIOUS
    <2>2. /\ l.slot = j /\ l.key = a /\ l.client = k.client
          /\ \/ i = 1 /\ l.pc = "arr_fail"
             \/ i # 1 /\ l.pc = "arr_undo" /\ l.i = i - 1
      BY <1>2, <1>3, <2>1 DEF SameCall
    <2>3. HolderInv(k) /\ UndoInv(k)
      BY <1>1, <1>2 DEF CallInv
    <2>4. /\ Len(Children[a]) > 0 => tbl[j].pending_child_cnt >= 1 + Cardinality(Waiting(j))
          /\ \A s \in Slots, p \in Parents : Linked(s, p, j) => Among(tbl[s].key, a, i)
      BY <1>2, <1>3, <2>3 DEF UndoInv
    <2>5. \A g : Among(g, a, i) /\ g # f => Among(g, a, i - 1)
      <3> SUFFICES ASSUME NEW g, Among(g, a, i), g # f PROVE Among(g, a, i - 1)
        OBVIOUS
      <3>1. PICK m \in 1 .. Len(Children[a]) : m <= i /\ Children[a][m] = g
        BY DEF Among
      <3>2. i \in 1 .. Len(Children[a]) /\ m # i
        BY <1>4, <1>19, <3>1
      <3>3. m <= i - 1
        BY <1>4, <3>1, <3>2
      <3> QED
        BY <3>1, <3>3 DEF Among
    <2>6. \A s \in Slots, p \in Parents :
            Linked(s, p, j)' => Among(tbl'[s].key, a, i - 1)
      BY <1>3, <1>7, <1>8, <2>4, <2>5
    <2>7. ASSUME Len(Children[a]) > 0
          PROVE  tbl'[j].pending_child_cnt >= 1 + Cardinality(Waiting(j)')
      <3>1. Waiting(j)' \subseteq Waiting(j)
        <4>1. \A s \in Slots, p \in Parents : <<s, p>> \in Waiting(j)' => <<s, p>> \in Waiting(j)
          BY <1>3, <1>7 DEF Waiting, Linked
        <4>2. Waiting(j)' \subseteq Slots \X Parents
          BY DEF Waiting
        <4> QED
          BY <4>1, <4>2
      <3>2. Cardinality(Waiting(j)') <= Cardinality(Waiting(j))
        BY <3>1, WaitingFinite, FS_Subset
      <3>3. PICK v, w, q : /\ v = Cardinality(Waiting(j)') /\ w = Cardinality(Waiting(j))
                           /\ q = tbl[j].pending_child_cnt
        OBVIOUS
      <3>4. /\ v \in Nat /\ w \in Nat /\ q \in Nat /\ v <= w /\ q >= 1 + w
        BY <1>3, <2>4, <2>7, <3>2, <3>3, WaitingFinite DEF WaitInv
      <3>5. q >= 1 + v
        BY <3>4
      <3> QED
        BY <1>3, <1>8, <3>3, <3>5
    <2>8. /\ RegisterInv(l)' /\ BuildInv(l)' /\ LinkInv(l)' /\ l.pc \notin ResetPcs
      BY <2>2 DEF RegisterInv, BuildInv, LinkInv, ResetPcs, BuildPcs
    <2>9. HolderInv(l)'
      BY <1>2, <1>3, <1>5, <1>6, <1>8, <2>2, <2>3 DEF HolderInv
    <2>10. UndoInv(l)'
      BY <2>2, <2>6, <2>7 DEF UndoInv, Among
    <2>11. EndInv(l)'
      <3>1. ASSUME i = 1, NEW s \in Slots, NEW p \in Parents PROVE ~Linked(s, p, j)'
        BY <1>4, <2>6, <3>1 DEF Among
      <3> QED
        BY <2>2, <3>1 DEF EndInv
    <2>12. CallInv(l)'
      BY <2>8, <2>9, <2>10, <2>11 DEF CallInv
    <2> QED
      BY <2>1, <2>12
  <1>18. ASSUME NEW u \in Threads, u # t PROVE CallInv(th[u])'
    <2>1. PICK l : l = th[u] /\ l = th'[u]
      BY <1>3, <1>18 DEF OnlyThread
    <2>2. Sound(l) /\ CallInv(l)
      BY <2>1 DEF WaitInv, WideType
    <2>3. Holding(l) => l.slot \in Slots /\ l.slot # j
      BY <1>1, <1>2, <1>5, <1>18, <2>1, HolderEntry DEF OneHolder
    <2>4. l.pc \in {"reg_lock", "reg_check"} => l.slot \in Slots
      BY <2>2 DEF Sound
    <2>5. l.pc = "arr_link" => l.child \in Slots
      BY <2>2 DEF Sound
    <2>6. told \subseteq told'
      BY <1>3
    <2>7. CallInv(l)'
      BY <1>1, <1>8, <1>10, <1>15, <2>2, <2>3, <2>4, <2>5, <2>6, CallFollows
    <2> QED
      BY <2>1, <2>7
  <1> QED
    BY <1>12, <1>13, <1>14, <1>16, <1>17, <1>18 DEF WaitInv

-----------------------------------------------------------------------------
(* A fence signals. *)

\* The fence controller counts the links to join fence r down to 0.
Ending(s, r) == Links(s, r) > 0 /\ tbl[r].pending_child_cnt = Links(s, r)

\* A join fence that a call has and that has links waits for more than those.
LEMMA HeldPending ==
  ASSUME WaitInv, NEW j \in Slots, Held(j),
         NEW q \in Slots, NEW n \in Parents, Linked(q, n, j)
  PROVE  tbl[j].pending_child_cnt >= 1 + Cardinality(Waiting(j))
  <1>1. PICK t \in Threads : th[t].slot = j /\ Holding(th[t])
    BY DEF Held
  <1>2. PICK k, a, i : k = th[t] /\ a = th[t].key /\ i = th[t].i
    OBVIOUS
  <1>3. Sound(k) /\ CallInv(k) /\ Holding(k) /\ k.slot = j
    BY <1>1, <1>2 DEF WaitInv, WideType
  <1>4. a \in Arrays /\ Len(Children[a]) \in Nat
    BY <1>1, <1>2, HolderEntry, ArrayElements
  <1>5. CASE k.pc \in BuildPcs
    <2>1. i \in 1 .. Len(Children[a]) + 1
      BY <1>2, <1>3, <1>5 DEF Sound
    <2>2. BuildInv(k)
      BY <1>3 DEF CallInv
    <2>3. CASE i \in 1 .. Len(Children[a])
      BY <1>2, <1>3, <1>4, <1>5, <2>2, <2>3, BuildPending
    <2>4. CASE i = Len(Children[a]) + 1
      <3>1. Among(tbl[q].key, a, i - 1)
        BY <1>2, <1>3, <1>5, <2>2 DEF BuildInv
      <3>2. Len(Children[a]) > 0
        BY <1>4, <3>1 DEF Among
      <3>3. k.pc = "arr_child" /\ k.signal
        BY <1>2, <1>3, <1>4, <1>5, <2>4, <3>2 DEF Sound, Holding, BuildPcs
      <3>4. tbl[j].pending_child_cnt = 0 /\ Accounts(j, a, i)
        BY <1>2, <1>3, <1>5, <2>2, <3>3 DEF BuildInv
      <3>5. Cardinality(Waiting(j)) = 0
        BY <1>4, <2>4, <3>4, WaitingFinite DEF Accounts
      <3>6. <<q, n>> \in Waiting(j)
        BY WaitingLinked
      <3> QED
        BY <3>5, <3>6, WaitingFinite, FS_EmptySet
    <2> QED
      BY <1>4, <2>1, <2>3, <2>4
  <1>6. CASE k.pc = "arr_undo"
    <2>1. UndoInv(k)
      BY <1>3 DEF CallInv
    <2>2. Among(tbl[q].key, a, i)
      BY <1>2, <1>3, <1>6, <2>1 DEF UndoInv
    <2>3. Len(Children[a]) > 0
      BY <1>4, <2>2 DEF Among
    <2> QED
      BY <1>2, <1>3, <1>6, <2>1, <2>3 DEF UndoInv
  <1>7. CASE k.pc \in {"arr_fail", "arr_destroy"}
    BY <1>3, <1>7 DEF CallInv, EndInv
  <1> QED
    BY <1>3, <1>5, <1>6, <1>7 DEF Holding, ArrayPcs, UndoPcs

\* The links of the fence in entry s are gone and no others.
LEMMA SignalLinks ==
  ASSUME WaitInv, NEW s \in Slots, NEW err \in BOOLEAN, FctlSignal(s, err)
  PROVE  /\ \A r \in Slots : /\ Links(s, r) \in Nat
                             /\ Links(s, r) = 0 \/ Links(s, r) > 0
                             /\ Links(s, r) > 0 => tbl[r].key \in Arrays /\ r # s
         /\ \A r \in Slots, p \in Parents : Linked(s, p, r) => Links(s, r) > 0
         /\ \A q, r \in Slots, p \in Parents : Linked(q, p, r)' <=> Linked(q, p, r) /\ q # s
         /\ \A q, r \in Slots, p \in Parents : Linked(q, p, r) => tbl'[q].key = tbl[q].key
  <1>1. WideType /\ LinksLive
    BY DEF WaitInv
  <1>2. tbl[s].key \in Fences /\ ~tbl[s].sig /\ tbl'[s].sig /\ tbl'[s].key = tbl[s].key
    BY <1>1, SignalOwn
  <1>3. ASSUME NEW r \in Slots
        PROVE  /\ Links(s, r) \in Nat /\ (Links(s, r) = 0 \/ Links(s, r) > 0)
               /\ Links(s, r) > 0 <=> \E p \in Parents : Linked(s, p, r)
    <2>1. Links(s, r) \in Nat /\ Links(s, r) = Cardinality(Places(s, r))
      BY LinksPlaces
    <2>2. IsFiniteSet(Places(s, r))
      BY PlacesFinite DEF Places
    <2>3. Links(s, r) = 0 <=> Places(s, r) = {}
      BY <2>1, <2>2, FS_EmptySet
    <2>4. Places(s, r) # {} <=> \E p \in Parents : Linked(s, p, r)
      BY <1>2 DEF Places, Linked
    <2> QED
      BY <2>1, <2>3, <2>4
  <1>4. \A r \in Slots : Links(s, r) > 0 => tbl[r].key \in Arrays /\ r # s
    BY <1>1, <1>2, <1>3, KeysApart DEF LinksLive
  <1>5. ASSUME NEW q \in Slots, q # s
        PROVE  \/ tbl'[q] = tbl[q]
               \/ tbl[q].key \notin Fences /\ tbl'[q].key \notin Fences
    <2>1. CASE Links(s, q) = 0
      BY <1>1, <1>5, <2>1, SignalOthers
    <2>2. CASE Links(s, q) > 0 /\ tbl[q].pending_child_cnt = Links(s, q)
      BY <1>1, <1>4, <1>5, <2>2, SignalEnds, FreeEntry, KeysApart
    <2>3. CASE Links(s, q) > 0 /\ tbl[q].pending_child_cnt # Links(s, q)
      <3>1. tbl'[q].key = tbl[q].key
        BY <1>1, <1>5, <2>3, SignalCounts DEF SameFence
      <3> QED
        BY <1>4, <2>3, <3>1, KeysApart
    <2> QED
      BY <1>3, <2>1, <2>2, <2>3
  <1>6. \A q, r \in Slots, p \in Parents : Linked(q, p, r)' <=> Linked(q, p, r) /\ q # s
    BY <1>2, <1>5 DEF Linked
  <1>7. \A q, r \in Slots, p \in Parents : Linked(q, p, r) => tbl'[q].key = tbl[q].key
    BY <1>2, <1>5 DEF Linked
  <1> QED
    BY <1>3, <1>4, <1>6, <1>7

\* Every join fence loses the links it is counted down by.
LEMMA SignalWaiting ==
  ASSUME WaitInv, NEW s \in Slots, NEW err \in BOOLEAN, FctlSignal(s, err), NEW r \in Slots
  PROVE  /\ Cardinality(Waiting(r)') = Cardinality(Waiting(r)) - Links(s, r)
         /\ Links(s, r) <= Cardinality(Waiting(r))
  <1>1. tbl[s].key \in Fences /\ ~tbl[s].sig
    BY SignalOwn DEF WaitInv
  <1>2. PICK A, B, C : /\ A = Waiting(r) /\ B = {s} \X Places(s, r) /\ C = Waiting(r)'
    OBVIOUS
  <1>3. IsFiniteSet(A) /\ Cardinality(A) \in Nat
    BY <1>2, WaitingFinite
  <1>4. IsFiniteSet(B) /\ Cardinality(B) = Links(s, r) /\ Links(s, r) \in Nat
    <2>1. IsFiniteSet({s}) /\ Cardinality({s}) = 1
      BY FS_Singleton
    <2>2. IsFiniteSet(Places(s, r)) /\ Cardinality(Places(s, r)) \in Nat
      BY PlacesFinite DEF Places
    <2>3. IsFiniteSet(B) /\ Cardinality(B) = Cardinality({s}) * Cardinality(Places(s, r))
      BY <1>2, <2>1, <2>2, FS_Product
    <2> QED
      BY <2>1, <2>2, <2>3, LinksPlaces
  <1>5. B \subseteq A
    BY <1>1, <1>2 DEF Waiting, Places
  <1>6. C = A \ B
    <2>1. C \subseteq Slots \X Parents /\ A \subseteq Slots \X Parents
      BY <1>2 DEF Waiting
    <2>2. ASSUME NEW q \in Slots, NEW p \in Parents
          PROVE  <<q, p>> \in C <=> <<q, p>> \in A /\ <<q, p>> \notin B
      <3>1. <<q, p>> \in C <=> Linked(q, p, r)'
        BY <1>2 DEF Waiting, Linked
      <3>2. <<q, p>> \in A <=> Linked(q, p, r)
        BY <1>2 DEF Waiting, Linked
      <3>3. Linked(q, p, r) => (<<q, p>> \in B <=> q = s)
        BY <1>2 DEF Places, Linked
      <3> QED
        BY <3>1, <3>2, <3>3, SignalLinks
    <2>3. ASSUME NEW w \in Slots \X Parents
          PROVE  w \in C <=> w \in A /\ w \notin B
      <3>1. PICK q \in Slots, p \in Parents : w = <<q, p>>
        OBVIOUS
      <3> QED
        BY <2>2, <3>1
    <2> QED
      BY <2>1, <2>3
  <1>7. Cardinality(A \ B) = Cardinality(A) - Cardinality(A \intersect B)
    BY <1>3, FS_Difference
  <1>8. A \intersect B = B
    BY <1>5
  <1>9. Cardinality(B) <= Cardinality(A)
    BY <1>3, <1>5, FS_Subset
  <1> QED
    BY <1>2, <1>4, <1>6, <1>7, <1>8, <1>9

\* What becomes of fences.
LEMMA SignalFates ==
  ASSUME WaitInv, NEW s \in Slots, NEW err \in BOOLEAN, FctlSignal(s, err)
  PROVE  /\ tbl[s].key \in Fences /\ ended[tbl[s].key] = "no"
         /\ ended'[tbl[s].key] = IF err THEN "error" ELSE "ok"
         /\ \A g \in Fences : g # tbl[s].key => ended'[g] = ended[g]
  <1>1. WideType /\ EntryInv(s)
    BY DEF WaitInv
  <1>2. tbl[s].key \in Fences /\ ~tbl[s].sig
    BY <1>1, SignalOwn
  <1>3. ended' = [ended EXCEPT ![tbl[s].key] = IF err THEN "error" ELSE "ok"]
    BY <1>1, SignalEnded
  <1> QED
    BY <1>1, <1>2, <1>3 DEF EntryInv, WideType

\* A join fence that does not end here is counted down, or left alone.
LEMMA SignalFollows ==
  ASSUME WaitInv, WideType', NEW s \in Slots, NEW err \in BOOLEAN, FctlSignal(s, err),
         NEW r \in Slots, r # s, ~Ending(s, r)
  PROVE  /\ Follows(r) /\ SameFence(tbl'[r], tbl[r]) /\ tbl'[r].mask = tbl[r].mask
         /\ tbl'[r].pending_child_cnt = tbl[r].pending_child_cnt - Links(s, r)
         /\ tbl'[r].error <=> tbl[r].error \/ (Links(s, r) > 0 /\ err)
         /\ Links(s, r) = 0 => tbl'[r] = tbl[r]
  <1>1. WideType /\ UniqueKey
    BY DEF WaitInv
  <1>2. /\ Links(s, r) \in Nat /\ (Links(s, r) = 0 \/ Links(s, r) > 0)
        /\ tbl[r].pending_child_cnt \in Int
    BY <1>1, SignalLinks, EntryFields DEF WideType
  <1>3. /\ SameFence(tbl'[r], tbl[r]) /\ tbl'[r].mask = tbl[r].mask
        /\ tbl'[r].pending_child_cnt = tbl[r].pending_child_cnt - Links(s, r)
        /\ tbl'[r].error <=> tbl[r].error \/ (Links(s, r) > 0 /\ err)
        /\ Links(s, r) = 0 => tbl'[r] = tbl[r]
    <2>1. CASE Links(s, r) = 0
      <3>1. tbl'[r] = tbl[r]
        BY <1>1, <2>1, SignalOthers
      <3> QED
        BY <1>2, <2>1, <3>1 DEF SameFence
    <2>2. CASE Links(s, r) > 0
      <3>1. tbl[r].pending_child_cnt # Links(s, r) /\ ~(Links(s, r) = 0)
        BY <1>2, <2>2 DEF Ending
      <3> QED
        BY <1>1, <2>2, <3>1, SignalCounts
    <2> QED
      BY <1>2, <2>1, <2>2
  <1>4. tbl'[r].pending_child_cnt - Cardinality(Waiting(r)')
          = tbl[r].pending_child_cnt - Cardinality(Waiting(r))
    <2>1. PICK v, w, n, q : /\ v = Cardinality(Waiting(r)') /\ w = Cardinality(Waiting(r))
                            /\ n = Links(s, r) /\ q = tbl[r].pending_child_cnt
      OBVIOUS
    <2>2. v = w - n /\ w \in Nat /\ n \in Nat /\ q \in Int
      BY <1>2, <2>1, SignalWaiting, WaitingFinite
    <2>3. (q - n) - v = q - w
      BY <2>2
    <2> QED
      BY <1>3, <2>1, <2>3
  <1>5. \A q \in Slots, p \in Parents :
          Linked(q, p, r)' => Linked(q, p, r) /\ tbl'[q].key = tbl[q].key
    BY SignalLinks
  <1>6. ASSUME NEW g \in Fences, Accounted(r, g) PROVE Accounted(r, g)'
    <2>1. /\ ended[g] # "new" /\ (ended[g] = "error" => tbl[r].error)
          /\ HasEnded(g) \/ \E q \in Slots, p \in Parents : Linked(q, p, r) /\ tbl[q].key = g
      BY <1>6 DEF Accounted
    <2>2. CASE g = tbl[s].key
      <3>1. ~HasEnded(g)
        BY <2>2, SignalFates DEF HasEnded
      <3>2. PICK q \in Slots, p \in Parents : Linked(q, p, r) /\ tbl[q].key = g
        BY <2>1, <3>1
      <3>3. q = s
        BY <1>1, <2>2, <3>2, KeysApart DEF UniqueKey
      <3>4. Links(s, r) > 0
        BY <3>2, <3>3, SignalLinks
      <3>5. ended'[g] \in {"ok", "error"} /\ (ended'[g] = "error" => tbl'[r].error)
        BY <1>3, <2>2, <3>4, SignalFates
      <3> QED
        BY <3>5 DEF Accounted, HasEnded
    <2>3. CASE g # tbl[s].key
      <3>1. ended'[g] = ended[g]
        BY <2>3, SignalFates
      <3>2. \/ HasEnded(g)'
            \/ \E q \in Slots, p \in Parents : Linked(q, p, r)' /\ tbl'[q].key = g
        <4>1. CASE HasEnded(g)
          BY <3>1, <4>1 DEF HasEnded
        <4>2. CASE \E q \in Slots, p \in Parents : Linked(q, p, r) /\ tbl[q].key = g
          <5>1. PICK q \in Slots, p \in Parents : Linked(q, p, r) /\ tbl[q].key = g
            BY <4>2
          <5>2. Linked(q, p, r)' /\ tbl'[q].key = g
            BY <2>3, <5>1, SignalLinks
          <5> QED
            BY <5>2
        <4> QED
          BY <2>1, <4>1, <4>2
      <3>3. ended'[g] = "error" => tbl'[r].error
        BY <1>3, <2>1, <3>1
      <3> QED
        BY <2>1, <3>1, <3>2, <3>3 DEF Accounted
    <2> QED
      BY <2>2, <2>3
  <1> QED
    BY <1>3, <1>4, <1>5, <1>6 DEF Follows, SameFence

\* A join fence that ends here was nobody's, and all of its children have ended.
LEMMA SignalEnding ==
  ASSUME WaitInv, NEW s \in Slots, NEW err \in BOOLEAN, FctlSignal(s, err),
         NEW r \in Slots, Ending(s, r), NEW a, a = tbl[r].key
  PROVE  /\ r # s /\ a \in Arrays /\ ~Held(r) /\ tbl'[r] = Free
         /\ \A q \in Slots, p \in Parents : ~Linked(q, p, r)'
         /\ \A m \in 1 .. Len(Children[a]) :
              LET g == Children[a][m] IN
              g \in Fences /\ HasEnded(g)' /\ (ended'[g] = "error" => tbl[r].error \/ err)
  <1>1. WideType /\ JoinInv(r) /\ UniqueKey
    BY DEF WaitInv
  <1>2. /\ r # s /\ tbl[r].key \in Arrays
        /\ Links(s, r) \in Nat /\ Links(s, r) > 0 /\ tbl[r].pending_child_cnt = Links(s, r)
    BY SignalLinks DEF Ending
  <1>3. tbl'[r] = Free
    BY <1>1, <1>2, SignalEnds
  <1>4. /\ Cardinality(Waiting(r)') = Cardinality(Waiting(r)) - Links(s, r)
        /\ Links(s, r) <= Cardinality(Waiting(r)) /\ Cardinality(Waiting(r)) \in Nat
    BY SignalWaiting, WaitingFinite
  <1>5. ~Held(r)
    <2> SUFFICES ASSUME Held(r) PROVE FALSE
      OBVIOUS
    <2>1. Waiting(r) # {}
      <3>1. Cardinality(Waiting(r)) # 0
        BY <1>2, <1>4
      <3> QED
        BY <3>1, FS_EmptySet
    <2>2. PICK q \in Slots, p \in Parents : <<q, p>> \in Waiting(r)
      BY <2>1 DEF Waiting
    <2>3. Linked(q, p, r)
      BY <2>2, WaitingLinked
    <2>4. tbl[r].pending_child_cnt >= 1 + Cardinality(Waiting(r))
      BY <2>3, HeldPending
    <2> QED
      BY <1>2, <1>4, <2>4
  <1>7. Accounts(r, a, Len(Children[a]) + 1) /\ Len(Children[a]) \in Nat
    BY <1>1, <1>2, <1>5, ArrayElements DEF JoinInv
  <1>8. Cardinality(Waiting(r)') = 0
    BY <1>2, <1>4, <1>7 DEF Accounts
  <1>9. \A q \in Slots, p \in Parents : ~Linked(q, p, r)'
    <2> SUFFICES ASSUME NEW q \in Slots, NEW p \in Parents PROVE ~Linked(q, p, r)'
      OBVIOUS
    <2>1. Waiting(r)' = {}
      BY <1>8, WaitingFinite, FS_EmptySet
    <2>2. <<q, p>> \in Waiting(r)' <=> Linked(q, p, r)'
      BY DEF Waiting, Linked
    <2> QED
      BY <2>1, <2>2
  <1>10. ASSUME NEW m \in 1 .. Len(Children[a]), NEW g, g = Children[a][m]
         PROVE  g \in Fences /\ HasEnded(g)' /\ (ended'[g] = "error" => tbl[r].error \/ err)
    <2>1. Accounted(r, g)
      BY <1>7, <1>10 DEF Accounts
    <2>2. /\ g \in Fences /\ (ended[g] = "error" => tbl[r].error)
          /\ HasEnded(g) \/ \E q \in Slots, p \in Parents : Linked(q, p, r) /\ tbl[q].key = g
      BY <2>1 DEF Accounted
    <2>3. CASE g = tbl[s].key
      <3>1. ended'[g] = IF err THEN "error" ELSE "ok"
        BY <2>3, SignalFates
      <3> QED
        BY <2>2, <3>1 DEF HasEnded
    <2>4. CASE g # tbl[s].key
      <3>1. ended'[g] = ended[g]
        BY <2>2, <2>4, SignalFates
      <3>2. HasEnded(g)
        BY <1>9, <2>2, <2>4, SignalLinks
      <3> QED
        BY <2>2, <3>1, <3>2 DEF HasEnded
    <2> QED
      BY <2>3, <2>4
  <1> QED
    BY <1>2, <1>3, <1>5, <1>9, <1>10

\* The fence controller signals a fence, counts its parents down, and signals and
\* destroys the join fences of which it was the last child.
LEMMA SignalKeeps ==
  ASSUME WaitInv, WideType', NEW s \in Slots, NEW err \in BOOLEAN, FctlSignal(s, err)
  PROVE  WaitInv'
  <1>1. WideType /\ UniqueKey /\ OneHolder /\ LinksLive
    BY DEF WaitInv
  <1>2. PICK f : f = tbl[s].key
    OBVIOUS
  <1>3. /\ f \in Fences /\ ended[f] = "no" /\ ended'[f] = (IF err THEN "error" ELSE "ok")
        /\ \A g \in Fences : g # f => ended'[g] = ended[g]
        /\ UNCHANGED <<th, waits>> /\ told \subseteq told'
    BY <1>1, <1>2, SignalFates, SignalEnded, SignalTells
  <1>4. /\ tbl'[s].key = f /\ tbl'[s].alloc = tbl[s].alloc /\ tbl'[s].mask = tbl[s].mask
        /\ tbl'[s].sig /\ (tbl'[s].error <=> err)
        /\ tbl'[s].pending_child_cnt = tbl[s].pending_child_cnt
    BY <1>1, <1>2, SignalOwn
  <1>5. \A r \in Slots : Held(r)' <=> Held(r)
    BY <1>3 DEF Held
  <1>6. ASSUME NEW r \in Slots, Ending(s, r)
        PROVE  /\ r # s /\ tbl[r].key \in Arrays /\ ~Held(r) /\ tbl'[r] = Free
               /\ \A q \in Slots, p \in Parents : ~Linked(q, p, r)'
    BY <1>6, SignalEnding
  <1>7. ASSUME NEW r \in Slots, r # s, ~Ending(s, r)
        PROVE  /\ Follows(r) /\ tbl'[r].key = tbl[r].key /\ tbl'[r].alloc = tbl[r].alloc
               /\ tbl'[r].sig = tbl[r].sig /\ tbl'[r].mask = tbl[r].mask
               /\ tbl'[r].pending_child_cnt = tbl[r].pending_child_cnt - Links(s, r)
               /\ Links(s, r) = 0 => tbl'[r] = tbl[r]
    BY <1>7, SignalFollows DEF SameFence
  <1>8. \A r \in Slots : /\ Links(s, r) \in Nat /\ (Links(s, r) = 0 \/ Links(s, r) > 0)
                         /\ Links(s, r) > 0 => tbl[r].key \in Arrays
    BY SignalLinks
  <1>9. \A r \in Slots : tbl[r].key \in Fences => tbl'[r].key = tbl[r].key /\ ~Ending(s, r)
    BY <1>2, <1>4, <1>6, <1>7, KeysApart
  <1>10. ASSUME NEW r \in Slots, Links(s, r) > 0, ~Ending(s, r)
         PROVE  tbl[r].pending_child_cnt >= 1 + Links(s, r)
    <2>1. PICK w, n, q : /\ w = Cardinality(Waiting(r)) /\ n = Links(s, r)
                         /\ q = tbl[r].pending_child_cnt
      OBVIOUS
    <2>2. w \in Nat /\ n \in Nat /\ q \in Nat /\ n <= w /\ n > 0 /\ q # n
      BY <1>8, <1>10, <2>1, SignalWaiting, WaitingFinite DEF Ending, WaitInv
    <2>3. CASE Held(r)
      <3>1. w # 0
        BY <2>2
      <3>2. Waiting(r) # {}
        BY <2>1, <3>1, FS_EmptySet
      <3>3. PICK x \in Slots, p \in Parents : <<x, p>> \in Waiting(r)
        BY <3>2 DEF Waiting
      <3>4. Linked(x, p, r)
        BY <3>3, WaitingLinked
      <3>5. q >= 1 + w
        BY <2>1, <2>3, <3>4, HeldPending
      <3>6. q >= 1 + n
        BY <2>2, <3>5
      <3> QED
        BY <2>1, <3>6
    <2>4. CASE ~Held(r)
      <3>1. PICK a \in Arrays : a = tbl[r].key
        BY <1>8, <1>10
      <3>2. Accounts(r, a, Len(Children[a]) + 1) /\ Len(Children[a]) \in Nat
        BY <2>4, <3>1, ArrayElements DEF WaitInv, JoinInv
      <3>3. q = w
        BY <2>1, <2>2, <3>2 DEF Accounts
      <3>4. q >= 1 + n
        BY <2>2, <3>3
      <3> QED
        BY <2>1, <3>4
    <2> QED
      BY <2>3, <2>4
  <1>11. \A r \in Slots : Held(r) => r # s /\ ~Ending(s, r)
    BY <1>2, <1>3, <1>6, HeldEntry, KeysApart
  <1>12. UniqueKey' /\ OneHolder'
    <2>1. \A r \in Slots : tbl'[r].key = tbl[r].key \/ tbl'[r].key = None
      BY <1>2, <1>4, <1>6, <1>7, FreeEntry
    <2>2. UniqueKey'
      BY <1>1, <2>1 DEF UniqueKey
    <2>3. OneHolder'
      BY <1>1, <1>3 DEF OneHolder
    <2> QED
      BY <2>2, <2>3
  <1>13. ASSUME NEW r \in Slots
         PROVE  EntryInv(r)' /\ JoinInv(r)' /\ tbl'[r].pending_child_cnt \in Nat
    <2>1. EntryInv(r) /\ JoinInv(r) /\ tbl[r].pending_child_cnt \in Nat
      BY DEF WaitInv
    <2>2. CASE r = s
      <3>1. EntryInv(s)'
        BY <1>2, <1>3, <1>4, <2>1, <2>2, KeysApart DEF EntryInv
      <3>2. JoinInv(s)'
        BY <1>3, <1>4, KeysApart DEF JoinInv
      <3> QED
        BY <1>4, <2>1, <2>2, <3>1, <3>2
    <2>3. CASE Ending(s, r)
      BY <1>6, <2>3, FreeEntry, KeysApart DEF EntryInv, JoinInv
    <2>4. CASE r # s /\ ~Ending(s, r) /\ Links(s, r) = 0
      <3>1. tbl'[r] = tbl[r]
        BY <1>7, <2>4
      <3>2. tbl[r].key \in Fences => ended'[tbl[r].key] = ended[tbl[r].key]
        BY <1>1, <1>2, <1>3, <2>4, KeysApart DEF UniqueKey
      <3>3. EntryInv(r)'
        BY <2>1, <3>1, <3>2 DEF EntryInv
      <3>4. JoinInv(r)'
        BY <1>1, <1>5, <1>7, <2>1, <2>4, JoinFollows
      <3> QED
        BY <2>1, <3>1, <3>3, <3>4
    <2>5. CASE r # s /\ ~Ending(s, r) /\ Links(s, r) > 0
      <3>1. EntryInv(r)'
        BY <1>7, <1>8, <2>1, <2>5, KeysApart DEF EntryInv
      <3>2. JoinInv(r)'
        BY <1>1, <1>5, <1>7, <2>1, <2>5, JoinFollows
      <3>3. PICK n, q : n = Links(s, r) /\ q = tbl[r].pending_child_cnt
        OBVIOUS
      <3>4. n \in Nat /\ q \in Nat /\ q >= 1 + n
        BY <1>8, <1>10, <2>1, <2>5, <3>3
      <3>5. q - n \in Nat
        BY <3>4
      <3> QED
        BY <1>7, <2>5, <3>1, <3>2, <3>3, <3>5
    <2> QED
      BY <1>8, <2>2, <2>3, <2>4, <2>5
  <1>14. LinksLive'
    <2> SUFFICES ASSUME NEW q \in Slots, NEW r \in Slots, NEW p \in Parents, Linked(q, p, r)'
                 PROVE  tbl'[r].key \in Arrays /\ IsChild(tbl'[q].key, tbl'[r].key)
      BY DEF LinksLive, IsChild
    <2>1. Linked(q, p, r) /\ tbl'[q].key = tbl[q].key
      BY SignalLinks
    <2>2. tbl[r].key \in Arrays /\ IsChild(tbl[q].key, tbl[r].key)
      BY <1>1, <2>1 DEF LinksLive
    <2>3. r # s /\ ~Ending(s, r)
      BY <1>2, <1>3, <1>6, <2>2, KeysApart
    <2>4. tbl'[r].key = tbl[r].key
      BY <1>7, <2>3
    <2> QED
      BY <2>1, <2>2, <2>4
  <1>15. \A c, b : Awaits(c, b) => Awaits(c, b)'
    <2> SUFFICES ASSUME NEW c, NEW b, Awaits(c, b) PROVE Awaits(c, b)'
      OBVIOUS
    <2>1. ASSUME NEW r \in Slots, Serves(r, c, b) PROVE Serves(r, c, b)' \/ Tells(c, b)
      <3>1. CASE r = s
        BY <1>1, <2>1, <3>1, SignalTells DEF Serves
      <3>2. CASE Ending(s, r)
        BY <1>1, <2>1, <3>2, SignalTells DEF Serves, Ending
      <3>3. CASE r # s /\ ~Ending(s, r)
        BY <1>5, <1>7, <2>1, <3>3 DEF Serves
      <3> QED
        BY <3>1, <3>2, <3>3
    <2> QED
      BY <1>3, <2>1, AwaitsFramed
  <1>16. WaitsKept'
    <2>1. \A w \in waits' : Awaits(w[1], w[2])'
      BY <1>3, <1>15 DEF WaitInv, WaitsKept
    <2> QED
      BY <2>1 DEF WaitsKept
  <1>17. \A x \in told' : Rightly(x)'
    <2>1. ASSUME NEW x \in told', x \notin told PROVE Rightly(x)'
      <3>1. CASE x[2] = tbl[s].key
        BY <1>2, <1>3, <3>1, KeysApart DEF Rightly, HasEnded
      <3>2. CASE x[2] # tbl[s].key
        <4>1. PICK r \in Slots : /\ Links(s, r) > 0 /\ tbl[r].pending_child_cnt = Links(s, r)
                                 /\ x[2] = tbl[r].key /\ x[3] = (tbl[r].error \/ err)
          BY <1>1, <2>1, <3>2, SignalTold
        <4>2. PICK a : a = tbl[r].key
          OBVIOUS
        <4>3. /\ a \in Arrays
              /\ \A m \in 1 .. Len(Children[a]) :
                   LET g == Children[a][m] IN
                   g \in Fences /\ HasEnded(g)' /\ (ended'[g] = "error" => tbl[r].error \/ err)
          BY <4>1, <4>2, SignalEnding DEF Ending
        <4> QED
          BY <4>1, <4>2, <4>3, KeysApart DEF Rightly
      <3> QED
        BY <3>1, <3>2
    <2>2. \A g \in Fences : HasEnded(g) => ended'[g] = ended[g]
      BY <1>3 DEF HasEnded
    <2> QED
      BY <2>1, <2>2, ToldFramed
  <1>18. ASSUME NEW u \in Threads PROVE CallInv(th[u])'
    <2>1. PICK l : l = th[u] /\ l = th'[u]
      BY <1>3
    <2>2. Sound(l) /\ CallInv(l)
      BY <2>1 DEF WaitInv, WideType
    <2>3. Holding(l) => /\ l.slot \in Slots /\ l.slot # s /\ ~Ending(s, l.slot)
                        /\ tbl[l.slot].key \in Arrays
      BY <1>11, <2>1, HolderEntry
    <2>4. l.pc \in {"reg_lock", "reg_check"} =>
            /\ l.slot \in Slots /\ tbl'[l.slot].key = tbl[l.slot].key
            /\ tbl[l.slot].mask \subseteq tbl'[l.slot].mask
      <3>1. l.pc \in {"reg_lock", "reg_check"} => l.slot \in Slots /\ tbl[l.slot].key \in Fences
        BY <2>2 DEF Sound, CallInv, RegisterInv
      <3> QED
        BY <1>4, <1>7, <1>9, <3>1
    <2>5. l.pc = "arr_link" => l.child \in Slots /\ tbl'[l.child].key = tbl[l.child].key
      BY <1>9, <2>1, ChildEntry
    <2>6. Holding(l) => Follows(l.slot) /\ tbl'[l.slot].mask = tbl[l.slot].mask
      BY <1>7, <2>3
    <2>7. Holding(l) => (tbl'[l.slot].pending_child_cnt = 0 <=> tbl[l.slot].pending_child_cnt = 0)
      <3> SUFFICES ASSUME Holding(l), NEW j \in Slots, j = l.slot
                   PROVE  tbl'[j].pending_child_cnt = 0 <=> tbl[j].pending_child_cnt = 0
        BY <2>3
      <3>1. CASE Links(s, j) = 0
        BY <1>7, <2>3, <3>1
      <3>2. CASE Links(s, j) > 0
        <4>1. PICK n, q : n = Links(s, j) /\ q = tbl[j].pending_child_cnt
          OBVIOUS
        <4>2. n \in Nat /\ q \in Nat /\ q >= 1 + n
          BY <1>8, <1>10, <2>3, <3>2, <4>1 DEF WaitInv
        <4>3. q - n # 0 /\ q # 0
          BY <4>2
        <4> QED
          BY <1>7, <2>3, <4>1, <4>3
      <3> QED
        BY <1>8, <3>1, <3>2
    <2>8. CallInv(l)'
      BY <1>1, <1>3, <1>15, <2>2, <2>4, <2>5, <2>6, <2>7, CallFollows, SMTT(30)
    <2> QED
      BY <2>1, <2>8
  <1> QED
    BY <1>12, <1>13, <1>14, <1>16, <1>17, <1>18 DEF WaitInv

-----------------------------------------------------------------------------
(* All steps. *)

\* Without resets, thread u is in none.
LEMMA NoResets ==
  ASSUME WaitInv, NEW u \in Threads
  PROVE  /\ ~(\E s \in Slots : ResetEntry(u, s)) /\ ~(\E c \in Clients : ResetSignal(u, c))
         /\ ~ResetOwner(u) /\ ~ResetDestroy(u) /\ ~ResetReturn(u)
  <1>1. th[u].pc \notin ResetPcs
    BY DEF WaitInv, CallInv
  <1> QED
    BY <1>1 DEF ResetPcs, ResetEntry, ResetSignal, ResetOwner, ResetDestroy, ResetReturn, At

\* Nothing happens.
LEMMA StutterKeeps ==
  ASSUME WaitInv, UNCHANGED vars
  PROVE  WaitInv'
  <1>1. UNCHANGED <<tbl, th, ended, told, waits>>
    BY DEF vars
  <1>2. WideType' /\ UniqueKey' /\ OneHolder' /\ LinksLive'
    BY <1>1 DEF WaitInv, WideType, UniqueKey, OneHolder, LinksLive, Linked
  <1>3. \A j : Held(j)' <=> Held(j)
    BY <1>1 DEF Held
  <1>4. \A j \in Slots : Follows(j)
    <2>1. QuietTable
      BY <1>1 DEF QuietTable, SameFence, SameList, SameCount
    <2> QED
      BY <1>1, <2>1, QuietFollows
  <1>5. \A c, k : Awaits(c, k) => Awaits(c, k)'
    <2> SUFFICES ASSUME NEW c, NEW k, Awaits(c, k) PROVE Awaits(c, k)'
      OBVIOUS
    <2>1. \A s \in Slots : Serves(s, c, k) => Serves(s, c, k)'
      BY <1>1, <1>3 DEF Serves
    <2> QED
      BY <1>1, <2>1, AwaitsFramed
  <1>6. ASSUME NEW s \in Slots
        PROVE  EntryInv(s)' /\ JoinInv(s)' /\ tbl'[s].pending_child_cnt \in Nat
    <2>1. EntryInv(s) /\ JoinInv(s) /\ tbl[s].pending_child_cnt \in Nat /\ WideType
      BY DEF WaitInv
    <2>2. EntryInv(s)'
      BY <1>1, <2>1 DEF EntryInv
    <2>3. JoinInv(s)'
      BY <1>2, <1>3, <1>4, <2>1, JoinFollows
    <2> QED
      BY <1>1, <2>1, <2>2, <2>3
  <1>7. ASSUME NEW u \in Threads PROVE CallInv(th[u])'
    <2>1. PICK l : l = th[u] /\ l = th'[u]
      BY <1>1
    <2>2. Sound(l) /\ CallInv(l) /\ WideType
      BY <2>1 DEF WaitInv, WideType
    <2>3. Holding(l) => l.slot \in Slots
      BY <2>1, HolderEntry
    <2>4. CallInv(l)'
      BY <1>1, <1>2, <1>4, <1>5, <2>2, <2>3, CallFollows
    <2> QED
      BY <2>1, <2>4
  <1>8. \A x \in told' : Rightly(x)'
    BY <1>1, ToldFramed
  <1>9. WaitsKept'
    <2>1. \A w \in waits' : Awaits(w[1], w[2])'
      BY <1>1, <1>5 DEF WaitInv, WaitsKept
    <2> QED
      BY <2>1 DEF WaitsKept
  <1> QED
    BY <1>2, <1>6, <1>7, <1>8, <1>9 DEF WaitInv

\* The initial state.
LEMMA WaitInit == Init => WaitInv
  <1> SUFFICES ASSUME Init PROVE WaitInv
    OBVIOUS
  <1>1. WideType
    BY TypeInit
  <1>2. /\ \A s \in Slots : tbl[s] = Free
        /\ \A t \in Threads : th[t] = Idle
        /\ told = {} /\ waits = {}
    BY DEF Init
  <1>3. UniqueKey /\ OneHolder
    BY <1>2, FreeEntry, IdleSound DEF UniqueKey, OneHolder
  <1>4. \A s \in Slots : EntryInv(s) /\ JoinInv(s) /\ tbl[s].pending_child_cnt \in Nat
    BY <1>2, FreeEntry, KeysApart DEF EntryInv, JoinInv
  <1>5. \A t \in Threads : CallInv(th[t])
    BY <1>2, IdleSound DEF CallInv, RegisterInv, HolderInv, BuildInv, LinkInv, UndoInv,
                           EndInv, ResetPcs
  <1>6. LinksLive
    BY <1>2, FreeEntry, KeysApart DEF LinksLive, Linked
  <1> QED
    BY <1>1, <1>2, <1>3, <1>4, <1>5, <1>6 DEF WaitInv, WaitsKept

\* Every step of a table without holes in its lists of parents.
LEMMA WaitStep ==
  ASSUME Resetters = {}, OneWaiter, WaitInv, JoinsKnown, ListsClosed, [Next]_vars
  PROVE  WaitInv'
  <1>1. WideType'
    BY TypeStep DEF WaitInv
  <1>2. CASE UNCHANGED vars
    BY <1>2, StutterKeeps
  <1>3. ASSUME NEW f \in Fences, Create(f) \/ Destroy(f) PROVE WaitInv'
    BY <1>1, <1>3, CreateKeeps, DestroyKeeps
  <1>4. CASE Signalled
    BY <1>1, <1>4, SignalKeeps DEF Signalled
  <1>5. ASSUME NEW t \in Threads, Call(t) PROVE WaitInv'
    <2>1. PICK c \in Clients :
            \/ \E f \in Fences : RegisterWait(t, c, f)
            \/ \E a \in Arrays : ArrayStart(t, c, a)
      BY <1>5 DEF Call
    <2> QED
      BY <1>1, <2>1, RegisterWaitKeeps, ArrayStartKeeps
  <1>6. ASSUME NEW t \in Threads, Step(t) PROVE WaitInv'
    <2>1. CASE RegisterLock(t) \/ RegisterCheck(t)
      BY <1>1, <2>1, RegisterLockKeeps, RegisterCheckKeeps
    <2>2. CASE ArrayMask(t) \/ ArrayChild(t) \/ ArrayDone(t)
      BY <1>1, <2>2, ArrayMaskKeeps, ArrayChildKeeps, ArrayDoneKeeps
    <2>3. CASE LinkSignalled(t) \/ LinkPending(t)
      BY <1>1, <2>3, LinkSignalledKeeps, LinkPendingKeeps
    <2>4. CASE ArrayUndo(t)
      BY <1>1, <2>4, ArrayUndoKeeps
    <2>5. CASE ArrayDestroy(t) \/ ArrayFail(t)
      BY <1>1, <2>5, ArrayEndKeeps
    <2> QED
      BY <1>6, <2>1, <2>2, <2>3, <2>4, <2>5, NoResets DEF Step
  <1> QED
    BY <1>2, <1>3, <1>4, <1>5, <1>6 DEF Next

-----------------------------------------------------------------------------
(* What the invariant says. *)

\* The type, with a count of children that is not negative.
LEMMA InvType == WaitInv => TypeOK
  <1> SUFFICES ASSUME WaitInv PROVE TypeOK
    OBVIOUS
  <1>1. WideType /\ \A s \in Slots : tbl[s].pending_child_cnt \in Nat
    BY DEF WaitInv
  <1>2. \A e \in WideEntry : e.pending_child_cnt \in Nat => e \in Entry
    BY DEF WideEntry, Entry
  <1>3. tbl \in [Slots -> Entry]
    BY <1>1, <1>2 DEF WideType
  <1> QED
    BY <1>1, <1>3 DEF WideType, TypeOK

\* Parents are live since links are.
LEMMA InvParents == WaitInv => ParentsAreLive
  <1> SUFFICES ASSUME WaitInv, NEW s \in Slots, NEW p \in Parents, NEW j,
                      j = tbl[s].parent_list[p], tbl[s].key \in Fences, ~tbl[s].sig, j # INVALID
               PROVE  tbl[j].key \in Arrays /\ IsChild(tbl[s].key, tbl[j].key)
    BY DEF ParentsAreLive
  <1>1. j \in Slots
    <2>1. tbl[s].parent_list \in [Parents -> Slots \union {INVALID}]
      BY EntryFields DEF WaitInv, WideType
    <2> QED
      BY <2>1
  <1> QED
    BY <1>1 DEF WaitInv, LinksLive, Linked

\* Every signal is right.
LEMMA InvTold == WaitInv => NoEarlySignal /\ JoinErrorKept
  <1> SUFFICES ASSUME WaitInv, NEW x \in told
               PROVE  /\ x[2] \in Fences => HasEnded(x[2])
                      /\ x[2] \in Arrays =>
                           \A n \in DOMAIN Children[x[2]] : HasEnded(Children[x[2]][n])
                      /\ x[2] \in Arrays /\ ~x[3] =>
                           \A f \in Fences : IsChild(f, x[2]) => ended[f] # "error"
    BY DEF NoEarlySignal, JoinErrorKept
  <1>1. Rightly(x)
    BY DEF WaitInv
  <1>2. x[2] \in Arrays => DOMAIN Children[x[2]] = 1 .. Len(Children[x[2]])
    BY ArrayElements
  <1> QED
    BY <1>1, <1>2 DEF Rightly, IsChild

\* Every waiter is signalled or served.
LEMMA InvWaiters == WaitInv => NoWaiterForgotten
  BY DEF WaitInv, WaitsKept, Awaits, Serves, NoWaiterForgotten, Find

\* The count of a join fence is that of its builder, or that of all its children.
LEMMA InvCount == WaitInv => JoinCount
  <1> SUFFICES ASSUME WaitInv, NEW j \in Slots, tbl[j].alloc = JoinClient, ~Undoing(j)
               PROVE  tbl[j].pending_child_cnt = Cardinality(ToLink(j)) + Cardinality(Waiting(j))
    BY DEF JoinCount
  <1>1. PICK a : a = tbl[j].key
    OBVIOUS
  <1>2. a \in Arrays /\ Len(Children[a]) \in Nat
    <2>1. a \in Keys \union {None} /\ EntryInv(j)
      BY <1>1, EntryFields DEF WaitInv, WideType
    <2>2. a # None /\ a \notin Fences
      BY <1>1, <2>1, FreeEntry, WaitAssumption DEF EntryInv
    <2> QED
      BY <2>1, <2>2, KeysApart, ArrayElements
  <1>3. Cardinality(Waiting(j)) \in Nat
    BY WaitingFinite
  <1> DEFINE builders == {t \in Threads : th[t].slot = j /\ th[t].pc \in BuildPcs}
             Rest(t) == {t} \X (th[t].i .. Num(t))
  <1>4. ToLink(j) = UNION {Rest(t) : t \in builders}
    BY DEF ToLink, BuildPcs
  <1>5. ASSUME NEW t \in builders, ~Holding(th[t]) PROVE Rest(t) = {}
    <2>1. Sound(th[t])
      BY DEF WaitInv, WideType
    <2>2. /\ th[t].pc = "arr_child" /\ ~(th[t].i <= Len(Children[th[t].key]))
          /\ th[t].key \in Arrays /\ th[t].i \in Nat
      BY <1>5, <2>1 DEF Holding, ArrayPcs, BuildPcs, Sound, Local
    <2>3. Len(Children[th[t].key]) \in Nat
      BY <2>2, ArrayElements
    <2>4. th[t].i .. Num(t) = {}
      BY <2>2, <2>3 DEF Num
    <2> QED
      BY <2>4
  <1>6. CASE ~Held(j)
    <2>1. \A t \in builders : ~Holding(th[t])
      BY <1>6 DEF Held
    <2>2. ToLink(j) = {}
      BY <1>4, <1>5, <2>1
    <2>3. Cardinality(ToLink(j)) = 0
      BY <2>2, FS_EmptySet
    <2>4. Accounts(j, a, Len(Children[a]) + 1)
      BY <1>1, <1>2, <1>6 DEF WaitInv, JoinInv
    <2> QED
      BY <1>2, <1>3, <2>3, <2>4 DEF Accounts
  <1>7. CASE Held(j)
    <2>1. PICK t \in Threads : th[t].slot = j /\ Holding(th[t])
      BY <1>7 DEF Held
    <2>2. \A u \in builders : u # t => ~Holding(th[u])
      BY <2>1 DEF WaitInv, OneHolder
    <2>3. PICK k : k = th[t]
      OBVIOUS
    <2>4. Sound(k) /\ CallInv(k) /\ k.slot = j /\ Holding(k) /\ k.key = a
      BY <1>1, <2>1, <2>3, HolderEntry DEF WaitInv, WideType
    <2>5. CASE k.pc \in BuildPcs
      <3>1. PICK i : i = k.i
        OBVIOUS
      <3>2. i \in 1 .. Len(Children[a]) + 1
        BY <2>4, <2>5, <3>1 DEF Sound
      <3>3. t \in builders /\ Rest(t) = {t} \X (i .. Len(Children[a]))
        BY <2>1, <2>3, <2>4, <2>5, <3>1 DEF Num
      <3>4. ToLink(j) = {t} \X (i .. Len(Children[a]))
        <4>1. \A u \in builders : Rest(u) \subseteq Rest(t)
          BY <1>5, <2>2
        <4> HIDE DEF builders, Rest
        <4> QED
          BY <1>4, <3>3, <4>1
      <3>5. /\ IsFiniteSet(i .. Len(Children[a]))
            /\ Cardinality(i .. Len(Children[a])) = Len(Children[a]) + 1 - i
        <4>1. \A x, y \in Int : /\ IsFiniteSet(x .. y)
                                /\ Cardinality(x .. y) = IF x > y THEN 0 ELSE y - x + 1
          BY FS_Interval
        <4>2. i \in Int /\ Len(Children[a]) \in Int
          BY <1>2, <3>2
        <4>3. /\ IsFiniteSet(i .. Len(Children[a]))
              /\ Cardinality(i .. Len(Children[a]))
                   = IF i > Len(Children[a]) THEN 0 ELSE Len(Children[a]) - i + 1
          BY <4>1, <4>2
        <4>4. (IF i > Len(Children[a]) THEN 0 ELSE Len(Children[a]) - i + 1)
                = Len(Children[a]) + 1 - i
          BY <1>2, <3>2
        <4> QED
          BY <4>3, <4>4
      <3>6. IsFiniteSet({t}) /\ Cardinality({t}) = 1
        BY FS_Singleton
      <3>7. Cardinality(ToLink(j)) = 1 * (Len(Children[a]) + 1 - i)
        BY <3>4, <3>5, <3>6, FS_Product, ZenonT(40)
      <3>8. Accounts(j, a, i)
        BY <2>4, <2>5, <3>1 DEF CallInv, BuildInv
      <3> QED
        BY <1>2, <1>3, <3>2, <3>7, <3>8 DEF Accounts
    <2>6. CASE k.pc \notin BuildPcs
      <3>1. k.pc = "arr_destroy"
        BY <2>1, <2>3, <2>4, <2>6 DEF Holding, ArrayPcs, UndoPcs, Undoing
      <3>2. /\ tbl[j].pending_child_cnt = 0
            /\ \A s \in Slots, p \in Parents : ~Linked(s, p, j)
        BY <2>4, <3>1 DEF CallInv, EndInv
      <3>3. Waiting(j) = {}
        BY <3>2 DEF Waiting, Linked
      <3>4. \A u \in builders : ~Holding(th[u])
        BY <2>2, <2>3, <2>6
      <3>5. ToLink(j) = {}
        BY <1>4, <1>5, <3>4
      <3> QED
        BY <3>2, <3>3, <3>5, FS_EmptySet
    <2> QED
      BY <2>5, <2>6
  <1> QED
    BY <1>6, <1>7

-----------------------------------------------------------------------------
(* Who waits for the join fences there are. *)

\* A step of thread t that leaves the array of its call known, or without a
\* join fence.
LEMMA KnownKept ==
  ASSUME JoinsKnown, NoKey, NEW t \in Threads, OnlyThread(t), waits \subseteq waits',
         th[t].pc \in ArrayPcs =>
           \/ th'[t].pc \in ArrayPcs /\ th'[t].key = th[t].key
           \/ \E c \in Clients : <<c, th[t].key>> \in waits'
           \/ \A s \in Slots : tbl'[s].key # th[t].key
  PROVE  JoinsKnown'
  <1> SUFFICES ASSUME NEW s \in Slots, tbl'[s].key \in Arrays PROVE Known(tbl[s].key)'
    BY DEF JoinsKnown
  <1>1. tbl'[s].key = tbl[s].key
    BY FreeEntry, WaitAssumption DEF NoKey
  <1>2. Known(tbl[s].key)
    BY <1>1 DEF JoinsKnown
  <1>3. CASE \E c \in Clients : <<c, tbl[s].key>> \in waits
    BY <1>1, <1>3 DEF Known
  <1>4. CASE \E u \in Threads : th[u].pc \in ArrayPcs /\ th[u].key = tbl[s].key
    <2>1. PICK u \in Threads : th[u].pc \in ArrayPcs /\ th[u].key = tbl[s].key
      BY <1>4
    <2>2. CASE u # t
      BY <1>1, <2>1, <2>2 DEF Known, OnlyThread
    <2>3. CASE u = t
      BY <1>1, <2>1, <2>3 DEF Known
    <2> QED
      BY <2>2, <2>3
  <1> QED
    BY <1>2, <1>3, <1>4 DEF Known

\* The calls that create a join fence, or no entry at all.
LEMMA KnownCalls ==
  ASSUME Resetters = {}, WaitInv, JoinsKnown, NEW t \in Threads, Call(t)
  PROVE  JoinsKnown'
  <1>1. WideType
    BY DEF WaitInv
  <1>2. ASSUME NEW c \in Clients, NEW f \in Fences, RegisterWait(t, c, f) PROVE JoinsKnown'
    <2>1. NoKey
      BY <1>2 DEF RegisterWait, NoKey
    <2>2. OnlyThread(t) /\ th[t].pc \notin ArrayPcs /\ UNCHANGED waits
      BY <1>1, <1>2, RegisterWaitEffect DEF ArrayPcs, BuildPcs, UndoPcs
    <2> QED
      BY <2>1, <2>2, KnownKept
  <1>3. ASSUME NEW c \in Clients, NEW a \in Arrays, ArrayStart(t, c, a) PROVE JoinsKnown'
    <2>1. OnlyThread(t) /\ th[t].pc \notin ArrayPcs /\ UNCHANGED waits
      BY <1>1, <1>3, ArrayStartEffect DEF ArrayPcs, BuildPcs, UndoPcs
    <2>2. PICK s \in Slots :
            /\ tbl[s].key = None
            /\ tbl'[s].key = a /\ tbl'[s].alloc = JoinClient /\ tbl'[s].mask = {}
            /\ ~tbl'[s].sig /\ SameList(tbl'[s], Free) /\ ~tbl'[s].error
            /\ tbl'[s].pending_child_cnt = Len(Children[a])
            /\ OnlyEntry(s)
            /\ th'[t].pc = "arr_mask" /\ th'[t].client = c /\ th'[t].key = a
            /\ th'[t].slot = s /\ th'[t].i = 1 /\ ~th'[t].signal
      BY <1>1, <1>3, ArrayStartEffect
    <2>3. Known(a)'
      BY <2>2 DEF Known, ArrayPcs, BuildPcs
    <2>4. \A b : Known(b) => Known(b)'
      BY <2>1 DEF Known, OnlyThread
    <2> QED
      BY <2>2, <2>3, <2>4 DEF JoinsKnown, OnlyEntry
  <1> QED
    BY <1>2, <1>3 DEF Call

\* The steps of calls.
LEMMA KnownSteps ==
  ASSUME WaitInv, JoinsKnown, NEW t \in Threads, Step(t)
  PROVE  JoinsKnown'
  <1> USE DEF ArrayPcs, BuildPcs, UndoPcs
  <1>1. WideType
    BY DEF WaitInv
  <1>2. NoKey /\ OnlyThread(t)
    <2>1. ~\E c \in Clients, a \in Arrays : ArrayStart(t, c, a)
      BY DEF ArrayStart, Step, RegisterLock, RegisterCheck, ArrayMask, ArrayChild,
             LinkSignalled, LinkPending, ArrayDone, ArrayDestroy, ArrayUndo, ArrayFail,
             ResetEntry, ResetSignal, ResetOwner, ResetDestroy, ResetReturn, At
    <2> QED
      BY <1>1, <2>1, NoKeyThread, StepThread, SMTT(30)
  <1>3. CASE RegisterLock(t)
    BY <1>1, <1>2, <1>3, RegisterLockEffect, KnownKept
  <1>4. CASE RegisterCheck(t)
    BY <1>1, <1>2, <1>4, RegisterCheckEffect, KnownKept
  <1>5. CASE ArrayMask(t)
    BY <1>1, <1>2, <1>5, ArrayMaskEffect, KnownKept DEF SameCall
  <1>6. CASE ArrayChild(t)
    BY <1>1, <1>2, <1>6, ArrayChildEffect, KnownKept DEF SameCall
  <1>7. CASE LinkSignalled(t)
    BY <1>1, <1>2, <1>7, LinkSignalledEffect, KnownKept DEF SameCall
  <1>8. CASE LinkPending(t)
    BY <1>1, <1>2, <1>8, LinkPendingEffect, KnownKept DEF SameCall
  <1>9. CASE ArrayDone(t)
    BY <1>1, <1>2, <1>9, ArrayDoneEffect, KnownKept DEF SameCall
  <1>10. CASE ArrayUndo(t)
    BY <1>1, <1>2, <1>10, ArrayUndoEffect, KnownKept DEF SameCall
  <1>11. CASE ArrayDestroy(t) \/ ArrayFail(t)
    <2>1. th[t].key \in Arrays /\ th[t].client \in Clients
      BY <1>1, <1>11, ArrayEndEffect
    <2>2. Unique(th[t].key)
      BY <2>1, KeysApart DEF WaitInv, UniqueKey, Unique
    <2>3. \A s \in Slots : tbl'[s].key # th[t].key
      BY <1>1, <1>11, <2>1, <2>2, ArrayEndEffect, FreeEntry, KeysApart
    <2>4. waits \subseteq waits'
      BY <1>1, <1>11, ArrayEndEffect
    <2> QED
      BY <1>2, <2>3, <2>4, KnownKept
  <1> QED
    BY <1>3, <1>4, <1>5, <1>6, <1>7, <1>8, <1>9, <1>10, <1>11, NoResets DEF Step

\* Every step.
LEMMA KnownStep ==
  ASSUME Resetters = {}, WaitInv, JoinsKnown, [Next]_vars
  PROVE  JoinsKnown'
  <1>1. WideType
    BY DEF WaitInv
  <1>2. (UNCHANGED <<th, waits>>) => \A a : Known(a) => Known(a)'
    BY DEF Known
  <1>3. ASSUME NEW f \in Fences, Create(f) PROVE JoinsKnown'
    <2>1. PICK s \in Slots :
            /\ tbl[s].key = None
            /\ tbl'[s].key = f /\ tbl'[s].alloc = Owner[f] /\ tbl'[s].mask = {}
            /\ tbl'[s].sig = FALSE /\ SameList(tbl'[s], Free) /\ SameCount(tbl'[s], Free)
            /\ OnlyEntry(s)
      BY <1>1, <1>3, CreateEffect
    <2>2. UNCHANGED <<th, waits>> /\ f \notin Arrays
      BY <1>3, KeysApart DEF Create
    <2> QED
      BY <1>2, <2>1, <2>2 DEF JoinsKnown, OnlyEntry
  <1>4. CASE (\E f \in Fences : Destroy(f)) \/ Signalled
    <2>1. NoKey
      BY <1>1, <1>4, NoKeyFence
    <2>2. UNCHANGED <<th, waits>>
      BY <1>4 DEF Destroy, Signalled, FctlSignal
    <2> QED
      BY <1>2, <2>1, <2>2, FreeEntry, WaitAssumption DEF JoinsKnown, NoKey
  <1>5. CASE UNCHANGED vars
    BY <1>2, <1>5 DEF vars, JoinsKnown
  <1> QED
    BY <1>3, <1>4, <1>5, KnownCalls, KnownSteps DEF Next

-----------------------------------------------------------------------------
(* The theorems. *)

\* Without resets and second waiters, the invariant holds as long as no list
\* has a hole.
LEMMA WaitKept ==
  ASSUME Resetters = {}, OneWaiter
  PROVE  Spec /\ []ListsClosed => []WaitInv
  <1>1. Init => WaitInv /\ JoinsKnown
    <2>1. Init => JoinsKnown
      BY FreeEntry, WaitAssumption DEF Init, JoinsKnown
    <2> QED
      BY <2>1, WaitInit
  <1>2. WaitInv /\ JoinsKnown /\ ListsClosed /\ [Next]_vars => WaitInv' /\ JoinsKnown'
    BY WaitStep, KnownStep
  <1> QED
    BY <1>1, <1>2, PTL DEF Spec

(* The theorems below have three hypotheses, and each is needed.           *)
(* Resetters = {}: a reset destroys fences that are still children of join *)
(* fences.  OneWaiter: two clients that wait for the same array may get    *)
(* two join fences with one key, and the call that fails or is done        *)
(* destroys the first of them, whosever it is.  []ListsClosed: they hold   *)
(* up to the step in which _cleanup_join_and_child_fences() takes a parent *)
(* from in front of another, after which a live parent is overwritten.     *)

(* The state keeps its type: among others pending_child_cnt never drops    *)
(* below zero, whoever of driver and fence controller counts down.         *)
THEOREM WaitTypeCorrect ==
  ASSUME Resetters = {}, OneWaiter
  PROVE  Spec /\ []ListsClosed => []TypeOK
  BY WaitKept, InvType, PTL

(* pending_child_cnt is exact: it counts the elements that the call still  *)
(* has to link and the links of fences that are still to signal.           *)
THEOREM WaitJoinCount ==
  ASSUME Resetters = {}, OneWaiter
  PROVE  Spec /\ []ListsClosed => []JoinCount
  BY WaitKept, InvCount, PTL

(* What a fence has as a parent is the join fence of an array it is in,    *)
(* whatever failed calls undo and whoever destroys the join fence.         *)
THEOREM WaitParentsAreLive ==
  ASSUME Resetters = {}, OneWaiter
  PROVE  Spec /\ []ListsClosed => []ParentsAreLive
  BY WaitKept, InvParents, PTL

(* No client hears of a fence, or of an array, that has not ended.         *)
THEOREM WaitNoEarlySignal ==
  ASSUME Resetters = {}, OneWaiter
  PROVE  Spec /\ []ListsClosed => []NoEarlySignal
  BY WaitKept, InvTold, PTL

(* A client whose registration returned 0 has been signalled or is in the  *)
(* mask of an entry that is still to signal.                               *)
THEOREM WaitNoWaiterForgotten ==
  ASSUME Resetters = {}, OneWaiter
  PROVE  Spec /\ []ListsClosed => []NoWaiterForgotten
  BY WaitKept, InvWaiters, PTL

(* The error of a child reaches the waiters of the join fence.             *)
THEOREM WaitJoinErrorKept ==
  ASSUME Resetters = {}, OneWaiter
  PROVE  Spec /\ []ListsClosed => []JoinErrorKept
  BY WaitKept, InvTold, PTL
=============================================================================
