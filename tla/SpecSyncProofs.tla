------------------------- MODULE SpecSyncProofs -------------------------
(***************************************************************************)
(* Theorems about speculative fences, for any threads, planes, arrays and  *)
(* fences, if an array is bound by one thread at a time.                   *)
(***************************************************************************)
EXTENDS SpecSync, FiniteSetTheorems, TLAPS
-----------------------------------------------------------------------------
(* The inductive invariant. *)

Opened == {t \in Threads : opened[t]}

\* A thread with an array has the device open, and has it for itself.
ThreadInv ==
  /\ \A t \in Threads : /\ pc[t] = "idle" <=> cur[t] = Null
                        /\ pc[t] # "idle" => opened[t]
  /\ \A s, t \in Threads : cur[s] = cur[t] /\ cur[s] # Null => s = t
  /\ IsFiniteSet(Opened) /\ available = Cardinality(Opened)

\* The references of an array, as in RefsExact.
Refs(a) ==
  /\ IsFiniteSet(Holders(a))
  /\ arr[a].refs = Cardinality(Holders(a)) + Cardinality(arr[a].hooked)

DummyInv ==
  /\ IsFiniteSet(DummyPlaces)
  /\ dummy = 1 + Cardinality(DummyPlaces)

Replacing(t) == pc[t] \in {"copy", "lock", "store"}
Building(a) == \E t \in Threads : cur[t] = a /\ pc[t] = "create"

\* What a thread knows of its array: under construction, handed out with dummy
\* fences and the enable bit, bound from the front.
ThreadBind(t) ==
  /\ pc[t] \in {"create", "file", "list"} => cur[t] \notin tracked
  /\ pc[t] = "create" =>
       /\ arr[cur[t]].fences # <<>> /\ Dummies(cur[t]) = 1 .. Num(cur[t])
       /\ arr[cur[t]] = [Unused EXCEPT !.any = arr[cur[t]].any,
                                       !.fences = arr[cur[t]].fences]
  /\ pc[t] = "file" => ~arr[cur[t]].fd
  /\ Replacing(t) =>
       /\ arr[cur[t]].enable /\ arr[cur[t]].hooked = {}
       /\ i[t] <= Num(cur[t]) + 1
       /\ Dummies(cur[t]) = i[t] .. Num(cur[t])
  /\ pc[t] \in {"idle", "create", "file", "list", "sanitize", "check", "copy", "lock"}
       => i[t] = 1
  /\ pc[t] = "bad_signal" => arr[cur[t]].error

\* Callbacks of an array are on real fences, and set after its bind.
ArrayBind(a) ==
  /\ arr[a].fences = <<>> => arr[a] = Unused
  /\ arr[a].hooked \subseteq 1 .. Num(a)
  /\ Dummies(a) # {} /\ ~Building(a) => arr[a].enable
  /\ Dummies(a) # {} \/ ~arr[a].enable => arr[a].hooked = {}

\* What a plane has inspected are hw-fences.
Waits(w) ==
  /\ wpc[w] = "idle" <=> warr[w] = Null
  /\ wpc[w] \in {"idle", "wait"} => wi[w] = 1
  /\ wpc[w] = "inspect" =>
       /\ wi[w] <= Num(warr[w])
       /\ \A n \in 1 .. wi[w] - 1 : arr[warr[w]].fences[n] \in HwFences
  /\ wpc[w] = "hw" =>
       \A n \in 1 .. Num(warr[w]) : arr[warr[w]].fences[n] \in HwFences

Target(r) == IF r.any THEN 1 ELSE Len(r.fences)
Ended(a) == {n \in 1 .. Num(a) : arr[a].fences[n] \in done}

\* No fence of the array has been counted yet.
Uncounted(a) ==
  \/ ~arr[a].enable \/ Dummies(a) # {}
  \/ \E t \in Threads : cur[t] = a /\ Replacing(t)

\* The pending count of an array that is neither failed nor dropped.
Count(a) ==
  /\ \A n \in arr[a].hooked : arr[a].fences[n] \notin done
  /\ arr[a].fences # <<>> /\ ~Building(a) /\ ~arr[a].error /\ ~arr[a].dropped =>
      /\ Uncounted(a) => arr[a].pending = Target(arr[a]) /\ ~arr[a].signaled
      /\ arr[a].any /\ IsSignaled(arr[a]) => Ended(a) # {}
      /\ ~arr[a].any =>
           \/ arr[a].pending = Num(a) /\ ~arr[a].signaled /\ arr[a].hooked = {}
           \/ /\ arr[a].pending = Cardinality(arr[a].hooked)
              /\ Ended(a) = (1 .. Num(a)) \ arr[a].hooked
      /\ ~arr[a].any /\ arr[a].signaled => Ended(a) = 1 .. Num(a)

SpecInv ==
  /\ TypeOK /\ ThreadInv /\ DummyInv
  /\ \A t \in Threads : ThreadBind(t)
  /\ \A w \in Waiters : Waits(w)
  /\ \A a \in Arrays : Refs(a) /\ ArrayBind(a) /\ Count(a)
-----------------------------------------------------------------------------
(* Fence arrays as records. *)

(* The fields of an array. *)
LEMMA ArrayFields ==
  ASSUME NEW r \in ArrayType
  PROVE  /\ r.refs \in Nat /\ r.fences \in Seq(Fences \union {Dummy})
         /\ Len(r.fences) \in 0 .. FenceMax
         /\ r.any \in BOOLEAN /\ r.pending \in Int /\ r.hooked \subseteq 1 .. FenceMax
         /\ r.enable \in BOOLEAN /\ r.error \in BOOLEAN /\ r.signaled \in BOOLEAN
         /\ r.fd \in BOOLEAN /\ r.dropped \in BOOLEAN
         /\ IsFiniteSet(r.hooked) /\ Cardinality(r.hooked) \in Nat
<1>1. PICK n \in 0 .. FenceMax : r.fences \in [1 .. n -> Fences \union {Dummy}]
  BY DEF ArrayType
<1>2. r.fences \in Seq(Fences \union {Dummy}) /\ Len(r.fences) = n
  BY <1>1, SpecAssumption
<1>3. r.hooked \subseteq 1 .. FenceMax
  BY DEF ArrayType
<1>4. IsFiniteSet(1 .. FenceMax)
  BY FS_Interval, SpecAssumption
<1>5. IsFiniteSet(r.hooked) /\ Cardinality(r.hooked) \in Nat
  BY <1>3, <1>4, FS_Subset, FS_CardinalityType
<1> QED BY <1>2, <1>5 DEF ArrayType

\* What an array is, whom it has a callback on, and how far it has counted.
SameFences(q, r) == q.fences = r.fences /\ q.any = r.any
SameHooks(q, r) == q.hooked = r.hooked /\ q.enable = r.enable
SameCount(q, r) == /\ q.pending = r.pending /\ q.signaled = r.signaled
                   /\ q.error = r.error /\ q.dropped = r.dropped
SameBody(q, r) == SameFences(q, r) /\ SameHooks(q, r) /\ SameCount(q, r)

(* Stores to single fields of an array. *)
LEMMA StoreRefs ==
  ASSUME NEW r \in ArrayType, NEW x \in Nat
  PROVE  LET q == [r EXCEPT !.refs = x] IN
         q \in ArrayType /\ q.refs = x /\ q.fd = r.fd /\ SameBody(q, r)
BY DEF ArrayType, SameBody, SameFences, SameHooks, SameCount

(* The record of an array after its references and its file change. *)
LEMMA StoreRefsFd ==
  ASSUME NEW r \in ArrayType, NEW x \in Nat, NEW y \in BOOLEAN
  PROVE  LET q == [r EXCEPT !.refs = x, !.fd = y] IN
         q \in ArrayType /\ q.refs = x /\ q.fd = y /\ SameBody(q, r)
BY DEF ArrayType, SameBody, SameFences, SameHooks, SameCount

(* The record after the lock is taken or given back. *)
LEMMA StoreLock ==
  ASSUME NEW r \in ArrayType, NEW x \in Threads \union {Null}
  PROVE  LET q == [r EXCEPT !.lock = x] IN
         q \in ArrayType /\ q.refs = r.refs /\ q.fd = r.fd /\ SameBody(q, r)
BY DEF ArrayType, SameBody, SameFences, SameHooks, SameCount

(* The record after the bound flag is set. *)
LEMMA StoreBound ==
  ASSUME NEW r \in ArrayType
  PROVE  LET q == [r EXCEPT !.bound = TRUE] IN
         q \in ArrayType /\ q.refs = r.refs /\ q.fd = r.fd /\ SameBody(q, r)
BY DEF ArrayType, SameBody, SameFences, SameHooks, SameCount

(* The record after dma_fence_set_error() and the unlock. *)
LEMMA StoreError ==
  ASSUME NEW r \in ArrayType
  PROVE  LET q == [r EXCEPT !.error = TRUE, !.lock = Null] IN
         /\ q \in ArrayType /\ q.refs = r.refs /\ q.fd = r.fd
         /\ SameFences(q, r) /\ SameHooks(q, r)
         /\ q.pending = r.pending /\ q.signaled = r.signaled /\ q.dropped = r.dropped
         /\ q.error = TRUE
BY DEF ArrayType, SameFences, SameHooks

(* The record after dma_fence_signal() of the array itself. *)
LEMMA StoreSignaled ==
  ASSUME NEW r \in ArrayType
  PROVE  LET q == [r EXCEPT !.signaled = TRUE] IN
         /\ q \in ArrayType /\ q.refs = r.refs /\ q.fd = r.fd
         /\ SameFences(q, r) /\ SameHooks(q, r)
         /\ q.pending = r.pending /\ q.error = r.error /\ q.dropped = r.dropped
BY DEF ArrayType, SameFences, SameHooks

(* The record after the enable bit is cleared and the lock given back. *)
LEMMA StoreDisabled ==
  ASSUME NEW r \in ArrayType
  PROVE  LET q == [r EXCEPT !.enable = FALSE, !.lock = Null] IN
         /\ q \in ArrayType /\ q.refs = r.refs /\ q.fd = r.fd
         /\ SameFences(q, r) /\ SameCount(q, r)
         /\ q.hooked = r.hooked /\ q.enable = FALSE
BY DEF ArrayType, SameFences, SameCount

(* The record after dma_fence_array_create() and the enable bit. *)
LEMMA StoreCreated ==
  ASSUME NEW r \in ArrayType, NEW n \in Int
  PROVE  LET q == [r EXCEPT !.refs = 1, !.pending = n, !.enable = TRUE] IN
         /\ q \in ArrayType /\ q.refs = 1 /\ q.fd = r.fd
         /\ SameFences(q, r) /\ q.hooked = r.hooked /\ q.enable = TRUE
         /\ q.pending = n /\ q.signaled = r.signaled /\ q.error = r.error
         /\ q.dropped = r.dropped
BY DEF ArrayType, SameFences

\* q is r with fence f in place n.
Stored(q, r, n, f) ==
  /\ q \in ArrayType /\ q.refs = r.refs /\ q.fd = r.fd /\ q.any = r.any
  /\ SameHooks(q, r) /\ SameCount(q, r)
  /\ Len(q.fences) = Len(r.fences) /\ q.fences[n] = f
  /\ \A m \in 1 .. Len(r.fences) : m # n => q.fences[m] = r.fences[m]

(* The record after a user fence takes place n. *)
LEMMA StoreFence ==
  ASSUME NEW r \in ArrayType, NEW n \in 1 .. Len(r.fences), NEW f \in Fences
  PROVE  Stored([r EXCEPT !.fences[n] = f], r, n, f)
<1> DEFINE s == [r.fences EXCEPT ![n] = f]
           q == [r EXCEPT !.fences = s]
<1>1. PICK k \in 0 .. FenceMax : r.fences \in [1 .. k -> Fences \union {Dummy}]
  BY DEF ArrayType
<1>2. k = Len(r.fences)
  BY <1>1, SpecAssumption
<1>3. s \in [1 .. k -> Fences \union {Dummy}] /\ Len(s) = k /\ s[n] = f
      /\ \A m \in 1 .. k : m # n => s[m] = r.fences[m]
  BY <1>1, <1>2, SpecAssumption
<1>4. s \in UNION {[1 .. j -> Fences \union {Dummy}] : j \in 0 .. FenceMax}
  BY <1>3
<1>5. /\ q \in ArrayType /\ q.refs = r.refs /\ q.fd = r.fd /\ q.any = r.any
      /\ SameHooks(q, r) /\ SameCount(q, r) /\ q.fences = s
  <2> HIDE DEF s
  <2> QED BY <1>4 DEF ArrayType, SameHooks, SameCount
<1>6. q = [r EXCEPT !.fences[n] = f]
  OBVIOUS
<1>7. Stored(q, r, n, f)
  <2> HIDE DEF s, q
  <2> QED BY <1>2, <1>3, <1>5 DEF Stored
<1> QED BY <1>6, <1>7

-----------------------------------------------------------------------------
(* What a step leaves alone. *)

\* An array after a step that neither touches its fences nor its callbacks.
Light(q, r) == SameFences(q, r) /\ SameHooks(q, r) /\ (SameCount(q, r) \/ q.error)

(* The sizes of an array are numbers. *)
LEMMA ArraySizes ==
  ASSUME TypeOK, NEW a \in Arrays
  PROVE  /\ arr[a] \in ArrayType /\ Num(a) \in 0 .. FenceMax
         /\ Num(a) = 0 <=> arr[a].fences = <<>>
         /\ \A n \in 1 .. Num(a) : arr[a].fences[n] \in Fences \union {Dummy}
         /\ Dummies(a) \subseteq 1 .. Num(a)
         /\ IsFiniteSet(Dummies(a)) /\ Cardinality(Dummies(a)) \in Nat
<1>1. arr[a] \in ArrayType
  BY DEF TypeOK
<1>2. arr[a].fences \in Seq(Fences \union {Dummy}) /\ Num(a) \in 0 .. FenceMax
  BY <1>1, ArrayFields DEF Num
<1>3. Dummies(a) \subseteq 1 .. Num(a) /\ IsFiniteSet(1 .. Num(a))
  BY <1>2, FS_Interval, SpecAssumption DEF Dummies
<1> QED BY <1>1, <1>2, <1>3, FS_Subset, FS_CardinalityType DEF Num

(* A light step keeps what the array promises. *)
LEMMA ArrayKept ==
  ASSUME NEW a \in Arrays, ArrayBind(a), Count(a), done' = done,
         arr[a].error \in BOOLEAN,
         Light(arr'[a], arr[a]), arr'[a] = arr[a] \/ arr[a].fences # <<>>,
         Building(a)' <=> Building(a), Uncounted(a)' => Uncounted(a)
  PROVE  ArrayBind(a)' /\ Count(a)'
<1>1. Num(a)' = Num(a) /\ Dummies(a)' = Dummies(a) /\ Ended(a)' = Ended(a)
      /\ Target(arr'[a]) = Target(arr[a])
  BY DEF Light, SameFences, Num, Dummies, Ended, Target
<1>2. ArrayBind(a)'
  BY <1>1 DEF Light, SameFences, SameHooks, ArrayBind
<1>3. Count(a)'
  <2>1. CASE SameCount(arr'[a], arr[a])
    BY <1>1, <2>1 DEF Light, SameFences, SameHooks, SameCount, Count, IsSignaled
  <2>2. CASE arr'[a].error
    BY <2>2 DEF Light, SameFences, SameHooks, Count
  <2> QED BY <2>1, <2>2 DEF Light
<1> QED BY <1>2, <1>3

(* A thread that does not move knows the same of its array. *)
LEMMA ThreadKept ==
  ASSUME NEW t \in Threads, ThreadBind(t), pc'[t] = pc[t], cur'[t] = cur[t],
         i'[t] = i[t], pc[t] \in {"create", "file", "list"} => cur[t] \notin tracked',
         cur[t] # Null =>
           \/ arr'[cur[t]] = arr[cur[t]]
           \/ /\ pc[t] # "create" /\ Light(arr'[cur[t]], arr[cur[t]])
              /\ arr'[cur[t]].fd => arr[cur[t]].fd,
         pc[t] = "idle" => cur[t] = Null, cur[t] = Null => pc[t] = "idle"
  PROVE  ThreadBind(t)'
<1>1. CASE cur[t] = Null
  BY <1>1 DEF ThreadBind, Replacing
<1>2. CASE arr'[cur[t]] = arr[cur[t]]
  BY <1>2 DEF ThreadBind, Replacing, Num, Dummies
<1>3. CASE /\ pc[t] # "create" /\ Light(arr'[cur[t]], arr[cur[t]])
           /\ arr'[cur[t]].fd => arr[cur[t]].fd
  BY <1>3 DEF ThreadBind, Replacing, Num, Dummies, Light, SameFences, SameHooks, SameCount
<1> QED BY <1>1, <1>2, <1>3

(* A plane that does not move has inspected the same fences. *)
LEMMA WaiterKept ==
  ASSUME NEW w \in Waiters, Waits(w), Dummy \notin HwFences,
         wpc'[w] = wpc[w], warr'[w] = warr[w], wi'[w] = wi[w],
         warr[w] # Null =>
           /\ Len(arr'[warr[w]].fences) = Len(arr[warr[w]].fences)
           /\ wi[w] \in Nat /\ Len(arr[warr[w]].fences) \in Nat
           /\ \A n \in 1 .. Num(warr[w]) :
                arr[warr[w]].fences[n] # Dummy
                  => arr'[warr[w]].fences[n] = arr[warr[w]].fences[n]
  PROVE  Waits(w)'
<1>1. CASE warr[w] = Null
  BY <1>1 DEF Waits
<1>2. CASE warr[w] # Null
  <2>1. Num(warr[w])' = Num(warr[w]) /\ Num(warr[w]) \in Nat
    BY <1>2 DEF Num
  <2>2. \A n \in 1 .. Num(warr[w]) :
          arr[warr[w]].fences[n] \in HwFences => arr'[warr[w]].fences[n] \in HwFences
    BY <1>2
  <2> QED BY <1>2, <2>1, <2>2 DEF Waits
<1> QED BY <1>1, <1>2

(* The references of an array: the same holders, one more, one less. *)
LEMMA RefsKept ==
  ASSUME NEW a \in Arrays, Refs(a), Holders(a)' = Holders(a),
         arr'[a].refs = arr[a].refs, arr'[a].hooked = arr[a].hooked
  PROVE  Refs(a)'
BY DEF Refs

(* A new holder with a get keeps the count of references exact. *)
LEMMA RefsAdded ==
  ASSUME NEW a \in Arrays, Refs(a), IsFiniteSet(arr[a].hooked), NEW x,
         x \notin Holders(a), Holders(a)' = Holders(a) \union {x},
         arr'[a].refs = arr[a].refs + 1, arr'[a].hooked = arr[a].hooked
  PROVE  Refs(a)'
<1>1. IsFiniteSet(Holders(a)') /\ Cardinality(Holders(a)') = Cardinality(Holders(a)) + 1
  BY FS_AddElement DEF Refs
<1>2. Cardinality(Holders(a)) \in Nat /\ Cardinality(arr[a].hooked) \in Nat
  BY FS_CardinalityType DEF Refs
<1> QED BY <1>1, <1>2 DEF Refs

(* A holder that leaves with a put keeps the count exact. *)
LEMMA RefsRemoved ==
  ASSUME NEW a \in Arrays, Refs(a), IsFiniteSet(arr[a].hooked), NEW x,
         x \in Holders(a), Holders(a)' = Holders(a) \ {x},
         arr'[a].refs = arr[a].refs - 1, arr'[a].hooked = arr[a].hooked
  PROVE  Refs(a)'
<1>1. IsFiniteSet(Holders(a)') /\ Cardinality(Holders(a)') = Cardinality(Holders(a)) - 1
  BY FS_RemoveElement DEF Refs
<1>2. Cardinality(Holders(a)) \in Nat /\ Cardinality(arr[a].hooked) \in Nat
  BY FS_CardinalityType DEF Refs
<1> QED BY <1>1, <1>2 DEF Refs

(* An array that somebody refers to has fences and is complete. *)
LEMMA InUse ==
  ASSUME SpecInv, NEW a \in Arrays, NEW x \in Holders(a)
  PROVE  arr[a].refs >= 1 /\ arr[a].refs \in Nat /\ arr[a].fences # <<>> /\ ~Building(a)
<1>1. arr[a] \in ArrayType /\ Refs(a) /\ ArrayBind(a)
  BY DEF SpecInv, TypeOK
<1>2. arr[a].refs \in Nat /\ IsFiniteSet(arr[a].hooked)
      /\ Cardinality(arr[a].hooked) \in Nat
  BY <1>1, ArrayFields
<1>3. Cardinality(Holders(a)) \in Nat /\ Cardinality(Holders(a)) # 0
  BY <1>1, FS_CardinalityType, FS_EmptySet DEF Refs
<1>4. arr[a].refs >= 1
  BY <1>1, <1>2, <1>3 DEF Refs
<1>5. arr[a].fences # <<>>
  BY <1>1, <1>4 DEF ArrayBind, Unused
<1>6. ASSUME Building(a) PROVE FALSE
  <2>1. PICK t \in Threads : cur[t] = a /\ pc[t] = "create"
    BY <1>6 DEF Building
  <2>2. arr[a] = [Unused EXCEPT !.any = arr[a].any, !.fences = arr[a].fences]
    BY <2>1 DEF SpecInv, ThreadBind
  <2>3. arr[a].refs = 0
    BY <2>2 DEF Unused
  <2> QED BY <2>3, <1>4
<1> QED BY <1>2, <1>4, <1>5, <1>6

(* Nobody refers to an array without references. *)
LEMMA NotInUse ==
  ASSUME SpecInv, NEW a \in Arrays, arr[a].refs = 0
  PROVE  Holders(a) = {} /\ arr[a].hooked = {}
<1>1. Holders(a) = {}
  BY InUse
<1>2. arr[a] \in ArrayType /\ Refs(a)
  BY DEF SpecInv, TypeOK
<1>3. IsFiniteSet(arr[a].hooked) /\ Cardinality(arr[a].hooked) = 0
  BY <1>1, <1>2, ArrayFields, FS_EmptySet DEF Refs
<1> QED BY <1>1, <1>3, FS_EmptySet

(* The dummy fence keeps its places where the fences stay. *)
LEMMA DummyKept ==
  ASSUME DummyInv, dummy' = dummy, \A a \in Arrays : arr'[a].fences = arr[a].fences
  PROVE  DummyInv'
<1>1. \A a \in Arrays : Dummies(a)' = Dummies(a)
  BY DEF Dummies, Num
<1>2. DummyPlaces' = DummyPlaces
  BY <1>1 DEF DummyPlaces
<1> QED BY <1>2 DEF DummyInv

\* What BoundOnce says of a step.
BoundStep ==
  \A a \in Arrays : arr'[a] # Unused =>
    \A n \in 1 .. Num(a) :
      arr[a].fences[n] # Dummy => arr'[a].fences[n] = arr[a].fences[n]

(* A step that leaves the fences of all arrays alone replaces no bound fence. *)
LEMMA FencesKept ==
  ASSUME \A a \in Arrays : arr'[a].fences = arr[a].fences
  PROVE  BoundStep
BY DEF BoundStep

(* A store to one array. *)
LEMMA OneArray ==
  ASSUME TypeOK, NEW a \in Arrays, NEW q \in ArrayType, arr' = [arr EXCEPT ![a] = q]
  PROVE  /\ arr' \in [Arrays -> ArrayType] /\ arr'[a] = q
         /\ \A b \in Arrays : b # a => arr'[b] = arr[b]
BY DEF TypeOK

-----------------------------------------------------------------------------
(* Steps of a bind that leave references, fences and callbacks alone. *)

(* A thread at work stays at work on its array. *)
LEMMA ThreadMove ==
  ASSUME SpecInv, NEW t \in Threads, NEW from, NEW to, from # "idle", to # "idle",
         Goto(t, from, to), UNCHANGED <<cur, opened, available>>
  PROVE  ThreadInv' /\ cur[t] \in Arrays /\ \A s \in Threads : s # t => cur[s] # cur[t]
<1>1. pc[t] = from /\ pc' = [pc EXCEPT ![t] = to] /\ Opened' = Opened
  BY DEF Goto, Opened
<1>2. cur[t] # Null
  BY <1>1 DEF SpecInv, ThreadInv
<1> QED BY <1>1, <1>2 DEF SpecInv, ThreadInv, TypeOK

(* Planes whose array keeps its fences. *)
LEMMA OtherWaiter ==
  ASSUME SpecInv, \A a \in Arrays : arr'[a].fences = arr[a].fences, NEW w \in Waiters,
         wpc'[w] = wpc[w], warr'[w] = warr[w], wi'[w] = wi[w]
  PROVE  Waits(w)'
<1>1. Waits(w) /\ warr[w] \in Arrays \union {Null} /\ wi[w] \in Nat
  BY DEF SpecInv, TypeOK
<1>2. Dummy \notin HwFences
  BY SpecAssumption
<1>3. \A a \in Arrays : Num(a) \in Nat
  BY ArraySizes DEF SpecInv
<1> QED BY <1>1, <1>2, <1>3, WaiterKept DEF Num

(* A step without the planes that leaves all fences alone. *)
LEMMA WaitersKept ==
  ASSUME SpecInv, UNCHANGED wvars, \A a \in Arrays : arr'[a].fences = arr[a].fences
  PROVE  \A w \in Waiters : Waits(w)'
BY OtherWaiter DEF wvars

(* A step within a bind that changes neither fences, callbacks nor references. *)
LEMMA QuietMove ==
  ASSUME SpecInv, NEW t \in Threads, NEW from \in Binding, NEW to \in Binding,
         Goto(t, from, to), UNCHANGED <<cur, i, tracked, dummy, done>>, Stay,
         NEW q \in ArrayType, arr' = [arr EXCEPT ![cur[t]] = q],
         Light(q, arr[cur[t]]), q.refs = arr[cur[t]].refs, q.fd = arr[cur[t]].fd,
         Replacing(t)' => Replacing(t) \/ Dummies(cur[t]) # {},
         ThreadBind(t)'
  PROVE  SpecInv' /\ BoundStep
<1> DEFINE a == cur[t]
<1>1. from # "idle" /\ to # "idle" /\ from # "create" /\ to # "create"
  BY DEF Binding
<1>2. ThreadInv' /\ a \in Arrays /\ \A s \in Threads : s # t => cur[s] # a
  BY <1>1, ThreadMove DEF Stay
<1>3. /\ arr' \in [Arrays -> ArrayType] /\ arr'[a] = q
      /\ \A b \in Arrays : b # a => arr'[b] = arr[b]
  BY <1>2, OneArray DEF SpecInv
<1>4. \A b \in Arrays : /\ Light(arr'[b], arr[b]) /\ arr'[b].refs = arr[b].refs
                        /\ arr'[b].fd = arr[b].fd
  BY <1>3 DEF Light, SameFences, SameHooks, SameCount
<1>5. pc[t] = from /\ pc' = [pc EXCEPT ![t] = to] /\ pc \in [Threads -> Binding \union
        {"idle", "create", "file", "list"}]
  BY DEF Goto, SpecInv, TypeOK, Binding
<1>6. TypeOK'
  BY <1>3, <1>5 DEF SpecInv, TypeOK, Stay, wvars, Binding
<1>7. t \in Holders(a)
  BY <1>5, <1>2 DEF Holders
<1>8. arr[a].fences # <<>> /\ ~Building(a)
  BY <1>7, <1>2, InUse
<1>9. \A b \in Arrays : Building(b)' <=> Building(b)
  BY <1>1, <1>5 DEF Building
<1>10. \A b \in Arrays : Num(b)' = Num(b) /\ Dummies(b)' = Dummies(b)
  BY <1>4 DEF Light, SameFences, Num, Dummies
<1>11. \A b \in Arrays : Uncounted(b)' => Uncounted(b)
  <2> SUFFICES ASSUME NEW b \in Arrays, Uncounted(b)' PROVE Uncounted(b)
    OBVIOUS
  <2>1. CASE (~arr[b].enable \/ Dummies(b) # {})'
    BY <2>1, <1>4, <1>10 DEF Uncounted, Light, SameHooks
  <2>2. CASE \E s \in Threads : cur'[s] = b /\ Replacing(s)'
    BY <2>2, <1>5 DEF Uncounted, Replacing
  <2> QED BY <2>1, <2>2 DEF Uncounted
<1>12. \A b \in Arrays : ArrayBind(b)' /\ Count(b)'
  <2> SUFFICES ASSUME NEW b \in Arrays PROVE ArrayBind(b)' /\ Count(b)'
    OBVIOUS
  <2>1. ArrayBind(b) /\ Count(b) /\ arr[b].error \in BOOLEAN
    BY ArrayFields DEF SpecInv, TypeOK
  <2>2. arr'[b] = arr[b] \/ arr[b].fences # <<>>
    BY <1>3, <1>8
  <2> QED BY <2>1, <2>2, <1>4, <1>9, <1>11, ArrayKept
<1>13. \A b \in Arrays : Refs(b)'
  <2> SUFFICES ASSUME NEW b \in Arrays PROVE Refs(b)'
    OBVIOUS
  <2>1. Holders(b)' = Holders(b)
    BY <1>1, <1>4, <1>5 DEF Holders, Stay, wvars, Binding
  <2> QED BY <2>1, <1>4, RefsKept DEF SpecInv, Light, SameHooks
<1>14. \A s \in Threads : ThreadBind(s)'
  <2> SUFFICES ASSUME NEW s \in Threads, s # t PROVE ThreadBind(s)'
    OBVIOUS
  <2>1. /\ pc'[s] = pc[s] /\ cur'[s] = cur[s] /\ i'[s] = i[s]
        /\ cur[s] \in Arrays \union {Null}
        /\ pc[s] = "idle" <=> cur[s] = Null
    BY <1>5 DEF SpecInv, TypeOK, ThreadInv
  <2>2. ThreadBind(s) /\ cur[s] # a
    BY <1>2 DEF SpecInv
  <2>3. pc[s] \in {"create", "file", "list"} => cur[s] \notin tracked'
    BY <2>2 DEF ThreadBind
  <2> QED BY <2>1, <2>2, <2>3, <1>3, ThreadKept
<1>15. \A w \in Waiters : Waits(w)'
  BY <1>4, WaitersKept DEF Stay, Light, SameFences
<1>16. DummyInv'
  BY <1>4, DummyKept DEF SpecInv, Light, SameFences
<1>17. BoundStep
  BY <1>4, FencesKept DEF Light, SameFences
<1> QED BY <1>2, <1>6, <1>12, <1>13, <1>14, <1>15, <1>16, <1>17 DEF SpecInv

(* An array that a thread has taken for unbound is not yet replaced. *)
LEMMA AllDummies ==
  ASSUME SpecInv, NEW a \in Arrays, Cardinality(Dummies(a)) = Num(a), ~Building(a),
         arr[a].fences # <<>>
  PROVE  Dummies(a) = 1 .. Num(a) /\ Dummies(a) # {} /\ arr[a].enable
         /\ arr[a].hooked = {}
<1>1. Num(a) \in Nat \ {0} /\ Dummies(a) \subseteq 1 .. Num(a)
  BY ArraySizes DEF SpecInv
<1>2. IsFiniteSet(1 .. Num(a)) /\ Cardinality(1 .. Num(a)) = Num(a)
  BY <1>1, FS_Interval
<1>3. Dummies(a) = 1 .. Num(a)
  BY <1>1, <1>2, FS_Subset
<1>4. Dummies(a) # {}
  BY <1>1, <1>3
<1> QED BY <1>3, <1>4 DEF SpecInv, ArrayBind

(* A thread that binds an array refers to it. *)
LEMMA Binder ==
  ASSUME SpecInv, NEW t \in Threads, pc[t] \in Binding
  PROVE  /\ cur[t] \in Arrays /\ arr[cur[t]] \in ArrayType /\ t \in Holders(cur[t])
         /\ ~Building(cur[t]) /\ arr[cur[t]].fences # <<>>
         /\ \A s \in Threads : s # t => cur[s] # cur[t]
         /\ arr' = arr => arr' = [arr EXCEPT ![cur[t]] = arr[cur[t]]]
         /\ arr[cur[t]].refs >= 1 /\ arr[cur[t]].refs \in Nat
<1>1. cur[t] \in Arrays /\ \A s \in Threads : s # t => cur[s] # cur[t]
  BY DEF SpecInv, ThreadInv, TypeOK, Binding
<1>2. t \in Holders(cur[t]) /\ arr[cur[t]] \in ArrayType
  BY <1>1 DEF Holders, SpecInv, TypeOK
<1>3. arr' = arr => arr' = [arr EXCEPT ![cur[t]] = arr[cur[t]]]
  BY <1>1 DEF SpecInv, TypeOK
<1> QED BY <1>1, <1>2, <1>3, InUse

(* An array that does not change. *)
LEMMA LightSame ==
  ASSUME NEW r
  PROVE  Light(r, r)
BY DEF Light, SameFences, SameHooks, SameCount

(* The test for the list changes nothing but where the thread is. *)
LEMMA BindSanitizeKeeps ==
  ASSUME SpecInv, NEW t \in Threads, BindSanitize(t)
  PROVE  SpecInv' /\ BoundStep
<1> DEFINE to == IF cur[t] \in tracked THEN "check" ELSE "put"
<1>1. pc[t] = "sanitize" /\ "sanitize" \in Binding /\ to \in Binding /\ Goto(t, "sanitize", to)
      /\ pc'[t] = to
  BY DEF BindSanitize, Goto, Binding, SpecInv, TypeOK
<1>2. ThreadBind(t) /\ ~Replacing(t)' /\ i'[t] = i[t]
  BY <1>1 DEF SpecInv, Replacing, BindSanitize
<1>3. ThreadBind(t)'
  BY <1>1, <1>2 DEF ThreadBind
<1> QED BY <1>1, <1>2, <1>3, Binder, LightSame, QuietMove DEF BindSanitize

(* A bind goes on only with an array all of whose fences are dummies. *)
LEMMA BindCheckKeeps ==
  ASSUME SpecInv, NEW t \in Threads, BindCheck(t)
  PROVE  SpecInv' /\ BoundStep
<1> DEFINE a == cur[t]
           to == IF Cardinality(Dummies(a)) = Num(a) THEN "copy" ELSE "put"
<1>1. pc[t] = "check" /\ "check" \in Binding /\ to \in Binding /\ Goto(t, "check", to)
      /\ pc'[t] = to /\ arr' = arr /\ cur' = cur /\ i' = i
  BY DEF BindCheck, Goto, Binding, SpecInv, TypeOK
<1>2. a \in Arrays /\ ~Building(a) /\ arr[a].fences # <<>> /\ Num(a) \in Nat
  BY <1>1, Binder, ArraySizes DEF SpecInv
<1>3. i[t] = 1
  BY <1>1 DEF SpecInv, ThreadBind
<1>4. to = "copy" =>
        Dummies(a) = 1 .. Num(a) /\ Dummies(a) # {} /\ arr[a].enable /\ arr[a].hooked = {}
  BY <1>2, AllDummies
<1>5. Dummies(a)' = Dummies(a) /\ Num(a)' = Num(a)
  BY <1>1 DEF Dummies, Num
<1>6. ThreadBind(t)' /\ (Replacing(t)' => Dummies(a) # {})
  BY <1>1, <1>2, <1>3, <1>4, <1>5 DEF ThreadBind, Replacing
<1> QED BY <1>1, <1>6, Binder, LightSame, QuietMove DEF BindCheck

(* The copy of the fds changes nothing but where the thread is. *)
LEMMA BindCopyKeeps ==
  ASSUME SpecInv, NEW t \in Threads, BindCopy(t)
  PROVE  SpecInv' /\ BoundStep
<1>1. PICK to \in {"lock", "put"} : Goto(t, "copy", to)
  BY DEF BindCopy
<1>2. pc[t] = "copy" /\ "copy" \in Binding /\ to \in Binding /\ pc'[t] = to
      /\ arr' = arr /\ cur' = cur /\ i' = i /\ tracked' = tracked
  BY <1>1, SMTT(30) DEF BindCopy, Goto, Binding, SpecInv, TypeOK
<1>3. ThreadBind(t)' /\ Replacing(t)
  BY <1>2 DEF SpecInv, ThreadBind, Replacing, Dummies, Num
<1> QED BY <1>1, <1>2, <1>3, Binder, LightSame, QuietMove DEF BindCopy

(* The lock is taken before the first fence is replaced. *)
LEMMA BindLockKeeps ==
  ASSUME SpecInv, NEW t \in Threads, BindLock(t)
  PROVE  SpecInv' /\ BoundStep
<1> DEFINE q == [arr[cur[t]] EXCEPT !.lock = t]
<1>1. pc[t] = "lock" /\ "lock" \in Binding /\ "store" \in Binding /\ pc'[t] = "store"
      /\ cur' = cur /\ i' = i /\ tracked' = tracked /\ Goto(t, "lock", "store")
  BY DEF BindLock, Goto, Binding, SpecInv, TypeOK
<1>2. cur[t] \in Arrays /\ arr[cur[t]] \in ArrayType
  BY <1>1, Binder
<1>3. /\ q \in ArrayType /\ q.refs = arr[cur[t]].refs /\ q.fd = arr[cur[t]].fd
      /\ SameBody(q, arr[cur[t]])
  BY <1>2, StoreLock
<1>4. arr' = [arr EXCEPT ![cur[t]] = q]
  BY DEF BindLock
<1> HIDE DEF q
<1>5. arr'[cur[t]] = q /\ Light(q, arr[cur[t]])
  BY <1>2, <1>3, <1>4 DEF SpecInv, TypeOK, SameBody, Light
<1>6. Dummies(cur[t])' = Dummies(cur[t]) /\ Num(cur[t])' = Num(cur[t])
      /\ arr'[cur[t]].enable = arr[cur[t]].enable /\ arr'[cur[t]].hooked = arr[cur[t]].hooked
  BY <1>1, <1>5 DEF Dummies, Num, Light, SameFences, SameHooks
<1>7. ThreadBind(t) /\ Replacing(t)
  BY <1>1 DEF SpecInv, Replacing
<1>8. ThreadBind(t)'
  BY <1>1, <1>6, <1>7 DEF ThreadBind, Replacing
<1> QED BY <1>1, <1>3, <1>4, <1>5, <1>7, <1>8, QuietMove DEF BindLock

(* A bind that meets a bad fd leaves the fences as they are. *)
LEMMA BindInvalidKeeps ==
  ASSUME SpecInv, NEW t \in Threads, BindInvalid(t)
  PROVE  SpecInv' /\ BoundStep
<1>1. pc[t] = "store" /\ "store" \in Binding /\ "bad_bound" \in Binding
      /\ pc'[t] = "bad_bound" /\ Goto(t, "store", "bad_bound")
  BY DEF BindInvalid, Goto, Binding, SpecInv, TypeOK
<1>2. ThreadBind(t)' /\ ~Replacing(t)'
  BY <1>1 DEF ThreadBind, Replacing
<1> QED BY <1>1, <1>2, Binder, LightSame, QuietMove DEF BindInvalid

(* The bound flag wakes planes and changes nothing they have inspected. *)
LEMMA SetBoundKeeps ==
  ASSUME SpecInv, NEW t \in Threads, BindBound(t) \/ InvalidBound(t)
  PROVE  SpecInv' /\ BoundStep
<1> DEFINE q == [arr[cur[t]] EXCEPT !.bound = TRUE]
<1>1. PICK from \in {"bound", "bad_bound"}, to \in {"put", "bad_error"} : SetBound(t, from, to)
  BY DEF BindBound, InvalidBound
<1>2. pc[t] = from /\ from \in Binding /\ to \in Binding /\ pc'[t] = to
      /\ cur' = cur /\ Goto(t, from, to)
  BY <1>1 DEF SetBound, Goto, Binding, SpecInv, TypeOK
<1>3. cur[t] \in Arrays /\ arr[cur[t]] \in ArrayType
  BY <1>2, Binder
<1>4. /\ q \in ArrayType /\ q.refs = arr[cur[t]].refs /\ q.fd = arr[cur[t]].fd
      /\ SameBody(q, arr[cur[t]])
  BY <1>3, StoreBound
<1>5. arr' = [arr EXCEPT ![cur[t]] = q]
  BY <1>1 DEF SetBound
<1> HIDE DEF q
<1>6. Light(q, arr[cur[t]])
  BY <1>4 DEF SameBody, Light
<1>7. ThreadBind(t)' /\ ~Replacing(t)'
  BY <1>2 DEF ThreadBind, Replacing
<1> QED BY <1>1, <1>2, <1>4, <1>5, <1>6, <1>7, QuietMove DEF SetBound

(* An array with an error promises nothing of its pending count. *)
LEMMA InvalidErrorKeeps ==
  ASSUME SpecInv, NEW t \in Threads, InvalidError(t)
  PROVE  SpecInv' /\ BoundStep
<1> DEFINE q == [arr[cur[t]] EXCEPT !.error = TRUE, !.lock = Null]
<1>1. pc[t] = "bad_error" /\ "bad_error" \in Binding /\ "bad_signal" \in Binding
      /\ pc'[t] = "bad_signal" /\ cur' = cur /\ Goto(t, "bad_error", "bad_signal")
  BY DEF InvalidError, Goto, Binding, SpecInv, TypeOK
<1>2. cur[t] \in Arrays /\ arr[cur[t]] \in ArrayType
  BY <1>1, Binder
<1>3. /\ q \in ArrayType /\ q.refs = arr[cur[t]].refs /\ q.fd = arr[cur[t]].fd
      /\ SameFences(q, arr[cur[t]]) /\ SameHooks(q, arr[cur[t]]) /\ q.error
  BY <1>2, StoreError
<1>4. arr' = [arr EXCEPT ![cur[t]] = q]
  BY DEF InvalidError
<1> HIDE DEF q
<1>5. arr'[cur[t]] = q /\ Light(q, arr[cur[t]])
  BY <1>2, <1>3, <1>4 DEF SpecInv, TypeOK, Light
<1>6. ThreadBind(t)' /\ ~Replacing(t)'
  BY <1>1, <1>3, <1>5 DEF ThreadBind, Replacing
<1> QED BY <1>1, <1>3, <1>4, <1>5, <1>6, QuietMove DEF InvalidError

(* A failed bind signals the array, which has the error by then. *)
LEMMA InvalidSignalKeeps ==
  ASSUME SpecInv, NEW t \in Threads, InvalidSignal(t)
  PROVE  SpecInv' /\ BoundStep
<1> DEFINE q == [arr[cur[t]] EXCEPT !.signaled = TRUE]
<1>1. pc[t] = "bad_signal" /\ "bad_signal" \in Binding /\ "bad_clear" \in Binding
      /\ pc'[t] = "bad_clear" /\ cur' = cur /\ Goto(t, "bad_signal", "bad_clear")
  BY DEF InvalidSignal, Goto, Binding, SpecInv, TypeOK
<1>2. cur[t] \in Arrays /\ arr[cur[t]] \in ArrayType /\ arr[cur[t]].error
  BY <1>1, Binder DEF SpecInv, ThreadBind
<1>3. /\ q \in ArrayType /\ q.refs = arr[cur[t]].refs /\ q.fd = arr[cur[t]].fd
      /\ SameFences(q, arr[cur[t]]) /\ SameHooks(q, arr[cur[t]]) /\ q.error
  BY <1>2, StoreSignaled
<1>4. arr' = [arr EXCEPT ![cur[t]] = q]
  BY DEF InvalidSignal
<1> HIDE DEF q
<1>5. Light(q, arr[cur[t]])
  BY <1>3 DEF Light
<1>6. ThreadBind(t)' /\ ~Replacing(t)'
  BY <1>1 DEF ThreadBind, Replacing
<1> QED BY <1>1, <1>3, <1>4, <1>5, <1>6, QuietMove DEF InvalidSignal

-----------------------------------------------------------------------------
(* Steps that take or put a reference. *)

\* A thread that does not move in a step, and whose array is not handed out.
Still(t) ==
  /\ pc'[t] = pc[t] /\ cur'[t] = cur[t] /\ i'[t] = i[t]
  /\ cur[t] \in tracked' => cur[t] \in tracked
  /\ cur[t] # Null /\ arr'[cur[t]].fd => arr[cur[t]].fd

(* A light step on one array that is in use, by a thread or a plane. *)
LEMMA LightStep ==
  ASSUME SpecInv, NEW a \in Arrays, NEW q \in ArrayType, arr' = [arr EXCEPT ![a] = q],
         Light(q, arr[a]), q = arr[a] \/ (arr[a].fences # <<>> /\ ~Building(a)),
         done' = done, dummy' = dummy,
         \A t \in Threads : Still(t) \/ ThreadBind(t)',
         \A b \in Arrays : Building(b)' <=> Building(b),
         \A b \in Arrays : (\E t \in Threads : cur'[t] = b /\ Replacing(t)')
                             => \E t \in Threads : cur[t] = b /\ Replacing(t)
  PROVE  /\ arr' \in [Arrays -> ArrayType] /\ arr'[a] = q
         /\ \A b \in Arrays : b # a => arr'[b] = arr[b]
         /\ \A b \in Arrays : Light(arr'[b], arr[b])
         /\ DummyInv' /\ \A t \in Threads : ThreadBind(t)'
         /\ \A b \in Arrays : ArrayBind(b)' /\ Count(b)'
         /\ UNCHANGED wvars => \A w \in Waiters : Waits(w)'
         /\ BoundStep
<1>1. /\ arr' \in [Arrays -> ArrayType] /\ arr'[a] = q
      /\ \A b \in Arrays : b # a => arr'[b] = arr[b]
  BY OneArray DEF SpecInv
<1>2. \A b \in Arrays : Light(arr'[b], arr[b])
  BY <1>1, LightSame
<1>3. \A b \in Arrays : Num(b)' = Num(b) /\ Dummies(b)' = Dummies(b)
                        /\ arr'[b].fences = arr[b].fences
  BY <1>2 DEF Light, SameFences, Num, Dummies
<1>4. \A b \in Arrays : Uncounted(b)' => Uncounted(b)
  BY <1>2, <1>3 DEF Uncounted, Light, SameHooks
<1>5. \A b \in Arrays : ArrayBind(b)' /\ Count(b)'
  <2> SUFFICES ASSUME NEW b \in Arrays PROVE ArrayBind(b)' /\ Count(b)'
    OBVIOUS
  <2>1. ArrayBind(b) /\ Count(b) /\ arr[b].error \in BOOLEAN
    BY ArrayFields DEF SpecInv, TypeOK
  <2>2. arr'[b] = arr[b] \/ arr[b].fences # <<>>
    BY <1>1
  <2> QED BY <2>1, <2>2, <1>2, <1>4, ArrayKept
<1>6. \A t \in Threads : ThreadBind(t)'
  <2> SUFFICES ASSUME NEW t \in Threads, Still(t) PROVE ThreadBind(t)'
    OBVIOUS
  <2>1. /\ pc'[t] = pc[t] /\ cur'[t] = cur[t] /\ i'[t] = i[t] /\ ThreadBind(t)
        /\ cur[t] \in Arrays \union {Null}
        /\ pc[t] = "idle" <=> cur[t] = Null
    BY SMTT(30) DEF SpecInv, TypeOK, ThreadInv, Still
  <2>2. pc[t] \in {"create", "file", "list"} => cur[t] \notin tracked'
    BY <2>1 DEF ThreadBind, Still
  <2>3. cur[t] # Null => arr'[cur[t]] = arr[cur[t]] \/ pc[t] # "create"
    BY <1>1, <2>1 DEF Building
  <2>4. cur[t] # Null => (arr'[cur[t]].fd => arr[cur[t]].fd)
    BY DEF Still
  <2> QED BY <1>2, <2>1, <2>2, <2>3, <2>4, ThreadKept
<1>7. DummyInv'
  BY <1>3, DummyKept DEF SpecInv
<1>8. UNCHANGED wvars => \A w \in Waiters : Waits(w)'
  BY <1>3, WaitersKept
<1>9. BoundStep
  BY <1>3, FencesKept
<1> QED BY <1>1, <1>2, <1>5, <1>6, <1>7, <1>8, <1>9

(* A thread takes an array and begins a call. *)
LEMMA ThreadBegins ==
  ASSUME SpecInv, NEW t \in Threads, NEW a \in Arrays, NEW to, to # "idle", opened[t],
         Goto(t, "idle", to), cur' = [cur EXCEPT ![t] = a],
         UNCHANGED <<opened, available>>, \A s \in Threads : cur[s] # a
  PROVE  ThreadInv'
<1>1. pc[t] = "idle" /\ pc' = [pc EXCEPT ![t] = to] /\ Opened' = Opened /\ a # Null
  BY SpecAssumption DEF Goto, Opened
<1> QED BY <1>1 DEF SpecInv, ThreadInv, TypeOK

(* A call ends. *)
LEMMA ThreadEnds ==
  ASSUME SpecInv, NEW t \in Threads, NEW from, from # "idle", Finish(t, from),
         UNCHANGED <<opened, available>>
  PROVE  /\ ThreadInv' /\ ThreadBind(t)' /\ cur[t] \in Arrays
         /\ pc[t] = from /\ pc' = [pc EXCEPT ![t] = "idle"]
         /\ cur' = [cur EXCEPT ![t] = Null] /\ i' = [i EXCEPT ![t] = 1]
         /\ \A s \in Threads : s # t => cur[s] # cur[t]
<1>1. /\ pc[t] = from /\ pc' = [pc EXCEPT ![t] = "idle"] /\ Opened' = Opened
      /\ cur' = [cur EXCEPT ![t] = Null] /\ i' = [i EXCEPT ![t] = 1]
  BY DEF Finish, Goto, Opened
<1>2. cur[t] # Null /\ cur[t] \in Arrays
  BY <1>1 DEF SpecInv, ThreadInv, TypeOK
<1>3. ThreadInv'
  BY <1>1 DEF SpecInv, ThreadInv, TypeOK
<1>4. pc'[t] = "idle" /\ i'[t] = 1
  BY <1>1 DEF SpecInv, TypeOK
<1>5. ThreadBind(t)'
  BY <1>4 DEF ThreadBind, Replacing
<1>6. \A s \in Threads : s # t => cur[s] # cur[t]
  BY <1>2 DEF SpecInv, ThreadInv
<1> QED BY <1>1, <1>2, <1>3, <1>5, <1>6

(* A thread that is in a call has an array. *)
LEMMA Working ==
  ASSUME SpecInv, NEW t \in Threads, pc[t] # "idle"
  PROVE  cur[t] \in Arrays
BY DEF SpecInv, ThreadInv, TypeOK

(* The bind gives its reference back. *)
LEMMA BindPutKeeps ==
  ASSUME SpecInv, NEW t \in Threads, BindPut(t)
  PROVE  SpecInv' /\ BoundStep
<1>0. PICK a \in Arrays : a = cur[t]
  BY Working DEF BindPut, Finish, Goto
<1> DEFINE q == [arr[a] EXCEPT !.refs = arr[a].refs - 1]
<1>1. Finish(t, "put") /\ UNCHANGED <<tracked, dummy, done>> /\ Stay
  BY DEF BindPut
<1>2. /\ ThreadInv' /\ ThreadBind(t)' /\ a \in Arrays
      /\ pc[t] = "put" /\ pc' = [pc EXCEPT ![t] = "idle"]
      /\ cur' = [cur EXCEPT ![t] = Null] /\ i' = [i EXCEPT ![t] = 1]
      /\ \A s \in Threads : s # t => cur[s] # a
  BY <1>0, <1>1, ThreadEnds DEF Stay
<1>3. arr[a] \in ArrayType /\ t \in Holders(a) /\ ~Building(a) /\ arr[a].fences # <<>>
      /\ arr[a].refs - 1 \in Nat
  BY <1>0, <1>2, Binder DEF Binding
<1>4. q \in ArrayType /\ q.refs = arr[a].refs - 1 /\ q.fd = arr[a].fd /\ SameBody(q, arr[a])
  BY <1>3, StoreRefs
<1>5. arr' = [arr EXCEPT ![a] = q]
  BY <1>0 DEF BindPut, Put
<1> HIDE DEF q
<1>6. Light(q, arr[a])
  BY <1>4 DEF SameBody, Light
<1>7. \A s \in Threads : s # t => Still(s)
  BY <1>0, <1>1, <1>2, <1>5 DEF Still, SpecInv, TypeOK
<1>8. \A b \in Arrays : Building(b)' <=> Building(b)
  BY <1>2, SpecAssumption DEF Building, SpecInv, TypeOK
<1>9. \A s \in Threads : Replacing(s)' => Replacing(s) /\ cur'[s] = cur[s]
  BY <1>2 DEF Replacing, SpecInv, TypeOK
<1>10. /\ arr' \in [Arrays -> ArrayType] /\ arr'[a] = q
       /\ \A b \in Arrays : b # a => arr'[b] = arr[b]
       /\ DummyInv' /\ \A s \in Threads : ThreadBind(s)'
       /\ \A b \in Arrays : ArrayBind(b)' /\ Count(b)'
       /\ \A w \in Waiters : Waits(w)'
       /\ BoundStep
  BY <1>1, <1>2, <1>3, <1>4, <1>5, <1>6, <1>7, <1>8, <1>9, LightStep DEF Stay
<1>11. TypeOK'
  BY <1>0, <1>1, <1>2, <1>10, SpecAssumption DEF SpecInv, TypeOK, Stay, wvars
<1>12. \A b \in Arrays : Refs(b)'
  <2> SUFFICES ASSUME NEW b \in Arrays PROVE Refs(b)'
    OBVIOUS
  <2>1. CASE b = a
    <3>1. Holders(a)' = Holders(a) \ {t}
      BY <1>0, <1>1, <1>2, <1>4, <1>10, SpecAssumption
        DEF Holders, Stay, wvars, SpecInv, TypeOK
    <3> QED BY <2>1, <3>1, <1>3, <1>4, <1>10, RefsRemoved, ArrayFields
           DEF SpecInv, SameBody, SameHooks
  <2>2. CASE b # a
    <3>1. Holders(b)' = Holders(b)
      BY <2>2, <1>0, <1>1, <1>2, <1>10, SpecAssumption
        DEF Holders, Stay, wvars, SpecInv, TypeOK
    <3> QED BY <2>2, <3>1, <1>10, RefsKept DEF SpecInv
  <2> QED BY <2>1, <2>2
<1> QED BY <1>2, <1>10, <1>11, <1>12 DEF SpecInv

(* Without a file the creator gives back the only reference. *)
LEMMA CreateFileFailsKeeps ==
  ASSUME SpecInv, NEW t \in Threads, CreateFileFails(t)
  PROVE  SpecInv' /\ BoundStep
<1>0. PICK a \in Arrays : a = cur[t]
  BY Working DEF CreateFileFails, Finish, Goto
<1> DEFINE q == [arr[a] EXCEPT !.refs = arr[a].refs - 1]
<1>1. Finish(t, "file") /\ UNCHANGED <<tracked, dummy, done>> /\ Stay
  BY DEF CreateFileFails
<1>2. /\ ThreadInv' /\ ThreadBind(t)' /\ a \in Arrays
      /\ pc[t] = "file" /\ pc' = [pc EXCEPT ![t] = "idle"]
      /\ cur' = [cur EXCEPT ![t] = Null] /\ i' = [i EXCEPT ![t] = 1]
      /\ \A s \in Threads : s # t => cur[s] # a
  BY <1>0, <1>1, ThreadEnds DEF Stay
<1>3. arr[a] \in ArrayType /\ "list" \in Holders(a) /\ a \notin tracked
  BY <1>0, <1>2 DEF Holders, SpecInv, TypeOK, ThreadBind
<1>4. ~Building(a) /\ arr[a].fences # <<>> /\ arr[a].refs - 1 \in Nat
  BY <1>2, <1>3, InUse
<1>5. q \in ArrayType /\ q.refs = arr[a].refs - 1 /\ q.fd = arr[a].fd /\ SameBody(q, arr[a])
  BY <1>3, <1>4, StoreRefs
<1>6. arr' = [arr EXCEPT ![a] = q]
  BY <1>0 DEF CreateFileFails, Put
<1> HIDE DEF q
<1>7. Light(q, arr[a])
  BY <1>5 DEF SameBody, Light
<1>8. \A s \in Threads : s # t => Still(s)
  BY <1>0, <1>1, <1>2, <1>6 DEF Still, SpecInv, TypeOK
<1>9. \A b \in Arrays : Building(b)' <=> Building(b)
  BY <1>2, SpecAssumption DEF Building, SpecInv, TypeOK
<1>10. \A s \in Threads : Replacing(s)' => Replacing(s) /\ cur'[s] = cur[s]
  BY <1>2 DEF Replacing, SpecInv, TypeOK
<1>11. /\ arr' \in [Arrays -> ArrayType] /\ arr'[a] = q
       /\ \A b \in Arrays : b # a => arr'[b] = arr[b]
       /\ DummyInv' /\ \A s \in Threads : ThreadBind(s)'
       /\ \A b \in Arrays : ArrayBind(b)' /\ Count(b)'
       /\ \A w \in Waiters : Waits(w)'
       /\ BoundStep
  BY <1>1, <1>2, <1>4, <1>5, <1>6, <1>7, <1>8, <1>9, <1>10, LightStep DEF Stay
<1>12. TypeOK'
  BY <1>0, <1>1, <1>2, <1>11, SpecAssumption DEF SpecInv, TypeOK, Stay, wvars
<1>13. \A b \in Arrays : Refs(b)'
  <2> SUFFICES ASSUME NEW b \in Arrays PROVE Refs(b)'
    OBVIOUS
  <2>1. CASE b = a
    <3>1. Holders(a)' = Holders(a) \ {"list"}
      BY <1>0, <1>1, <1>2, <1>3, <1>5, <1>11, SpecAssumption
         DEF Holders, Binding, Stay, wvars, SpecInv, TypeOK
    <3> QED BY <2>1, <3>1, <1>3, <1>5, <1>11, RefsRemoved, ArrayFields
           DEF SpecInv, SameBody, SameHooks
  <2>2. CASE b # a
    <3>1. Holders(b)' = Holders(b)
      BY <2>2, <1>0, <1>1, <1>2, <1>11, SpecAssumption
        DEF Holders, Stay, wvars, SpecInv, TypeOK
    <3> QED BY <2>2, <3>1, <1>11, RefsKept DEF SpecInv
  <2> QED BY <2>1, <2>2
<1> QED BY <1>2, <1>11, <1>12, <1>13 DEF SpecInv

(* The creator's reference becomes the one of the list. *)
LEMMA CreateListKeeps ==
  ASSUME SpecInv, NEW t \in Threads, CreateList(t)
  PROVE  SpecInv' /\ BoundStep
<1>0. PICK a \in Arrays : a = cur[t]
  BY Working DEF CreateList, Finish, Goto
<1>1. Finish(t, "list") /\ UNCHANGED <<dummy, arr, done>> /\ Stay
      /\ tracked' = tracked \union {a}
  BY <1>0 DEF CreateList
<1>2. /\ ThreadInv' /\ ThreadBind(t)' /\ a \in Arrays
      /\ pc[t] = "list" /\ pc' = [pc EXCEPT ![t] = "idle"]
      /\ cur' = [cur EXCEPT ![t] = Null] /\ i' = [i EXCEPT ![t] = 1]
      /\ \A s \in Threads : s # t => cur[s] # a
  BY <1>0, <1>1, ThreadEnds DEF Stay
<1>3. arr[a] \in ArrayType /\ arr' = [arr EXCEPT ![a] = arr[a]]
  BY <1>1, <1>2 DEF SpecInv, TypeOK
<1>4. \A s \in Threads : s # t => Still(s)
  BY <1>0, <1>1, <1>2 DEF Still, SpecInv, TypeOK
<1>5. \A b \in Arrays : Building(b)' <=> Building(b)
  BY <1>2, SpecAssumption DEF Building, SpecInv, TypeOK
<1>6. \A s \in Threads : Replacing(s)' => Replacing(s) /\ cur'[s] = cur[s]
  BY <1>2 DEF Replacing, SpecInv, TypeOK
<1>7. /\ arr' \in [Arrays -> ArrayType]
      /\ DummyInv' /\ \A s \in Threads : ThreadBind(s)'
      /\ \A b \in Arrays : ArrayBind(b)' /\ Count(b)'
      /\ \A w \in Waiters : Waits(w)'
      /\ BoundStep
  BY <1>1, <1>2, <1>3, <1>4, <1>5, <1>6, LightStep, LightSame DEF Stay
<1>8. TypeOK'
  BY <1>0, <1>1, <1>2, <1>7, SpecAssumption DEF SpecInv, TypeOK, Stay, wvars
<1>9. \A b \in Arrays : Refs(b)'
  <2> SUFFICES ASSUME NEW b \in Arrays PROVE Refs(b)'
    OBVIOUS
  <2>1. Holders(b)' = Holders(b)
    BY <1>0, <1>1, <1>2, SpecAssumption DEF Holders, Binding, Stay, wvars, SpecInv, TypeOK
  <2> QED BY <2>1, <1>1, RefsKept DEF SpecInv
<1> QED BY <1>2, <1>7, <1>8, <1>9 DEF SpecInv

(* The file takes a reference of its own. *)
LEMMA CreateFileKeeps ==
  ASSUME SpecInv, NEW t \in Threads, CreateFile(t)
  PROVE  SpecInv' /\ BoundStep
<1>0. PICK a \in Arrays : a = cur[t]
  BY Working DEF CreateFile, Finish, Goto
<1> DEFINE q == [arr[a] EXCEPT !.refs = arr[a].refs + 1, !.fd = TRUE]
<1>1. Goto(t, "file", "list") /\ UNCHANGED <<cur, i, tracked, dummy, done>> /\ Stay
      /\ pc[t] = "file" /\ pc' = [pc EXCEPT ![t] = "list"]
  BY DEF CreateFile, Goto
<1>2. ThreadInv' /\ a \in Arrays /\ \A s \in Threads : s # t => cur[s] # a
  BY <1>0, <1>1, ThreadMove DEF Stay
<1>3. arr[a] \in ArrayType /\ "list" \in Holders(a) /\ a \notin tracked /\ ~arr[a].fd
      /\ i[t] = 1
  BY <1>0, <1>1, <1>2 DEF Holders, SpecInv, TypeOK, ThreadBind
<1>4. ~Building(a) /\ arr[a].fences # <<>> /\ arr[a].refs + 1 \in Nat
  BY <1>2, <1>3, InUse
<1>5. q \in ArrayType /\ q.refs = arr[a].refs + 1 /\ q.fd = TRUE /\ SameBody(q, arr[a])
  BY <1>3, <1>4, StoreRefsFd
<1>6. arr' = [arr EXCEPT ![a] = q]
  BY <1>0 DEF CreateFile
<1> HIDE DEF q
<1>7. Light(q, arr[a])
  BY <1>5 DEF SameBody, Light
<1>8. \A s \in Threads : s # t => Still(s)
  BY <1>0, <1>1, <1>2, <1>6 DEF Still, SpecInv, TypeOK
<1>9. \A b \in Arrays : Building(b)' <=> Building(b)
  BY <1>1 DEF Building, SpecInv, TypeOK
<1>10. \A s \in Threads : Replacing(s)' => Replacing(s) /\ cur'[s] = cur[s]
  BY <1>1 DEF Replacing, SpecInv, TypeOK
<1>11. ThreadBind(t)'
  <2>1. pc'[t] = "list" /\ cur'[t] = a /\ i'[t] = 1 /\ a \notin tracked'
    BY <1>0, <1>1, <1>3 DEF SpecInv, TypeOK
  <2> QED BY <2>1 DEF ThreadBind, Replacing
<1>12. /\ arr' \in [Arrays -> ArrayType] /\ arr'[a] = q
       /\ \A b \in Arrays : b # a => arr'[b] = arr[b]
       /\ DummyInv' /\ \A s \in Threads : ThreadBind(s)'
       /\ \A b \in Arrays : ArrayBind(b)' /\ Count(b)'
       /\ \A w \in Waiters : Waits(w)'
       /\ BoundStep
  BY <1>1, <1>2, <1>4, <1>5, <1>6, <1>7, <1>8, <1>9, <1>10, <1>11, LightStep DEF Stay
<1>13. TypeOK'
  BY <1>0, <1>1, <1>2, <1>12, SpecAssumption DEF SpecInv, TypeOK, Stay, wvars
<1>14. \A b \in Arrays : Refs(b)'
  <2> SUFFICES ASSUME NEW b \in Arrays PROVE Refs(b)'
    OBVIOUS
  <2>1. CASE b = a
    <3>1. Holders(a)' = Holders(a) \union {"fd"} /\ "fd" \notin Holders(a)
      BY <1>0, <1>1, <1>2, <1>3, <1>5, <1>12, SpecAssumption
         DEF Holders, Binding, Stay, wvars, SpecInv, TypeOK
    <3> QED BY <2>1, <3>1, <1>3, <1>5, <1>12, RefsAdded, ArrayFields
           DEF SpecInv, SameBody, SameHooks
  <2>2. CASE b # a
    <3>1. Holders(b)' = Holders(b)
      BY <2>2, <1>0, <1>1, <1>2, <1>12, SpecAssumption
         DEF Holders, Binding, Stay, wvars, SpecInv, TypeOK
    <3> QED BY <2>2, <3>1, <1>12, RefsKept DEF SpecInv
  <2> QED BY <2>1, <2>2
<1> QED BY <1>2, <1>12, <1>13, <1>14 DEF SpecInv

(* A bind takes a reference; no other thread has the array. *)
LEMMA BindGetKeeps ==
  ASSUME SpecInv, OneBinder, NEW t \in Threads, NEW a \in Arrays, BindGet(t, a)
  PROVE  SpecInv' /\ BoundStep
<1> DEFINE q == [arr[a] EXCEPT !.refs = arr[a].refs + 1]
<1>1. Goto(t, "idle", "sanitize") /\ UNCHANGED <<i, tracked, dummy, done>> /\ Stay
      /\ pc[t] = "idle" /\ pc' = [pc EXCEPT ![t] = "sanitize"]
      /\ cur' = [cur EXCEPT ![t] = a] /\ opened[t] /\ arr[a].fd
      /\ \A s \in Threads : cur[s] # a
  BY DEF BindGet, Goto, MayBind
<1>2. ThreadInv'
  BY <1>1, ThreadBegins DEF Stay
<1>3. arr[a] \in ArrayType /\ "fd" \in Holders(a) /\ i[t] = 1 /\ cur[t] = Null
  BY <1>1 DEF Holders, SpecInv, TypeOK, ThreadBind, ThreadInv
<1>4. ~Building(a) /\ arr[a].fences # <<>> /\ arr[a].refs + 1 \in Nat
  BY <1>3, InUse
<1>5. q \in ArrayType /\ q.refs = arr[a].refs + 1 /\ q.fd = arr[a].fd /\ SameBody(q, arr[a])
  BY <1>3, <1>4, StoreRefs
<1>6. arr' = [arr EXCEPT ![a] = q]
  BY DEF BindGet
<1> HIDE DEF q
<1>7. Light(q, arr[a])
  BY <1>5 DEF SameBody, Light
<1>8. \A s \in Threads : s # t => Still(s)
  BY <1>1, <1>6 DEF Still, SpecInv, TypeOK
<1>9. \A b \in Arrays : Building(b)' <=> Building(b)
  BY <1>1 DEF Building, SpecInv, TypeOK
<1>10. \A s \in Threads : Replacing(s)' => Replacing(s) /\ cur'[s] = cur[s]
  BY <1>1 DEF Replacing, SpecInv, TypeOK
<1>11. ThreadBind(t)'
  <2>1. pc'[t] = "sanitize" /\ i'[t] = 1
    BY <1>1, <1>3 DEF SpecInv, TypeOK
  <2> QED BY <2>1 DEF ThreadBind, Replacing
<1>12. /\ arr' \in [Arrays -> ArrayType] /\ arr'[a] = q
       /\ \A b \in Arrays : b # a => arr'[b] = arr[b]
       /\ DummyInv' /\ \A s \in Threads : ThreadBind(s)'
       /\ \A b \in Arrays : ArrayBind(b)' /\ Count(b)'
       /\ \A w \in Waiters : Waits(w)'
       /\ BoundStep
  BY <1>1, <1>4, <1>5, <1>6, <1>7, <1>8, <1>9, <1>10, <1>11, LightStep DEF Stay
<1>13. TypeOK'
  BY <1>1, <1>12, SpecAssumption DEF SpecInv, TypeOK, Stay, wvars
<1>14. \A b \in Arrays : Refs(b)'
  <2> SUFFICES ASSUME NEW b \in Arrays PROVE Refs(b)'
    OBVIOUS
  <2>0. a # Null
    BY SpecAssumption
  <2>1. CASE b = a
    <3>1. t \notin Holders(a)
      BY <2>0, <1>3, SpecAssumption DEF Holders
    <3>2. "sanitize" \in Binding
      BY DEF Binding
    <3>3. \A s \in Threads : s # t => pc'[s] = pc[s] /\ cur'[s] = cur[s]
      BY <1>1 DEF SpecInv, TypeOK
    <3>4. pc'[t] = "sanitize" /\ cur'[t] = a
      BY <1>1 DEF SpecInv, TypeOK
    <3>5. warr' = warr /\ tracked' = tracked /\ arr'[a].fd = arr[a].fd
      BY <1>1, <1>5, <1>12 DEF Stay, wvars
    <3>6. Holders(a)' = Holders(a) \union {t}
      BY <2>0, <1>1, <3>2, <3>3, <3>4, <3>5 DEF Holders
    <3> QED BY <2>1, <3>1, <3>6, <1>3, <1>5, <1>12, RefsAdded, ArrayFields
           DEF SpecInv, SameBody, SameHooks
  <2>2. CASE b # a
    <3>1. Holders(b)' = Holders(b)
      BY <2>2, <1>1, <1>12, SpecAssumption
         DEF Holders, Binding, Stay, wvars, SpecInv, TypeOK
    <3> QED BY <2>2, <3>1, <1>12, RefsKept DEF SpecInv
  <2> QED BY <2>1, <2>2
<1> QED BY <1>2, <1>12, <1>13, <1>14 DEF SpecInv

-----------------------------------------------------------------------------
(* The display and user space: no thread of the device moves. *)

(* A light step on one array in which no thread moves. *)
LEMMA ThreadsAside ==
  ASSUME SpecInv, UNCHANGED <<tvars, tracked, dummy, done>>,
         NEW a \in Arrays, NEW q \in ArrayType, arr' = [arr EXCEPT ![a] = q],
         Light(q, arr[a]), q = arr[a] \/ (arr[a].fences # <<>> /\ ~Building(a)),
         q.fd => arr[a].fd
  PROVE  /\ arr' \in [Arrays -> ArrayType] /\ arr'[a] = q
         /\ \A b \in Arrays : b # a => arr'[b] = arr[b]
         /\ \A b \in Arrays : arr'[b].fences = arr[b].fences
         /\ ThreadInv' /\ DummyInv' /\ \A t \in Threads : ThreadBind(t)'
         /\ \A b \in Arrays : ArrayBind(b)' /\ Count(b)'
         /\ UNCHANGED wvars => \A w \in Waiters : Waits(w)'
         /\ BoundStep
<1>1. pc' = pc /\ cur' = cur /\ i' = i /\ opened' = opened /\ available' = available
  BY DEF tvars
<1>2. ThreadInv'
  BY <1>1 DEF SpecInv, ThreadInv, Opened
<1>3. \A t \in Threads : Still(t)
  <2> SUFFICES ASSUME NEW t \in Threads PROVE Still(t)
    OBVIOUS
  <2>1. cur[t] \in Arrays \union {Null}
    BY DEF SpecInv, TypeOK
  <2> QED BY <2>1, <1>1, OneArray DEF Still, SpecInv
<1>4. \A b \in Arrays : Building(b)' <=> Building(b)
  BY <1>1 DEF Building
<1>5. \A t \in Threads : Replacing(t)' => Replacing(t) /\ cur'[t] = cur[t]
  BY <1>1 DEF Replacing
<1>6. /\ arr' \in [Arrays -> ArrayType] /\ arr'[a] = q
      /\ \A b \in Arrays : b # a => arr'[b] = arr[b]
      /\ \A b \in Arrays : Light(arr'[b], arr[b])
      /\ DummyInv' /\ \A t \in Threads : ThreadBind(t)'
      /\ \A b \in Arrays : ArrayBind(b)' /\ Count(b)'
      /\ UNCHANGED wvars => \A w \in Waiters : Waits(w)'
      /\ BoundStep
  BY <1>3, <1>4, <1>5, LightStep
<1>7. \A b \in Arrays : arr'[b].fences = arr[b].fences
  BY <1>6 DEF Light, SameFences
<1> QED BY <1>2, <1>6, <1>7

(* The file gives its reference back. *)
LEMMA CloseFdKeeps ==
  ASSUME SpecInv, NEW a \in Arrays, CloseFd(a)
  PROVE  SpecInv' /\ BoundStep
<1> DEFINE q == [arr[a] EXCEPT !.refs = arr[a].refs - 1, !.fd = FALSE]
<1>1. arr[a].fd /\ UNCHANGED <<tvars, tracked, dummy, done, wvars>>
  BY DEF CloseFd
<1>2. arr[a] \in ArrayType /\ "fd" \in Holders(a)
  BY <1>1 DEF Holders, SpecInv, TypeOK
<1>3. arr[a].refs - 1 \in Nat /\ arr[a].fences # <<>> /\ ~Building(a)
  BY <1>2, InUse
<1>4. q \in ArrayType /\ q.refs = arr[a].refs - 1 /\ q.fd = FALSE /\ SameBody(q, arr[a])
  BY <1>2, <1>3, StoreRefsFd
<1>5. arr' = [arr EXCEPT ![a] = q]
  BY DEF CloseFd, Put
<1> HIDE DEF q
<1>6. Light(q, arr[a])
  BY <1>4 DEF SameBody, Light
<1>7. /\ arr' \in [Arrays -> ArrayType] /\ arr'[a] = q
      /\ \A b \in Arrays : b # a => arr'[b] = arr[b]
      /\ ThreadInv' /\ DummyInv' /\ \A t \in Threads : ThreadBind(t)'
      /\ \A b \in Arrays : ArrayBind(b)' /\ Count(b)'
      /\ \A w \in Waiters : Waits(w)'
      /\ BoundStep
  BY <1>1, <1>3, <1>4, <1>5, <1>6, ThreadsAside
<1>8. TypeOK'
  BY <1>1, <1>7 DEF SpecInv, TypeOK, tvars, wvars
<1>9. \A b \in Arrays : Refs(b)'
  <2> SUFFICES ASSUME NEW b \in Arrays PROVE Refs(b)'
    OBVIOUS
  <2>1. CASE b = a
    <3>1. Holders(a)' = Holders(a) \ {"fd"}
      BY <1>1, <1>4, <1>7, SpecAssumption DEF Holders, tvars, wvars
    <3> QED BY <2>1, <3>1, <1>2, <1>4, <1>7, RefsRemoved, ArrayFields
           DEF SpecInv, SameBody, SameHooks
  <2>2. CASE b # a
    <3>1. Holders(b)' = Holders(b)
      BY <2>2, <1>1, <1>7 DEF Holders, tvars, wvars
    <3> QED BY <2>2, <3>1, <1>7, RefsKept DEF SpecInv
  <2> QED BY <2>1, <2>2
<1> QED BY <1>7, <1>8, <1>9 DEF SpecInv

(* A plane takes a reference before it waits or inspects. *)
LEMMA WaitBindKeeps ==
  ASSUME SpecInv, NEW w \in Waiters, NEW a \in Arrays, WaitBind(w, a)
  PROVE  SpecInv' /\ BoundStep
<1> DEFINE q == [arr[a] EXCEPT !.refs = arr[a].refs + 1]
           to == IF arr[a].bound THEN "inspect" ELSE "wait"
<1>1. /\ arr[a].fd /\ UNCHANGED <<tvars, tracked, dummy, done, wi>>
      /\ wpc[w] = "idle" /\ wpc' = [wpc EXCEPT ![w] = to]
      /\ warr' = [warr EXCEPT ![w] = a]
  BY DEF WaitBind, WGoto
<1>2. arr[a] \in ArrayType /\ "fd" \in Holders(a) /\ warr[w] = Null /\ wi[w] = 1
  BY <1>1 DEF Holders, SpecInv, TypeOK, Waits
<1>3. arr[a].refs + 1 \in Nat /\ arr[a].fences # <<>> /\ ~Building(a)
  BY <1>2, InUse
<1>4. q \in ArrayType /\ q.refs = arr[a].refs + 1 /\ q.fd = arr[a].fd /\ SameBody(q, arr[a])
  BY <1>2, <1>3, StoreRefs
<1>5. arr' = [arr EXCEPT ![a] = q]
  BY DEF WaitBind
<1> HIDE DEF q
<1>6. Light(q, arr[a])
  BY <1>4 DEF SameBody, Light
<1>7. /\ arr' \in [Arrays -> ArrayType] /\ arr'[a] = q
      /\ \A b \in Arrays : b # a => arr'[b] = arr[b]
      /\ \A b \in Arrays : arr'[b].fences = arr[b].fences
      /\ ThreadInv' /\ DummyInv' /\ \A t \in Threads : ThreadBind(t)'
      /\ \A b \in Arrays : ArrayBind(b)' /\ Count(b)'
      /\ BoundStep
  BY <1>1, <1>3, <1>4, <1>5, <1>6, ThreadsAside
<1>8. TypeOK'
  BY <1>1, <1>7 DEF SpecInv, TypeOK, tvars
<1>9. \A v \in Waiters : Waits(v)'
  <2> SUFFICES ASSUME NEW v \in Waiters PROVE Waits(v)'
    OBVIOUS
  <2>1. CASE v = w
    <3>1. wpc'[w] = to /\ warr'[w] = a /\ wi'[w] = 1 /\ a # Null /\ Num(a)' >= 1
      BY <1>1, <1>2, <1>3, <1>7, ArraySizes, SpecAssumption DEF SpecInv, TypeOK, Num
    <3> QED BY <2>1, <3>1 DEF Waits, Num
  <2>2. CASE v # w
    BY <2>2, <1>1, <1>7, OtherWaiter DEF SpecInv, TypeOK
  <2> QED BY <2>1, <2>2
<1>10. \A b \in Arrays : Refs(b)'
  <2> SUFFICES ASSUME NEW b \in Arrays PROVE Refs(b)'
    OBVIOUS
  <2>0. a # Null
    BY SpecAssumption
  <2>1. CASE b = a
    <3>1. w \notin Holders(a)
      BY <2>0, <1>2, SpecAssumption DEF Holders
    <3>2. warr'[w] = a /\ \A v \in Waiters : v # w => warr'[v] = warr[v]
      BY <1>1 DEF SpecInv, TypeOK
    <3>3. Holders(a)' = Holders(a) \union {w}
      BY <3>2, <1>1, <1>4, <1>7 DEF Holders, tvars
    <3> QED BY <2>1, <3>1, <3>3, <1>2, <1>4, <1>7, RefsAdded, ArrayFields
           DEF SpecInv, SameBody, SameHooks
  <2>2. CASE b # a
    <3>1. warr'[w] = a /\ \A v \in Waiters : v # w => warr'[v] = warr[v]
      BY <1>1 DEF SpecInv, TypeOK
    <3>2. b # Null
      BY SpecAssumption
    <3>3. Holders(b)' = Holders(b)
      BY <2>2, <3>1, <3>2, <1>1, <1>2, <1>7 DEF Holders, tvars
    <3> QED BY <2>2, <3>3, <1>7, RefsKept DEF SpecInv
  <2> QED BY <2>1, <2>2
<1> QED BY <1>7, <1>8, <1>9, <1>10 DEF SpecInv

(* A plane gives its reference back. *)
LEMMA WaitEndKeeps ==
  ASSUME SpecInv, NEW w \in Waiters, WaitEnd(w)
  PROVE  SpecInv' /\ BoundStep
<1>0. PICK a \in Arrays : a = warr[w]
  BY DEF WaitEnd, WGoto, SpecInv, TypeOK, Waits
<1> DEFINE q == [arr[a] EXCEPT !.refs = arr[a].refs - 1]
<1>1. /\ UNCHANGED <<tvars, tracked, dummy, done>>
      /\ wpc' = [wpc EXCEPT ![w] = "idle"] /\ warr' = [warr EXCEPT ![w] = Null]
      /\ wi' = [wi EXCEPT ![w] = 1]
  BY DEF WaitEnd, WGoto
<1>2. arr[a] \in ArrayType /\ w \in Holders(a)
  BY <1>0 DEF Holders, SpecInv, TypeOK
<1>3. arr[a].refs - 1 \in Nat /\ arr[a].fences # <<>> /\ ~Building(a)
  BY <1>2, InUse
<1>4. q \in ArrayType /\ q.refs = arr[a].refs - 1 /\ q.fd = arr[a].fd /\ SameBody(q, arr[a])
  BY <1>2, <1>3, StoreRefs
<1>5. arr' = [arr EXCEPT ![a] = q]
  BY <1>0 DEF WaitEnd, Put
<1> HIDE DEF q
<1>6. Light(q, arr[a])
  BY <1>4 DEF SameBody, Light
<1>7. /\ arr' \in [Arrays -> ArrayType] /\ arr'[a] = q
      /\ \A b \in Arrays : b # a => arr'[b] = arr[b]
      /\ \A b \in Arrays : arr'[b].fences = arr[b].fences
      /\ ThreadInv' /\ DummyInv' /\ \A t \in Threads : ThreadBind(t)'
      /\ \A b \in Arrays : ArrayBind(b)' /\ Count(b)'
      /\ BoundStep
  BY <1>1, <1>3, <1>4, <1>5, <1>6, ThreadsAside
<1>8. TypeOK'
  BY <1>1, <1>7, SpecAssumption DEF SpecInv, TypeOK, tvars
<1>9. \A v \in Waiters : Waits(v)'
  <2> SUFFICES ASSUME NEW v \in Waiters PROVE Waits(v)'
    OBVIOUS
  <2>1. CASE v = w
    <3>1. wpc'[w] = "idle" /\ warr'[w] = Null /\ wi'[w] = 1
      BY <1>1 DEF SpecInv, TypeOK
    <3> QED BY <2>1, <3>1 DEF Waits
  <2>2. CASE v # w
    BY <2>2, <1>1, <1>7, OtherWaiter DEF SpecInv, TypeOK
  <2> QED BY <2>1, <2>2
<1>10. \A b \in Arrays : Refs(b)'
  <2> SUFFICES ASSUME NEW b \in Arrays PROVE Refs(b)'
    OBVIOUS
  <2>0. b # Null /\ warr'[w] = Null /\ \A v \in Waiters : v # w => warr'[v] = warr[v]
    BY <1>1, SpecAssumption DEF SpecInv, TypeOK
  <2>1. CASE b = a
    <3>1. Holders(a)' = Holders(a) \ {w}
      BY <2>0, <2>1, <1>0, <1>1, <1>4, <1>7, SpecAssumption DEF Holders, tvars
    <3> QED BY <2>1, <3>1, <1>2, <1>4, <1>7, RefsRemoved, ArrayFields
           DEF SpecInv, SameBody, SameHooks
  <2>2. CASE b # a
    <3>1. Holders(b)' = Holders(b)
      BY <2>0, <2>2, <1>0, <1>1, <1>7 DEF Holders, tvars
    <3> QED BY <2>2, <3>1, <1>7, RefsKept DEF SpecInv
  <2> QED BY <2>1, <2>2
<1> QED BY <1>7, <1>8, <1>9, <1>10 DEF SpecInv

(* A plane that only looks: Waits(w)' is what remains to be shown. *)
LEMMA PlaneLooks ==
  ASSUME SpecInv, NEW w \in Waiters, wpc[w] # "idle",
         UNCHANGED <<tvars, tracked, dummy, done, arr, warr>>, Waits(w)',
         wpc' \in [Waiters -> {"idle", "wait", "inspect", "sw", "hw", "unplug"}],
         wi' \in [Waiters -> 1 .. FenceMax + 1],
         \A v \in Waiters : v # w => wpc'[v] = wpc[v] /\ wi'[v] = wi[v]
  PROVE  SpecInv' /\ BoundStep
<1>1. warr[w] \in Arrays
  BY DEF SpecInv, TypeOK, Waits
<1>2. arr[warr[w]] \in ArrayType /\ arr' = [arr EXCEPT ![warr[w]] = arr[warr[w]]]
  BY <1>1 DEF SpecInv, TypeOK
<1>3. /\ ThreadInv' /\ DummyInv' /\ \A t \in Threads : ThreadBind(t)'
      /\ \A b \in Arrays : ArrayBind(b)' /\ Count(b)'
      /\ BoundStep
  BY <1>1, <1>2, LightSame, ThreadsAside
<1>4. TypeOK'
  BY DEF SpecInv, TypeOK, tvars
<1>5. \A v \in Waiters : Waits(v)'
  BY OtherWaiter
<1>6. \A b \in Arrays : Refs(b)'
  <2> SUFFICES ASSUME NEW b \in Arrays PROVE Refs(b)'
    OBVIOUS
  <2>1. Holders(b)' = Holders(b)
    BY DEF Holders, tvars
  <2> QED BY <2>1, RefsKept DEF SpecInv
<1> QED BY <1>3, <1>4, <1>5, <1>6 DEF SpecInv

(* A plane that is woken starts with the first fence. *)
LEMMA WaitWokenKeeps ==
  ASSUME SpecInv, NEW w \in Waiters, WaitWoken(w)
  PROVE  SpecInv' /\ BoundStep
<1>1. /\ wpc[w] = "wait" /\ wpc' = [wpc EXCEPT ![w] = "inspect"]
      /\ UNCHANGED <<tvars, tracked, dummy, done, arr, warr, wi>>
  BY DEF WaitWoken, WGoto, WStay
<1>2. warr[w] \in Arrays /\ warr[w] # Null /\ wi[w] = 1 /\ w \in Holders(warr[w])
  BY <1>1 DEF SpecInv, TypeOK, Waits, Holders
<1>3. arr[warr[w]].fences # <<>>
  BY <1>2, InUse
<1>4. Num(warr[w]) >= 1 /\ wpc'[w] = "inspect"
  BY <1>1, <1>2, <1>3, ArraySizes DEF SpecInv, TypeOK
<1>5. Waits(w)'
  BY <1>1, <1>2, <1>4 DEF Waits, Num
<1> QED BY <1>1, <1>5, PlaneLooks DEF SpecInv, TypeOK

(* A plane that times out inspects nothing. *)
LEMMA WaitTimeoutKeeps ==
  ASSUME SpecInv, NEW w \in Waiters, WaitTimeout(w)
  PROVE  SpecInv' /\ BoundStep
<1>1. /\ wpc[w] = "wait" /\ wpc' = [wpc EXCEPT ![w] = "sw"]
      /\ UNCHANGED <<tvars, tracked, dummy, done, arr, warr, wi>>
  BY DEF WaitTimeout, WGoto, WStay
<1>2. warr[w] # Null /\ wpc'[w] = "sw"
  BY <1>1 DEF SpecInv, TypeOK, Waits
<1>3. Waits(w)'
  BY <1>1, <1>2 DEF Waits
<1> QED BY <1>1, <1>3, PlaneLooks DEF SpecInv, TypeOK

(* A plane goes on only over hw-fences, and ends behind the last one. *)
LEMMA InspectKeeps ==
  ASSUME SpecInv, NEW w \in Waiters, Inspect(w)
  PROVE  SpecInv' /\ BoundStep
<1> DEFINE ishw == arr[warr[w]].fences[wi[w]] \in HwFences
           to == IF ~ishw THEN "sw" ELSE IF wi[w] = Num(warr[w]) THEN "hw" ELSE "inspect"
<1>1. /\ wpc[w] = "inspect" /\ wpc' = [wpc EXCEPT ![w] = to]
      /\ wi' = [wi EXCEPT ![w] = wi[w] + 1]
      /\ UNCHANGED <<tvars, tracked, dummy, done, arr, warr>>
  BY DEF Inspect, WGoto, WStay
<1>2. warr[w] \in Arrays /\ warr[w] # Null /\ wi[w] \in Nat /\ wi[w] >= 1
  BY <1>1 DEF SpecInv, TypeOK, Waits
<1>3. /\ Num(warr[w]) \in 0 .. FenceMax /\ wi[w] <= Num(warr[w])
      /\ \A n \in 1 .. wi[w] - 1 : arr[warr[w]].fences[n] \in HwFences
  BY <1>1, <1>2, ArraySizes DEF SpecInv, Waits
<1>4. wpc'[w] = to /\ wi'[w] = wi[w] + 1 /\ wi[w] + 1 \in 1 .. FenceMax + 1
      /\ Num(warr[w])' = Num(warr[w])
  BY <1>1, <1>2, <1>3, SpecAssumption DEF SpecInv, TypeOK, Num
<1>5. ishw => \A n \in 1 .. wi[w] : arr[warr[w]].fences[n] \in HwFences
  BY <1>2, <1>3
<1>6. Waits(w)'
  BY <1>1, <1>2, <1>3, <1>4, <1>5 DEF Waits
<1> QED BY <1>1, <1>4, <1>6, PlaneLooks DEF SpecInv, TypeOK

(* spec_sync_open() and a close that is not the last. *)
LEMMA DeviceSteps ==
  ASSUME SpecInv, NEW t \in Threads, UNCHANGED <<pc, cur, i, tracked, dummy, arr, done, wvars>>,
         ThreadInv', available' \in 0 .. MaxDevices, opened' \in [Threads -> BOOLEAN]
  PROVE  SpecInv' /\ BoundStep
<1>1. TypeOK'
  BY DEF SpecInv, TypeOK, wvars
<1>2. DummyInv'
  BY DummyKept, SMTT(30) DEF SpecInv
<1>3. \A s \in Threads : ThreadBind(s)'
  BY DEF SpecInv, ThreadBind, Replacing, Dummies, Num
<1>4. \A w \in Waiters : Waits(w)'
  BY WaitersKept
<1>5. \A b \in Arrays : Holders(b)' = Holders(b)
  BY DEF Holders, wvars
<1>6. \A b \in Arrays : Refs(b)'
  BY <1>5, RefsKept DEF SpecInv
<1>7. \A b \in Arrays : (Building(b)' <=> Building(b)) /\ (Uncounted(b)' => Uncounted(b))
  BY DEF Building, Uncounted, Replacing, Dummies, Num
<1>8. \A b \in Arrays : arr[b].error \in BOOLEAN
  BY ArrayFields DEF SpecInv, TypeOK
<1>9. \A b \in Arrays : ArrayBind(b)' /\ Count(b)'
  BY <1>7, <1>8, ArrayKept, LightSame DEF SpecInv
<1>10. BoundStep
  BY FencesKept
<1> QED BY <1>1, <1>2, <1>3, <1>4, <1>6, <1>9, <1>10 DEF SpecInv

(* An open counts the thread. *)
LEMMA OpenKeeps ==
  ASSUME SpecInv, NEW t \in Threads, Open(t)
  PROVE  SpecInv' /\ BoundStep
<1>1. /\ pc[t] = "idle" /\ ~opened[t] /\ available < MaxDevices
      /\ available' = available + 1 /\ opened' = [opened EXCEPT ![t] = TRUE]
      /\ UNCHANGED <<pc, cur, i, tracked, dummy, arr, done, wvars>>
  BY DEF Open
<1>2. Opened' = Opened \union {t} /\ t \notin Opened
  BY <1>1 DEF Opened, SpecInv, TypeOK
<1>3. IsFiniteSet(Opened') /\ Cardinality(Opened') = Cardinality(Opened) + 1
  BY <1>2, FS_AddElement DEF SpecInv, ThreadInv
<1>4. ThreadInv'
  BY <1>1, <1>3 DEF SpecInv, ThreadInv, TypeOK
<1>5. available' \in 0 .. MaxDevices /\ opened' \in [Threads -> BOOLEAN]
  BY <1>1, SpecAssumption DEF SpecInv, TypeOK
<1> QED BY <1>1, <1>4, <1>5, DeviceSteps

(* A close by a thread that is in no call. *)
LEMMA Closes ==
  ASSUME SpecInv, NEW t \in Threads, Release(t)
  PROVE  /\ ThreadInv' /\ available' \in 0 .. MaxDevices /\ opened' \in [Threads -> BOOLEAN]
<1>1. /\ pc[t] = "idle" /\ opened[t]
      /\ available' = available - 1 /\ opened' = [opened EXCEPT ![t] = FALSE]
      /\ UNCHANGED <<pc, cur, i>>
  BY DEF Release
<1>2. Opened' = Opened \ {t} /\ t \in Opened
  BY <1>1 DEF Opened, SpecInv, TypeOK
<1>3. IsFiniteSet(Opened') /\ Cardinality(Opened') = Cardinality(Opened) - 1
      /\ Cardinality(Opened') \in Nat
  BY <1>2, FS_RemoveElement, FS_CardinalityType DEF SpecInv, ThreadInv
<1>4. ThreadInv'
  BY <1>1, <1>2, <1>3 DEF SpecInv, ThreadInv, TypeOK
<1>5. available' \in 0 .. MaxDevices /\ opened' \in [Threads -> BOOLEAN]
  BY <1>1, <1>3, SpecAssumption DEF SpecInv, TypeOK, ThreadInv
<1> QED BY <1>4, <1>5

-----------------------------------------------------------------------------
(* Steps that change what one array is. *)

(* One array's part of the places of the dummy fence. *)
LEMMA PlacesOfOne ==
  ASSUME NEW a, NEW D, IsFiniteSet(D)
  PROVE  IsFiniteSet({a} \X D) /\ Cardinality({a} \X D) = Cardinality(D)
<1> DEFINE f == [n \in D |-> <<a, n>>]
<1>1. f \in Injection(D, {a} \X D)
  BY DEF Injection, IsInjective
<1>2. f \in Surjection(D, {a} \X D)
  <2>1. ASSUME NEW p \in {a} \X D PROVE \E n \in D : f[n] = p
    <3>1. p[2] \in D /\ p = <<a, p[2]>>
      OBVIOUS
    <3>2. f[p[2]] = p
      BY <3>1
    <3> QED BY <3>1, <3>2
  <2>2. f \in [D -> {a} \X D]
    OBVIOUS
  <2> QED BY <2>1, <2>2 DEF Surjection
<1>3. ExistsBijection(D, {a} \X D)
  BY <1>1, <1>2 DEF ExistsBijection, Bijection
<1> QED BY <1>3, FS_Bijection

(* Only the places of the array that changes are won or lost. *)
LEMMA PlacesChanged ==
  ASSUME TypeOK, IsFiniteSet(DummyPlaces), NEW a \in Arrays,
         arr' \in [Arrays -> ArrayType],
         \A b \in Arrays : b # a => arr'[b] = arr[b]
  PROVE  /\ IsFiniteSet(DummyPlaces')
         /\ Cardinality(DummyPlaces')
              = Cardinality(DummyPlaces) - Cardinality(Dummies(a)) + Cardinality(Dummies(a)')
         /\ Cardinality(DummyPlaces) \in Nat /\ Cardinality(DummyPlaces') \in Nat
<1> DEFINE P == {a} \X Dummies(a)
           Q == {a} \X Dummies(a)'
           R == DummyPlaces \ P
<1>1. IsFiniteSet(Dummies(a)) /\ Dummies(a) \subseteq 1 .. FenceMax
  BY ArraySizes, SpecAssumption
<1>2. IsFiniteSet(Dummies(a)') /\ Dummies(a)' \subseteq 1 .. FenceMax
  <2>1. Len(arr'[a].fences) \in 0 .. FenceMax
    BY ArrayFields
  <2>2. Dummies(a)' \subseteq 1 .. FenceMax
    BY <2>1, SpecAssumption DEF Dummies, Num
  <2> QED BY <2>2, FS_Interval, FS_Subset, SpecAssumption
<1>3. /\ IsFiniteSet(P) /\ Cardinality(P) = Cardinality(Dummies(a))
      /\ IsFiniteSet(Q) /\ Cardinality(Q) = Cardinality(Dummies(a)')
  BY <1>1, <1>2, PlacesOfOne
<1>4. P \subseteq DummyPlaces
  BY <1>1 DEF DummyPlaces
<1>5. DummyPlaces' = R \union Q /\ R \intersect Q = {}
  <2>1. \A b \in Arrays : b # a => Dummies(b)' = Dummies(b)
    BY DEF Dummies, Num
  <2> QED BY <2>1, <1>2 DEF DummyPlaces
<1> HIDE DEF P, Q, R
<1>6. IsFiniteSet(R) /\ Cardinality(R) = Cardinality(DummyPlaces) - Cardinality(P)
  <2>1. DummyPlaces \intersect P = P
    BY <1>4
  <2> QED BY <2>1, FS_Difference DEF R
<1>7. Cardinality(P) \in Nat /\ Cardinality(Q) \in Nat /\ Cardinality(DummyPlaces) \in Nat
      /\ Cardinality(R) \in Nat
  BY <1>3, <1>6, FS_CardinalityType
<1>8. IsFiniteSet(R \union Q) /\ Cardinality(R \union Q) = Cardinality(R) + Cardinality(Q)
  <2>1. Cardinality(R \intersect Q) = 0
    BY <1>5, FS_EmptySet
  <2>2. IsFiniteSet(R \union Q)
        /\ Cardinality(R \union Q)
             = Cardinality(R) + Cardinality(Q) - Cardinality(R \intersect Q)
    BY <1>3, <1>6, FS_Union
  <2> QED BY <1>7, <2>1, <2>2
<1> QED BY <1>3, <1>5, <1>6, <1>7, <1>8

(* A step that rewrites one array, which no other thread has. *)
LEMMA ArrayStep ==
  ASSUME SpecInv, NEW a \in Arrays, NEW q \in ArrayType, arr' = [arr EXCEPT ![a] = q],
         done' = done, UNCHANGED wvars,
         \A t \in Threads : (Still(t) /\ cur[t] # a) \/ ThreadBind(t)',
         \A b \in Arrays : b # a => (Building(b)' <=> Building(b)),
         \A b \in Arrays : b # a =>
           ((\E t \in Threads : cur'[t] = b /\ Replacing(t)')
             => \E t \in Threads : cur[t] = b /\ Replacing(t)),
         \/ Holders(a) = {} /\ (arr[a].fences = <<>> \/ q = Unused)
         \/ /\ Len(q.fences) = Len(arr[a].fences)
            /\ \A n \in 1 .. Num(a) : arr[a].fences[n] # Dummy => q.fences[n] = arr[a].fences[n]
  PROVE  /\ arr' \in [Arrays -> ArrayType] /\ arr'[a] = q
         /\ \A b \in Arrays : b # a => arr'[b] = arr[b]
         /\ \A t \in Threads : ThreadBind(t)'
         /\ \A b \in Arrays : b # a => ArrayBind(b)' /\ Count(b)'
         /\ \A w \in Waiters : Waits(w)'
         /\ BoundStep
<1>1. /\ arr' \in [Arrays -> ArrayType] /\ arr'[a] = q
      /\ \A b \in Arrays : b # a => arr'[b] = arr[b]
  BY OneArray DEF SpecInv
<1>2. \A t \in Threads : ThreadBind(t)'
  <2> SUFFICES ASSUME NEW t \in Threads, Still(t), cur[t] # a PROVE ThreadBind(t)'
    OBVIOUS
  <2>1. /\ pc'[t] = pc[t] /\ cur'[t] = cur[t] /\ i'[t] = i[t] /\ ThreadBind(t)
        /\ cur[t] \in Arrays \union {Null}
        /\ pc[t] = "idle" <=> cur[t] = Null
    BY DEF SpecInv, TypeOK, ThreadInv, Still
  <2>2. pc[t] \in {"create", "file", "list"} => cur[t] \notin tracked'
    BY <2>1 DEF ThreadBind, Still
  <2> QED BY <1>1, <2>1, <2>2, ThreadKept
<1>3. ASSUME NEW b \in Arrays, b # a PROVE ArrayBind(b)' /\ Count(b)'
  <2>1. ArrayBind(b) /\ Count(b) /\ arr[b].error \in BOOLEAN /\ arr'[b] = arr[b]
    BY <1>1, <1>3, ArrayFields DEF SpecInv, TypeOK
  <2>2. Uncounted(b)' => Uncounted(b)
    BY <1>3, <2>1 DEF Uncounted, Dummies, Num
  <2> QED BY <1>3, <2>1, <2>2, ArrayKept, LightSame
<1>4. ASSUME NEW w \in Waiters PROVE Waits(w)'
  <2>1. /\ Waits(w) /\ warr[w] \in Arrays \union {Null} /\ wi[w] \in Nat
        /\ wpc'[w] = wpc[w] /\ warr'[w] = warr[w] /\ wi'[w] = wi[w]
    BY DEF SpecInv, TypeOK, wvars
  <2>2. Dummy \notin HwFences
    BY SpecAssumption
  <2>3. \A b \in Arrays : Len(arr[b].fences) \in Nat
    BY ArraySizes DEF SpecInv, Num
  <2>4. warr[w] = a => w \in Holders(a)
    BY DEF Holders
  <2>5. CASE warr[w] = a
    BY <2>1, <2>2, <2>3, <2>4, <2>5, <1>1, WaiterKept
  <2>6. CASE warr[w] # a
    BY <2>1, <2>2, <2>3, <2>6, <1>1, WaiterKept
  <2> QED BY <2>5, <2>6
<1>5. BoundStep
  BY <1>1, ArraySizes DEF BoundStep, SpecInv, Num
<1> QED BY <1>1, <1>2, <1>3, <1>4, <1>5

(* A thread in a call has an array with fences. *)
LEMMA Owned ==
  ASSUME SpecInv, NEW t \in Threads, cur[t] # Null
  PROVE  cur[t] \in Arrays /\ arr[cur[t]].fences # <<>>
<1>1. cur[t] \in Arrays /\ pc[t] # "idle"
  BY DEF SpecInv, TypeOK, ThreadInv
<1>2. CASE pc[t] = "create"
  BY <1>1, <1>2 DEF SpecInv, ThreadBind
<1>3. CASE pc[t] \in {"file", "list"}
  <2>1. "list" \in Holders(cur[t])
    BY <1>3 DEF Holders
  <2> QED BY <1>1, <2>1, InUse
<1>4. CASE pc[t] \in Binding
  BY <1>4, Binder
<1> QED BY <1>1, <1>2, <1>3, <1>4 DEF SpecInv, TypeOK, Binding

(* Memory that is not in use, and an array under construction. *)
LEMMA UnusedType == Unused \in ArrayType /\ Unused.refs = 0 /\ Unused.fences = <<>>
                    /\ Unused.hooked = {} /\ Unused.fd = FALSE /\ Len(Unused.fences) = 0
<1>1. <<>> \in [1 .. 0 -> Fences \union {Dummy}]
  OBVIOUS
<1>2. 0 \in 0 .. FenceMax
  BY SpecAssumption
<1>3. <<>> \in UNION {[1 .. n -> Fences \union {Dummy}] : n \in 0 .. FenceMax}
  BY <1>1, <1>2
<1> QED BY <1>3 DEF Unused, ArrayType

(* The record of an array under construction. *)
LEMMA NewArray ==
  ASSUME NEW n \in 1 .. FenceMax, NEW any \in BOOLEAN
  PROVE  LET f == [m \in 1 .. n |-> Dummy]
             q == [Unused EXCEPT !.any = any, !.fences = f] IN
         /\ q \in ArrayType /\ q.refs = 0 /\ q.fences = f /\ q.hooked = {} /\ q.fd = FALSE
         /\ f # <<>> /\ Len(f) = n
         /\ q = [Unused EXCEPT !.any = q.any, !.fences = q.fences]
<1> DEFINE f == [m \in 1 .. n |-> Dummy]
           q == [Unused EXCEPT !.any = any, !.fences = f]
<1>1. f \in [1 .. n -> Fences \union {Dummy}] /\ f # <<>> /\ Len(f) = n
  BY SpecAssumption
<1>2. f \in UNION {[1 .. k -> Fences \union {Dummy}] : k \in 0 .. FenceMax}
  BY <1>1
<1>3. /\ q \in ArrayType /\ q.refs = 0 /\ q.fences = f /\ q.hooked = {} /\ q.fd = FALSE
      /\ q.any = any
  <2> HIDE DEF f
  <2>1. Unused \in ArrayType
    BY UnusedType
  <2>2. /\ q \in ArrayType /\ q.refs = Unused.refs /\ q.fences = f /\ q.any = any
        /\ q.hooked = Unused.hooked /\ q.fd = Unused.fd
    BY <1>2, <2>1 DEF ArrayType
  <2> HIDE DEF q
  <2> QED BY <2>2, UnusedType
<1> QED BY <1>1, <1>3

(* Memory that is not in use gets n dummies, with a reference for each. *)
LEMMA CreateGetKeeps ==
  ASSUME SpecInv, NEW t \in Threads, NEW a \in Arrays, NEW n \in 1 .. FenceMax,
         NEW any \in BOOLEAN, CreateGet(t, a, n, any)
  PROVE  SpecInv' /\ BoundStep
<1> DEFINE f == [m \in 1 .. n |-> Dummy]
           q == [Unused EXCEPT !.any = any, !.fences = f]
<1>1. /\ opened[t] /\ arr[a] = Unused /\ dummy' = dummy + n
      /\ Goto(t, "idle", "create") /\ pc[t] = "idle" /\ pc' = [pc EXCEPT ![t] = "create"]
      /\ cur' = [cur EXCEPT ![t] = a] /\ UNCHANGED <<i, tracked, done>> /\ Stay
      /\ arr' = [arr EXCEPT ![a] = q]
  BY DEF CreateGet, Goto
<1>2. /\ q \in ArrayType /\ q.refs = 0 /\ q.fences = f /\ q.hooked = {} /\ q.fd = FALSE
      /\ f # <<>> /\ Len(f) = n /\ \A m \in 1 .. n : f[m] = Dummy
      /\ q = [Unused EXCEPT !.any = q.any, !.fences = q.fences]
  BY NewArray
<1> HIDE DEF f, q
<1>3. /\ arr[a].refs = 0 /\ arr[a].fences = <<>> /\ arr[a].hooked = {} /\ arr[a].fd = FALSE
      /\ Num(a) = 0
  BY <1>1, UnusedType DEF Num
<1>4. Holders(a) = {} /\ a \notin tracked /\ \A s \in Threads : cur[s] # a
  <2>1. Holders(a) = {}
    BY <1>3, NotInUse
  <2>2. a \notin tracked
    BY <2>1 DEF Holders
  <2>3. \A s \in Threads : cur[s] # a
    BY <1>3, Owned, SpecAssumption
  <2> QED BY <2>1, <2>2, <2>3
<1>5. ThreadInv'
  BY <1>1, <1>4, ThreadBegins DEF Stay
<1>6. /\ pc'[t] = "create" /\ cur'[t] = a /\ i'[t] = 1 /\ arr'[a] = q
      /\ \A s \in Threads : s # t => pc'[s] = pc[s] /\ cur'[s] = cur[s] /\ i'[s] = i[s]
  BY <1>1 DEF SpecInv, TypeOK, ThreadBind
<1>7. Num(a)' = n /\ Dummies(a)' = 1 .. n
  BY <1>2, <1>6 DEF Num, Dummies
<1>8. ThreadBind(t)'
  <2>1. Num(cur[t])' = n /\ Dummies(cur[t])' = 1 .. n
    BY <1>6, <1>7 DEF Num, Dummies
  <2>2. /\ cur'[t] \notin tracked' /\ arr'[cur'[t]] = q /\ q.fences # <<>>
    BY <1>1, <1>2, <1>4, <1>6
  <2>3. arr'[cur'[t]] = [Unused EXCEPT !.any = arr'[cur'[t]].any,
                                       !.fences = arr'[cur'[t]].fences]
    BY <1>2, <2>2
  <2> QED BY <1>6, <2>1, <2>2, <2>3 DEF ThreadBind, Replacing
<1>9. \A s \in Threads : s # t => Still(s) /\ cur[s] # a
  BY <1>1, <1>4, <1>6 DEF Still, SpecInv, TypeOK
<1>10. \A b \in Arrays : b # a => (Building(b)' <=> Building(b))
  BY <1>1, <1>6 DEF Building
<1>11. \A b \in Arrays : (\E s \in Threads : cur'[s] = b /\ Replacing(s)')
                           => \E s \in Threads : cur[s] = b /\ Replacing(s)
  BY <1>6 DEF Replacing
<1>12. /\ arr' \in [Arrays -> ArrayType] /\ arr'[a] = q
       /\ \A b \in Arrays : b # a => arr'[b] = arr[b]
       /\ \A s \in Threads : ThreadBind(s)'
       /\ \A b \in Arrays : b # a => ArrayBind(b)' /\ Count(b)'
       /\ \A w \in Waiters : Waits(w)'
       /\ BoundStep
  BY <1>1, <1>2, <1>3, <1>4, <1>8, <1>9, <1>10, <1>11, ArrayStep DEF Stay
<1>13. ArrayBind(a)' /\ Count(a)'
  <2>1. Building(a)'
    BY <1>6 DEF Building
  <2> QED BY <2>1, <1>2, <1>6 DEF ArrayBind, Count
<1>14. DummyInv' /\ dummy' \in Nat
  <2>1. Dummies(a) = {} /\ Cardinality(Dummies(a)) = 0
    BY <1>3, FS_EmptySet DEF Dummies
  <2>2. Cardinality(Dummies(a)') = n
    BY <1>7, FS_Interval
  <2>3. /\ IsFiniteSet(DummyPlaces')
        /\ Cardinality(DummyPlaces')
             = Cardinality(DummyPlaces) - Cardinality(Dummies(a)) + Cardinality(Dummies(a)')
        /\ Cardinality(DummyPlaces) \in Nat
    BY <1>12, PlacesChanged DEF SpecInv, DummyInv
  <2> QED BY <2>1, <2>2, <2>3, <1>1 DEF SpecInv, DummyInv
<1>15. TypeOK'
  BY <1>1, <1>12, <1>14 DEF SpecInv, TypeOK, Stay, wvars
<1>16. \A b \in Arrays : Refs(b)'
  <2> SUFFICES ASSUME NEW b \in Arrays PROVE Refs(b)'
    OBVIOUS
  <2>1. arr'[b].fd = arr[b].fd /\ arr'[b].refs = arr[b].refs /\ arr'[b].hooked = arr[b].hooked
    BY <1>2, <1>3, <1>12
  <2>2. pc[t] \notin Binding /\ pc'[t] \notin Binding
    BY <1>1, <1>6 DEF Binding
  <2>3. Holders(b)' = Holders(b)
    BY <2>1, <2>2, <1>1, <1>6 DEF Holders, Stay, wvars
  <2> QED BY <2>1, <2>3, RefsKept DEF SpecInv
<1> QED BY <1>5, <1>12, <1>13, <1>14, <1>15, <1>16 DEF SpecInv

(* Nothing is asked of memory that is not in use. *)
LEMMA UnusedKept ==
  ASSUME NEW a \in Arrays, arr'[a] = Unused
  PROVE  ArrayBind(a)' /\ Count(a)'
<1>1. Num(a)' = 0 /\ Dummies(a)' = {} /\ arr'[a].hooked = {} /\ arr'[a].fences = <<>>
  BY UnusedType DEF Num, Dummies
<1> QED BY <1>1 DEF ArrayBind, Count

(* An array under construction. *)
LEMMA InConstruction ==
  ASSUME SpecInv, NEW t \in Threads, pc[t] = "create", NEW a \in Arrays, a = cur[t]
  PROVE  /\ arr[a] \in ArrayType /\ arr[a].refs = 0 /\ arr[a].hooked = {} /\ ~arr[a].fd
         /\ ~arr[a].signaled /\ ~arr[a].error /\ ~arr[a].dropped
         /\ arr[a].fences # <<>> /\ Dummies(a) = 1 .. Num(a) /\ Num(a) \in Nat \ {0}
         /\ Cardinality(Dummies(a)) = Num(a)
         /\ Holders(a) = {} /\ a \notin tracked /\ Building(a) /\ i[t] = 1
<1>1. /\ arr[a].fences # <<>> /\ Dummies(a) = 1 .. Num(a) /\ a \notin tracked /\ i[t] = 1
      /\ arr[a] = [Unused EXCEPT !.any = arr[a].any, !.fences = arr[a].fences]
  BY DEF SpecInv, ThreadBind
<1>2. /\ arr[a].refs = 0 /\ arr[a].hooked = {} /\ ~arr[a].fd
      /\ ~arr[a].signaled /\ ~arr[a].error /\ ~arr[a].dropped
  BY <1>1 DEF Unused
<1>3. arr[a] \in ArrayType /\ Num(a) \in Nat \ {0} /\ Building(a)
  BY <1>1, ArraySizes DEF SpecInv, Building
<1>4. Cardinality(Dummies(a)) = Num(a)
  BY <1>1, <1>3, FS_Interval
<1>5. Holders(a) = {}
  BY <1>2, NotInUse
<1> QED BY <1>1, <1>2, <1>3, <1>4, <1>5

(* Without an array all references to the dummy fence are put. *)
LEMMA CreateArrayFailsKeeps ==
  ASSUME SpecInv, NEW t \in Threads, CreateArrayFails(t)
  PROVE  SpecInv' /\ BoundStep
<1>0. PICK a \in Arrays : a = cur[t]
  BY Working DEF CreateArrayFails, Finish, Goto
<1>1. /\ Finish(t, "create") /\ dummy' = dummy - Num(a) /\ arr' = [arr EXCEPT ![a] = Unused]
      /\ UNCHANGED <<tracked, done>> /\ Stay
  BY <1>0 DEF CreateArrayFails
<1>2. /\ ThreadInv' /\ ThreadBind(t)'
      /\ pc[t] = "create" /\ pc' = [pc EXCEPT ![t] = "idle"]
      /\ cur' = [cur EXCEPT ![t] = Null] /\ i' = [i EXCEPT ![t] = 1]
      /\ \A s \in Threads : s # t => cur[s] # a
  BY <1>0, <1>1, ThreadEnds DEF Stay
<1>3. /\ arr[a].refs = 0 /\ arr[a].hooked = {} /\ ~arr[a].fd
      /\ Cardinality(Dummies(a)) = Num(a) /\ Num(a) \in Nat /\ Holders(a) = {}
  BY <1>0, <1>2, InConstruction
<1>4. /\ pc'[t] = "idle" /\ cur'[t] = Null /\ a # Null
      /\ \A s \in Threads : s # t => pc'[s] = pc[s] /\ cur'[s] = cur[s] /\ i'[s] = i[s]
  BY <1>2, SpecAssumption DEF SpecInv, TypeOK
<1>5. \A s \in Threads : s # t => Still(s) /\ cur[s] # a
  BY <1>1, <1>2, <1>4 DEF Still, SpecInv, TypeOK
<1>6. \A b \in Arrays : b # a => (Building(b)' <=> Building(b))
  BY <1>0, <1>4 DEF Building
<1>7. \A s \in Threads : Replacing(s)' => Replacing(s) /\ cur'[s] = cur[s]
  BY <1>4 DEF Replacing
<1>8. /\ arr' \in [Arrays -> ArrayType] /\ arr'[a] = Unused
      /\ \A b \in Arrays : b # a => arr'[b] = arr[b]
      /\ \A s \in Threads : ThreadBind(s)'
      /\ \A b \in Arrays : b # a => ArrayBind(b)' /\ Count(b)'
      /\ \A w \in Waiters : Waits(w)'
      /\ BoundStep
  BY <1>1, <1>2, <1>3, <1>5, <1>6, <1>7, ArrayStep, UnusedType DEF Stay
<1>9. ArrayBind(a)' /\ Count(a)'
  BY <1>8, UnusedKept
<1>10. DummyInv' /\ dummy' \in Nat
  <2>1. Dummies(a)' = {} /\ Cardinality(Dummies(a)') = 0
    BY <1>8, UnusedType, FS_EmptySet DEF Dummies, Num
  <2>2. /\ IsFiniteSet(DummyPlaces')
        /\ Cardinality(DummyPlaces')
             = Cardinality(DummyPlaces) - Cardinality(Dummies(a)) + Cardinality(Dummies(a)')
        /\ Cardinality(DummyPlaces) \in Nat /\ Cardinality(DummyPlaces') \in Nat
    BY <1>8, PlacesChanged DEF SpecInv, DummyInv
  <2> QED BY <2>1, <2>2, <1>1, <1>3 DEF SpecInv, DummyInv
<1>11. TypeOK'
  BY <1>1, <1>2, <1>8, <1>10, SpecAssumption DEF SpecInv, TypeOK, Stay, wvars
<1>12. \A b \in Arrays : Refs(b)'
  <2> SUFFICES ASSUME NEW b \in Arrays PROVE Refs(b)'
    OBVIOUS
  <2>1. arr'[b].fd = arr[b].fd /\ arr'[b].refs = arr[b].refs /\ arr'[b].hooked = arr[b].hooked
    BY <1>3, <1>8, UnusedType, ArrayFields DEF SpecInv, TypeOK
  <2>2. pc[t] \notin Binding /\ pc'[t] \notin Binding
    BY <1>2, <1>4 DEF Binding
  <2>3. Holders(b)' = Holders(b)
    BY <2>1, <2>2, <1>1, <1>2, <1>4 DEF Holders, Stay, wvars
  <2> QED BY <2>1, <2>3, RefsKept DEF SpecInv
<1> QED BY <1>2, <1>8, <1>9, <1>10, <1>11, <1>12 DEF SpecInv

(* A new array waits for one or for all of its fences, and is enabled. *)
LEMMA CreateArrayKeeps ==
  ASSUME SpecInv, NEW t \in Threads, CreateArray(t)
  PROVE  SpecInv' /\ BoundStep
<1>0. PICK a \in Arrays : a = cur[t]
  BY Working DEF CreateArray, Goto
<1> DEFINE n == IF arr[a].any THEN 1 ELSE Num(a)
           q == [arr[a] EXCEPT !.refs = 1, !.pending = n, !.enable = TRUE]
<1>1. /\ Goto(t, "create", "file") /\ pc[t] = "create" /\ pc' = [pc EXCEPT ![t] = "file"]
      /\ UNCHANGED <<cur, i, tracked, dummy, done>> /\ Stay
  BY DEF CreateArray, Goto
<1>2. arr' = [arr EXCEPT ![a] = q]
  BY <1>0 DEF CreateArray
<1>3. ThreadInv' /\ \A s \in Threads : s # t => cur[s] # a
  BY <1>0, <1>1, ThreadMove DEF Stay
<1>4. /\ arr[a] \in ArrayType /\ arr[a].hooked = {} /\ ~arr[a].fd
      /\ ~arr[a].signaled /\ ~arr[a].error /\ ~arr[a].dropped
      /\ arr[a].fences # <<>> /\ Dummies(a) = 1 .. Num(a) /\ Num(a) \in Nat \ {0}
      /\ Holders(a) = {} /\ a \notin tracked /\ i[t] = 1
  BY <1>0, <1>1, InConstruction
<1>5. n \in Int /\ n >= 1
  BY <1>4
<1> HIDE DEF n
<1>6. /\ q \in ArrayType /\ q.refs = 1 /\ q.fd = arr[a].fd
      /\ SameFences(q, arr[a]) /\ q.hooked = arr[a].hooked /\ q.enable = TRUE
      /\ q.pending = n /\ q.signaled = arr[a].signaled /\ q.error = arr[a].error
      /\ q.dropped = arr[a].dropped
  BY <1>4, <1>5, StoreCreated
<1> HIDE DEF q
<1>7. /\ pc'[t] = "file" /\ cur'[t] = a /\ i'[t] = 1 /\ arr'[a] = q
      /\ \A s \in Threads : s # t => pc'[s] = pc[s] /\ cur'[s] = cur[s] /\ i'[s] = i[s]
  BY <1>0, <1>1, <1>2, <1>4 DEF SpecInv, TypeOK
<1>8. ThreadBind(t)'
  BY <1>1, <1>4, <1>6, <1>7 DEF ThreadBind, Replacing
<1>9. \A s \in Threads : s # t => Still(s) /\ cur[s] # a
  BY <1>1, <1>2, <1>3, <1>7 DEF Still, SpecInv, TypeOK
<1>10. \A b \in Arrays : b # a => (Building(b)' <=> Building(b))
  BY <1>0, <1>7 DEF Building
<1>11. \A b \in Arrays : (\E s \in Threads : cur'[s] = b /\ Replacing(s)')
                           => \E s \in Threads : cur[s] = b /\ Replacing(s)
  BY <1>7 DEF Replacing
<1>12. /\ arr' \in [Arrays -> ArrayType] /\ arr'[a] = q
       /\ \A b \in Arrays : b # a => arr'[b] = arr[b]
       /\ \A s \in Threads : ThreadBind(s)'
       /\ \A b \in Arrays : b # a => ArrayBind(b)' /\ Count(b)'
       /\ \A w \in Waiters : Waits(w)'
       /\ BoundStep
  BY <1>1, <1>2, <1>6, <1>8, <1>9, <1>10, <1>11, ArrayStep DEF Stay, SameFences
<1>13. Num(a)' = Num(a) /\ arr'[a].any = arr[a].any /\ arr'[a].fences = arr[a].fences
       /\ Target(arr'[a]) = n
  BY <1>6, <1>7 DEF Num, SameFences, Target, n
<1>14. ArrayBind(a)'
  BY <1>4, <1>6, <1>7, <1>13 DEF ArrayBind
<1>15. Count(a)'
  <2>1. ~IsSignaled(arr'[a])
    BY <1>4, <1>5, <1>6, <1>7 DEF IsSignaled
  <2>2. ~arr[a].any => n = Num(a)
    BY DEF n
  <2> QED BY <2>1, <2>2, <1>4, <1>6, <1>7, <1>13 DEF Count, IsSignaled
<1>16. DummyInv'
  BY <1>1, <1>6, <1>12, DummyKept DEF SpecInv, SameFences
<1>17. TypeOK'
  BY <1>1, <1>12 DEF SpecInv, TypeOK, Stay, wvars
<1>18. \A b \in Arrays : Refs(b)'
  <2> SUFFICES ASSUME NEW b \in Arrays PROVE Refs(b)'
    OBVIOUS
  <2>1. pc[t] \notin Binding /\ pc'[t] \notin Binding
    BY <1>1, <1>7 DEF Binding
  <2>2. CASE b = a
    <3>1. Holders(a)' = {"list"}
      BY <2>1, <1>1, <1>3, <1>4, <1>6, <1>7 DEF Holders, Stay, wvars
    <3>2. IsFiniteSet({"list"}) /\ Cardinality({"list"}) = 1
      BY FS_Singleton, Zenon
    <3>3. Cardinality(arr'[a].hooked) = 0
      BY <1>4, <1>6, <1>7, FS_EmptySet
    <3> QED BY <2>2, <3>1, <3>2, <3>3, <1>6, <1>7 DEF Refs
  <2>3. CASE b # a
    <3>1. Holders(b)' = Holders(b)
      BY <2>1, <2>3, <1>0, <1>1, <1>7, <1>12 DEF Holders, Stay, wvars
    <3> QED BY <2>3, <3>1, <1>12, RefsKept DEF SpecInv
  <2> QED BY <2>2, <2>3
<1> QED BY <1>3, <1>12, <1>14, <1>15, <1>16, <1>17, <1>18 DEF SpecInv

(* The last put returns the dummies that are left; nobody has the array. *)
LEMMA ReleaseArrayKeeps ==
  ASSUME SpecInv, NEW a \in Arrays, ReleaseArray(a)
  PROVE  SpecInv' /\ BoundStep
<1>1. /\ arr[a].refs = 0 /\ arr[a].fences # <<>>
      /\ \A t \in Threads : pc[t] = "create" => cur[t] # a
      /\ dummy' = dummy - Cardinality(Dummies(a)) /\ arr' = [arr EXCEPT ![a] = Unused]
      /\ UNCHANGED <<tvars, tracked, done, wvars>>
  BY DEF ReleaseArray
<1>2. Holders(a) = {} /\ arr[a].hooked = {}
  BY <1>1, NotInUse
<1>3. pc' = pc /\ cur' = cur /\ i' = i /\ opened' = opened /\ available' = available
  BY <1>1 DEF tvars
<1>4. ThreadInv'
  BY <1>3 DEF SpecInv, ThreadInv, Opened
<1>5. \A t \in Threads : cur[t] # a
  <2> SUFFICES ASSUME NEW t \in Threads, cur[t] = a PROVE FALSE
    OBVIOUS
  <2>1. pc[t] # "idle" /\ pc[t] # "create"
    BY <1>1, SpecAssumption DEF SpecInv, ThreadInv
  <2>2. pc[t] \notin Binding /\ pc[t] \notin {"file", "list"}
    BY <1>2 DEF Holders
  <2> QED BY <2>1, <2>2 DEF SpecInv, TypeOK, Binding
<1>6. \A t \in Threads : Still(t) /\ cur[t] # a
  BY <1>1, <1>3, <1>5 DEF Still, SpecInv, TypeOK
<1>7. \A b \in Arrays : Building(b)' <=> Building(b)
  BY <1>3 DEF Building
<1>8. \A b \in Arrays : (\E t \in Threads : cur'[t] = b /\ Replacing(t)')
                          => \E t \in Threads : cur[t] = b /\ Replacing(t)
  BY <1>3 DEF Replacing
<1>9. /\ arr' \in [Arrays -> ArrayType] /\ arr'[a] = Unused
      /\ \A b \in Arrays : b # a => arr'[b] = arr[b]
      /\ \A t \in Threads : ThreadBind(t)'
      /\ \A b \in Arrays : b # a => ArrayBind(b)' /\ Count(b)'
      /\ \A w \in Waiters : Waits(w)'
      /\ BoundStep
  BY <1>1, <1>2, <1>6, <1>7, <1>8, ArrayStep, UnusedType
<1>10. ArrayBind(a)' /\ Count(a)'
  BY <1>9, UnusedKept
<1>11. DummyInv' /\ dummy' \in Nat
  <2>1. Dummies(a)' = {} /\ Cardinality(Dummies(a)') = 0
    BY <1>9, UnusedType, FS_EmptySet DEF Dummies, Num
  <2>2. /\ IsFiniteSet(DummyPlaces')
        /\ Cardinality(DummyPlaces')
             = Cardinality(DummyPlaces) - Cardinality(Dummies(a)) + Cardinality(Dummies(a)')
        /\ Cardinality(DummyPlaces) \in Nat /\ Cardinality(DummyPlaces') \in Nat
    BY <1>9, PlacesChanged DEF SpecInv, DummyInv
  <2>3. Cardinality(Dummies(a)) \in Nat
    BY ArraySizes DEF SpecInv
  <2> QED BY <2>1, <2>2, <2>3, <1>1 DEF SpecInv, DummyInv
<1>12. TypeOK'
  BY <1>1, <1>3, <1>9, <1>11 DEF SpecInv, TypeOK, wvars
<1>13. \A b \in Arrays : Refs(b)'
  <2> SUFFICES ASSUME NEW b \in Arrays PROVE Refs(b)'
    OBVIOUS
  <2>1. ~arr[a].fd
    BY <1>2 DEF Holders
  <2>2. (arr'[b].fd <=> arr[b].fd) /\ arr'[b].refs = arr[b].refs
        /\ arr'[b].hooked = arr[b].hooked
    BY <2>1, <1>1, <1>2, <1>9, UnusedType
  <2>3. Holders(b)' = Holders(b)
    BY <2>2, <1>1, <1>3 DEF Holders, wvars
  <2> QED BY <2>2, <2>3, RefsKept DEF SpecInv
<1> QED BY <1>4, <1>9, <1>10, <1>11, <1>12, <1>13 DEF SpecInv

(* While an array is being bound nothing of it is counted. *)
LEMMA InReplacement ==
  ASSUME SpecInv, NEW t \in Threads, Replacing(t), NEW a \in Arrays, a = cur[t]
  PROVE  /\ arr[a].enable /\ arr[a].hooked = {} /\ ~Building(a)
         /\ i[t] <= Num(a) + 1 /\ Dummies(a) = i[t] .. Num(a) /\ Num(a) >= 1
         /\ ~arr[a].error /\ ~arr[a].dropped
              => arr[a].pending = Target(arr[a]) /\ ~arr[a].signaled
<1>1. /\ arr[a].enable /\ arr[a].hooked = {}
      /\ i[t] <= Num(a) + 1 /\ Dummies(a) = i[t] .. Num(a)
  BY DEF SpecInv, ThreadBind
<1>2. pc[t] \in Binding
  BY DEF Replacing, Binding
<1>3. ~Building(a) /\ arr[a].fences # <<>>
  BY <1>2, Binder
<1>4. Num(a) >= 1
  BY <1>3, ArraySizes DEF SpecInv
<1>5. Count(a) /\ Uncounted(a)
  BY DEF SpecInv, Uncounted
<1> QED BY <1>1, <1>3, <1>4, <1>5 DEF Count

(* The count of an array without a callback and with its first pending count. *)
LEMMA NothingCounted ==
  ASSUME NEW a \in Arrays, Num(a)' \in Nat \ {0}, arr'[a].hooked = {},
         ~arr'[a].error /\ ~arr'[a].dropped
           => arr'[a].pending = Target(arr'[a]) /\ ~arr'[a].signaled
  PROVE  Count(a)'
<1>1. Target(arr'[a]) \in Nat \ {0} /\ (~arr'[a].any => Target(arr'[a]) = Num(a)')
  BY DEF Target, Num
<1> QED BY <1>1 DEF Count, IsSignaled

(* A stored fence replaces the first of the dummies that are left. *)
LEMMA StepStoreKeeps ==
  ASSUME SpecInv, NEW t \in Threads, NEW f \in Fences, BindStore(t, f)
  PROVE  SpecInv' /\ BoundStep
<1>0. PICK a \in Arrays : a = cur[t]
  BY Working DEF BindStore
<1>1. /\ pc[t] = "store" /\ i[t] <= Num(a) /\ dummy' = dummy - 1
      /\ i' = [i EXCEPT ![t] = i[t] + 1] /\ UNCHANGED <<pc, cur, tracked, done>> /\ Stay
  BY <1>0 DEF BindStore
<1>2. /\ arr[a].enable /\ arr[a].hooked = {} /\ ~Building(a) /\ Dummies(a) = i[t] .. Num(a)
      /\ ~arr[a].error /\ ~arr[a].dropped
           => arr[a].pending = Target(arr[a]) /\ ~arr[a].signaled
  BY <1>0, <1>1, InReplacement DEF Replacing
<1>3. /\ arr[a] \in ArrayType /\ Num(a) \in 0 .. FenceMax /\ i[t] \in 1 .. Num(a)
      /\ f # Dummy /\ i[t] + 1 \in 1 .. FenceMax + 1
  BY <1>1, ArraySizes, SpecAssumption DEF SpecInv, TypeOK
<1> DEFINE q == [arr[a] EXCEPT !.fences[i[t]] = f]
<1>4. arr' = [arr EXCEPT ![a] = q]
  BY <1>0 DEF BindStore
<1>5. /\ q \in ArrayType /\ q.refs = arr[a].refs /\ q.fd = arr[a].fd /\ q.any = arr[a].any
      /\ SameHooks(q, arr[a]) /\ SameCount(q, arr[a])
      /\ Len(q.fences) = Num(a) /\ q.fences[i[t]] = f
      /\ \A m \in 1 .. Num(a) : m # i[t] => q.fences[m] = arr[a].fences[m]
  <2>1. Stored(q, arr[a], i[t], f)
    BY <1>3, StoreFence DEF Num
  <2> QED BY <2>1 DEF Stored, Num
<1> HIDE DEF q
<1>6. ThreadInv' /\ \A s \in Threads : s # t => cur[s] # a
  <2>1. a # Null
    BY SpecAssumption
  <2> QED BY <2>1, <1>0, <1>1 DEF SpecInv, ThreadInv, Opened, Stay
<1>7. /\ pc'[t] = "store" /\ cur'[t] = a /\ i'[t] = i[t] + 1 /\ arr'[a] = q
      /\ \A s \in Threads : s # t => i'[s] = i[s]
  BY <1>0, <1>1, <1>4 DEF SpecInv, TypeOK
<1>8. Num(a)' = Num(a) /\ Dummies(a)' = (i[t] + 1) .. Num(a)
  <2>1. Num(a)' = Num(a)
    BY <1>5, <1>7 DEF Num
  <2>2. \A m \in 1 .. Num(a) : arr[a].fences[m] = Dummy <=> m >= i[t]
    BY <1>2, <1>3 DEF Dummies
  <2>3. \A m \in 1 .. Num(a) : arr'[a].fences[m] = Dummy <=> m >= i[t] + 1
    BY <2>2, <1>3, <1>5, <1>7
  <2>4. Dummies(a)' = {m \in 1 .. Num(a) : arr'[a].fences[m] = Dummy}
    BY <2>1 DEF Dummies
  <2> QED BY <2>1, <2>3, <2>4, <1>3
<1>9. ThreadBind(t)'
  <2>1. Num(cur[t])' = Num(a) /\ Dummies(cur[t])' = (i[t] + 1) .. Num(a)
    BY <1>7, <1>8 DEF Num, Dummies
  <2>2. arr'[cur'[t]].enable /\ arr'[cur'[t]].hooked = {}
    BY <1>2, <1>5, <1>7 DEF SameHooks
  <2>3. i'[t] <= Num(a) + 1
    BY <1>3, <1>7
  <2> QED BY <2>1, <2>2, <2>3, <1>7 DEF ThreadBind, Replacing
<1>10. \A s \in Threads : s # t => Still(s) /\ cur[s] # a
  BY <1>1, <1>4, <1>6, <1>7 DEF Still, SpecInv, TypeOK
<1>11. \A b \in Arrays : Building(b)' <=> Building(b)
  BY <1>1 DEF Building
<1>12. \A b \in Arrays : (\E s \in Threads : cur'[s] = b /\ Replacing(s)')
                           => \E s \in Threads : cur[s] = b /\ Replacing(s)
  BY <1>1 DEF Replacing
<1>13. \A n \in 1 .. Num(a) : arr[a].fences[n] # Dummy => q.fences[n] = arr[a].fences[n]
  BY <1>2, <1>3, <1>5 DEF Dummies
<1>14. /\ arr' \in [Arrays -> ArrayType] /\ arr'[a] = q
       /\ \A b \in Arrays : b # a => arr'[b] = arr[b]
       /\ \A s \in Threads : ThreadBind(s)'
       /\ \A b \in Arrays : b # a => ArrayBind(b)' /\ Count(b)'
       /\ \A w \in Waiters : Waits(w)'
       /\ BoundStep
  BY <1>1, <1>4, <1>5, <1>9, <1>10, <1>11, <1>12, <1>13, ArrayStep DEF Stay, Num
<1>15. ArrayBind(a)'
  <2>1. arr'[a].fences # <<>>
    BY <1>3, <1>8 DEF Num
  <2> QED BY <2>1, <1>2, <1>5, <1>7 DEF ArrayBind, SameHooks
<1>16. Count(a)'
  <2>1. arr'[a].hooked = {} /\ Num(a)' \in Nat \ {0} /\ Target(arr'[a]) = Target(arr[a])
    BY <1>2, <1>3, <1>5, <1>7, <1>8 DEF SameHooks, Target, Num
  <2> QED BY <2>1, <1>2, <1>5, <1>7, NothingCounted DEF SameCount
<1>17. DummyInv' /\ dummy' \in Nat
  <2>1. Cardinality(Dummies(a)) = Num(a) - i[t] + 1 /\ Cardinality(Dummies(a)') = Num(a) - i[t]
    <3>1. i[t] \in Int /\ i[t] + 1 \in Int /\ Num(a) \in Int /\ i[t] <= Num(a)
      BY <1>3
    <3>2. Cardinality(i[t] .. Num(a)) = Num(a) - i[t] + 1
      BY <3>1, FS_Interval
    <3>3. Cardinality((i[t] + 1) .. Num(a)) = Num(a) - i[t]
      BY <3>1, FS_Interval
    <3> QED BY <3>2, <3>3, <1>2, <1>8
  <2>2. /\ IsFiniteSet(DummyPlaces')
        /\ Cardinality(DummyPlaces')
             = Cardinality(DummyPlaces) - Cardinality(Dummies(a)) + Cardinality(Dummies(a)')
        /\ Cardinality(DummyPlaces) \in Nat /\ Cardinality(DummyPlaces') \in Nat
    BY <1>14, PlacesChanged DEF SpecInv, DummyInv
  <2> QED BY <2>1, <2>2, <1>1, <1>3 DEF SpecInv, DummyInv
<1>18. TypeOK'
  BY <1>1, <1>3, <1>14, <1>17 DEF SpecInv, TypeOK, Stay, wvars
<1>19. \A b \in Arrays : Refs(b)'
  <2> SUFFICES ASSUME NEW b \in Arrays PROVE Refs(b)'
    OBVIOUS
  <2>1. arr'[b].fd = arr[b].fd /\ arr'[b].refs = arr[b].refs /\ arr'[b].hooked = arr[b].hooked
    BY <1>5, <1>14 DEF SameHooks
  <2>2. Holders(b)' = Holders(b)
    BY <2>1, <1>1 DEF Holders, Stay, wvars
  <2> QED BY <2>1, <2>2, RefsKept DEF SpecInv
<1> QED BY <1>6, <1>14, <1>15, <1>16, <1>17, <1>18, <1>19 DEF SpecInv

(* Without a dummy left the array may be enabled for real. *)
LEMMA BindUnlockKeeps ==
  ASSUME SpecInv, NEW t \in Threads, BindUnlock(t)
  PROVE  SpecInv' /\ BoundStep
<1>0. PICK a \in Arrays : a = cur[t]
  BY Working DEF BindUnlock, Goto
<1> DEFINE q == [arr[a] EXCEPT !.enable = FALSE, !.lock = Null]
<1>1. /\ Goto(t, "store", "enable") /\ pc[t] = "store" /\ pc' = [pc EXCEPT ![t] = "enable"]
      /\ i[t] > Num(a) /\ UNCHANGED <<cur, i, tracked, dummy, done>> /\ Stay
  BY <1>0 DEF BindUnlock, Goto
<1>2. arr' = [arr EXCEPT ![a] = q]
  BY <1>0 DEF BindUnlock
<1>3. ThreadInv' /\ \A s \in Threads : s # t => cur[s] # a
  BY <1>0, <1>1, ThreadMove DEF Stay
<1>4. /\ arr[a].hooked = {} /\ ~Building(a) /\ Dummies(a) = i[t] .. Num(a)
      /\ Num(a) \in Nat \ {0} /\ arr[a] \in ArrayType /\ i[t] \in Nat
      /\ ~arr[a].error /\ ~arr[a].dropped
           => arr[a].pending = Target(arr[a]) /\ ~arr[a].signaled
  BY <1>0, <1>1, InReplacement, ArraySizes DEF Replacing, SpecInv, TypeOK
<1>5. /\ q \in ArrayType /\ q.refs = arr[a].refs /\ q.fd = arr[a].fd
      /\ SameFences(q, arr[a]) /\ SameCount(q, arr[a])
      /\ q.hooked = arr[a].hooked /\ q.enable = FALSE
  BY <1>4, StoreDisabled
<1> HIDE DEF q
<1>6. /\ pc'[t] = "enable" /\ cur'[t] = a /\ arr'[a] = q
      /\ \A s \in Threads : s # t => pc'[s] = pc[s]
  BY <1>0, <1>1, <1>2 DEF SpecInv, TypeOK
<1>7. ThreadBind(t)'
  BY <1>6 DEF ThreadBind, Replacing
<1>8. \A s \in Threads : s # t => Still(s) /\ cur[s] # a
  BY <1>1, <1>2, <1>3, <1>6 DEF Still, SpecInv, TypeOK
<1>9. \A b \in Arrays : Building(b)' <=> Building(b)
  BY <1>1, <1>6 DEF Building
<1>10. \A b \in Arrays : (\E s \in Threads : cur'[s] = b /\ Replacing(s)')
                           => \E s \in Threads : cur[s] = b /\ Replacing(s)
  BY <1>1, <1>6 DEF Replacing
<1>11. /\ arr' \in [Arrays -> ArrayType] /\ arr'[a] = q
       /\ \A b \in Arrays : b # a => arr'[b] = arr[b]
       /\ \A s \in Threads : ThreadBind(s)'
       /\ \A b \in Arrays : b # a => ArrayBind(b)' /\ Count(b)'
       /\ \A w \in Waiters : Waits(w)'
       /\ BoundStep
  BY <1>1, <1>2, <1>5, <1>7, <1>8, <1>9, <1>10, ArrayStep DEF Stay, SameFences
<1>12. Num(a)' = Num(a) /\ Dummies(a)' = {} /\ Target(arr'[a]) = Target(arr[a])
  <2>1. Dummies(a) = {}
    BY <1>1, <1>4
  <2> QED BY <2>1, <1>5, <1>6 DEF Num, Dummies, Target, SameFences
<1>13. ArrayBind(a)'
  <2>1. arr'[a].fences # <<>>
    BY <1>4, <1>12 DEF Num
  <2> QED BY <2>1, <1>4, <1>5, <1>6, <1>12 DEF ArrayBind
<1>14. Count(a)'
  BY <1>4, <1>5, <1>6, <1>12, NothingCounted DEF SameCount
<1>15. DummyInv'
  BY <1>1, <1>5, <1>11, DummyKept DEF SpecInv, SameFences
<1>16. TypeOK'
  BY <1>1, <1>11 DEF SpecInv, TypeOK, Stay, wvars
<1>17. \A b \in Arrays : Refs(b)'
  <2> SUFFICES ASSUME NEW b \in Arrays PROVE Refs(b)'
    OBVIOUS
  <2>1. arr'[b].fd = arr[b].fd /\ arr'[b].refs = arr[b].refs /\ arr'[b].hooked = arr[b].hooked
    BY <1>5, <1>11
  <2>2. pc[t] \in Binding /\ pc'[t] \in Binding /\ pc'[t] \notin {"file", "list"}
    BY <1>1, <1>6 DEF Binding
  <2>3. Holders(b)' = Holders(b)
    BY <2>1, <2>2, <1>1, <1>6 DEF Holders, Stay, wvars
  <2> QED BY <2>1, <2>3, RefsKept DEF SpecInv
<1> QED BY <1>3, <1>11, <1>13, <1>14, <1>15, <1>16, <1>17 DEF SpecInv

-----------------------------------------------------------------------------
(* dma_fence_array_enable_signaling(). *)

(* The record after the enable bit is set. *)
LEMMA StoreEnabled ==
  ASSUME NEW r \in ArrayType
  PROVE  LET q == [r EXCEPT !.enable = TRUE] IN
         /\ q \in ArrayType /\ q.refs = r.refs /\ q.fd = r.fd
         /\ SameFences(q, r) /\ SameCount(q, r) /\ q.hooked = r.hooked /\ q.enable = TRUE
BY DEF ArrayType, SameFences, SameCount

\* The fences on which enabling sets a callback.
Hooks(r) ==
  {n \in 1 .. Len(r.fences) : r.fences[n] \notin done /\ \A s \in Stops(r) : n < s}

(* The loop counts fences of the array. *)
LEMMA DoneCount ==
  ASSUME NEW r \in ArrayType, NEW n \in 0 .. Len(r.fences)
  PROVE  /\ IsFiniteSet({m \in 1 .. n : r.fences[m] \in done})
         /\ DoneUpTo(r, n) = Cardinality({m \in 1 .. n : r.fences[m] \in done})
         /\ DoneUpTo(r, n) \in Nat
<1>1. Len(r.fences) \in Nat
  BY ArrayFields, SpecAssumption
<1>2. IsFiniteSet(1 .. n)
  BY <1>1, FS_Interval
<1>3. IsFiniteSet({m \in 1 .. n : r.fences[m] \in done})
  BY <1>2, FS_Subset
<1> QED BY <1>3, FS_CardinalityType DEF DoneUpTo

\* What enabling the signalling of array r makes of it.
EnabledFrom(q, r) ==
  /\ q \in ArrayType /\ q.fd = r.fd /\ SameFences(q, r)
  /\ q.enable = TRUE /\ q.error = r.error /\ q.dropped = r.dropped
  /\ r.enable => q = r
  /\ ~r.enable /\ r.signaled => q.hooked = r.hooked /\ q.refs = r.refs
  /\ ~r.enable /\ ~r.signaled =>
       /\ q.hooked = Hooks(r) /\ IsFiniteSet(Hooks(r))
       /\ q.refs = r.refs + Cardinality(Hooks(r))
       /\ q.signaled = (Stops(r) # {})
       /\ q.pending = IF Stops(r) # {} THEN 0 ELSE r.pending - DoneUpTo(r, Len(r.fences))

(* What the enabling of the signalling does to any array. *)
LEMMA EnabledArray ==
  ASSUME NEW r \in ArrayType
  PROVE  EnabledFrom(Enabled(r), r)
<1> SUFFICES ASSUME NEW q, q = Enabled(r) PROVE EnabledFrom(q, r)
  OBVIOUS
<1>1. CASE r.enable
  <2>1. q = r
    BY <1>1 DEF Enabled
  <2>2. r.enable = TRUE
    BY <1>1, ArrayFields
  <2> QED BY <2>1, <2>2, <1>1 DEF SameFences, EnabledFrom
<1>2. CASE ~r.enable /\ r.signaled
  <2>1. q = [r EXCEPT !.enable = TRUE]
    BY <1>2 DEF Enabled
  <2>2. /\ q \in ArrayType /\ q.refs = r.refs /\ q.fd = r.fd
        /\ SameFences(q, r) /\ SameCount(q, r) /\ q.hooked = r.hooked /\ q.enable = TRUE
    BY <2>1, StoreEnabled
  <2> QED BY <1>2, <2>2 DEF SameCount, EnabledFrom
<1>3. CASE ~r.enable /\ ~r.signaled
  <2> DEFINE h == Hooks(r)
             x == r.refs + Cardinality(h)
             y == (Stops(r) # {})
             z == IF Stops(r) # {} THEN 0 ELSE r.pending - DoneUpTo(r, Len(r.fences))
             p == [r EXCEPT !.hooked = h, !.refs = x, !.signaled = y, !.pending = z]
  <2>1. Hooked(r) = p
    BY DEF Hooked, Hooks
  <2>2. q = [p EXCEPT !.enable = TRUE]
    BY <1>3, <2>1 DEF Enabled
  <2>3. r.refs \in Nat /\ r.pending \in Int /\ Len(r.fences) \in 0 .. FenceMax
    BY ArrayFields
  <2>4. h \in SUBSET (1 .. FenceMax)
    BY <2>3, SpecAssumption DEF Hooks
  <2>5. IsFiniteSet(h) /\ Cardinality(h) \in Nat
    <3>1. IsFiniteSet(1 .. FenceMax)
      BY FS_Interval, SpecAssumption
    <3>2. IsFiniteSet(h)
      BY <2>4, <3>1, FS_Subset
    <3> QED BY <3>2, FS_CardinalityType
  <2>6. x \in Nat /\ y \in BOOLEAN
    BY <2>3, <2>5
  <2>7. DoneUpTo(r, Len(r.fences)) \in Nat
    <3>1. Len(r.fences) \in 0 .. Len(r.fences)
      BY <2>3, SpecAssumption
    <3> QED BY <3>1, DoneCount
  <2>8. z \in Int
    BY <2>3, <2>7
  <2> HIDE DEF h, x, y, z
  <2>9. /\ q \in ArrayType /\ q.refs = x /\ q.fd = r.fd /\ SameFences(q, r)
        /\ q.hooked = h /\ q.enable = TRUE
        /\ q.pending = z /\ q.signaled = y /\ q.error = r.error /\ q.dropped = r.dropped
    BY <2>2, <2>4, <2>6, <2>8 DEF ArrayType, SameFences
  <2> QED BY <1>3, <2>5, <2>9 DEF h, x, y, z, EnabledFrom
<1> QED BY <1>1, <1>2, <1>3

(* Counting the fences that have signalled leaves the others pending. *)
LEMMA CountedAll ==
  ASSUME TypeOK, NEW a \in Arrays, arr[a].fences # <<>>
  PROVE  LET r == arr[a] IN
         /\ DoneUpTo(r, Num(a)) = Cardinality(Ended(a)) /\ Cardinality(Ended(a)) \in Nat
         /\ DoneUpTo(r, Num(a)) > 0 => Ended(a) # {}
         /\ Stops(r) # {} => Ended(a) # {}
         /\ r.pending = Num(a) /\ Stops(r) # {} => Ended(a) = 1 .. Num(a) /\ Hooks(r) = {}
         /\ Stops(r) = {} =>
              /\ Hooks(r) = (1 .. Num(a)) \ Ended(a) /\ Ended(a) = (1 .. Num(a)) \ Hooks(r)
              /\ Cardinality(Hooks(r)) = Num(a) - DoneUpTo(r, Num(a))
<1> DEFINE r == arr[a]
<1>1. r \in ArrayType /\ Num(a) \in Nat \ {0} /\ Len(r.fences) = Num(a)
  BY ArraySizes DEF Num
<1>2. Num(a) \in 0 .. Len(r.fences)
  BY <1>1
<1>3. /\ IsFiniteSet(Ended(a)) /\ DoneUpTo(r, Num(a)) = Cardinality(Ended(a))
      /\ Cardinality(Ended(a)) \in Nat
  BY <1>1, <1>2, DoneCount DEF Ended
<1>4. DoneUpTo(r, Num(a)) > 0 => Ended(a) # {}
  BY <1>3, FS_EmptySet
<1>5. Stops(r) # {} => Ended(a) # {}
  BY <1>1 DEF Stops, Ended
<1>6. IsFiniteSet(1 .. Num(a)) /\ Cardinality(1 .. Num(a)) = Num(a)
  BY <1>1, FS_Interval
<1>7. ASSUME r.pending = Num(a), Stops(r) # {}
      PROVE  Ended(a) = 1 .. Num(a) /\ Hooks(r) = {}
  <2>1. PICK s \in 1 .. Len(r.fences) : DoneUpTo(r, s) = r.pending
    BY <1>7 DEF Stops
  <2> DEFINE E == {m \in 1 .. s : r.fences[m] \in done}
  <2>2. Cardinality(E) = Num(a)
    BY <1>7, <2>1 DEF DoneUpTo
  <2>3. E \subseteq 1 .. Num(a)
    BY <1>1, <2>1
  <2>4. E = 1 .. Num(a)
    BY <2>2, <2>3, <1>6, FS_Subset
  <2>5. Ended(a) = 1 .. Num(a)
    BY <2>4, <1>1 DEF Ended
  <2> QED BY <2>5, <1>1 DEF Hooks, Ended
<1>8. ASSUME Stops(r) = {}
      PROVE  /\ Hooks(r) = (1 .. Num(a)) \ Ended(a) /\ Ended(a) = (1 .. Num(a)) \ Hooks(r)
             /\ Cardinality(Hooks(r)) = Num(a) - DoneUpTo(r, Num(a))
  <2>1. Hooks(r) = (1 .. Num(a)) \ Ended(a) /\ Ended(a) = (1 .. Num(a)) \ Hooks(r)
        /\ (1 .. Num(a)) \intersect Ended(a) = Ended(a)
    BY <1>1, <1>8 DEF Hooks, Ended
  <2>2. Cardinality((1 .. Num(a)) \ Ended(a))
          = Cardinality(1 .. Num(a)) - Cardinality((1 .. Num(a)) \intersect Ended(a))
    BY <1>6, FS_Difference
  <2> QED BY <2>1, <2>2, <1>3, <1>6
<1> QED BY <1>3, <1>4, <1>5, <1>7, <1>8

(* Enabling keeps what the array promises. *)
LEMMA EnablingKeeps ==
  ASSUME SpecInv, NEW a \in Arrays, arr'[a] = Enabled(arr[a]), arr[a].fences # <<>>,
         ~Building(a), ~Building(a)', done' = done, Holders(a)' = Holders(a),
         \A t \in Threads : cur'[t] = a /\ Replacing(t)' => cur[t] = a /\ Replacing(t)
  PROVE  ArrayBind(a)' /\ Count(a)' /\ Refs(a)'
<1> DEFINE r == arr[a]
           q == arr'[a]
<1>1. r \in ArrayType /\ ArrayBind(a) /\ Count(a) /\ Refs(a) /\ Num(a) \in Nat \ {0}
  BY ArraySizes DEF SpecInv, TypeOK
<1>2. EnabledFrom(q, r)
  BY <1>1, EnabledArray
<1>3. /\ Num(a)' = Num(a) /\ Dummies(a)' = Dummies(a) /\ Ended(a)' = Ended(a)
      /\ q.fences # <<>> /\ q.fences = r.fences /\ q.any = r.any
  BY <1>2 DEF SameFences, Num, Dummies, Ended, EnabledFrom
<1>4. CASE r.enable
  <2>1. Uncounted(a)' => Uncounted(a)
    BY <1>2, <1>3, <1>4 DEF Uncounted, EnabledFrom
  <2>2. r.error \in BOOLEAN /\ Light(q, r)
    BY <1>1, <1>2, <1>4, ArrayFields, LightSame DEF EnabledFrom
  <2>3. ArrayBind(a)' /\ Count(a)'
    BY <2>1, <2>2, <1>1, ArrayKept
  <2> QED BY <2>3, <1>1, <1>2, <1>4, RefsKept DEF EnabledFrom
<1>5. CASE ~r.enable
  <2>1. r.hooked = {} /\ Dummies(a) = {} /\ Cardinality(r.hooked) = 0 /\ Uncounted(a)
    BY <1>1, <1>5, FS_EmptySet DEF ArrayBind, Uncounted
  <2>2. \A t \in Threads : cur[t] = a => ~Replacing(t)
    BY <1>5 DEF SpecInv, ThreadBind
  <2>3. ~Uncounted(a)'
    BY <2>1, <2>2, <1>2, <1>3 DEF Uncounted, EnabledFrom
  <2>4. CASE r.signaled
    <3>1. q.hooked = {} /\ q.refs = r.refs
      BY <2>1, <2>4, <1>2, <1>5 DEF EnabledFrom
    <3>2. r.error \/ r.dropped
      BY <2>1, <2>4, <1>1 DEF Count
    <3>3. Count(a)'
      BY <3>1, <3>2, <1>2 DEF Count, EnabledFrom
    <3>4. ArrayBind(a)'
      BY <3>1, <1>2, <1>3, <2>1 DEF ArrayBind, EnabledFrom
    <3> QED BY <3>1, <3>3, <3>4, <2>1, <1>1, RefsKept
  <2>5. CASE ~r.signaled
    <3>1. /\ q.hooked = Hooks(r) /\ IsFiniteSet(Hooks(r))
          /\ q.refs = r.refs + Cardinality(Hooks(r))
          /\ q.signaled = (Stops(r) # {})
          /\ q.pending = IF Stops(r) # {} THEN 0 ELSE r.pending - DoneUpTo(r, Num(a))
      BY <2>5, <1>2, <1>5 DEF Num, EnabledFrom
    <3>2. Refs(a)'
      <4>1. Cardinality(Holders(a)) \in Nat /\ Cardinality(Hooks(r)) \in Nat
        BY <1>1, <3>1, FS_CardinalityType DEF Refs
      <4> QED BY <4>1, <3>1, <2>1, <1>1 DEF Refs
    <3>3. ArrayBind(a)'
      BY <3>1, <2>1, <1>2, <1>3 DEF ArrayBind, Hooks, Num, EnabledFrom
    <3>4. \A n \in q.hooked : q.fences[n] \notin done'
      BY <3>1, <1>3 DEF Hooks
    <3>5. ASSUME ~r.error, ~r.dropped
          PROVE  /\ q.any /\ IsSignaled(q) => Ended(a) # {}
                 /\ ~q.any => q.pending = Cardinality(q.hooked)
                              /\ Ended(a) = (1 .. Num(a)) \ q.hooked
                 /\ ~q.any /\ q.signaled => Ended(a) = 1 .. Num(a)
      <4>1. r.pending = Target(r)
        BY <2>1, <1>1, <3>5 DEF Count
      <4>2. /\ DoneUpTo(r, Num(a)) \in Nat
            /\ DoneUpTo(r, Num(a)) > 0 => Ended(a) # {}
            /\ Stops(r) # {} => Ended(a) # {}
            /\ r.pending = Num(a) /\ Stops(r) # {} => Ended(a) = 1 .. Num(a) /\ Hooks(r) = {}
            /\ Stops(r) = {} =>
                 /\ Ended(a) = (1 .. Num(a)) \ Hooks(r)
                 /\ Cardinality(Hooks(r)) = Num(a) - DoneUpTo(r, Num(a))
        BY CountedAll DEF SpecInv
      <4>3. CASE r.any
        <5>1. r.pending = 1 /\ q.any
          BY <4>1, <4>3, <1>3 DEF Target
        <5>2. CASE Stops(r) # {}
          BY <5>1, <5>2, <4>2
        <5>3. CASE Stops(r) = {}
          <6>1. q.pending = 1 - DoneUpTo(r, Num(a)) /\ ~q.signaled
            BY <5>1, <5>3, <3>1
          <6> QED BY <5>1, <6>1, <4>2 DEF IsSignaled
        <5> QED BY <5>2, <5>3
      <4>4. CASE ~r.any
        <5>1. r.pending = Num(a) /\ ~q.any
          BY <4>1, <4>4, <1>3 DEF Target, Num
        <5>2. CASE Stops(r) # {}
          <6>1. q.pending = 0 /\ Ended(a) = 1 .. Num(a) /\ q.hooked = {}
            BY <5>1, <5>2, <4>2, <3>1
          <6> QED BY <5>1, <6>1, FS_EmptySet
        <5>3. CASE Stops(r) = {}
          BY <5>1, <5>3, <4>2, <3>1
        <5> QED BY <5>2, <5>3
      <4> QED BY <4>3, <4>4
    <3>6. Count(a)'
      BY <3>4, <3>5, <2>3, <1>2, <1>3 DEF Count, EnabledFrom
    <3> QED BY <3>2, <3>3, <3>6
  <2> QED BY <2>4, <2>5
<1> QED BY <1>4, <1>5

(* A thread whose array is enabled knows the same of it. *)
LEMMA EnablingThread ==
  ASSUME SpecInv, NEW t \in Threads, cur[t] \in Arrays, pc[t] # "create",
         arr'[cur[t]] = Enabled(arr[cur[t]]), pc'[t] = pc[t], cur'[t] = cur[t],
         i'[t] = i[t], tracked' = tracked
  PROVE  ThreadBind(t)'
<1>1. ThreadBind(t) /\ arr[cur[t]] \in ArrayType
  BY DEF SpecInv, TypeOK
<1>2. EnabledFrom(arr'[cur[t]], arr[cur[t]])
  BY <1>1, EnabledArray
<1>3. CASE Replacing(t)
  <2>1. arr'[cur[t]] = arr[cur[t]]
    BY <1>1, <1>2, <1>3 DEF ThreadBind, EnabledFrom
  <2> QED BY <2>1, <1>1 DEF ThreadBind, Replacing, Num, Dummies
<1>4. CASE ~Replacing(t)
  BY <1>1, <1>2, <1>4 DEF ThreadBind, Replacing, EnabledFrom
<1> QED BY <1>3, <1>4

(* The bind sets callbacks on the fences that have not signalled. *)
LEMMA BindEnableKeeps ==
  ASSUME SpecInv, NEW t \in Threads, BindEnable(t)
  PROVE  SpecInv' /\ BoundStep
<1>0. PICK a \in Arrays : a = cur[t]
  BY Working DEF BindEnable, Goto
<1> DEFINE q == Enabled(arr[a])
<1>1. /\ Goto(t, "enable", "clear") /\ pc[t] = "enable" /\ pc' = [pc EXCEPT ![t] = "clear"]
      /\ UNCHANGED <<cur, i, tracked, dummy, done>> /\ Stay
      /\ arr' = [arr EXCEPT ![a] = q]
  BY <1>0 DEF BindEnable, Goto
<1>2. pc[t] \in Binding
  BY <1>1 DEF Binding
<1>3. arr[a] \in ArrayType /\ arr[a].fences # <<>> /\ ~Building(a)
  BY <1>0, <1>2, Binder
<1>4. EnabledFrom(q, arr[a])
  BY <1>3, EnabledArray
<1>5. q \in ArrayType /\ q.fd = arr[a].fd /\ q.fences = arr[a].fences
  BY <1>4 DEF EnabledFrom, SameFences
<1>6. ThreadInv' /\ \A s \in Threads : s # t => cur[s] # a
  BY <1>0, <1>1, ThreadMove DEF Stay
<1> HIDE DEF q
<1>7. /\ pc'[t] = "clear" /\ cur'[t] = a /\ arr'[a] = q
      /\ \A s \in Threads : s # t => pc'[s] = pc[s]
  BY <1>0, <1>1 DEF SpecInv, TypeOK
<1>8. ThreadBind(t)'
  BY <1>7 DEF ThreadBind, Replacing
<1>9. \A s \in Threads : s # t => Still(s) /\ cur[s] # a
  BY <1>1, <1>6, <1>7 DEF Still, SpecInv, TypeOK
<1>10. \A b \in Arrays : Building(b)' <=> Building(b)
  BY <1>1, <1>7 DEF Building
<1>11. \A s \in Threads : Replacing(s)' => Replacing(s) /\ cur'[s] = cur[s]
  BY <1>1, <1>7 DEF Replacing
<1>12. /\ arr' \in [Arrays -> ArrayType] /\ arr'[a] = q
       /\ \A b \in Arrays : b # a => arr'[b] = arr[b]
       /\ \A s \in Threads : ThreadBind(s)'
       /\ \A b \in Arrays : b # a => ArrayBind(b)' /\ Count(b)'
       /\ \A w \in Waiters : Waits(w)'
       /\ BoundStep
  BY <1>1, <1>5, <1>8, <1>9, <1>10, <1>11, ArrayStep DEF Stay
<1>13. \A b \in Arrays : Holders(b)' = Holders(b)
  <2>1. \A b \in Arrays : arr'[b].fd = arr[b].fd
    BY <1>5, <1>12
  <2>2. pc[t] \in Binding /\ pc'[t] \in Binding /\ pc'[t] \notin {"file", "list"}
    BY <1>1, <1>7 DEF Binding
  <2> QED BY <2>1, <2>2, <1>1, <1>7 DEF Holders, Stay, wvars
<1>14. ArrayBind(a)' /\ Count(a)' /\ Refs(a)'
  BY <1>1, <1>3, <1>7, <1>10, <1>11, <1>13, EnablingKeeps DEF q
<1>15. \A b \in Arrays : Refs(b)'
  BY <1>12, <1>13, <1>14, RefsKept DEF SpecInv
<1>16. DummyInv'
  BY <1>1, <1>5, <1>12, DummyKept DEF SpecInv
<1>17. TypeOK'
  BY <1>1, <1>12 DEF SpecInv, TypeOK, Stay, wvars
<1> QED BY <1>6, <1>12, <1>14, <1>15, <1>16, <1>17 DEF SpecInv

(* A plane that waits in software enables an array at most once. *)
LEMMA SwWaitKeeps ==
  ASSUME SpecInv, NEW w \in Waiters, SwWait(w)
  PROVE  SpecInv' /\ BoundStep
<1>0. PICK a \in Arrays : a = warr[w]
  BY DEF SwWait, WGoto, SpecInv, TypeOK, Waits
<1> DEFINE q == Enabled(arr[a])
<1>1. /\ wpc[w] = "sw" /\ wpc' = [wpc EXCEPT ![w] = "unplug"]
      /\ UNCHANGED <<tvars, tracked, dummy, done, warr, wi>>
      /\ arr' = [arr EXCEPT ![a] = q]
  BY <1>0 DEF SwWait, WGoto, WStay
<1>2. pc' = pc /\ cur' = cur /\ i' = i /\ opened' = opened /\ available' = available
  BY <1>1 DEF tvars
<1>3. w \in Holders(a) /\ arr[a] \in ArrayType
  BY <1>0 DEF Holders, SpecInv, TypeOK
<1>4. arr[a].fences # <<>> /\ ~Building(a)
  BY <1>3, InUse
<1>5. EnabledFrom(q, arr[a])
  BY <1>3, EnabledArray
<1>6. q \in ArrayType /\ q.fd = arr[a].fd /\ q.fences = arr[a].fences
  BY <1>5 DEF EnabledFrom, SameFences
<1>7. /\ arr' \in [Arrays -> ArrayType] /\ arr'[a] = q
      /\ \A b \in Arrays : b # a => arr'[b] = arr[b]
  BY <1>1, <1>6, OneArray DEF SpecInv
<1>8. \A b \in Arrays : arr'[b].fences = arr[b].fences /\ arr'[b].fd = arr[b].fd
  BY <1>6, <1>7
<1>9. ThreadInv'
  BY <1>2 DEF SpecInv, ThreadInv, Opened
<1>10. \A b \in Arrays : Building(b)' <=> Building(b)
  BY <1>2 DEF Building
<1>11. \A s \in Threads : Replacing(s)' => Replacing(s) /\ cur'[s] = cur[s]
  BY <1>2 DEF Replacing
<1>12. \A b \in Arrays : Holders(b)' = Holders(b)
  BY <1>1, <1>2, <1>8 DEF Holders
<1>13. ArrayBind(a)' /\ Count(a)' /\ Refs(a)'
  BY <1>1, <1>4, <1>7, <1>10, <1>11, <1>12, EnablingKeeps
<1> HIDE DEF q
<1>14. ASSUME NEW t \in Threads PROVE ThreadBind(t)'
  <2>1. /\ cur[t] \in Arrays \union {Null} /\ ThreadBind(t)
        /\ pc[t] = "idle" <=> cur[t] = Null
    BY DEF SpecInv, TypeOK, ThreadInv
  <2>2. CASE cur[t] = a
    <3>1. pc[t] # "create"
      BY <2>2, <1>4 DEF Building
    <3> QED BY <2>2, <3>1, <1>1, <1>2, <1>7, EnablingThread DEF q
  <2>3. CASE cur[t] # a
    <3>1. pc[t] \in {"create", "file", "list"} => cur[t] \notin tracked'
      BY <2>1, <1>1 DEF ThreadBind
    <3> QED BY <2>1, <2>3, <3>1, <1>2, <1>7, ThreadKept
  <2> QED BY <2>2, <2>3
<1>15. ASSUME NEW b \in Arrays, b # a PROVE ArrayBind(b)' /\ Count(b)' /\ Refs(b)'
  <2>1. arr'[b] = arr[b] /\ ArrayBind(b) /\ Count(b) /\ Refs(b) /\ arr[b].error \in BOOLEAN
    BY <1>7, <1>15, ArrayFields DEF SpecInv, TypeOK
  <2>2. Uncounted(b)' => Uncounted(b)
    BY <2>1, <1>11 DEF Uncounted, Dummies, Num
  <2> QED BY <2>1, <2>2, <1>1, <1>10, <1>12, ArrayKept, LightSame, RefsKept
<1>16. \A v \in Waiters : Waits(v)'
  <2> SUFFICES ASSUME NEW v \in Waiters PROVE Waits(v)'
    OBVIOUS
  <2>1. CASE v = w
    <3>1. wpc'[w] = "unplug" /\ warr'[w] = a /\ a # Null
      BY <1>0, <1>1, SpecAssumption DEF SpecInv, TypeOK
    <3> QED BY <2>1, <3>1 DEF Waits
  <2>2. CASE v # w
    BY <2>2, <1>1, <1>8, OtherWaiter DEF SpecInv, TypeOK
  <2> QED BY <2>1, <2>2
<1>17. DummyInv'
  BY <1>1, <1>8, DummyKept DEF SpecInv
<1>18. TypeOK'
  BY <1>1, <1>2, <1>7 DEF SpecInv, TypeOK
<1>19. BoundStep
  BY <1>8, FencesKept
<1> QED BY <1>9, <1>13, <1>14, <1>15, <1>16, <1>17, <1>18, <1>19 DEF SpecInv

-----------------------------------------------------------------------------
(* Steps that visit all arrays: the list is cleared, a fence signals. *)

\* An array after its list entry is visited or a callback has run.
Visited(q, r) ==
  /\ q \in ArrayType /\ SameFences(q, r) /\ q.enable = r.enable /\ q.hooked \subseteq r.hooked
  /\ q.fd = r.fd /\ q.error = r.error

(* The walk of the list, by the bind or by the last close. *)
LEMMA VisitedAll ==
  ASSUME SpecInv, arr' \in [Arrays -> ArrayType], UNCHANGED <<cur, i, dummy, wvars>>,
         tracked' \subseteq tracked,
         \A a \in Arrays : arr'[a] = arr[a] \/ (a \in tracked /\ Visited(arr'[a], arr[a]))
                           \/ (arr[a].hooked # {} /\ Visited(arr'[a], arr[a])),
         \A t \in Threads : pc'[t] = pc[t] \/ (pc[t] \in Binding /\ pc'[t] \in {"bound", "put"})
  PROVE  /\ \A a \in Arrays : Num(a)' = Num(a) /\ Dummies(a)' = Dummies(a)
         /\ \A a \in Arrays : Building(a)' <=> Building(a)
         /\ \A a \in Arrays : Uncounted(a)' => Uncounted(a)
         /\ DummyInv' /\ \A t \in Threads : ThreadBind(t)'
         /\ \A a \in Arrays : ArrayBind(a)'
         /\ \A w \in Waiters : Waits(w)'
         /\ BoundStep
<1>1. \A a \in Arrays : /\ arr'[a].fences = arr[a].fences /\ arr'[a].any = arr[a].any
                        /\ arr'[a].enable = arr[a].enable /\ arr'[a].hooked \subseteq arr[a].hooked
                        /\ arr'[a].fd = arr[a].fd /\ arr'[a].error = arr[a].error
  BY DEF Visited, SameFences
<1>2. \A a \in Arrays : Num(a)' = Num(a) /\ Dummies(a)' = Dummies(a)
  BY <1>1 DEF Num, Dummies
<1>3. \A t \in Threads : (pc'[t] = "create" <=> pc[t] = "create")
                         /\ (pc'[t] \in {"create", "file", "list"}
                               => pc[t] \in {"create", "file", "list"})
                         /\ (pc'[t] \in {"copy", "lock", "store", "file", "bad_signal", "idle",
                                "create", "list", "sanitize", "check"} => pc'[t] = pc[t])
  BY DEF Binding
<1>4. \A a \in Arrays : Building(a)' <=> Building(a)
  BY <1>3 DEF Building
<1>5. \A a \in Arrays : Uncounted(a)' => Uncounted(a)
  BY <1>1, <1>2, <1>3 DEF Uncounted, Replacing
<1>6. ASSUME NEW a \in Arrays, arr'[a] # arr[a] PROVE arr[a].fences # <<>> /\ ~Building(a)
  <2>1. CASE a \in tracked
    <3>1. "list" \in Holders(a)
      BY <2>1 DEF Holders
    <3> QED BY <3>1, InUse
  <2>2. CASE arr[a].hooked # {}
    <3>1. arr[a].refs # 0
      BY <2>2, NotInUse
    <3>2. arr[a].fences # <<>>
      BY <3>1, UnusedType DEF SpecInv, ArrayBind
    <3>3. \A t \in Threads : cur[t] = a => pc[t] # "create"
      BY <3>1, InConstruction
    <3> QED BY <3>2, <3>3 DEF Building
  <2> QED BY <1>6, <2>1, <2>2
<1>7. ASSUME NEW t \in Threads PROVE ThreadBind(t)'
  <2>1. /\ ThreadBind(t) /\ cur'[t] = cur[t] /\ i'[t] = i[t] /\ cur[t] \in Arrays \union {Null}
        /\ pc[t] = "idle" <=> cur[t] = Null
    BY DEF SpecInv, TypeOK, ThreadInv
  <2>2. CASE cur[t] = Null
    <3>1. pc'[t] = "idle"
      BY <2>1, <2>2 DEF Binding
    <3> QED BY <2>1, <2>2, <3>1 DEF ThreadBind, Replacing
  <2>3. CASE cur[t] \in Arrays
    <3>1. pc[t] = "create" => arr'[cur[t]] = arr[cur[t]]
      BY <2>3, <1>6 DEF Building
    <3>2. Num(cur[t])' = Num(cur[t]) /\ Dummies(cur[t])' = Dummies(cur[t])
      BY <2>1, <2>3, <1>2 DEF Num, Dummies
    <3>3. pc'[t] \in {"create", "file", "list"} => cur[t] \notin tracked'
      BY <2>1, <1>3 DEF ThreadBind
    <3>4. pc'[t] = "create" =>
            /\ arr'[cur'[t]].fences # <<>> /\ Dummies(cur[t])' = 1 .. Num(cur[t])'
            /\ arr'[cur'[t]] = [Unused EXCEPT !.any = arr'[cur'[t]].any,
                                              !.fences = arr'[cur'[t]].fences]
      BY <2>1, <3>1, <3>2, <1>3 DEF ThreadBind
    <3>5. Replacing(t)' => Replacing(t)
      BY <1>3 DEF Replacing
    <3>6. Replacing(t)' =>
            /\ arr'[cur'[t]].enable /\ arr'[cur'[t]].hooked = {}
            /\ i'[t] <= Num(cur[t])' + 1
            /\ Dummies(cur[t])' = i'[t] .. Num(cur[t])'
      BY <2>1, <2>3, <3>2, <3>5, <1>1 DEF ThreadBind
    <3> QED BY <2>1, <2>3, <3>3, <3>4, <3>6, <1>1, <1>3 DEF ThreadBind
  <2> QED BY <2>1, <2>2, <2>3
<1>8. ASSUME NEW a \in Arrays PROVE ArrayBind(a)'
  <2>1. ArrayBind(a)
    BY DEF SpecInv
  <2> QED BY <2>1, <1>1, <1>2, <1>4, <1>6 DEF ArrayBind
<1>9. DummyInv'
  BY <1>1, DummyKept DEF SpecInv
<1>10. \A w \in Waiters : Waits(w)'
  BY <1>1, WaitersKept
<1>11. BoundStep
  BY <1>1, FencesKept
<1> QED BY <1>2, <1>4, <1>5, <1>7, <1>8, <1>9, <1>10, <1>11

(* What clearing the list does to an array of the list. *)
LEMMA ClearedArray ==
  ASSUME SpecInv, NEW force \in BOOLEAN, NEW a \in tracked
  PROVE  LET r == arr[a]
             q == AfterClear(force)[a] IN
         /\ Visited(q, r) /\ q.hooked = r.hooked
         /\ q.refs = IF a \in Leaves(force) THEN r.refs - 1 ELSE r.refs
         /\ q.dropped = (r.dropped \/ force)
         /\ ~force => q.pending = r.pending /\ q.signaled = IsSignaled(r)
<1> DEFINE r == arr[a]
           q == AfterClear(force)[a]
           y == IsSignaled(r) \/ (force /\ r.pending = 1)
           z == IF force /\ ~IsSignaled(r) THEN r.pending - 1 ELSE r.pending
           x == IF a \in Leaves(force) THEN r.refs - 1 ELSE r.refs
           d == r.dropped \/ force
<1>1. a \in Arrays /\ r \in ArrayType /\ "list" \in Holders(a)
  BY DEF SpecInv, TypeOK, Holders
<1>2. r.refs >= 1 /\ r.refs \in Nat /\ r.pending \in Int
  BY <1>1, InUse, ArrayFields
<1>3. q = [r EXCEPT !.signaled = y, !.pending = z, !.refs = x, !.dropped = d]
  BY <1>1 DEF AfterClear
<1>4. x \in Nat /\ z \in Int /\ y \in BOOLEAN /\ d \in BOOLEAN
  BY <1>2
<1>5. ~force => z = r.pending /\ y = IsSignaled(r)
  BY DEF IsSignaled
<1> HIDE DEF x, y, z, d, q, r
<1>6. /\ q \in ArrayType /\ SameFences(q, r) /\ q.hooked = r.hooked /\ q.enable = r.enable
      /\ q.fd = r.fd /\ q.error = r.error
      /\ q.signaled = y /\ q.pending = z /\ q.refs = x /\ q.dropped = d
  BY <1>1, <1>3, <1>4 DEF ArrayType, SameFences
<1> QED BY <1>5, <1>6 DEF Visited, x, d, q, r

(* clear_fence_array_tracker() keeps what the arrays promise. *)
LEMMA ClearStep ==
  ASSUME SpecInv, NEW force \in BOOLEAN, arr' = AfterClear(force),
         tracked' = tracked \ Leaves(force), UNCHANGED <<cur, i, dummy, done, wvars>>,
         \A t \in Threads : pc'[t] = pc[t] \/ (pc[t] \in Binding /\ pc'[t] \in {"bound", "put"})
  PROVE  /\ arr' \in [Arrays -> ArrayType] /\ tracked' \subseteq Arrays /\ DummyInv'
         /\ \A t \in Threads : ThreadBind(t)'
         /\ \A w \in Waiters : Waits(w)'
         /\ BoundStep
         /\ \A a \in Arrays : Refs(a)' /\ ArrayBind(a)' /\ Count(a)'
<1>1. \A a \in Arrays : arr[a] \in ArrayType
  BY DEF SpecInv, TypeOK
<1>2. \A a \in Arrays : a \notin tracked => arr'[a] = arr[a]
  BY DEF AfterClear
<1>3. ASSUME NEW a \in tracked
      PROVE  /\ Visited(arr'[a], arr[a]) /\ arr'[a].hooked = arr[a].hooked
             /\ arr'[a].refs = IF a \in Leaves(force) THEN arr[a].refs - 1 ELSE arr[a].refs
             /\ arr'[a].dropped = (arr[a].dropped \/ force)
             /\ ~force => /\ arr'[a].pending = arr[a].pending
                          /\ arr'[a].signaled = IsSignaled(arr[a])
  BY ClearedArray
<1>4. arr' \in [Arrays -> ArrayType]
  <2>1. \A a \in Arrays : arr'[a] \in ArrayType
    BY <1>1, <1>2, <1>3 DEF Visited
  <2>2. arr' = [a \in Arrays |-> arr'[a]]
    BY DEF AfterClear
  <2> QED BY <2>1, <2>2
<1>5. tracked \subseteq Arrays /\ Leaves(force) \subseteq tracked
  BY DEF SpecInv, TypeOK, Leaves
<1>6. /\ \A a \in Arrays : Num(a)' = Num(a) /\ Dummies(a)' = Dummies(a)
      /\ \A a \in Arrays : Building(a)' <=> Building(a)
      /\ \A a \in Arrays : Uncounted(a)' => Uncounted(a)
      /\ DummyInv' /\ \A t \in Threads : ThreadBind(t)'
      /\ \A a \in Arrays : ArrayBind(a)'
      /\ \A w \in Waiters : Waits(w)'
      /\ BoundStep
  BY <1>2, <1>3, <1>4, VisitedAll
<1>7. ASSUME NEW a \in Arrays PROVE Refs(a)'
  <2>1. Refs(a) /\ IsFiniteSet(arr[a].hooked)
    BY <1>1, ArrayFields DEF SpecInv
  <2>2. arr'[a].fd = arr[a].fd /\ arr'[a].hooked = arr[a].hooked
    BY <1>2, <1>3 DEF Visited
  <2>3. \A t \in Threads : /\ pc'[t] \in Binding <=> pc[t] \in Binding
                           /\ pc'[t] \in {"file", "list"} <=> pc[t] \in {"file", "list"}
    BY DEF Binding
  <2>4. \A t \in Threads : cur[t] = a /\ a \in tracked => pc[t] \notin {"file", "list"}
    BY DEF SpecInv, ThreadBind
  <2>5. CASE a \in Leaves(force)
    <3>1. a \in tracked /\ a \notin tracked'
      BY <2>5, <1>5
    <3>2. "list" \in Holders(a)
      BY <3>1 DEF Holders
    <3>3. Holders(a)' = Holders(a) \ {"list"}
      BY <3>1, <2>2, <2>3, <2>4, SpecAssumption DEF Holders, wvars
    <3> QED BY <2>1, <2>2, <2>5, <3>1, <3>2, <3>3, <1>3, RefsRemoved
  <2>6. CASE a \notin Leaves(force)
    <3>1. Holders(a)' = Holders(a)
      BY <2>2, <2>3, <2>6 DEF Holders, wvars
    <3> QED BY <2>1, <2>2, <2>6, <3>1, <1>2, <1>3, RefsKept
  <2> QED BY <2>5, <2>6
<1>8. ASSUME NEW a \in Arrays PROVE Count(a)'
  <2>1. Count(a) /\ ArrayBind(a) /\ arr[a].error \in BOOLEAN /\ arr[a].pending \in Int
    BY <1>1, ArrayFields DEF SpecInv
  <2>2. CASE a \notin tracked
    BY <2>1, <2>2, <1>2, <1>6, ArrayKept, LightSame
  <2>3. CASE a \in tracked /\ force
    BY <2>1, <2>3, <1>3 DEF Count, Visited, SameFences
  <2>4. CASE a \in tracked /\ ~force
    <3> DEFINE r == arr[a]
               q == arr'[a]
    <3>1. /\ q.fences = r.fences /\ q.any = r.any /\ q.hooked = r.hooked /\ q.error = r.error
          /\ q.dropped = r.dropped /\ q.pending = r.pending /\ q.signaled = IsSignaled(r)
          /\ r.dropped \in BOOLEAN /\ Ended(a)' = Ended(a) /\ Num(a)' = Num(a)
          /\ Target(q) = Target(r)
      BY <2>4, <1>1, <1>3, ArrayFields DEF Visited, SameFences, Ended, Num, Target
    <3>2. IsSignaled(q) <=> IsSignaled(r)
      BY <3>1 DEF IsSignaled
    <3> SUFFICES ASSUME r.fences # <<>>, ~Building(a), ~r.error, ~r.dropped
                 PROVE  /\ Uncounted(a) => r.pending = Target(r) /\ ~IsSignaled(r)
                        /\ r.any /\ IsSignaled(r) => Ended(a) # {}
                        /\ ~r.any =>
                             \/ r.pending = Num(a) /\ ~IsSignaled(r) /\ r.hooked = {}
                             \/ /\ r.pending = Cardinality(r.hooked)
                                /\ Ended(a) = (1 .. Num(a)) \ r.hooked
                        /\ ~r.any /\ IsSignaled(r) => Ended(a) = 1 .. Num(a)
      BY <2>1, <3>1, <3>2, <1>6 DEF Count
    <3>3. Num(a) \in Nat \ {0}
      BY ArraySizes DEF SpecInv
    <3>4. Target(r) > 0
      BY <3>3 DEF Target, Num
    <3>5. IsFiniteSet(r.hooked) /\ r.hooked \subseteq 1 .. Num(a)
      BY <2>1, <1>1, ArrayFields DEF ArrayBind
    <3>6. Uncounted(a) => r.pending = Target(r) /\ ~IsSignaled(r)
      BY <2>1, <3>4 DEF Count, IsSignaled
    <3>7. ASSUME ~r.any, IsSignaled(r) PROVE Ended(a) = 1 .. Num(a)
      <4>1. CASE r.signaled
        BY <2>1, <3>7, <4>1 DEF Count
      <4>2. CASE r.pending <= 0
        <5>1. r.pending = Cardinality(r.hooked) /\ Ended(a) = (1 .. Num(a)) \ r.hooked
          BY <2>1, <3>3, <3>7, <4>2 DEF Count
        <5>2. Cardinality(r.hooked) = 0
          BY <5>1, <4>2, <3>5, FS_CardinalityType
        <5>3. r.hooked = {}
          BY <5>2, <3>5, FS_EmptySet
        <5> QED BY <5>1, <5>3
      <4> QED BY <3>7, <4>1, <4>2 DEF IsSignaled
    <3>8. r.pending = Num(a) /\ ~r.signaled => ~IsSignaled(r)
      BY <3>3 DEF IsSignaled
    <3> QED BY <2>1, <3>6, <3>7, <3>8 DEF Count
  <2> QED BY <2>2, <2>3, <2>4
<1> QED BY <1>4, <1>5, <1>6, <1>7, <1>8

(* An array that has signalled leaves the list, which puts it. *)
LEMMA ClearKeeps ==
  ASSUME SpecInv, NEW t \in Threads, BindClear(t) \/ InvalidClear(t)
  PROVE  SpecInv' /\ BoundStep
<1>1. PICK from \in {"clear", "bad_clear"}, to \in {"bound", "put"} : Clear(t, from, to)
  BY DEF BindClear, InvalidClear
<1>2. /\ Goto(t, from, to) /\ pc[t] = from /\ pc' = [pc EXCEPT ![t] = to]
      /\ arr' = AfterClear(FALSE) /\ tracked' = tracked \ Leaves(FALSE)
      /\ UNCHANGED <<cur, i, dummy, done>> /\ Stay
  BY <1>1 DEF Clear, Goto
<1>3. ThreadInv'
  <2>1. from # "idle" /\ to # "idle"
    OBVIOUS
  <2> QED BY <1>2, <2>1, ThreadMove DEF Stay
<1>4. \A s \in Threads : pc'[s] = pc[s] \/ (pc[s] \in Binding /\ pc'[s] \in {"bound", "put"})
  BY <1>2 DEF Binding, SpecInv, TypeOK
<1>5. /\ arr' \in [Arrays -> ArrayType] /\ tracked' \subseteq Arrays /\ DummyInv'
      /\ \A s \in Threads : ThreadBind(s)'
      /\ \A w \in Waiters : Waits(w)'
      /\ BoundStep
      /\ \A a \in Arrays : Refs(a)' /\ ArrayBind(a)' /\ Count(a)'
  BY <1>2, <1>4, ClearStep DEF Stay
<1>6. TypeOK'
  BY <1>2, <1>5 DEF SpecInv, TypeOK, Stay, wvars
<1> QED BY <1>3, <1>5, <1>6 DEF SpecInv

(* The last close puts every array of the list and marks it as dropped. *)
LEMMA ReleaseKeeps ==
  ASSUME SpecInv, NEW t \in Threads, Release(t)
  PROVE  SpecInv' /\ BoundStep
<1>1. ThreadInv' /\ available' \in 0 .. MaxDevices /\ opened' \in [Threads -> BOOLEAN]
  BY Closes
<1>2. UNCHANGED <<pc, cur, i, dummy, done, wvars>>
  BY DEF Release
<1>3. CASE available = 1
  <2>1. arr' = AfterClear(TRUE) /\ tracked' = {}
    BY <1>3 DEF Release
  <2>2. tracked' = tracked \ Leaves(TRUE)
    BY <2>1 DEF Leaves
  <2>3. /\ arr' \in [Arrays -> ArrayType] /\ tracked' \subseteq Arrays /\ DummyInv'
        /\ \A s \in Threads : ThreadBind(s)'
        /\ \A w \in Waiters : Waits(w)'
        /\ BoundStep
        /\ \A a \in Arrays : Refs(a)' /\ ArrayBind(a)' /\ Count(a)'
    BY <1>2, <2>1, <2>2, ClearStep
  <2>4. TypeOK'
    BY <1>1, <1>2, <2>3 DEF SpecInv, TypeOK, wvars
  <2> QED BY <1>1, <2>3, <2>4 DEF SpecInv
<1>4. CASE available # 1
  BY <1>1, <1>2, <1>4, DeviceSteps DEF Release
<1> QED BY <1>3, <1>4

\* The callbacks of an array on fence f.
Hit(r, f) == {n \in r.hooked : r.fences[n] = f}

(* What the callbacks on fence f do to an array. *)
LEMMA CalledBackArray ==
  ASSUME SpecInv, NEW f \in Fences, NEW a \in Arrays
  PROVE  LET r == arr[a]
             q == CalledBack(r, f)
             k == Cardinality(Hit(r, f)) IN
         /\ Visited(q, r) /\ q.hooked = r.hooked \ Hit(r, f) /\ q.refs = r.refs - k
         /\ q.pending = r.pending - k
         /\ q.signaled = (r.signaled \/ (r.pending > 0 /\ r.pending <= k))
         /\ q.dropped = r.dropped /\ IsFiniteSet(Hit(r, f)) /\ k \in Nat
         /\ Cardinality(q.hooked) = Cardinality(r.hooked) - k
         /\ r.hooked = {} => q = r
<1> DEFINE r == arr[a]
           q == CalledBack(r, f)
           h == r.hooked \ Hit(r, f)
           k == Cardinality(Hit(r, f))
           y == r.signaled \/ (r.pending > 0 /\ r.pending <= k)
           z == r.pending - k
           x == r.refs - k
<1>1. /\ r \in ArrayType /\ IsFiniteSet(r.hooked) /\ Cardinality(r.hooked) \in Nat
      /\ r.pending \in Int /\ r.hooked \subseteq 1 .. FenceMax /\ r.refs \in Nat
  BY ArrayFields DEF SpecInv, TypeOK
<1>2. Hit(r, f) \subseteq r.hooked /\ r.hooked \intersect Hit(r, f) = Hit(r, f)
  BY DEF Hit
<1>3. IsFiniteSet(Hit(r, f)) /\ k \in Nat /\ k <= Cardinality(r.hooked)
  BY <1>1, <1>2, FS_Subset, FS_CardinalityType
<1>4. Cardinality(h) = Cardinality(r.hooked) - k
  BY <1>1, <1>2, FS_Difference
<1>5. x \in Nat
  <2>1. Cardinality(Holders(a)) \in Nat /\ r.refs = Cardinality(Holders(a)) + Cardinality(r.hooked)
    BY FS_CardinalityType DEF SpecInv, Refs
  <2> QED BY <2>1, <1>1, <1>3
<1>6. h \in SUBSET (1 .. FenceMax) /\ h \subseteq r.hooked /\ z \in Int /\ y \in BOOLEAN
  BY <1>1, <1>3
<1>7. q = [r EXCEPT !.hooked = h, !.refs = x, !.pending = z, !.signaled = y]
  BY DEF CalledBack, Hit
<1>8. r.hooked = {} => h = r.hooked /\ x = r.refs /\ z = r.pending /\ y = r.signaled
  <2> SUFFICES ASSUME r.hooked = {}
               PROVE  h = r.hooked /\ x = r.refs /\ z = r.pending /\ y = r.signaled
    OBVIOUS
  <2>1. Hit(r, f) = {} /\ k = 0
    BY <1>2, FS_EmptySet
  <2>2. r.signaled \in BOOLEAN
    BY <1>1, ArrayFields
  <2> QED BY <2>1, <2>2, <1>1
<1> HIDE DEF h, x, y, z, q, r
<1>9. /\ q \in ArrayType /\ SameFences(q, r) /\ q.enable = r.enable /\ q.fd = r.fd
      /\ q.error = r.error /\ q.dropped = r.dropped
      /\ q.hooked = h /\ q.refs = x /\ q.pending = z /\ q.signaled = y
  BY <1>1, <1>5, <1>6, <1>7 DEF ArrayType, SameFences
<1>10. r.hooked = {} => q = r
  BY <1>1, <1>7, <1>8 DEF ArrayType
<1> QED BY <1>3, <1>4, <1>6, <1>9, <1>10 DEF Visited, h, x, y, z, q, r

(* The callbacks of a fence count down and put their arrays. *)
LEMMA FenceSignalsKeeps ==
  ASSUME SpecInv, NEW f \in Fences, FenceSignals(f)
  PROVE  SpecInv' /\ BoundStep
<1>1. /\ done' = done \union {f} /\ UNCHANGED <<tvars, tracked, dummy, wvars>>
      /\ arr' = [a \in Arrays |-> CalledBack(arr[a], f)]
  BY DEF FenceSignals
<1>2. pc' = pc /\ cur' = cur /\ i' = i /\ opened' = opened /\ available' = available
  BY <1>1 DEF tvars
<1>3. ASSUME NEW a \in Arrays
      PROVE  LET r == arr[a]
                 q == arr'[a]
                 k == Cardinality(Hit(r, f)) IN
             /\ Visited(q, r) /\ q.hooked = r.hooked \ Hit(r, f) /\ q.refs = r.refs - k
             /\ q.pending = r.pending - k
             /\ q.signaled = (r.signaled \/ (r.pending > 0 /\ r.pending <= k))
             /\ q.dropped = r.dropped /\ IsFiniteSet(Hit(r, f)) /\ k \in Nat
             /\ Cardinality(q.hooked) = Cardinality(r.hooked) - k
             /\ r.hooked = {} => q = r
  <2>1. arr'[a] = CalledBack(arr[a], f)
    BY <1>1
  <2> QED BY <2>1, CalledBackArray
<1>4. arr' \in [Arrays -> ArrayType]
  <2>1. \A a \in Arrays : arr'[a] \in ArrayType
    BY <1>3 DEF Visited
  <2>2. arr' = [a \in Arrays |-> arr'[a]]
    BY <1>1
  <2> QED BY <2>1, <2>2
<1>5. /\ \A a \in Arrays : Num(a)' = Num(a) /\ Dummies(a)' = Dummies(a)
      /\ \A a \in Arrays : Building(a)' <=> Building(a)
      /\ \A a \in Arrays : Uncounted(a)' => Uncounted(a)
      /\ DummyInv' /\ \A t \in Threads : ThreadBind(t)'
      /\ \A a \in Arrays : ArrayBind(a)'
      /\ \A w \in Waiters : Waits(w)'
      /\ BoundStep
  BY <1>1, <1>2, <1>3, <1>4, VisitedAll
<1>6. ThreadInv'
  BY <1>2 DEF SpecInv, ThreadInv, Opened
<1>7. TypeOK'
  BY <1>1, <1>2, <1>4 DEF SpecInv, TypeOK, wvars
<1>8. ASSUME NEW a \in Arrays PROVE Refs(a)'
  <2>1. arr'[a].fd = arr[a].fd
    BY <1>3 DEF Visited
  <2>2. Holders(a)' = Holders(a)
    BY <2>1, <1>1, <1>2 DEF Holders, wvars
  <2>3. Refs(a) /\ Cardinality(Holders(a)) \in Nat /\ Cardinality(arr[a].hooked) \in Nat
    BY ArrayFields, FS_CardinalityType DEF SpecInv, Refs, TypeOK
  <2> QED BY <2>2, <2>3, <1>3 DEF Refs
<1>9. ASSUME NEW a \in Arrays PROVE Count(a)'
  <2> DEFINE r == arr[a]
             q == arr'[a]
             k == Cardinality(Hit(r, f))
  <2>1. /\ q.hooked = r.hooked \ Hit(r, f) /\ q.pending = r.pending - k
        /\ q.signaled = (r.signaled \/ (r.pending > 0 /\ r.pending <= k))
        /\ q.dropped = r.dropped /\ IsFiniteSet(Hit(r, f)) /\ k \in Nat
        /\ Cardinality(q.hooked) = Cardinality(r.hooked) - k
        /\ r.hooked = {} => q = r
    BY <1>3
  <2>2. /\ q.fences = r.fences /\ q.any = r.any /\ q.error = r.error /\ Num(a)' = Num(a)
        /\ Target(q) = Target(r)
    BY <1>3 DEF Visited, SameFences, Num, Target
  <2>3. Count(a) /\ ArrayBind(a) /\ r.hooked \subseteq 1 .. Num(a) /\ IsFiniteSet(r.hooked)
        /\ r.pending \in Int /\ Cardinality(r.hooked) \in Nat
    BY ArrayFields DEF SpecInv, ArrayBind, TypeOK
  <2>4. \A n \in q.hooked : q.fences[n] \notin done'
    BY <2>1, <2>2, <2>3, <1>1 DEF Count, Hit
  <2>5. Ended(a) \subseteq Ended(a)' /\ Hit(r, f) \subseteq Ended(a)'
    BY <2>2, <2>3, <1>1 DEF Ended, Hit
  <2> SUFFICES ASSUME r.fences # <<>>, ~Building(a), ~r.error, ~r.dropped
               PROVE  /\ Uncounted(a) => q.pending = Target(r) /\ ~q.signaled
                      /\ q.any /\ IsSignaled(q) => Ended(a)' # {}
                      /\ ~q.any =>
                           \/ q.pending = Num(a) /\ ~q.signaled /\ q.hooked = {}
                           \/ /\ q.pending = Cardinality(q.hooked)
                              /\ Ended(a)' = (1 .. Num(a)) \ q.hooked
                      /\ ~q.any /\ q.signaled => Ended(a)' = 1 .. Num(a)
    BY <2>1, <2>2, <2>4, <1>5 DEF Count
  <2>6. Uncounted(a) => r.hooked = {}
    BY <2>3 DEF Uncounted, ArrayBind, SpecInv, ThreadBind
  <2>7. Uncounted(a) => q.pending = Target(r) /\ ~q.signaled
    BY <2>1, <2>3, <2>6 DEF Count
  <2>8. ASSUME q.any, IsSignaled(q) PROVE Ended(a)' # {}
    <3>1. CASE IsSignaled(r)
      BY <3>1, <2>2, <2>3, <2>5, <2>8 DEF Count
    <3>2. CASE ~IsSignaled(r)
      <4>1. k # 0
        <5>1. r.pending > 0 /\ ~r.signaled
          BY <3>2, <2>3 DEF IsSignaled
        <5>2. q.signaled => r.pending <= k
          BY <2>1, <5>1
        <5>3. q.signaled \/ r.pending - k <= 0
          BY <2>1, <2>8 DEF IsSignaled
        <5> QED BY <5>1, <5>2, <5>3, <2>1, <2>3
      <4>2. Hit(r, f) # {}
        BY <4>1, FS_EmptySet
      <4> QED BY <4>2, <2>5
    <3> QED BY <3>1, <3>2
  <2>9. CASE ~q.any
    <3>1. CASE r.pending = Num(a) /\ ~r.signaled /\ r.hooked = {}
      BY <3>1, <2>1, <2>7, <2>8, <2>9
    <3>2. CASE r.pending = Cardinality(r.hooked) /\ Ended(a) = (1 .. Num(a)) \ r.hooked
      <4>1. Ended(a)' = (1 .. Num(a)) \ q.hooked
        <5>1. Ended(a)' \subseteq (1 .. Num(a)) \ q.hooked
          BY <2>2, <2>4 DEF Ended
        <5> QED BY <5>1, <3>2, <2>1, <2>5
      <4>2. q.pending = Cardinality(q.hooked)
        BY <3>2, <2>1
      <4>3. ASSUME q.signaled PROVE Ended(a)' = 1 .. Num(a)
        <5>1. CASE r.signaled
          <6>1. Ended(a) = 1 .. Num(a)
            BY <5>1, <2>2, <2>3, <2>9 DEF Count
          <6> QED BY <6>1, <4>1, <2>5
        <5>2. CASE r.pending <= k
          <6>1. Hit(r, f) \subseteq r.hooked
            BY DEF Hit
          <6>2. Cardinality(Hit(r, f)) = Cardinality(r.hooked)
            BY <6>1, <5>2, <3>2, <2>1, <2>3, FS_Subset
          <6>3. Hit(r, f) = r.hooked
            BY <6>1, <6>2, <2>3, FS_Subset
          <6> QED BY <6>3, <4>1, <2>1
        <5> QED BY <4>3, <5>1, <5>2, <2>1
      <4> QED BY <4>1, <4>2, <4>3, <2>7, <2>9
    <3> QED BY <3>1, <3>2, <2>2, <2>3, <2>9 DEF Count
  <2> QED BY <2>7, <2>8, <2>9
<1> QED BY <1>5, <1>6, <1>7, <1>8, <1>9 DEF SpecInv

-----------------------------------------------------------------------------
(* The theorems. *)

(* The device starts closed, with its own reference to the dummy fence. *)
LEMMA SpecInit == Init => SpecInv
<1> SUFFICES ASSUME Init PROVE SpecInv
  OBVIOUS
<1>1. \A a \in Arrays : /\ arr[a] = Unused /\ Num(a) = 0 /\ Dummies(a) = {}
                        /\ arr[a].hooked = {} /\ arr[a].refs = 0 /\ ~arr[a].fd
                        /\ arr[a].fences = <<>>
  BY UnusedType DEF Init, Num, Dummies
<1>2. Opened = {} /\ DummyPlaces = {}
  BY <1>1 DEF Init, Opened, DummyPlaces
<1>3. IsFiniteSet({}) /\ Cardinality({}) = 0
  BY FS_EmptySet
<1>4. ThreadInv /\ DummyInv
  BY <1>2, <1>3, SpecAssumption DEF Init, ThreadInv, DummyInv
<1>5. \A a \in Arrays : Holders(a) = {}
  <2>1. /\ \A t \in Threads : cur[t] = Null /\ pc[t] = "idle"
        /\ \A w \in Waiters : warr[w] = Null
        /\ tracked = {} /\ Null \notin Arrays /\ "idle" \notin Binding
    BY SpecAssumption DEF Init, Binding
  <2> QED BY <1>1, <2>1 DEF Holders
<1>6. ASSUME NEW a \in Arrays PROVE Refs(a)
  <2>1. Holders(a) = {} /\ arr[a].hooked = {} /\ arr[a].refs = 0
    BY <1>1, <1>5
  <2> QED BY <2>1, <1>3 DEF Refs
<1>7. \A a \in Arrays : ArrayBind(a) /\ Count(a)
  BY <1>1 DEF ArrayBind, Count
<1>8. \A t \in Threads : ThreadBind(t)
  BY DEF Init, ThreadBind, Replacing
<1>9. \A w \in Waiters : Waits(w)
  BY DEF Init, Waits
<1>10. TypeOK
  BY UnusedType, SpecAssumption DEF Init, TypeOK
<1> QED BY <1>4, <1>6, <1>7, <1>8, <1>9, <1>10 DEF SpecInv

(* A step of a thread, when arrays are bound by one thread at a time. *)
LEMMA ThreadSteps ==
  ASSUME SpecInv, OneBinder, NEW t \in Threads, Call(t) \/ InCall(t)
  PROVE  SpecInv' /\ BoundStep
<1>1. CASE Call(t)
  BY <1>1, OpenKeeps, ReleaseKeeps, CreateGetKeeps, BindGetKeeps DEF Call
<1>2. CASE InCall(t)
  <2>1. CASE CreateArrayFails(t) \/ CreateArray(t) \/ CreateFile(t) \/ CreateFileFails(t)
             \/ CreateList(t)
    BY <2>1, CreateArrayFailsKeeps, CreateArrayKeeps, CreateFileKeeps,
       CreateFileFailsKeeps, CreateListKeeps
  <2>2. CASE BindSanitize(t) \/ BindCheck(t) \/ BindCopy(t) \/ BindLock(t)
    BY <2>2, BindSanitizeKeeps, BindCheckKeeps, BindCopyKeeps, BindLockKeeps
  <2>3. CASE (\E f \in Fences : BindStore(t, f)) \/ BindInvalid(t) \/ BindUnlock(t)
    BY <2>3, StepStoreKeeps, BindInvalidKeeps, BindUnlockKeeps
  <2>4. CASE BindEnable(t) \/ BindClear(t) \/ InvalidClear(t)
    BY <2>4, BindEnableKeeps, ClearKeeps
  <2>5. CASE BindBound(t) \/ InvalidBound(t)
    BY <2>5, SetBoundKeeps
  <2>6. CASE InvalidError(t) \/ InvalidSignal(t) \/ BindPut(t)
    BY <2>6, InvalidErrorKeeps, InvalidSignalKeeps, BindPutKeeps
  <2> QED BY <1>2, <2>1, <2>2, <2>3, <2>4, <2>5, <2>6 DEF InCall
<1> QED BY <1>1, <1>2

(* A step of a display thread, of a fence or of user space. *)
LEMMA OtherSteps ==
  ASSUME SpecInv, (\E w \in Waiters : WaiterStep(w)) \/ World
  PROVE  SpecInv' /\ BoundStep
<1>1. ASSUME NEW w \in Waiters, WaiterStep(w) PROVE SpecInv' /\ BoundStep
  BY <1>1, WaitBindKeeps, WaitTimeoutKeeps, WaitWokenKeeps, InspectKeeps, SwWaitKeeps,
     WaitEndKeeps DEF WaiterStep, Resume
<1>2. CASE World
  BY <1>2, FenceSignalsKeeps, ReleaseArrayKeeps, CloseFdKeeps DEF World
<1> QED BY <1>1, <1>2

(* A stuttering step. *)
LEMMA StutterKeeps == SpecInv /\ UNCHANGED vars => SpecInv'
<1> SUFFICES ASSUME SpecInv, UNCHANGED vars PROVE SpecInv'
  OBVIOUS
<1> USE DEF vars, tvars, wvars
<1>1. TypeOK' /\ ThreadInv' /\ DummyInv'
  BY SMTT(30) DEF SpecInv, TypeOK, ThreadInv, Opened, DummyInv, DummyPlaces, Dummies, Num
<1>2. \A t \in Threads : ThreadBind(t)'
  BY DEF SpecInv, ThreadBind, Replacing, Dummies, Num
<1>3. \A w \in Waiters : Waits(w)'
  BY DEF SpecInv, Waits, Num
<1>4. \A a \in Arrays : Refs(a)' /\ ArrayBind(a)'
  <2>1. \A a \in Arrays : Holders(a)' = Holders(a)
    BY DEF Holders
  <2>2. \A a \in Arrays : Refs(a)'
    BY <2>1 DEF SpecInv, Refs
  <2>3. \A a \in Arrays : ArrayBind(a)'
    BY DEF SpecInv, ArrayBind, Building, Dummies, Num
  <2> QED BY <2>2, <2>3
<1>5. \A a \in Arrays : Count(a)'
  BY DEF SpecInv, Count, Building, Uncounted, Replacing, Target, Ended, Dummies, Num
<1> QED BY <1>1, <1>2, <1>3, <1>4, <1>5 DEF SpecInv

(* The invariant holds as long as arrays are bound by one thread at a      *)
(* time, whatever the number of threads, display threads, arrays, fences.  *)
THEOREM SpecInductive == ASSUME OneBinder PROVE Spec => []SpecInv
<1>1. SpecInv /\ [Next]_vars => SpecInv'
  BY ThreadSteps, OtherSteps, StutterKeeps DEF Next
<1> QED BY <1>1, SpecInit, PTL DEF Spec

(* Every variable stays in its type: no reference count of an array, and   *)
(* not the one of the dummy fence, goes below 0.                           *)
THEOREM SpecTypeCorrect == ASSUME OneBinder PROVE Spec => []TypeOK
<1>1. SpecInv => TypeOK
  BY DEF SpecInv
<1> QED BY <1>1, SpecInductive, PTL

(* The references of an array are those of its holders and callbacks.      *)
THEOREM SpecRefsExact == ASSUME OneBinder PROVE Spec => []RefsExact
<1>1. SpecInv => RefsExact
  BY DEF SpecInv, Refs, RefsExact
<1> QED BY <1>1, SpecInductive, PTL

(* The dummy fence has one reference for every place it still has.         *)
THEOREM SpecDummyBalance == ASSUME OneBinder PROVE Spec => []DummyBalance
<1>1. SpecInv => DummyBalance
  BY DEF SpecInv, DummyInv, DummyBalance
<1> QED BY <1>1, SpecInductive, PTL

(* An array with a dummy fence in it has no callback at all.               *)
THEOREM SpecNoDummyHooked == ASSUME OneBinder PROVE Spec => []NoDummyHooked
<1>1. SpecInv => NoDummyHooked
  BY DEF SpecInv, ArrayBind, NoDummyHooked
<1> QED BY <1>1, SpecInductive, PTL

(* An array that the display takes for a hw-fence has hw-fences only.      *)
THEOREM SpecOnlyHwFences == ASSUME OneBinder PROVE Spec => []OnlyHwFences
<1>1. SpecInv => OnlyHwFences
  BY DEF SpecInv, Waits, OnlyHwFences
<1> QED BY <1>1, SpecInductive, PTL

(* An array signals after one or after all of its fences, as it was asked. *)
THEOREM SpecSignalledByFlags == ASSUME OneBinder PROVE Spec => []SignalledByFlags
<1>1. SpecInv => SignalledByFlags
  <2> SUFFICES ASSUME SpecInv, NEW a \in Arrays,
                      arr[a].signaled, ~arr[a].error, ~arr[a].dropped
               PROVE  IF arr[a].any THEN Ended(a) # {} ELSE Ended(a) = 1 .. Num(a)
    BY DEF SignalledByFlags, Ended
  <2>1. arr[a].fences # <<>>
    BY DEF SpecInv, ArrayBind, Unused
  <2>2. ~Building(a)
    BY InConstruction DEF Building
  <2> QED BY <2>1, <2>2 DEF SpecInv, Count, IsSignaled
<1> QED BY <1>1, SpecInductive, PTL

(* No step of any thread replaces a fence that was bound to an array.      *)
THEOREM SpecBoundOnce == ASSUME OneBinder PROVE Spec => BoundOnce
<1>1. SpecInv /\ [Next]_vars => [BoundStep]_vars
  BY ThreadSteps, OtherSteps DEF Next
<1> QED BY <1>1, SpecInductive, PTL DEF Spec, BoundOnce, BoundStep
=============================================================================
