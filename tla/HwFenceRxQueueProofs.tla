------------------------ MODULE HwFenceRxQueueProofs ------------------------
(***************************************************************************)
(* Proofs about the Rx queue, for any set of writers, any payloads and any *)
(* length of the ring.                                                     *)
(***************************************************************************)
EXTENDS HwFenceRxQueue, TLAPS

(* Arithmetic of the ring: the next index is an index, and two indexes     *)
(* never have the same next one.                                           *)
LEMMA AfterFacts ==
  /\ \A i \in Slots : After(i) \in Slots
  /\ \A i, j \in Slots : After(i) = After(j) => i = j
  /\ 0 \in Slots
BY RxAssumption DEF After, Slots

(* The message fits exactly when the index after the write index is not    *)
(* the read index.                                                         *)
LEMMA FitsMeansRoom ==
  ASSUME NEW r \in Slots, NEW w \in Slots
  PROVE  Fits(r, w) <=> After(w) # r
BY RxAssumption DEF Fits, Free, After, Slots

-----------------------------------------------------------------------------

(* The ring keeps its type, and the invariant RxInv behind the properties  *)
(* holds: the lock has one owner, a writer works on the free slot at the   *)
(* write index, and the reader on the oldest payload.                      *)
LEMMA RxInvInit == Init => RxInv
<1> SUFFICES ASSUME Init PROVE RxInv
  OBVIOUS
<1> USE AfterFacts, RxAssumption DEF Init
<1>1. TypeOK
  BY DEF TypeOK, Halves
<1>2. LockInv
  BY DEF LockInv, Client
<1>3. WriterInv
  BY DEF WriterInv, Writing
<1>4. ReaderInv
  BY DEF ReaderInv
<1> QED BY <1>1, <1>2, <1>3, <1>4 DEF RxInv

LEMMA RxTypeStep == RxInv /\ [Next]_vars => TypeOK'
<1> SUFFICES ASSUME RxInv, [Next]_vars PROVE TypeOK'
  OBVIOUS
<1> USE AfterFacts DEF RxInv, TypeOK, Client
<1>1. ASSUME NEW w \in Writers, WriterStep(w) PROVE TypeOK'
  <2>1. ASSUME NEW m \in Payload, UpdateLock(w, m) PROVE TypeOK'
    BY <2>1 DEF UpdateLock, Goto, cvars
  <2>2. CASE UpdateCheck(w)
    BY <2>2 DEF UpdateCheck, Goto, cvars
  <2>3. CASE UpdateFirst(w)
    BY <2>3 DEF UpdateFirst, Goto, cvars, Halves
  <2>4. CASE UpdateSecond(w)
    BY <2>4 DEF UpdateSecond, Goto, cvars, Halves
  <2>5. CASE UpdateIndex(w)
    BY <2>5 DEF UpdateIndex, Goto, cvars
  <2>6. CASE UpdateUnlock(w)
    BY <2>6 DEF UpdateUnlock, Goto, cvars
  <2> QED BY <1>1, <2>1, <2>2, <2>3, <2>4, <2>5, <2>6 DEF WriterStep
<1>2. CASE ClientStep
  BY <1>2 DEF ClientStep, ReadIndexes, ReadCopy, ReadAdvance, ResetLock,
              ResetIndex, ResetUnlock, wvars
<1>3. CASE UNCHANGED vars
  BY <1>3 DEF vars
<1> QED BY <1>1, <1>2, <1>3 DEF Next

LEMMA RxLockStep == RxInv /\ [Next]_vars => LockInv'
<1> SUFFICES ASSUME RxInv, [Next]_vars PROVE LockInv'
  OBVIOUS
<1> USE RxAssumption DEF RxInv, TypeOK, LockInv, Client
<1>1. ASSUME NEW w \in Writers, WriterStep(w) PROVE LockInv'
  BY <1>1 DEF WriterStep, UpdateLock, UpdateCheck, UpdateFirst, UpdateSecond,
              UpdateIndex, UpdateUnlock, Goto, cvars
<1>2. CASE ClientStep
  BY <1>2 DEF ClientStep, ReadIndexes, ReadCopy, ReadAdvance, ResetLock,
              ResetIndex, ResetUnlock, wvars
<1>3. CASE UNCHANGED vars
  BY <1>3 DEF vars
<1> QED BY <1>1, <1>2, <1>3 DEF Next

LEMMA RxWriterStep == RxInv /\ [Next]_vars => WriterInv'
<1> SUFFICES ASSUME RxInv, [Next]_vars PROVE WriterInv'
  OBVIOUS
<1>a. ASSUME NEW u, owner = u PROVE \A v \in Writers : v # u => pc[v] = "idle"
  BY <1>a DEF RxInv, LockInv
<1> USE RxAssumption DEF RxInv, TypeOK, LockInv, WriterInv, ReaderInv, Writing
<1>1. ASSUME NEW w \in Writers, WriterStep(w) PROVE WriterInv'
  <2>1. ASSUME NEW m \in Payload, UpdateLock(w, m) PROVE WriterInv'
    BY <2>1 DEF UpdateLock, Goto, cvars
  <2>2. CASE UpdateCheck(w)
    BY <2>2, FitsMeansRoom DEF UpdateCheck, Goto, cvars
  <2>3. CASE UpdateFirst(w)
    BY <2>3 DEF UpdateFirst, Goto, cvars, Halves
  <2>4. CASE UpdateSecond(w)
    BY <2>4 DEF UpdateSecond, Goto, cvars, Halves
  <2>5. CASE UpdateIndex(w)
    <3>1. \A v \in Writers : pc'[v] = IF v = w THEN "unlock" ELSE "idle"
      <4>1. owner = w /\ pc' = [pc EXCEPT ![w] = "unlock"]
        BY <2>5 DEF UpdateIndex, Goto
      <4> QED BY <4>1, <1>a
    <3>2. msg' = msg /\ pc[w] # "idle"
      BY <2>5 DEF UpdateIndex, Goto
    <3> QED BY <3>1, <3>2
  <2>6. CASE UpdateUnlock(w)
    BY <2>6 DEF UpdateUnlock, Goto, cvars
  <2> QED BY <1>1, <2>1, <2>2, <2>3, <2>4, <2>5, <2>6 DEF WriterStep
<1>2. CASE ClientStep
  <2>1. CASE ReadAdvance
    BY <2>1, AfterFacts DEF ReadAdvance, wvars
  <2>2. CASE ResetIndex
    <3>1. \A v \in Writers : pc'[v] = "idle"
      BY <2>2, <1>a DEF ResetIndex, wvars, Client
    <3> QED BY <2>2, <3>1 DEF ResetIndex, wvars
  <2>3. CASE ReadIndexes \/ ReadCopy \/ ResetLock \/ ResetUnlock
    BY <2>3 DEF ReadIndexes, ReadCopy, ResetLock, ResetUnlock, wvars
  <2> QED BY <1>2, <2>1, <2>2, <2>3 DEF ClientStep
<1>3. CASE UNCHANGED vars
  BY <1>3 DEF vars
<1> QED BY <1>1, <1>2, <1>3 DEF Next

LEMMA RxReaderStep == RxInv /\ [Next]_vars => ReaderInv'
<1> SUFFICES ASSUME RxInv, [Next]_vars PROVE ReaderInv'
  OBVIOUS
<1> USE RxAssumption DEF RxInv, TypeOK, LockInv, WriterInv, ReaderInv, Writing
<1>1. ASSUME NEW w \in Writers, WriterStep(w) PROVE ReaderInv'
  <2>1. ASSUME NEW m \in Payload, UpdateLock(w, m) PROVE ReaderInv'
    BY <2>1 DEF UpdateLock, Goto, cvars
  <2>2. CASE UpdateCheck(w) \/ UpdateUnlock(w)
    BY <2>2 DEF UpdateCheck, UpdateUnlock, Goto, cvars
  <2>3. CASE UpdateFirst(w)
    BY <2>3 DEF UpdateFirst, Goto, cvars, Halves
  <2>4. CASE UpdateSecond(w)
    BY <2>4 DEF UpdateSecond, Goto, cvars, Halves
  <2>5. CASE UpdateIndex(w)
    BY <2>5 DEF UpdateIndex, Goto, cvars
  <2> QED BY <1>1, <2>1, <2>2, <2>3, <2>4, <2>5 DEF WriterStep
<1>2. CASE ClientStep
  BY <1>2 DEF ClientStep, ReadIndexes, ReadCopy, ReadAdvance, ResetLock,
              ResetIndex, ResetUnlock, wvars
<1>3. CASE UNCHANGED vars
  BY <1>3 DEF vars
<1> QED BY <1>1, <1>2, <1>3 DEF Next

(* RxInv holds in every reachable state. *)
THEOREM RxInvariance == Spec => []RxInv
<1>1. RxInv /\ [Next]_vars => RxInv'
  BY RxTypeStep, RxLockStep, RxWriterStep, RxReaderStep DEF RxInv
<1> QED BY RxInvInit, <1>1, PTL DEF Spec

(* The indexes stay inside the ring and the rest of the state keeps its    *)
(* type, for every length of the ring.                                     *)
THEOREM RxTypeCorrect == Spec => []TypeOK
<1>1. RxInv => TypeOK
  BY DEF RxInv
<1> QED BY RxInvariance, <1>1, PTL

(* Whatever writers, reader and reset do, a writer that is past its check  *)
(* holds the lock, works on the slot at the write index, and leaves one    *)
(* slot free before the read index.                                        *)
THEOREM RxWriterOwnsSlot == Spec => []WriterOwnsSlot
<1>1. RxInv => WriterOwnsSlot
  BY DEF RxInv, TypeOK, LockInv, WriterInv, WriterOwnsSlot, Writing
<1> QED BY RxInvariance, <1>1, PTL

-----------------------------------------------------------------------------
(* The ring implements the abstract queue.                                 *)

\* The slot of the n-th payload after read index r.
Pos(r, n) == IF r + n - 1 >= Entries THEN r + n - 1 - Entries ELSE r + n - 1

(* The payloads between the indexes are in slots other than the one at the *)
(* write index, which is the next; their number tells empty and full.      *)
LEMMA PosFacts ==
  ASSUME NEW r \in Slots, NEW w \in Slots
  PROVE  /\ Entries - Free(r, w) \in 0 .. Entries - 1
         /\ \A n \in 1 .. Entries - Free(r, w) : Pos(r, n) \in Slots /\ Pos(r, n) # w
         /\ Pos(r, Entries - Free(r, w) + 1) = w
         /\ r = w <=> Entries - Free(r, w) = 0
         /\ Fits(r, w) <=> Entries - Free(r, w) < Entries - 1
         /\ Pos(r, 1) = r
BY RxAssumption DEF Free, Slots, Pos, Fits

(* A store of the write index adds one payload, a store of the read index  *)
(* takes the first one away.                                               *)
LEMMA AdvanceFacts ==
  ASSUME NEW r \in Slots, NEW w \in Slots
  PROVE  /\ After(w) # r => Entries - Free(r, After(w)) = Entries - Free(r, w) + 1
         /\ r # w => Entries - Free(After(r), w) = Entries - Free(r, w) - 1
         /\ r # w => \A n \in 1 .. Entries - Free(r, w) - 1 : Pos(After(r), n) = Pos(r, n + 1)
BY RxAssumption DEF Free, Slots, Pos, After

(* The contents are a sequence, with one payload for each used slot.       *)
LEMMA ContentsFacts ==
  ASSUME TypeOK
  PROVE  /\ Contents = [n \in 1 .. Used |-> slot[Pos(read_index, n)]]
         /\ Contents \in Seq(Halves)
         /\ Len(Contents) = Used
         /\ Used \in 0 .. Entries - 1
<1>1. Contents = [n \in 1 .. Used |-> slot[Pos(read_index, n)]]
  BY DEF Contents, Pos
<1>2. Used \in 0 .. Entries - 1
  BY PosFacts DEF Used, TypeOK
<1>3. \A n \in 1 .. Used : slot[Pos(read_index, n)] \in Halves
  BY PosFacts DEF Used, TypeOK
<1>4. Contents \in [1 .. Used -> Halves]
  BY <1>1, <1>3
<1> QED BY <1>1, <1>2, <1>4, RxAssumption

(* A message fits exactly if the abstract queue is not full.               *)
LEMMA FitsMeansNotFull ==
  ASSUME TypeOK
  PROVE  /\ Len(Contents) \in 0 .. Entries - 1
         /\ Fits(read_index, write_index) <=> Len(Contents) < Entries - 1
<1>1. Len(Contents) = Used /\ Used \in 0 .. Entries - 1
  BY ContentsFacts
<1>2. Fits(read_index, write_index) <=> Used < Entries - 1
  BY PosFacts DEF Used, TypeOK
<1> QED BY <1>1, <1>2

(* A store to the slot at the write index changes no payload that waits.   *)
LEMMA ContentsKept ==
  ASSUME TypeOK, TypeOK', read_index' = read_index, write_index' = write_index,
         \A s \in Slots : s # write_index => slot'[s] = slot[s]
  PROVE  Contents' = Contents
<1>1. Used' = Used
  BY DEF Used, Free
<1>2. \A n \in 1 .. Used : slot'[Pos(read_index, n)] = slot[Pos(read_index, n)]
  BY PosFacts DEF Used, TypeOK
<1>3. Contents = [n \in 1 .. Used |-> slot[Pos(read_index, n)]]
  BY ContentsFacts
<1>4. Contents' = [n \in 1 .. Used' |-> slot'[Pos(read_index', n)]]
  BY DEF Contents, Pos
<1> QED BY <1>1, <1>2, <1>3, <1>4

(* The store of the write index appends the slot at it.                    *)
LEMMA ContentsAppended ==
  ASSUME TypeOK, TypeOK', read_index' = read_index, slot' = slot,
         write_index' = After(write_index), After(write_index) # read_index
  PROVE  Contents' = Append(Contents, slot[write_index])
<1>1. Used' = Used + 1
  BY AdvanceFacts DEF Used, TypeOK
<1>2. Pos(read_index, Used + 1) = write_index
  BY PosFacts DEF Used, TypeOK
<1>3. /\ Contents = [n \in 1 .. Used |-> slot[Pos(read_index, n)]]
      /\ Contents \in Seq(Halves) /\ Len(Contents) = Used /\ Used \in Nat
  BY ContentsFacts, RxAssumption
<1>4. Contents' = [n \in 1 .. Used + 1 |-> slot[Pos(read_index, n)]]
  BY <1>1 DEF Contents, Pos
<1>5. Append(Contents, slot[write_index]) =
        [n \in 1 .. Used + 1 |-> IF n = Used + 1 THEN slot[write_index] ELSE Contents[n]]
  BY <1>3
<1>6. \A n \in 1 .. Used + 1 : n # Used + 1 => n \in 1 .. Used
  BY <1>3
<1> QED BY <1>2, <1>3, <1>4, <1>5, <1>6

(* The store of the read index takes the oldest payload.                   *)
LEMMA ContentsTail ==
  ASSUME TypeOK, TypeOK', write_index' = write_index, slot' = slot,
         read_index' = After(read_index), read_index # write_index
  PROVE  /\ Contents # <<>>
         /\ Head(Contents) = slot[read_index]
         /\ Contents' = Tail(Contents)
<1>1. /\ Used' = Used - 1
      /\ \A n \in 1 .. Used - 1 : Pos(After(read_index), n) = Pos(read_index, n + 1)
  BY AdvanceFacts DEF Used, TypeOK
<1>2. Pos(read_index, 1) = read_index /\ Used # 0
  BY PosFacts DEF Used, TypeOK
<1>3. /\ Contents = [n \in 1 .. Used |-> slot[Pos(read_index, n)]]
      /\ Contents \in Seq(Halves) /\ Len(Contents) = Used /\ Used \in Nat
  BY ContentsFacts, RxAssumption
<1>4. Contents # <<>>
  BY <1>2, <1>3
<1>5. Head(Contents) = slot[read_index]
  BY <1>2, <1>3, <1>4
<1>6. Contents' = [n \in 1 .. Used - 1 |-> slot[Pos(After(read_index), n)]]
  BY <1>1 DEF Contents, Pos
<1>7. Tail(Contents) = [n \in 1 .. Used - 1 |-> Contents[n + 1]]
  BY <1>3, <1>4
<1>8. \A n \in 1 .. Used - 1 : n + 1 \in 1 .. Used
  BY <1>3
<1> QED BY <1>1, <1>3, <1>4, <1>5, <1>6, <1>7, <1>8

(* Equal indexes mean an empty queue.                                      *)
LEMMA ContentsCleared ==
  ASSUME TypeOK, TypeOK', write_index' = read_index'
  PROVE  Contents' = <<>>
<1>1. Used' = 0
  BY PosFacts DEF Used, TypeOK
<1> QED BY <1>1 DEF Contents

(* Every step of writers, reader or reset is a step of the abstract queue, *)
(* or changes nothing there.                                               *)
LEMMA RxSimulation ==
  RxInv /\ RxInv' /\ [Next]_vars => [Fifo!Next]_(Fifo!vars)
<1> SUFFICES ASSUME RxInv, RxInv', [Next]_vars PROVE [Fifo!Next]_(Fifo!vars)
  OBVIOUS
<1>t. TypeOK /\ TypeOK'
  BY DEF RxInv
<1>u. ASSUME Contents' = Contents, out' = out, refused' = refused
      PROVE  [Fifo!Next]_(Fifo!vars)
  BY <1>u DEF Fifo!vars
<1>k. ASSUME slot' = slot, read_index' = read_index, write_index' = write_index
      PROVE  Contents' = Contents
  BY <1>k, <1>t, ContentsKept
<1>1. ASSUME NEW w \in Writers, WriterStep(w) PROVE [Fifo!Next]_(Fifo!vars)
  <2>1. ASSUME NEW m \in Payload, UpdateLock(w, m) PROVE [Fifo!Next]_(Fifo!vars)
    BY <2>1, <1>u, <1>k DEF UpdateLock, cvars
  <2>2. CASE UpdateCheck(w)
    <3>1. Contents' = Contents /\ out' = out
      BY <2>2, <1>k DEF UpdateCheck, cvars
    <3>2. CASE refused' = refused
      BY <3>1, <3>2, <1>u
    <3>3. CASE ~Fits(read_index, write_index) /\ refused' = TRUE
      <4>1. Len(Contents) = Entries - 1
        BY <3>3, <1>t, FitsMeansNotFull, RxAssumption
      <4> QED BY <3>1, <3>3, <4>1 DEF Fifo!Next, Fifo!Refuse
    <3> QED BY <2>2, <3>2, <3>3 DEF UpdateCheck
  <2>3. CASE UpdateFirst(w) \/ UpdateSecond(w)
    <3>1. idx[w] = write_index /\ idx[w] \in Slots
      BY <2>3 DEF UpdateFirst, UpdateSecond, Goto, RxInv, WriterInv, Writing, TypeOK
    <3>2. \A s \in Slots : s # write_index => slot'[s] = slot[s]
      BY <2>3, <3>1, <1>t DEF UpdateFirst, UpdateSecond, TypeOK
    <3>3. read_index' = read_index /\ write_index' = write_index
          /\ out' = out /\ refused' = refused
      BY <2>3 DEF UpdateFirst, UpdateSecond, cvars
    <3> QED BY <3>2, <3>3, <1>t, <1>u, ContentsKept
  <2>4. CASE UpdateIndex(w)
    <3>1. /\ idx[w] = write_index /\ After(write_index) # read_index
          /\ slot[write_index].a = msg[w] /\ slot[write_index].b = msg[w]
          /\ msg[w] \in Payload
      BY <2>4 DEF UpdateIndex, Goto, RxInv, WriterInv, Writing
    <3>2. slot[write_index] \in Halves
      BY <1>t DEF TypeOK
    <3>3. slot[write_index] \in Whole
      BY <3>1, <3>2 DEF Halves, Whole
    <3>4. Contents' = Append(Contents, slot[write_index])
      BY <2>4, <3>1, <1>t, ContentsAppended DEF UpdateIndex
    <3>5. Len(Contents) < Entries - 1
      BY <3>1, <1>t, FitsMeansRoom, FitsMeansNotFull DEF TypeOK
    <3>6. out' = out /\ refused' = refused
      BY <2>4 DEF UpdateIndex, cvars
    <3> QED BY <3>3, <3>4, <3>5, <3>6 DEF Fifo!Next, Fifo!Put
  <2>5. CASE UpdateUnlock(w)
    BY <2>5, <1>u, <1>k DEF UpdateUnlock, cvars
  <2> QED BY <1>1, <2>1, <2>2, <2>3, <2>4, <2>5 DEF WriterStep
<1>2. CASE ClientStep
  <2>1. CASE ReadAdvance
    <3>1. cidx = read_index /\ read_index # write_index /\ got = slot[read_index]
      BY <2>1 DEF ReadAdvance, RxInv, ReaderInv
    <3>2. Contents # <<>> /\ Head(Contents) = slot[read_index] /\ Contents' = Tail(Contents)
      BY <2>1, <3>1, <1>t, ContentsTail DEF ReadAdvance
    <3> QED BY <2>1, <3>1, <3>2 DEF ReadAdvance, wvars, Fifo!Next, Fifo!Get
  <2>2. CASE ResetIndex
    <3>1. Contents' = <<>>
      BY <2>2, <1>t, ContentsCleared DEF ResetIndex
    <3> QED BY <2>2, <3>1 DEF ResetIndex, wvars, Fifo!Next, Fifo!Clear
  <2>3. CASE ReadIndexes \/ ReadCopy \/ ResetLock \/ ResetUnlock
    BY <2>3, <1>u, <1>k DEF ReadIndexes, ReadCopy, ResetLock, ResetUnlock, wvars
  <2> QED BY <1>2, <2>1, <2>2, <2>3 DEF ClientStep
<1>3. CASE UNCHANGED vars
  BY <1>3, <1>u, <1>k DEF vars
<1> QED BY <1>1, <1>2, <1>3 DEF Next

(* The ring with its writers, its lockless reader and the reset is a       *)
(* bounded first-in first-out queue of whole payloads, for every length.   *)
THEOREM RxRefinesFifo == Spec => RefinesFifo
<1>1. Init => Fifo!Init
  <2> SUFFICES ASSUME Init PROVE Fifo!Init
    OBVIOUS
  <2>1. Used = 0
    BY RxAssumption DEF Init, Used, Free
  <2>2. Contents = <<>>
    BY <2>1 DEF Contents
  <2> QED BY <2>2 DEF Init, Fifo!Init
<1> QED BY <1>1, RxInvariance, RxSimulation, PTL DEF Spec, RefinesFifo, Fifo!Spec
=============================================================================
