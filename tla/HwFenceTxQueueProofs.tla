------------------------ MODULE HwFenceTxQueueProofs ------------------------
(***************************************************************************)
(* Proofs about the Tx queue, for any fences, any length of the ring, any  *)
(* size of a payload and any way of counting indexes.                      *)
(***************************************************************************)
EXTENDS HwFenceTxQueue, TLAPS

-----------------------------------------------------------------------------
(* Arithmetic.  Offsets are multiples of the size of a payload; the proofs *)
(* count payloads instead.                                                 *)

Slots == 0 .. Entries - 1
At(k) == k * PayloadSize
Slot(o) == o \div PayloadSize

\* The ring in payloads: AfterOffset, Ahead, and the n-th slot from k on.
After(k) == IF k + 1 >= Entries THEN 0 ELSE k + 1
Gap(j, k) == IF j <= k THEN k - j ELSE Entries - (j - k)
Pos(k, n) == IF k + n - 1 >= Entries THEN k + n - 1 - Entries ELSE k + n - 1

(* Multiples of the size of a payload. *)
LEMMA AtFacts ==
  /\ \A k \in Nat : At(k) \in Nat /\ At(k) + PayloadSize = At(k + 1)
  /\ \A j, k \in Nat : /\ j <= k => At(k) - At(j) = At(k - j)
                       /\ At(j) + At(k) = At(j + k)
                       /\ j < k => At(j) < At(k)
  /\ At(0) = 0 /\ Size = At(Entries)
<1> USE TxAssumption DEF At
<1>1. \A k \in Nat : At(k) \in Nat /\ At(k) + PayloadSize = At(k + 1)
  OBVIOUS
<1>2. \A j, k \in Nat : At(j) + At(k) = At(j + k)
  OBVIOUS
<1>3. \A j, k \in Nat : j <= k => At(k) - At(j) = At(k - j)
  OBVIOUS
<1>4. \A j, k \in Nat : j < k => At(j) < At(k)
  <2> SUFFICES ASSUME NEW j \in Nat, NEW k \in Nat, j < k PROVE At(j) < At(k)
    OBVIOUS
  <2>1. PICK d \in Nat \ {0} : k = j + d
    <3>1. k - j \in Nat \ {0} /\ k = j + (k - j)
      OBVIOUS
    <3> QED BY <3>1
  <2>2. d * PayloadSize > 0
    OBVIOUS
  <2> QED BY <2>1, <2>2, <1>2
<1>5. At(0) = 0 /\ Size = At(Entries)
  BY DEF Size
<1> QED BY <1>1, <1>2, <1>3, <1>4, <1>5

(* The same facts one by one. *)
LEMMA AtNat == \A k \in Nat : At(k) \in Nat
BY AtFacts

(* Multiples keep the order. *)
LEMMA AtLess == \A j, k \in Nat : j < k => At(j) < At(k)
BY AtFacts

(* The distance of two multiples. *)
LEMMA AtMinus == \A j, k \in Nat : j <= k => At(k) - At(j) = At(k - j)
BY AtFacts

(* Offsets and slots correspond. *)
LEMMA SlotFacts ==
  /\ \A k \in Nat : Slot(At(k)) = k
  /\ \A k \in Slots : At(k) \in Offsets
  /\ \A o \in Offsets : Slot(o) \in Slots /\ o = At(Slot(o)) /\ o \in Nat
  /\ 0 \in Offsets /\ Slot(0) = 0 /\ 0 \in Slots
<1>1. \A k \in Nat : Slot(At(k)) = k
  BY TxAssumption DEF Slot, At
<1>2. \A k \in Slots : At(k) \in Offsets
  BY DEF Slots, Offsets, At
<1>3. ASSUME NEW o \in Offsets PROVE Slot(o) \in Slots /\ o = At(Slot(o)) /\ o \in Nat
  <2>1. PICK k \in Slots : o = At(k)
    BY DEF Slots, Offsets, At
  <2>2. k \in Nat
    BY TxAssumption DEF Slots
  <2> QED BY <2>1, <2>2, <1>1, AtFacts
<1>4. 0 \in Slots /\ At(0) = 0 /\ 0 \in Nat
  BY TxAssumption DEF Slots, At
<1> QED BY <1>1, <1>2, <1>3, <1>4

(* The next offset, distances and room, in payloads. *)
LEMMA RingFacts ==
  ASSUME NEW o \in Offsets, NEW u \in Offsets
  PROVE  /\ AfterOffset(o) = At(After(Slot(o)))
         /\ Ahead(o, u) = At(Gap(Slot(o), Slot(u)))
         /\ Count(o, u) = Gap(Slot(o), Slot(u))
         /\ Fits(o, u) <=> Gap(Slot(o), Slot(u)) < Entries - 1
         /\ After(Slot(o)) \in Slots
         /\ Gap(Slot(o), Slot(u)) \in 0 .. Entries - 1
<1>1. /\ Slot(o) \in Slots /\ o = At(Slot(o)) /\ o \in Nat
      /\ Slot(u) \in Slots /\ u = At(Slot(u)) /\ u \in Nat
  BY SlotFacts
<1>2. PICK j \in Nat, k \in Nat : j = Slot(o) /\ k = Slot(u) /\ j < Entries /\ k < Entries
  BY <1>1, TxAssumption DEF Slots
<1>3. o = At(j) /\ u = At(k)
  BY <1>1, <1>2
<1>4. After(j) \in Slots /\ Gap(j, k) \in 0 .. Entries - 1
  BY <1>2, TxAssumption DEF After, Gap, Slots
<1>5. o + PayloadSize = At(j + 1) /\ Size = At(Entries)
  BY <1>3, AtFacts
<1>6. AfterOffset(o) = At(After(j))
  <2>1. CASE j + 1 >= Entries
    <3>1. j + 1 = Entries
      BY <1>2, <2>1, TxAssumption
    <3> QED BY <1>5, <3>1, AtFacts, TxAssumption DEF AfterOffset, After
  <2>2. CASE j + 1 < Entries
    <3>1. At(j + 1) < At(Entries) /\ At(j + 1) \in Nat /\ At(Entries) \in Nat
      BY <2>2, AtNat, AtLess, TxAssumption
    <3> QED BY <1>5, <2>2, <3>1, TxAssumption DEF AfterOffset, After
  <2> QED BY <2>1, <2>2, TxAssumption
<1>7. Ahead(o, u) = At(Gap(j, k))
  <2>1. CASE j <= k
    <3>1. At(j) <= At(k)
      <4>1. j = k \/ j < k
        BY <2>1
      <4>2. At(j) \in Nat /\ At(k) \in Nat
        BY AtNat
      <4> QED BY <4>1, <4>2, AtLess
    <3>2. At(k) - At(j) = At(k - j)
      BY <2>1, AtMinus
    <3> QED BY <1>3, <2>1, <3>1, <3>2 DEF Ahead, Gap
  <2>2. CASE k < j
    <3>1. /\ At(k) < At(j) /\ At(k) \in Nat /\ At(j) \in Nat
          /\ At(j) - At(k) = At(j - k) /\ j - k \in Nat /\ j - k <= Entries
      <4>1. k <= j /\ j - k \in Nat /\ j - k <= Entries
        BY <1>2, <2>2, TxAssumption
      <4> QED BY <2>2, <4>1, AtNat, AtLess, AtMinus
    <3>2. At(Entries) - At(j - k) = At(Entries - (j - k))
      BY <3>1, AtMinus, TxAssumption
    <3> QED BY <1>3, <1>5, <2>2, <3>1, <3>2 DEF Ahead, Gap
  <2> QED BY <2>1, <2>2
<1>8. Count(o, u) = Gap(j, k)
  BY <1>4, <1>7, SlotFacts DEF Count, Slot
<1>9. Fits(o, u) <=> Gap(j, k) < Entries - 1
  <2>1. PICK g \in Nat : g = Gap(j, k) /\ g < Entries
    BY <1>4, TxAssumption
  <2>2. Size - Ahead(o, u) = At(Entries - g) /\ Entries - g \in Nat
    <3>1. g <= Entries /\ Entries - g \in Nat
      BY <2>1, TxAssumption
    <3> QED BY <1>5, <1>7, <2>1, <3>1, AtMinus, TxAssumption
  <2>3. PayloadSize = At(1) /\ At(1) \in Nat /\ At(Entries - g) \in Nat
    BY <2>2, AtNat, TxAssumption DEF At
  <2>4. CASE g < Entries - 1
    <3>1. At(1) < At(Entries - g)
      BY <2>1, <2>2, <2>4, AtFacts, TxAssumption
    <3> QED BY <2>1, <2>2, <2>3, <2>4, <3>1 DEF Fits
  <2>5. CASE g = Entries - 1
    BY <2>1, <2>2, <2>3, <2>5, TxAssumption DEF Fits
  <2> QED BY <2>1, <2>4, <2>5, TxAssumption
<1> QED BY <1>2, <1>4, <1>6, <1>7, <1>8, <1>9

(* Distances compare as numbers of payloads do. *)
LEMMA AheadOrder ==
  ASSUME NEW o \in Offsets, NEW u \in Offsets, NEW v \in Offsets
  PROVE  /\ Ahead(o, u) < Ahead(o, v) <=> Gap(Slot(o), Slot(u)) < Gap(Slot(o), Slot(v))
         /\ Ahead(o, u) <= Ahead(o, v) <=> Gap(Slot(o), Slot(u)) <= Gap(Slot(o), Slot(v))
<1>1. PICK g \in Nat, h \in Nat :
        /\ g = Gap(Slot(o), Slot(u)) /\ Ahead(o, u) = At(g)
        /\ h = Gap(Slot(o), Slot(v)) /\ Ahead(o, v) = At(h)
  BY RingFacts, TxAssumption
<1>2. At(g) \in Nat /\ At(h) \in Nat /\ (g < h => At(g) < At(h)) /\ (h < g => At(h) < At(g))
  BY AtFacts
<1>3. g < h \/ h < g \/ g = h
  OBVIOUS
<1> QED BY <1>1, <1>2, <1>3

(* The slot of the n-th payload from an offset on. *)
LEMMA PosOffset ==
  ASSUME NEW o \in Offsets, NEW n \in 1 .. Entries
  PROVE  /\ (o + (n - 1) * PayloadSize) % Size = At(Pos(Slot(o), n))
         /\ Pos(Slot(o), n) \in Slots
<1>1. PICK k \in Nat : k = Slot(o) /\ k < Entries /\ o = At(k)
  BY SlotFacts, TxAssumption DEF Slots
<1>2. n - 1 \in Nat /\ n - 1 < Entries /\ k + (n - 1) \in Nat
  BY <1>1, TxAssumption
<1>3. o + (n - 1) * PayloadSize = At(k + (n - 1))
  BY <1>1, <1>2, AtFacts DEF At
<1>4. Size \in Nat \ {0} /\ Size = At(Entries)
  <2>1. At(0) < At(Entries) /\ At(0) = 0 /\ At(Entries) \in Nat
    BY AtFacts, TxAssumption
  <2> QED BY <2>1, AtFacts
<1>5. Pos(k, n) \in Slots
  BY <1>1, <1>2, TxAssumption DEF Pos, Slots
<1>6. CASE k + (n - 1) < Entries
  <2>1. At(k + (n - 1)) < Size /\ At(k + (n - 1)) \in Nat
    BY <1>2, <1>4, <1>6, AtFacts, TxAssumption
  <2>2. At(k + (n - 1)) % Size = At(k + (n - 1))
    BY <1>4, <2>1
  <2>3. Pos(k, n) = k + (n - 1)
    BY <1>1, <1>6, TxAssumption DEF Pos
  <2> QED BY <1>1, <1>3, <1>5, <2>2, <2>3
<1>7. CASE k + (n - 1) >= Entries
  <2>1. PICK d \in Nat : d = k + (n - 1) - Entries /\ d < Entries
    BY <1>1, <1>2, <1>7, TxAssumption
  <2>2. At(k + (n - 1)) = At(Entries) + At(d)
    BY <2>1, <1>2, AtFacts, TxAssumption
  <2>3. At(d) < Size /\ At(d) \in Nat
    BY <2>1, <1>4, AtFacts, TxAssumption
  <2>4. At(k + (n - 1)) % Size = At(d)
    BY <1>4, <2>2, <2>3
  <2>5. Pos(k, n) = d
    BY <1>1, <1>7, <2>1, TxAssumption DEF Pos
  <2> QED BY <1>1, <1>3, <1>5, <2>4, <2>5
<1> QED BY <1>2, <1>6, <1>7, TxAssumption

(* Indexes in shared memory and offsets correspond. *)
LEMMA IndexFacts ==
  ASSUME queue \in Queues
  PROVE  /\ \A o \in Offsets : ToCustom(o) \in Custom /\ ToDefault(ToCustom(o)) = o
         /\ \A c \in Custom : ToDefault(c) \in Offsets /\ ToCustom(ToDefault(c)) = c
<1>1. /\ queue.rd_wr_idx_start \in Nat
      /\ queue.rd_wr_idx_factor = 1 \/ queue.rd_wr_idx_factor = PayloadSize
  BY TxAssumption DEF Queues
<1>2. ASSUME NEW o \in Offsets PROVE ToDefault(ToCustom(o)) = o
  <2>1. o \in Nat /\ Slot(o) \in Nat /\ o = At(Slot(o))
    BY SlotFacts, TxAssumption DEF Slots
  <2>2. CASE queue.rd_wr_idx_factor = 1
    <3>1. o \div 1 = o
      BY <2>1
    <3> QED BY <1>1, <2>1, <2>2, <3>1 DEF ToDefault, ToCustom
  <2>3. CASE queue.rd_wr_idx_factor = PayloadSize
    <3>1. ToCustom(o) - queue.rd_wr_idx_start = Slot(o)
      BY <1>1, <2>1, <2>3 DEF ToCustom, Slot
    <3> QED BY <2>1, <2>3, <3>1 DEF ToDefault, At
  <2> QED BY <1>1, <2>2, <2>3
<1> QED BY <1>2 DEF Custom
-----------------------------------------------------------------------------
(* The inductive invariant. *)

\* The slots of the indexes.
RSlot == Slot(ToDefault(read_index))
WSlot == Slot(ToDefault(write_index))
TSlot == Slot(ToDefault(WrPtr))

\* widx is an offset, except that the reset keeps the index itself there.
TxType ==
  /\ TypeOK
  /\ pc \in {"idle", "full", "hash", "error", "index", "find", "copy", "mark", "restore"}
       => widx \in Offsets
  /\ pc \in {"reset_wm", "reset_read"} => widx \in Custom

\* The controller is at the oldest payload, which is published and stays.
CtlInv ==
  fpc # "idle" => /\ ~Editing /\ RSlot # WSlot /\ fidx = At(RSlot)
                  /\ fpc = "advance" => got = slot[fidx]

\* An append works on the free slot behind the payloads that wait.
AppendInv ==
  /\ pc \in {"hash", "error", "index"} =>
       widx = At(TSlot) /\ After(TSlot) # RSlot /\ msg.hash \in Handle
  /\ pc \in {"error", "index"} => slot[widx].hash = msg.hash
  /\ pc = "index" => slot[widx].error = msg.error

\* An edit knows the indexes; it moves a payload only if there are two.
EditInv ==
  /\ pc \in {"find", "copy", "mark", "restore"} =>
       ridx = At(RSlot) /\ widx = At(TSlot) /\ msg.error = TRUE
  /\ pc \in {"copy", "mark", "restore"} => RSlot # TSlot /\ After(RSlot) # TSlot
  /\ pc = "copy" => tmp = slot[ridx]
  /\ pc = "mark" => slot[ridx] = slot[Second]

ResetInv ==
  /\ pc \in {"reset_wm", "reset_read"} => widx = write_index
  /\ pc = "reset_read" => TSlot = WSlot

TxInv ==
  /\ TxType /\ Gap(RSlot, WSlot) <= Gap(RSlot, TSlot)
  /\ CtlInv /\ AppendInv /\ EditInv /\ ResetInv
-----------------------------------------------------------------------------
(* Types.  They hold even if the queue is disturbed. *)

(* Where the indexes point. *)
LEMMA IndexSlots ==
  ASSUME TypeOK
  PROVE  /\ queue \in Queues /\ WrPtr \in Custom
         /\ read_index \in Custom /\ write_index \in Custom
         /\ ToDefault(read_index) \in Offsets /\ ToDefault(write_index) \in Offsets
         /\ ToDefault(WrPtr) \in Offsets
         /\ RSlot \in Slots /\ WSlot \in Slots /\ TSlot \in Slots
         /\ ToDefault(read_index) = At(RSlot) /\ ToDefault(write_index) = At(WSlot)
         /\ ToDefault(WrPtr) = At(TSlot)
<1>1. queue \in Queues /\ WrPtr \in Custom /\ read_index \in Custom /\ write_index \in Custom
  BY DEF TypeOK, WrPtr
<1>2. /\ ToDefault(read_index) \in Offsets /\ ToDefault(write_index) \in Offsets
      /\ ToDefault(WrPtr) \in Offsets
  BY <1>1, IndexFacts
<1> QED BY <1>1, <1>2, SlotFacts DEF RSlot, WSlot, TSlot

(* The ways a step uses indexes, in types. *)
LEMMA IndexTypes ==
  ASSUME TypeOK
  PROVE  /\ ToDefault(read_index) \in Offsets /\ ToDefault(WrPtr) \in Offsets
         /\ \A o \in Offsets : AfterOffset(o) \in Offsets /\ ToCustom(o) \in Custom
         /\ write_index \in Custom /\ 0 \in Offsets
<1>1. ASSUME NEW o \in Offsets PROVE AfterOffset(o) \in Offsets
  BY RingFacts, SlotFacts
<1> QED BY <1>1, IndexSlots, IndexFacts, SlotFacts

(* A payload with another fence or another error is a payload. *)
LEMMA PayloadStores ==
  ASSUME NEW s \in [Offsets -> Payload], NEW o \in Offsets, NEW p \in Payload
  PROVE  /\ [s EXCEPT ![o] = p] \in [Offsets -> Payload]
         /\ [s EXCEPT ![o].hash = p.hash] \in [Offsets -> Payload]
         /\ [s EXCEPT ![o].error = p.error] \in [Offsets -> Payload]
BY DEF Payload

(* Handed-over payloads are payloads. *)
LEMMA HandedOver ==
  /\ NoPayload \in Payload
  /\ [hash : Handle, error : AppendErrors] \subseteq Payload
  /\ \A h \in Handle : [hash |-> h, error |-> TRUE] \in Payload
BY TxAssumption DEF NoPayload, Payload

(* The driver and the controller keep the types. *)
LEMMA TxTypeStep == TxType /\ [Next]_vars => TxType'
<1> SUFFICES ASSUME TxType, [Next]_vars PROVE TxType'
  OBVIOUS
<1>q. TypeOK /\ (queue' = queue => Custom' = Custom)
  BY DEF TxType, Custom, ToCustom
<1>i. /\ ToDefault(read_index) \in Offsets /\ ToDefault(WrPtr) \in Offsets
      /\ \A o \in Offsets : AfterOffset(o) \in Offsets /\ ToCustom(o) \in Custom
      /\ write_index \in Custom /\ 0 \in Offsets
  BY <1>q, IndexTypes
<1>h. /\ NoPayload \in Payload
      /\ [hash : Handle, error : AppendErrors] \subseteq Payload
      /\ \A h \in Handle : [hash |-> h, error |-> TRUE] \in Payload
  BY HandedOver
<1>s. /\ \A o \in Offsets, p \in Payload :
           /\ [slot EXCEPT ![o] = p] \in [Offsets -> Payload]
           /\ [slot EXCEPT ![o].hash = p.hash] \in [Offsets -> Payload]
           /\ [slot EXCEPT ![o].error = p.error] \in [Offsets -> Payload]
      /\ \A o \in Offsets : slot[o] \in Payload
      /\ Second \in Offsets
  BY <1>q, <1>i, PayloadStores DEF TypeOK, Second
<1> USE DEF header, dvars, fvars
<1>1. ASSUME NEW p \in [hash : Handle, error : AppendErrors], UpdateTxq(p) PROVE TxType'
  BY <1>1, <1>q, <1>i, <1>h DEF UpdateTxq, Goto, TxType, TypeOK
<1>2. CASE QueueFull
  BY <1>2, <1>q, <1>i, <1>h DEF QueueFull, Return, Goto, TxType, TypeOK
<1>3. CASE WriteHash
  BY <1>3, <1>q, <1>s DEF WriteHash, Goto, TxType, TypeOK
<1>4. CASE WriteError
  BY <1>4, <1>q, <1>s DEF WriteError, Goto, TxType, TypeOK
<1>5. CASE WriteIndex
  <2>1. ToCustom(AfterOffset(widx)) \in Custom /\ queue' = queue
    BY <1>5, <1>i DEF WriteIndex, Return, Goto, TxType
  <2>2. /\ write_index' \in Custom
        /\ tx_wm' \in IF queue.skip_wr_idx THEN Custom ELSE {0}
    BY <2>1, <1>5, <1>q DEF WriteIndex, StoreWrPtr, TypeOK
  <2> QED BY <1>5, <2>1, <2>2, <1>q, <1>i, <1>h DEF WriteIndex, Return, Goto, TxType, TypeOK
<1>6. ASSUME NEW h \in Handle, ReadBoth(h) PROVE TxType'
  BY <1>6, <1>q, <1>i, <1>h DEF ReadBoth, Goto, TxType, TypeOK
<1>7. CASE FindFirst
  BY <1>7, <1>q, <1>i, <1>h, <1>s DEF FindFirst, Return, Goto, TxType, TypeOK
<1>8. CASE FindSecond
  BY <1>8, <1>q, <1>s DEF FindSecond, Goto, TxType, TypeOK
<1>9. CASE FindNothing
  BY <1>9, <1>q, <1>i, <1>h DEF FindNothing, Return, Goto, TxType, TypeOK
<1>10. CASE CopySecond
  BY <1>10, <1>q, <1>s DEF CopySecond, Goto, TxType, TypeOK
<1>11. CASE MarkFirst
  BY <1>11, <1>q, <1>s DEF MarkFirst, Goto, TxType, TypeOK
<1>12. CASE RestoreSecond
  BY <1>12, <1>q, <1>i, <1>h, <1>s DEF RestoreSecond, Return, Goto, TxType, TypeOK
<1>13. CASE ResetRead
  BY <1>13, <1>q, <1>i DEF ResetRead, Goto, TxType, TypeOK
<1>14. CASE ResetWm
  BY <1>14, <1>q DEF ResetWm, Goto, TxType, TypeOK
<1>15. CASE ResetReadIndex
  BY <1>15, <1>q, <1>i, <1>h DEF ResetReadIndex, Return, Goto, TxType, TypeOK
<1>16. CASE Publish
  <2>1. write_index' \in Custom /\ queue' = queue
    BY <1>16, <1>i DEF Publish
  <2> QED BY <1>16, <2>1, <1>q DEF Publish, TxType, TypeOK
<1>17. CASE CtlIndexes
  BY <1>17, <1>q, <1>i DEF CtlIndexes, TxType, TypeOK
<1>18. CASE CtlCopy
  BY <1>18, <1>q, <1>s DEF CtlCopy, TxType, TypeOK
<1>19. CASE CtlAdvance
  <2>1. read_index' \in Custom /\ queue' = queue
    BY <1>19, <1>q, <1>i DEF CtlAdvance, TypeOK
  <2> QED BY <1>19, <2>1, <1>q, <1>i, <1>h DEF CtlAdvance, TxType, TypeOK
<1>20. CASE UNCHANGED vars
  BY <1>20, <1>q DEF vars, TxType, TypeOK
<1> QED
  BY <1>1, <1>2, <1>3, <1>4, <1>5, <1>6, <1>7, <1>8, <1>9, <1>10, <1>11, <1>12, <1>13,
     <1>14, <1>15, <1>16, <1>17, <1>18, <1>19, <1>20
     DEF Next, DriverStep, ControllerStep

(* The queue starts in its type. *)
LEMMA TxTypeInit == Init => TxType
<1> SUFFICES ASSUME Init PROVE TxType
  OBVIOUS
<1>1. queue \in Queues /\ ToCustom(0) = queue.rd_wr_idx_start
  <2>1. queue \in Queues /\ queue.rd_wr_idx_start \in Nat
    BY TxAssumption DEF Init, Queues
  <2>2. 0 \div queue.rd_wr_idx_factor = 0
    BY <2>1, TxAssumption DEF Queues
  <2> QED BY <2>1, <2>2 DEF ToCustom
<1>2. queue.rd_wr_idx_start \in Custom /\ 0 \in Offsets
  BY <1>1, SlotFacts, IndexFacts
<1> QED BY <1>1, <1>2, HandedOver DEF Init, TxType, TypeOK

(* The indexes of the queue are offsets of payloads in every state, even   *)
(* if the controller or the hardware disturb an edit or a reset.           *)
THEOREM TxTypeCorrect == Spec => []TypeOK
<1>1. TxType => TypeOK
  BY DEF TxType
<1> QED BY <1>1, TxTypeInit, TxTypeStep, PTL DEF Spec
-----------------------------------------------------------------------------
(* The invariant, while nobody disturbs an edit or a reset. *)

(* Arithmetic of the ring, in payloads. *)
LEMMA GapFacts ==
  ASSUME NEW r \in Slots, NEW t \in Slots
  PROVE  /\ Gap(r, t) \in 0 .. Entries - 1
         /\ Gap(r, t) = 0 <=> r = t
         /\ Gap(r, t) < Entries - 1 <=> After(t) # r
         /\ After(t) # r => Gap(r, After(t)) = Gap(r, t) + 1
         /\ r # t => Gap(After(r), t) = Gap(r, t) - 1
         /\ After(r) = After(t) => r = t
         /\ After(r) \in Slots
BY TxAssumption DEF Gap, After, Slots

(* Where the indexes point after a step. *)
LEMMA SlotsAfter ==
  ASSUME queue' = queue
  PROVE  /\ RSlot' = Slot(ToDefault(read_index')) /\ WSlot' = Slot(ToDefault(write_index'))
         /\ TSlot' = Slot(ToDefault(IF queue.skip_wr_idx THEN tx_wm' ELSE write_index'))
BY DEF RSlot, WSlot, TSlot, ToDefault, WrPtr

(* A step that stores no index. *)
LEMMA SlotsKept ==
  ASSUME queue' = queue, UNCHANGED header
  PROVE  RSlot' = RSlot /\ WSlot' = WSlot /\ TSlot' = TSlot
BY DEF RSlot, WSlot, TSlot, ToDefault, WrPtr, header

(* The driver stores its working index. *)
LEMMA WriteIndexSlots ==
  ASSUME TxInv, WriteIndex
  PROVE  /\ RSlot' = RSlot /\ TSlot' = After(TSlot)
         /\ WSlot' = IF queue.skip_wr_idx THEN WSlot ELSE After(TSlot)
<1>1. /\ queue' = queue /\ read_index' = read_index /\ StoreWrPtr(ToCustom(AfterOffset(widx)))
      /\ widx = At(TSlot) /\ queue \in Queues /\ TSlot \in Slots
  BY IndexSlots DEF WriteIndex, Return, Goto, TxInv, TxType, TypeOK, AppendInv
<1>2. /\ AfterOffset(widx) = At(After(TSlot)) /\ AfterOffset(widx) \in Offsets
      /\ Slot(AfterOffset(widx)) = After(TSlot)
  <2>1. widx \in Offsets /\ Slot(widx) = TSlot
    BY <1>1, SlotFacts, TxAssumption DEF Slots
  <2>2. AfterOffset(widx) = At(After(TSlot)) /\ After(TSlot) \in Slots
    BY <2>1, RingFacts
  <2>3. After(TSlot) \in Nat
    BY <2>2, TxAssumption DEF Slots
  <2> QED BY <2>2, <2>3, SlotFacts
<1>3. ToDefault(ToCustom(AfterOffset(widx))) = AfterOffset(widx)
  BY <1>1, <1>2, IndexFacts
<1>4. RSlot' = RSlot
  BY <1>1, SlotsAfter DEF RSlot
<1>5. CASE queue.skip_wr_idx
  BY <1>1, <1>2, <1>3, <1>4, <1>5, SlotsAfter DEF StoreWrPtr, WSlot
<1>6. CASE ~queue.skip_wr_idx
  BY <1>1, <1>2, <1>3, <1>4, <1>6, SlotsAfter DEF StoreWrPtr
<1> QED BY <1>5, <1>6

(* The controller stores the read index. *)
LEMMA CtlAdvanceSlots ==
  ASSUME TxInv, CtlAdvance
  PROVE  RSlot' = After(RSlot) /\ TSlot' = TSlot /\ WSlot' = WSlot
<1>1. /\ queue' = queue /\ write_index' = write_index /\ tx_wm' = tx_wm
      /\ read_index' = ToCustom(AfterOffset(fidx))
      /\ fidx = At(RSlot) /\ queue \in Queues /\ RSlot \in Slots
  BY IndexSlots DEF CtlAdvance, TxInv, TxType, TypeOK, CtlInv
<1>2. AfterOffset(fidx) \in Offsets /\ Slot(AfterOffset(fidx)) = After(RSlot)
  <2>1. fidx \in Offsets /\ Slot(fidx) = RSlot
    BY <1>1, SlotFacts, TxAssumption DEF Slots
  <2>2. AfterOffset(fidx) = At(After(RSlot)) /\ After(RSlot) \in Slots
    BY <2>1, RingFacts
  <2>3. After(RSlot) \in Nat
    BY <2>2, TxAssumption DEF Slots
  <2> QED BY <2>2, <2>3, SlotFacts
<1>3. ToDefault(ToCustom(AfterOffset(fidx))) = AfterOffset(fidx)
  BY <1>1, <1>2, IndexFacts
<1> QED BY <1>1, <1>2, <1>3, SlotsAfter DEF WSlot, TSlot, WrPtr

(* The hardware of the client publishes. *)
LEMMA PublishSlots ==
  ASSUME TxInv, Publish
  PROVE  /\ RSlot' = RSlot /\ TSlot' = TSlot /\ WSlot' \in Slots
         /\ Gap(RSlot, WSlot) < Gap(RSlot, WSlot') /\ Gap(RSlot, WSlot') <= Gap(RSlot, TSlot)
<1>1. PICK o \in Offsets :
        /\ Ahead(ToDefault(read_index), ToDefault(write_index)) < Ahead(ToDefault(read_index), o)
        /\ Ahead(ToDefault(read_index), o) <= Ahead(ToDefault(read_index), ToDefault(tx_wm))
        /\ write_index' = ToCustom(o)
  BY DEF Publish
<1>2. /\ queue' = queue /\ read_index' = read_index /\ tx_wm' = tx_wm /\ queue.skip_wr_idx
      /\ WrPtr = tx_wm
  BY DEF Publish, WrPtr
<1>3. /\ queue \in Queues /\ ToDefault(read_index) \in Offsets
      /\ ToDefault(write_index) \in Offsets /\ ToDefault(tx_wm) \in Offsets
  BY <1>2, IndexSlots DEF TxInv, TxType
<1>4. WSlot' = Slot(o) /\ Slot(o) \in Slots
  BY <1>1, <1>2, <1>3, SlotsAfter, IndexFacts, SlotFacts
<1>5. RSlot' = RSlot /\ TSlot' = TSlot
  BY <1>2, SlotsAfter DEF RSlot, TSlot
<1>6. Gap(RSlot, WSlot) < Gap(RSlot, Slot(o))
  BY <1>1, <1>3, AheadOrder DEF RSlot, WSlot
<1>7. Gap(RSlot, Slot(o)) <= Gap(RSlot, TSlot)
  BY <1>1, <1>2, <1>3, AheadOrder DEF RSlot, TSlot
<1> QED BY <1>4, <1>5, <1>6, <1>7

(* The reset: first the working index, then the read index. *)
LEMMA ResetSlots ==
  ASSUME TxInv
  PROVE  /\ ResetWm => RSlot' = RSlot /\ WSlot' = WSlot /\ TSlot' = WSlot
         /\ ResetReadIndex => RSlot' = WSlot /\ WSlot' = WSlot /\ TSlot' = WSlot
<1>1. ASSUME ResetWm PROVE RSlot' = RSlot /\ WSlot' = WSlot /\ TSlot' = WSlot
  <2>1. /\ queue' = queue /\ read_index' = read_index /\ write_index' = write_index
        /\ widx = write_index /\ tx_wm' = IF queue.skip_wr_idx THEN widx ELSE tx_wm
    BY <1>1 DEF ResetWm, Goto, TxInv, ResetInv
  <2> QED BY <2>1, SlotsAfter DEF RSlot, WSlot
<1>2. ASSUME ResetReadIndex PROVE RSlot' = WSlot /\ WSlot' = WSlot /\ TSlot' = WSlot
  <2>1. /\ queue' = queue /\ read_index' = widx /\ UNCHANGED <<write_index, tx_wm>>
        /\ widx = write_index /\ TSlot = WSlot
    BY <1>2 DEF ResetReadIndex, Return, Goto, TxInv, ResetInv
  <2> QED BY <2>1, SlotsAfter DEF WSlot, TSlot, WrPtr
<1> QED BY <1>1, <1>2

(* Slots have different offsets. *)
LEMMA AtInjective ==
  ASSUME NEW j \in Slots, NEW k \in Slots, At(j) = At(k)
  PROVE  j = k
<1>1. j \in Nat /\ k \in Nat
  BY TxAssumption DEF Slots
<1> QED BY <1>1, SlotFacts

(* The second payload of an edit. *)
LEMMA SecondSlot ==
  ASSUME TypeOK, ridx = At(RSlot)
  PROVE  Second = At(After(RSlot)) /\ Second \in Offsets /\ After(RSlot) \in Slots
<1>1. RSlot \in Slots /\ ridx \in Offsets
  BY IndexSlots DEF TypeOK
<1>2. Slot(ridx) = RSlot
  BY <1>1, SlotFacts, AtInjective
<1>3. Second = At(After(RSlot)) /\ After(RSlot) \in Slots
  BY <1>1, <1>2, RingFacts DEF Second
<1> QED BY <1>3, SlotFacts

(* The same without an edit. *)
LEMMA EditEnds == pc' \notin {"find", "copy", "mark", "restore"} => EditInv'
BY DEF EditInv

(* The steps of an append keep the controller's payload. *)
LEMMA AppendStep ==
  ASSUME TxInv, TxType', WriteHash \/ WriteError
  PROVE  TxInv'
<1>1. /\ queue' = queue /\ UNCHANGED header /\ UNCHANGED <<fvars, msg, widx>>
      /\ pc \in {"hash", "error"} /\ pc' \in {"error", "index"}
      /\ widx = At(TSlot) /\ After(TSlot) # RSlot /\ msg.hash \in Handle
  BY DEF WriteHash, WriteError, Goto, TxInv, AppendInv
<1>2. RSlot' = RSlot /\ WSlot' = WSlot /\ TSlot' = TSlot
  BY <1>1, SlotsKept
<1>3. /\ RSlot \in Slots /\ WSlot \in Slots /\ TSlot \in Slots
      /\ Gap(RSlot, WSlot) <= Gap(RSlot, TSlot)
  BY IndexSlots DEF TxInv, TxType
<1>4. widx \in Offsets /\ slot \in [Offsets -> Payload]
  BY <1>1, <1>3, SlotFacts DEF TxInv, TxType, TypeOK
<1>5. \A o \in Offsets : o # widx => slot'[o] = slot[o]
  BY <1>4 DEF WriteHash, WriteError
<1>6. CtlInv'
  <2>1. SUFFICES ASSUME fpc # "idle" PROVE CtlInv'
    BY <1>1 DEF CtlInv, fvars
  <2>2. /\ RSlot # WSlot /\ fidx = At(RSlot) /\ fidx \in Offsets
        /\ fpc = "advance" => got = slot[fidx]
    BY <2>1 DEF TxInv, CtlInv, TxType, TypeOK
  <2>3. RSlot # TSlot
    BY <2>2, <1>3, GapFacts, TxAssumption
  <2>4. fidx # widx
    BY <1>1, <1>3, <2>2, <2>3, AtInjective
  <2> QED BY <1>1, <1>2, <1>5, <2>2, <2>4 DEF CtlInv, Editing, fvars
<1>7. AppendInv'
  <2>1. CASE WriteHash
    <3>1. slot'[widx].hash = msg.hash /\ pc' = "error"
      BY <2>1, <1>4 DEF WriteHash, Goto, Payload
    <3> QED BY <3>1, <1>1, <1>2 DEF AppendInv
  <2>2. CASE WriteError
    <3>1. slot[widx].hash = msg.hash /\ slot[widx] \in Payload
      BY <2>2, <1>4 DEF WriteError, Goto, TxInv, AppendInv
    <3>2. slot'[widx].error = msg.error /\ slot'[widx].hash = slot[widx].hash
      BY <2>2, <3>1, <1>4 DEF WriteError, Payload
    <3> QED BY <3>1, <3>2, <1>1, <1>2 DEF AppendInv
  <2> QED BY <2>1, <2>2
<1>8. EditInv' /\ ResetInv'
  BY <1>1 DEF EditInv, ResetInv
<1> QED BY <1>2, <1>3, <1>6, <1>7, <1>8 DEF TxInv

(* The store of the working index adds a payload behind the others. *)
LEMMA WriteIndexStep ==
  ASSUME TxInv, TxType', WriteIndex
  PROVE  TxInv'
<1>1. /\ pc' = "idle" /\ UNCHANGED <<slot, fvars>> /\ After(TSlot) # RSlot
  BY DEF WriteIndex, Return, Goto, TxInv, AppendInv
<1>2. /\ RSlot' = RSlot /\ TSlot' = After(TSlot)
      /\ WSlot' = IF queue.skip_wr_idx THEN WSlot ELSE After(TSlot)
  BY WriteIndexSlots
<1>3. /\ RSlot \in Slots /\ WSlot \in Slots /\ TSlot \in Slots
      /\ Gap(RSlot, WSlot) <= Gap(RSlot, TSlot)
  BY IndexSlots DEF TxInv, TxType
<1>4. /\ Gap(RSlot, After(TSlot)) = Gap(RSlot, TSlot) + 1
      /\ Gap(RSlot, TSlot) \in Nat /\ Gap(RSlot, WSlot) \in Nat
  BY <1>1, <1>3, GapFacts, TxAssumption
<1>5. Gap(RSlot', WSlot') <= Gap(RSlot', TSlot')
  BY <1>2, <1>3, <1>4
<1>6. CtlInv'
  BY <1>1, <1>2 DEF TxInv, CtlInv, Editing, fvars
<1>7. AppendInv' /\ EditInv' /\ ResetInv'
  BY <1>1 DEF AppendInv, EditInv, ResetInv
<1> QED BY <1>5, <1>6, <1>7 DEF TxInv

(* A store to slots by an edit: the controller is away. *)
LEMMA EditStep ==
  ASSUME TxInv, TxType', FindFirst \/ FindSecond \/ CopySecond \/ MarkFirst \/ RestoreSecond
  PROVE  TxInv'
<1>1. /\ queue' = queue /\ UNCHANGED header /\ UNCHANGED fvars
      /\ pc \in {"find", "copy", "mark", "restore"}
      /\ pc' = "idle" \/ (pc' \in {"copy", "mark", "restore"} /\ UNCHANGED <<msg, ridx, widx>>)
      /\ ridx = At(RSlot) /\ widx = At(TSlot) /\ msg.error = TRUE
  BY DEF FindFirst, FindSecond, CopySecond, MarkFirst, RestoreSecond, Return, Goto,
         TxInv, EditInv
<1>2. RSlot' = RSlot /\ WSlot' = WSlot /\ TSlot' = TSlot
  BY <1>1, SlotsKept
<1>3. CtlInv'
  BY <1>1 DEF TxInv, CtlInv, Editing, fvars
<1>4. AppendInv' /\ ResetInv'
  BY <1>1 DEF AppendInv, ResetInv
<1>5. /\ Second = At(After(RSlot)) /\ Second \in Offsets /\ After(RSlot) \in Slots
      /\ RSlot \in Slots /\ TSlot \in Slots
      /\ ridx \in Offsets /\ slot \in [Offsets -> Payload]
  BY <1>1, SecondSlot, IndexSlots DEF TxInv, TxType, TypeOK
<1>6. EditInv'
  <2>1. CASE FindSecond
    <3>1. RSlot # TSlot /\ After(RSlot) # TSlot
      BY <2>1, <1>1, <1>5 DEF FindSecond, SecondMatches
    <3>2. /\ tmp' = slot[ridx] /\ slot' = slot /\ pc' = "copy"
          /\ msg' = msg /\ ridx' = ridx /\ widx' = widx
      BY <2>1 DEF FindSecond, Goto
    <3> QED BY <3>1, <3>2, <1>1, <1>2 DEF EditInv
  <2>2. CASE CopySecond
    <3>1. /\ RSlot # TSlot /\ After(RSlot) # TSlot
          /\ pc' = "mark" /\ msg' = msg /\ ridx' = ridx /\ widx' = widx
          /\ slot' = [slot EXCEPT ![ridx] = slot[Second]]
      BY <2>2 DEF CopySecond, Goto, TxInv, EditInv
    <3>2. Second' = Second /\ slot'[ridx] = slot'[Second]
      BY <3>1, <1>5 DEF Second
    <3> QED BY <3>1, <3>2, <1>1, <1>2 DEF EditInv
  <2>3. CASE MarkFirst
    <3>1. /\ RSlot # TSlot /\ After(RSlot) # TSlot
          /\ pc' = "restore" /\ msg' = msg /\ ridx' = ridx /\ widx' = widx
      BY <2>3 DEF MarkFirst, Goto, TxInv, EditInv
    <3> QED BY <3>1, <1>1, <1>2 DEF EditInv
  <2>4. CASE FindFirst \/ RestoreSecond
    BY <2>4 DEF FindFirst, RestoreSecond, Return, Goto, EditInv
  <2> QED BY <2>1, <2>2, <2>3, <2>4
<1> QED BY <1>2, <1>3, <1>4, <1>6 DEF TxInv

(* Calls begin and end. *)
LEMMA CallStep ==
  ASSUME TxInv, TxType', Quiet,
         \/ \E p \in [hash : Handle, error : AppendErrors] : UpdateTxq(p)
         \/ \E h \in Handle : ReadBoth(h)
         \/ QueueFull \/ FindNothing \/ ResetRead
  PROVE  TxInv'
<1>1. queue' = queue /\ UNCHANGED header /\ UNCHANGED <<slot, fvars>>
  BY DEF UpdateTxq, ReadBoth, QueueFull, FindNothing, ResetRead
<1>2. RSlot' = RSlot /\ WSlot' = WSlot /\ TSlot' = TSlot
  BY <1>1, SlotsKept
<1>3. /\ RSlot \in Slots /\ TSlot \in Slots /\ ToDefault(read_index) = At(RSlot)
      /\ ToDefault(WrPtr) = At(TSlot) /\ ToDefault(WrPtr) \in Offsets
      /\ ToDefault(read_index) \in Offsets
  BY IndexSlots DEF TxInv, TxType
<1>4. CtlInv'
  <2>1. fpc # "idle" => pc' \in {"idle", "full", "hash"}
    BY DEF UpdateTxq, ReadBoth, QueueFull, FindNothing, ResetRead, Return, Goto, MayEdit
  <2> QED BY <2>1, <1>1, <1>2 DEF TxInv, CtlInv, Editing, fvars
<1>5. AppendInv'
  <2>1. CASE pc' = "hash"
    <3>1. PICK p \in [hash : Handle, error : AppendErrors] : UpdateTxq(p)
      BY <2>1 DEF ReadBoth, QueueFull, FindNothing, ResetRead, Return, Goto
    <3>2. /\ Fits(ToDefault(read_index), ToDefault(WrPtr))
          /\ widx' = ToDefault(WrPtr) /\ msg' = p
      BY <2>1, <3>1 DEF UpdateTxq, Goto
    <3>3. Gap(RSlot, TSlot) < Entries - 1
      BY <3>2, <1>3, RingFacts DEF RSlot, TSlot
    <3>4. After(TSlot) # RSlot
      BY <3>3, <1>3, GapFacts
    <3> QED BY <2>1, <3>2, <3>4, <1>2, <1>3 DEF AppendInv
  <2>2. CASE pc' # "hash"
    <3>1. pc' \notin {"hash", "error", "index"}
      BY <2>2 DEF UpdateTxq, ReadBoth, QueueFull, FindNothing, ResetRead, Return, Goto
    <3> QED BY <3>1 DEF AppendInv
  <2> QED BY <2>1, <2>2
<1>6. EditInv'
  <2>1. CASE pc' = "find"
    <3>1. PICK h \in Handle : ReadBoth(h)
      BY <2>1 DEF UpdateTxq, QueueFull, FindNothing, ResetRead, Return, Goto
    <3>2. /\ ridx' = ToDefault(read_index) /\ widx' = ToDefault(WrPtr)
          /\ msg' = [hash |-> h, error |-> TRUE]
      BY <3>1 DEF ReadBoth
    <3> QED BY <2>1, <3>2, <1>2, <1>3 DEF EditInv
  <2>2. CASE pc' # "find"
    <3>1. pc' \notin {"find", "copy", "mark", "restore"}
      BY <2>2 DEF UpdateTxq, ReadBoth, QueueFull, FindNothing, ResetRead, Return, Goto
    <3> QED BY <3>1, EditEnds
  <2> QED BY <2>1, <2>2
<1>7. ResetInv'
  BY <1>1 DEF UpdateTxq, ReadBoth, QueueFull, FindNothing, ResetRead, Return, Goto,
              ResetInv, header
<1> QED BY <1>2, <1>4, <1>5, <1>6, <1>7 DEF TxInv

(* The reset drops every payload. *)
LEMMA ResetStep ==
  ASSUME TxInv, TxType', ResetWm \/ ResetReadIndex
  PROVE  TxInv'
<1>1. /\ UNCHANGED fvars /\ WSlot' = WSlot /\ TSlot' = WSlot /\ RSlot' \in {RSlot, WSlot}
      /\ pc \in {"reset_wm", "reset_read"}
      /\ pc' = "idle" \/ (pc' = "reset_read" /\ widx' = widx /\ write_index' = write_index)
  BY ResetSlots DEF ResetWm, ResetReadIndex, Return, Goto
<1>2. Gap(RSlot', WSlot') <= Gap(RSlot', TSlot')
  <2>1. RSlot' \in Slots /\ WSlot' \in Slots
    BY <1>1, IndexSlots DEF TxInv, TxType
  <2>2. Gap(RSlot', WSlot') \in Nat
    BY <2>1, GapFacts, TxAssumption
  <2> QED BY <2>2, <1>1
<1>3. CtlInv'
  BY <1>1 DEF TxInv, CtlInv, Editing, fvars
<1>4. AppendInv' /\ EditInv' /\ ResetInv'
  BY <1>1 DEF TxInv, AppendInv, EditInv, ResetInv
<1> QED BY <1>2, <1>3, <1>4 DEF TxInv

(* The hardware publishes, but not during an edit. *)
LEMMA PublishStep ==
  ASSUME TxInv, TxType', Quiet, Publish
  PROVE  TxInv'
<1>1. /\ UNCHANGED <<queue, slot, dvars, fvars>> /\ ~Editing
  BY DEF Publish, Undisturbed
<1>2. /\ RSlot' = RSlot /\ TSlot' = TSlot /\ WSlot' \in Slots
      /\ Gap(RSlot, WSlot) < Gap(RSlot, WSlot') /\ Gap(RSlot, WSlot') <= Gap(RSlot, TSlot)
  BY PublishSlots
<1>3. RSlot \in Slots /\ WSlot \in Slots
  BY IndexSlots DEF TxInv, TxType
<1>4. RSlot' # WSlot'
  BY <1>2, <1>3, GapFacts, TxAssumption
<1>5. CtlInv'
  BY <1>1, <1>2, <1>4 DEF TxInv, CtlInv, Editing, dvars, fvars
<1>6. AppendInv'
  BY <1>1, <1>2 DEF TxInv, AppendInv, dvars
<1>7. EditInv' /\ ResetInv'
  BY <1>1 DEF EditInv, ResetInv, Editing, dvars
<1> QED BY <1>2, <1>5, <1>6, <1>7 DEF TxInv

(* The controller looks at the oldest payload and takes it. *)
LEMMA ControllerKeeps ==
  ASSUME TxInv, TxType', Quiet, ControllerStep
  PROVE  TxInv'
<1>s. /\ RSlot \in Slots /\ WSlot \in Slots /\ TSlot \in Slots
      /\ Gap(RSlot, WSlot) <= Gap(RSlot, TSlot)
      /\ ToDefault(read_index) = At(RSlot) /\ ToDefault(write_index) = At(WSlot)
      /\ queue \in Queues /\ read_index \in Custom /\ write_index \in Custom
  BY IndexSlots DEF TxInv, TxType
<1>1. CASE CtlIndexes
  <2>1. /\ UNCHANGED <<queue, slot, header, dvars, got>> /\ ~Editing
        /\ read_index # write_index /\ fidx' = ToDefault(read_index) /\ fpc' = "copy"
    BY <1>1 DEF CtlIndexes, Undisturbed
  <2>2. RSlot' = RSlot /\ WSlot' = WSlot /\ TSlot' = TSlot
    BY <2>1, SlotsKept
  <2>3. RSlot # WSlot
    BY <2>1, <1>s, IndexFacts
  <2>4. CtlInv'
    BY <2>1, <2>2, <2>3, <1>s DEF CtlInv, Editing, dvars
  <2>5. AppendInv' /\ EditInv' /\ ResetInv'
    BY <2>1, <2>2 DEF TxInv, AppendInv, EditInv, ResetInv, dvars, header, Second, Editing
  <2> QED BY <2>2, <2>4, <2>5 DEF TxInv
<1>2. CASE CtlCopy
  <2>1. /\ UNCHANGED <<queue, slot, header, dvars, fidx>>
        /\ fpc = "copy" /\ fpc' = "advance" /\ got' = slot[fidx]
    BY <1>2 DEF CtlCopy
  <2>2. RSlot' = RSlot /\ WSlot' = WSlot /\ TSlot' = TSlot
    BY <2>1, SlotsKept
  <2>3. CtlInv' /\ ~Editing
    BY <2>1, <2>2 DEF TxInv, CtlInv, Editing, dvars
  <2>5. AppendInv' /\ EditInv' /\ ResetInv'
    BY <2>1, <2>2, <2>3 DEF TxInv, AppendInv, EditInv, ResetInv, dvars, header, Editing
  <2> QED BY <2>2, <2>3, <2>5 DEF TxInv
<1>3. CASE CtlAdvance
  <2>1. /\ UNCHANGED <<queue, slot, dvars>> /\ fpc' = "idle" /\ ~Editing /\ RSlot # WSlot
    BY <1>3 DEF CtlAdvance, TxInv, CtlInv
  <2>2. RSlot' = After(RSlot) /\ TSlot' = TSlot /\ WSlot' = WSlot
    BY <1>3, CtlAdvanceSlots
  <2>3. /\ Gap(RSlot, WSlot) \in Nat /\ Gap(RSlot, TSlot) \in Nat
        /\ Gap(RSlot, WSlot) # 0 /\ Gap(RSlot, TSlot) # 0 /\ RSlot # TSlot
    BY <2>1, <1>s, GapFacts, TxAssumption, SMTT(30)
  <2>4. Gap(RSlot', WSlot') <= Gap(RSlot', TSlot')
    <3>1. /\ Gap(After(RSlot), WSlot) = Gap(RSlot, WSlot) - 1
          /\ Gap(After(RSlot), TSlot) = Gap(RSlot, TSlot) - 1
      BY <2>1, <2>3, <1>s, GapFacts
    <3> QED BY <2>2, <2>3, <3>1, <1>s
  <2>5. AppendInv'
    <3>1. After(TSlot) # After(RSlot)
      BY <2>3, <1>s, GapFacts
    <3> QED BY <2>1, <2>2, <3>1 DEF TxInv, AppendInv, dvars
  <2>6. CtlInv' /\ EditInv' /\ ResetInv'
    BY <2>1 DEF CtlInv, EditInv, ResetInv, dvars, Editing
  <2> QED BY <2>4, <2>5, <2>6 DEF TxInv
<1> QED BY <1>1, <1>2, <1>3 DEF ControllerStep

(* Every step keeps the invariant. *)
LEMMA TxInvStep == ASSUME Quiet PROVE TxInv /\ [Next]_vars => TxInv'
<1> SUFFICES ASSUME TxInv, [Next]_vars PROVE TxInv'
  OBVIOUS
<1>1. TxType'
  BY TxTypeStep DEF TxInv
<1>2. CASE DriverStep
  BY <1>1, <1>2, CallStep, AppendStep, WriteIndexStep, EditStep, ResetStep DEF DriverStep
<1>3. CASE Publish \/ ControllerStep
  BY <1>1, <1>3, PublishStep, ControllerKeeps
<1>4. CASE UNCHANGED vars
  <2>1. UNCHANGED <<queue, slot, header, dvars, fvars>>
    BY <1>4 DEF vars
  <2>2. RSlot' = RSlot /\ WSlot' = WSlot /\ TSlot' = TSlot /\ Second' = Second
    BY <2>1, SlotsKept DEF Second, AfterOffset, dvars
  <2> QED BY <1>1, <2>1, <2>2 DEF TxInv, CtlInv, AppendInv, EditInv, ResetInv, Editing,
                                  header, dvars, fvars
<1> QED BY <1>2, <1>3, <1>4 DEF Next

(* The queue starts empty. *)
LEMMA TxInvInit == Init => TxInv
<1> SUFFICES ASSUME Init PROVE TxInv
  OBVIOUS
<1>1. TxType /\ RSlot \in Slots
  BY TxTypeInit, IndexSlots DEF TxType
<1>2. RSlot = WSlot /\ TSlot = WSlot
  BY DEF Init, RSlot, WSlot, TSlot, WrPtr
<1>3. Gap(RSlot, WSlot) <= Gap(RSlot, TSlot)
  BY <1>1, <1>2, GapFacts, TxAssumption
<1> QED BY <1>1, <1>3 DEF Init, TxInv, CtlInv, AppendInv, EditInv, ResetInv

(* The invariant, if the queue is left alone during an edit and a reset. *)
THEOREM TxInvariance == ASSUME Quiet PROVE Spec => []TxInv
BY TxInvInit, TxInvStep, PTL DEF Spec

(* The write index never overtakes the working index of the driver: the    *)
(* published payloads are the oldest of those that wait.                   *)
THEOREM TxPublishedFirst == ASSUME Quiet PROVE Spec => []PublishedFirst
<1>1. TxInv => PublishedFirst
  <2> SUFFICES ASSUME TxInv PROVE PublishedFirst
    OBVIOUS
  <2>1. /\ ToDefault(read_index) \in Offsets /\ ToDefault(write_index) \in Offsets
        /\ ToDefault(WrPtr) \in Offsets
    BY IndexSlots DEF TxInv, TxType
  <2> QED BY <2>1, AheadOrder DEF TxInv, PublishedFirst, RSlot, WSlot, TSlot
<1> QED BY <1>1, TxInvariance, PTL
-----------------------------------------------------------------------------
(* The queue implements HwFenceTxSpec. *)

\* The payloads in the ring s from slot j up to slot k.
Run(s, j, k) == [n \in 1 .. Gap(j, k) |-> s[At(Pos(j, n))]]

Rings == [Offsets -> Payload]

(* The tail of a sequence. *)
LEMMA TailForm ==
  ASSUME NEW S, NEW q \in Seq(S), Len(q) > 0
  PROVE  /\ Tail(q) \in Seq(S) /\ Len(Tail(q)) = Len(q) - 1
         /\ \A n \in 1 .. Len(q) - 1 : Tail(q)[n] = q[n + 1]
         /\ Tail(q) = [n \in 1 .. Len(q) - 1 |-> q[n + 1]]
<1>1. /\ Tail(q) \in Seq(S) /\ Len(Tail(q)) = Len(q) - 1
      /\ \A n \in 1 .. Len(q) - 1 : Tail(q)[n] = q[n + 1]
  OBVIOUS
<1>2. ASSUME NEW v \in Seq(S) PROVE v = [n \in 1 .. Len(v) |-> v[n]]
  OBVIOUS
<1>3. Tail(q) = [n \in 1 .. Len(Tail(q)) |-> Tail(q)[n]]
  BY <1>1, <1>2
<1> QED BY <1>1, <1>3

(* The slots from j up to k, one after the other. *)
LEMMA PosFacts ==
  ASSUME NEW j \in Slots, NEW k \in Slots
  PROVE  /\ \A n \in 1 .. Gap(j, k) : Pos(j, n) \in Slots /\ Pos(j, n) # k
         /\ \A m, n \in 1 .. Gap(j, k) : Pos(j, m) = Pos(j, n) => m = n
         /\ Pos(j, Gap(j, k) + 1) = k /\ Pos(j, 1) = j
         /\ j # k => \A n \in 1 .. Gap(j, k) - 1 : Pos(After(j), n) = Pos(j, n + 1)
BY TxAssumption DEF Gap, Slots, Pos, After

(* The payloads are a sequence. *)
LEMMA RunType ==
  ASSUME NEW j \in Slots, NEW k \in Slots, NEW s \in Rings
  PROVE  /\ Run(s, j, k) \in Seq(Payload) /\ Len(Run(s, j, k)) = Gap(j, k)
         /\ Gap(j, k) \in Nat /\ Gap(j, k) < Entries
         /\ \A n \in 1 .. Gap(j, k) : Run(s, j, k)[n] = s[At(Pos(j, n))]
         /\ \A n \in 1 .. Gap(j, k) : At(Pos(j, n)) \in Offsets
<1>1. Gap(j, k) \in Nat /\ Gap(j, k) < Entries
  BY GapFacts, TxAssumption
<1>2. \A n \in 1 .. Gap(j, k) : At(Pos(j, n)) \in Offsets
  BY PosFacts, SlotFacts
<1>3. Run(s, j, k) \in [1 .. Gap(j, k) -> Payload]
  BY <1>2 DEF Run, Rings
<1> QED BY <1>1, <1>2, <1>3 DEF Run

(* A store to the free slot. *)
LEMMA RunKept ==
  ASSUME NEW j \in Slots, NEW k \in Slots, NEW s \in Rings, NEW u,
         \A o \in Offsets : o # At(k) => u[o] = s[o]
  PROVE  Run(u, j, k) = Run(s, j, k)
<1>1. ASSUME NEW n \in 1 .. Gap(j, k) PROVE u[At(Pos(j, n))] = s[At(Pos(j, n))]
  <2>1. Pos(j, n) \in Slots /\ Pos(j, n) # k
    BY PosFacts
  <2>2. At(Pos(j, n)) \in Offsets /\ At(Pos(j, n)) # At(k)
    BY <2>1, SlotFacts, AtInjective
  <2> QED BY <2>2
<1> QED BY <1>1 DEF Run

(* One payload more. *)
LEMMA RunAppended ==
  ASSUME NEW j \in Slots, NEW k \in Slots, NEW s \in Rings, After(k) # j
  PROVE  Run(s, j, After(k)) = Append(Run(s, j, k), s[At(k)])
<1>1. Gap(j, After(k)) = Gap(j, k) + 1 /\ Pos(j, Gap(j, k) + 1) = k
  BY GapFacts, PosFacts
<1>2. PICK g \in Nat : g = Gap(j, k)
  BY RunType
<1>3. Run(s, j, k) \in Seq(Payload) /\ Len(Run(s, j, k)) = g
      /\ \A n \in 1 .. g : Run(s, j, k)[n] = s[At(Pos(j, n))]
  BY <1>2, RunType
<1>4. Run(s, j, After(k)) = [n \in 1 .. g + 1 |-> s[At(Pos(j, n))]]
  BY <1>1, <1>2 DEF Run
<1>5. Append(Run(s, j, k), s[At(k)])
        = [n \in 1 .. g + 1 |-> IF n = g + 1 THEN s[At(k)] ELSE Run(s, j, k)[n]]
  BY <1>3
<1>6. \A n \in 1 .. g + 1 : n # g + 1 => n \in 1 .. g
  OBVIOUS
<1> QED BY <1>1, <1>2, <1>3, <1>4, <1>5, <1>6

(* One payload less. *)
LEMMA RunTail ==
  ASSUME NEW j \in Slots, NEW k \in Slots, NEW s \in Rings, j # k
  PROVE  /\ Run(s, j, k) # <<>> /\ Head(Run(s, j, k)) = s[At(j)]
         /\ Run(s, After(j), k) = Tail(Run(s, j, k))
         /\ Gap(After(j), k) = Gap(j, k) - 1 /\ Gap(j, k) > 0
<1>1. /\ Gap(After(j), k) = Gap(j, k) - 1 /\ Pos(j, 1) = j /\ Gap(j, k) # 0
      /\ \A n \in 1 .. Gap(j, k) - 1 : Pos(After(j), n) = Pos(j, n + 1)
  BY GapFacts, PosFacts
<1>2. PICK g \in Nat \ {0} : g = Gap(j, k)
  <2>1. Gap(j, k) \in Nat
    BY GapFacts, TxAssumption
  <2> QED BY <1>1, <2>1
<1>3. Run(s, j, k) \in Seq(Payload) /\ Len(Run(s, j, k)) = g
      /\ \A n \in 1 .. g : Run(s, j, k)[n] = s[At(Pos(j, n))]
  BY <1>2, RunType
<1>4. Run(s, j, k) # <<>> /\ Head(Run(s, j, k)) = s[At(j)]
  BY <1>1, <1>2, <1>3
<1>5. Tail(Run(s, j, k)) = [n \in 1 .. g - 1 |-> Run(s, j, k)[n + 1]]
  <2>1. Len(Run(s, j, k)) > 0
    BY <1>3
  <2> QED BY <1>3, <2>1, TailForm
<1>6. Run(s, After(j), k) = [n \in 1 .. g - 1 |-> s[At(Pos(After(j), n))]]
  BY <1>1, <1>2 DEF Run
<1>7. \A n \in 1 .. g - 1 : n + 1 \in 1 .. g
  OBVIOUS
<1> QED BY <1>1, <1>2, <1>3, <1>4, <1>5, <1>6, <1>7

(* Equal indexes mean an empty queue. *)
LEMMA RunEmpty ==
  ASSUME NEW j \in Slots, NEW s
  PROVE  Run(s, j, j) = <<>> /\ Gap(j, j) = 0
<1>1. Gap(j, j) = 0
  BY GapFacts
<1> QED BY <1>1 DEF Run

(* A store to the first slot. *)
LEMMA RunFirst ==
  ASSUME NEW j \in Slots, NEW k \in Slots, NEW s \in Rings, NEW u \in Rings, j # k,
         \A o \in Offsets : o # At(j) => u[o] = s[o]
  PROVE  /\ Run(u, j, k) = <<u[At(j)]>> \o Tail(Run(s, j, k))
         /\ Len(Run(s, j, k)) > 0 /\ Run(s, j, k)[1] = s[At(j)]
<1>1. Pos(j, 1) = j /\ Gap(j, k) # 0
  BY GapFacts, PosFacts
<1>2. PICK g \in Nat \ {0} : g = Gap(j, k)
  <2>1. Gap(j, k) \in Nat
    BY GapFacts, TxAssumption
  <2> QED BY <1>1, <2>1
<1>3. Run(s, j, k) \in Seq(Payload) /\ Len(Run(s, j, k)) = g
      /\ \A n \in 1 .. g : Run(s, j, k)[n] = s[At(Pos(j, n))]
  BY <1>2, RunType
<1>4. \A n \in 2 .. g : u[At(Pos(j, n))] = s[At(Pos(j, n))]
  <2> SUFFICES ASSUME NEW n \in 2 .. g PROVE u[At(Pos(j, n))] = s[At(Pos(j, n))]
    OBVIOUS
  <2>1. n \in 1 .. g /\ 1 \in 1 .. g /\ n # 1
    OBVIOUS
  <2>2. Pos(j, n) \in Slots /\ Pos(j, n) # j
    BY <1>1, <1>2, <2>1, PosFacts
  <2>3. At(Pos(j, n)) \in Offsets /\ At(Pos(j, n)) # At(j)
    BY <2>2, SlotFacts, AtInjective
  <2> QED BY <2>3
<1>5. Run(u, j, k) \in Seq(Payload) /\ Len(Run(u, j, k)) = g
      /\ \A n \in 1 .. g : Run(u, j, k)[n] = u[At(Pos(j, n))]
  BY <1>2, RunType
<1> DEFINE v == <<u[At(j)]>> \o Tail(Run(s, j, k))
<1>6. /\ Tail(Run(s, j, k)) \in Seq(Payload) /\ Len(Tail(Run(s, j, k))) = g - 1
      /\ \A n \in 1 .. g - 1 : Tail(Run(s, j, k))[n] = Run(s, j, k)[n + 1]
  BY <1>3
<1>7. /\ v \in Seq(Payload) /\ Len(v) = g /\ v[1] = u[At(j)]
      /\ \A n \in 2 .. g : v[n] = Run(s, j, k)[n]
  <2>1. u[At(j)] \in Payload
    BY SlotFacts DEF Rings
  <2> QED BY <1>6, <2>1
<1>8. \A n \in 1 .. g : Run(u, j, k)[n] = v[n]
  <2> SUFFICES ASSUME NEW n \in 1 .. g PROVE Run(u, j, k)[n] = v[n]
    OBVIOUS
  <2>1. CASE n = 1
    BY <2>1, <1>1, <1>5, <1>7
  <2>2. CASE n # 1
    <3>1. n \in 2 .. g
      BY <2>2
    <3> QED BY <3>1, <1>3, <1>4, <1>5, <1>7
  <2> QED BY <2>1, <2>2
<1>9. Run(u, j, k) = v
  <2> HIDE DEF v
  <2> QED BY <1>5, <1>7, <1>8
<1> QED BY <1>1, <1>3, <1>9

(* Stores to the first two slots. *)
LEMMA RunSwapped ==
  ASSUME NEW j \in Slots, NEW k \in Slots, NEW s \in Rings, NEW u \in Rings,
         j # k, After(j) # k,
         \A o \in Offsets : o # At(j) /\ o # At(After(j)) => u[o] = s[o]
  PROVE  /\ Run(u, j, k) = <<u[At(j)], u[At(After(j))]>> \o Tail(Tail(Run(s, j, k)))
         /\ Len(Run(s, j, k)) > 1
         /\ Run(s, j, k)[1] = s[At(j)] /\ Run(s, j, k)[2] = s[At(After(j))]
<1>1. /\ Pos(j, 1) = j /\ Pos(j, 2) = After(j) /\ Gap(j, k) > 1
      /\ After(j) \in Slots
  BY TxAssumption DEF Pos, Gap, After, Slots
<1>2. PICK g \in Nat \ {0, 1} : g = Gap(j, k)
  <2>1. Gap(j, k) \in Nat
    BY GapFacts, TxAssumption
  <2>2. Gap(j, k) \in Nat \ {0, 1}
    BY <1>1, <2>1
  <2> QED BY <2>2
<1>3. Run(s, j, k) \in Seq(Payload) /\ Len(Run(s, j, k)) = g
      /\ \A n \in 1 .. g : Run(s, j, k)[n] = s[At(Pos(j, n))]
  BY <1>2, RunType
<1>4. \A n \in 3 .. g : u[At(Pos(j, n))] = s[At(Pos(j, n))]
  <2> SUFFICES ASSUME NEW n \in 3 .. g PROVE u[At(Pos(j, n))] = s[At(Pos(j, n))]
    OBVIOUS
  <2>1. n \in 1 .. g /\ 1 \in 1 .. g /\ 2 \in 1 .. g /\ n # 1 /\ n # 2
    OBVIOUS
  <2>2. Pos(j, n) \in Slots /\ Pos(j, n) # j /\ Pos(j, n) # After(j)
    BY <1>1, <1>2, <2>1, PosFacts
  <2>3. At(Pos(j, n)) \in Offsets /\ At(Pos(j, n)) # At(j) /\ At(Pos(j, n)) # At(After(j))
    BY <1>1, <2>2, SlotFacts, AtInjective
  <2> QED BY <2>3
<1>5. Run(u, j, k) \in Seq(Payload) /\ Len(Run(u, j, k)) = g
      /\ \A n \in 1 .. g : Run(u, j, k)[n] = u[At(Pos(j, n))]
  BY <1>2, RunType
<1> DEFINE w == Tail(Tail(Run(s, j, k)))
           v == <<u[At(j)], u[At(After(j))]>> \o w
<1>6. w \in Seq(Payload) /\ Len(w) = g - 2 /\ \A n \in 1 .. g - 2 : w[n] = Run(s, j, k)[n + 2]
  <2>1. PICK x \in Seq(Payload) : /\ x = Tail(Run(s, j, k)) /\ Len(x) = g - 1
                                  /\ \A n \in 1 .. g - 1 : x[n] = Run(s, j, k)[n + 1]
    <3>1. Len(Run(s, j, k)) > 0 /\ Len(Run(s, j, k)) - 1 = g - 1
      BY <1>3
    <3>2. /\ Tail(Run(s, j, k)) \in Seq(Payload)
          /\ Len(Tail(Run(s, j, k))) = Len(Run(s, j, k)) - 1
          /\ \A n \in 1 .. Len(Run(s, j, k)) - 1 : Tail(Run(s, j, k))[n] = Run(s, j, k)[n + 1]
      BY <1>3, <3>1, TailForm
    <3> QED BY <3>1, <3>2
  <2>2. /\ \A n \in 1 .. g - 1 - 1 : w[n] = x[n + 1]
        /\ w \in Seq(Payload) /\ Len(w) = g - 1 - 1
    <3>1. Len(x) > 0
      BY <2>1
    <3> QED BY <2>1, <3>1, TailForm
  <2>3. ASSUME NEW n \in 1 .. g - 2 PROVE w[n] = Run(s, j, k)[n + 2]
    <3>1. n \in 1 .. g - 1 - 1 /\ n + 1 \in 1 .. g - 1 /\ n + 1 + 1 = n + 2
      OBVIOUS
    <3> QED BY <2>1, <2>2, <3>1
  <2> QED BY <2>2, <2>3
<1>7. /\ v \in Seq(Payload) /\ Len(v) = g /\ v[1] = u[At(j)] /\ v[2] = u[At(After(j))]
      /\ \A n \in 3 .. g : v[n] = Run(s, j, k)[n]
  <2>1. u[At(j)] \in Payload /\ u[At(After(j))] \in Payload
    BY <1>1, SlotFacts DEF Rings
  <2> HIDE DEF w
  <2> QED BY <1>6, <2>1
<1>8. \A n \in 1 .. g : Run(u, j, k)[n] = v[n]
  <2> SUFFICES ASSUME NEW n \in 1 .. g PROVE Run(u, j, k)[n] = v[n]
    OBVIOUS
  <2> HIDE DEF v
  <2>1. CASE n = 1
    BY <2>1, <1>1, <1>5, <1>7
  <2>2. CASE n = 2
    BY <2>2, <1>1, <1>5, <1>7
  <2>3. CASE n # 1 /\ n # 2
    <3>1. n \in 3 .. g
      BY <2>3
    <3> QED BY <3>1, <1>3, <1>4, <1>5, <1>7
  <2> QED BY <2>1, <2>2, <2>3
<1>9. Run(u, j, k) = v
  <2> HIDE DEF v
  <2> QED BY <1>5, <1>7, <1>8
<1>10. 1 \in 1 .. g /\ 2 \in 1 .. g
  OBVIOUS
<1> QED BY <1>1, <1>3, <1>9, <1>10

(* What the model calls the contents is a run of the ring. *)
LEMMA RunForm ==
  ASSUME NEW r \in Offsets, NEW t \in Offsets, NEW s
  PROVE  [i \in 1 .. Count(r, t) |-> s[(r + (i - 1) * PayloadSize) % Size]]
           = Run(s, Slot(r), Slot(t))
<1>1. Count(r, t) = Gap(Slot(r), Slot(t)) /\ Count(r, t) \in 0 .. Entries - 1
  BY RingFacts
<1>2. ASSUME NEW i \in 1 .. Count(r, t)
      PROVE  (r + (i - 1) * PayloadSize) % Size = At(Pos(Slot(r), i))
  <2>1. i \in 1 .. Entries
    BY <1>1, TxAssumption
  <2> QED BY <2>1, PosOffset
<1> QED BY <1>1, <1>2 DEF Run

(* The contents and the published ones before and after a step. *)
LEMMA ContentsForm ==
  ASSUME TypeOK
  PROVE  /\ pc # "reset_read" => /\ Contents = Run(Settled, RSlot, TSlot)
                                 /\ Published = Gap(RSlot, WSlot)
         /\ pc = "reset_read" => Contents = <<>> /\ Published = 0
<1>1. /\ ToDefault(read_index) \in Offsets /\ ToDefault(write_index) \in Offsets
      /\ ToDefault(WrPtr) \in Offsets
  BY IndexSlots
<1>2. Count(ToDefault(read_index), ToDefault(write_index)) = Gap(RSlot, WSlot)
  BY <1>1, RingFacts DEF RSlot, WSlot
<1>3. [i \in 1 .. Count(ToDefault(read_index), ToDefault(WrPtr)) |->
         Settled[(ToDefault(read_index) + (i - 1) * PayloadSize) % Size]]
        = Run(Settled, RSlot, TSlot)
  BY <1>1, RunForm DEF RSlot, TSlot
<1> QED BY <1>2, <1>3 DEF Contents, Published

(* The same for the next state. *)
LEMMA ContentsFormNext ==
  ASSUME TypeOK, TypeOK', queue' = queue
  PROVE  /\ pc' # "reset_read" => /\ Contents' = Run(Settled', RSlot', TSlot')
                                  /\ Published' = Gap(RSlot', WSlot')
         /\ pc' = "reset_read" => Contents' = <<>> /\ Published' = 0
<1>0. /\ queue \in Queues /\ read_index' \in Custom /\ write_index' \in Custom /\ WrPtr' \in Custom
  BY DEF TypeOK, Custom, ToCustom, WrPtr
<1>1. /\ ToDefault(read_index') \in Offsets /\ ToDefault(write_index') \in Offsets
      /\ ToDefault(WrPtr') \in Offsets
  BY <1>0, IndexFacts
<1>2. /\ RSlot' = Slot(ToDefault(read_index')) /\ WSlot' = Slot(ToDefault(write_index'))
      /\ TSlot' = Slot(ToDefault(WrPtr'))
  BY DEF RSlot, WSlot, TSlot, ToDefault
<1>3. Count(ToDefault(read_index'), ToDefault(write_index')) = Gap(RSlot', WSlot')
  BY <1>1, <1>2, RingFacts
<1>4. [i \in 1 .. Count(ToDefault(read_index'), ToDefault(WrPtr')) |->
         Settled'[(ToDefault(read_index') + (i - 1) * PayloadSize) % Size]]
        = Run(Settled', RSlot', TSlot')
  BY <1>1, <1>2, RunForm
<1>5. /\ ToDefault(read_index)' = ToDefault(read_index')
      /\ ToDefault(write_index)' = ToDefault(write_index')
      /\ ToDefault(WrPtr)' = ToDefault(WrPtr')
  BY DEF ToDefault
<1> QED BY <1>3, <1>4, <1>5 DEF Contents, Published

(* Outside a move the ring is settled; it is a ring always. *)
LEMMA SettledType ==
  ASSUME TxInv
  PROVE  Settled \in Rings /\ slot \in Rings /\ (pc \notin {"mark", "restore"} => Settled = slot)
<1>1. slot \in Rings /\ ridx \in Offsets /\ tmp \in Payload /\ Second \in Offsets
  BY IndexTypes DEF TxInv, TxType, TypeOK, Rings, Second
<1> QED BY <1>1 DEF Settled, Rings

(* A step of the driver or the controller that stores no index and no      *)
(* payload that waits.                                                     *)
LEMMA ContentsSame ==
  ASSUME TxInv, TxInv', queue' = queue, UNCHANGED header,
         \A o \in Offsets : o # At(TSlot) => Settled'[o] = Settled[o],
         pc # "reset_read", pc' # "reset_read"
  PROVE  Contents' = Contents /\ Published' = Published
<1>1. RSlot' = RSlot /\ WSlot' = WSlot /\ TSlot' = TSlot
  BY SlotsKept
<1>2. RSlot \in Slots /\ TSlot \in Slots /\ Settled \in Rings
  BY IndexSlots, SettledType DEF TxInv, TxType
<1>3. Run(Settled', RSlot, TSlot) = Run(Settled, RSlot, TSlot)
  BY <1>2, RunKept
<1>4. Contents = Run(Settled, RSlot, TSlot) /\ Published = Gap(RSlot, WSlot)
  BY ContentsForm DEF TxInv, TxType
<1>5. Contents' = Run(Settled', RSlot', TSlot') /\ Published' = Gap(RSlot', WSlot')
  BY ContentsFormNext DEF TxInv, TxType
<1> QED BY <1>1, <1>3, <1>4, <1>5

(* What the abstract queue does not see. *)
LEMMA Hidden ==
  ASSUME queue' = queue, Contents' = Contents, Published' = Published, got' = got,
         pc' = "full" <=> pc = "full"
  PROVE  [TxSpec!Next]_(TxSpec!vars)
<1>1. (pc' = "full") = (pc = "full")
  OBVIOUS
<1> QED BY <1>1 DEF TxSpec!vars

(* The steps of the driver that store nothing: they begin a call, refuse   *)
(* a fence, find the payload to move or find nothing.                      *)
LEMMA CallSimulation ==
  ASSUME TxInv, TxInv',
         \/ \E p \in [hash : Handle, error : AppendErrors] : UpdateTxq(p)
         \/ \E h \in Handle : ReadBoth(h)
         \/ QueueFull \/ FindSecond \/ FindNothing \/ ResetRead
  PROVE  [TxSpec!Next]_(TxSpec!vars)
<1>1. /\ queue' = queue /\ UNCHANGED header /\ slot' = slot /\ got' = got
      /\ pc \in {"idle", "full", "find"}
      /\ pc' \in {"idle", "full", "hash", "find", "copy", "reset_wm"}
  BY DEF UpdateTxq, ReadBoth, QueueFull, FindSecond, FindNothing, ResetRead, Return, Goto, fvars
<1>2. Settled = slot /\ Settled' = slot
  BY <1>1 DEF Settled
<1>3. Contents' = Contents /\ Published' = Published
  BY <1>1, <1>2, ContentsSame
<1>4. CASE pc' = "full"
  <2>1. ~Fits(ToDefault(read_index), ToDefault(WrPtr))
    BY <1>4 DEF UpdateTxq, ReadBoth, QueueFull, FindSecond, FindNothing, ResetRead, Return, Goto
  <2>2. /\ ToDefault(read_index) \in Offsets /\ ToDefault(WrPtr) \in Offsets
        /\ RSlot \in Slots /\ TSlot \in Slots /\ slot \in Rings
    BY IndexSlots, SettledType DEF TxInv, TxType
  <2>3. Gap(RSlot, TSlot) = Entries - 1
    <3>1. ~(Gap(RSlot, TSlot) < Entries - 1)
      BY <2>1, <2>2, RingFacts DEF RSlot, TSlot
    <3> QED BY <2>2, <3>1, RunType, TxAssumption
  <2>4. Len(Contents) = Entries - 1
    <3>1. Contents = Run(slot, RSlot, TSlot)
      BY <1>1, <1>2, ContentsForm DEF TxInv, TxType
    <3> QED BY <2>2, <2>3, <3>1, RunType
  <2>5. (pc' = "full") = TRUE
    BY <1>4
  <2> QED BY <1>1, <1>3, <2>4, <2>5 DEF TxSpec!Next, TxSpec!Refuse
<1>5. CASE pc' # "full" /\ pc = "full"
  <2>1. (pc' = "full") = FALSE
    BY <1>5
  <2> QED BY <1>1, <1>3, <2>1 DEF TxSpec!Next, TxSpec!Refused
<1>6. CASE pc' # "full" /\ pc # "full"
  BY <1>1, <1>3, <1>6, Hidden
<1> QED BY <1>4, <1>5, <1>6

(* The payload of an append is not visible before the index is stored. *)
LEMMA WriteSimulation ==
  ASSUME TxInv, TxInv', WriteHash \/ WriteError
  PROVE  [TxSpec!Next]_(TxSpec!vars)
<1>1. /\ queue' = queue /\ UNCHANGED header /\ got' = got /\ widx = At(TSlot)
      /\ pc \in {"hash", "error"} /\ pc' \in {"error", "index"}
  BY DEF WriteHash, WriteError, Goto, fvars, TxInv, AppendInv
<1>2. Settled = slot /\ Settled' = slot'
  BY <1>1 DEF Settled
<1>3. slot \in [Offsets -> Payload]
  BY DEF TxInv, TxType, TypeOK
<1>4. \A o \in Offsets : o # At(TSlot) => slot'[o] = slot[o]
  BY <1>1, <1>3 DEF WriteHash, WriteError
<1>5. Contents' = Contents /\ Published' = Published
  BY <1>1, <1>2, <1>4, ContentsSame
<1> QED BY <1>1, <1>5, Hidden

(* The store of the index appends it. *)
LEMMA WriteIndexSimulation ==
  ASSUME TxInv, TxInv', WriteIndex
  PROVE  [TxSpec!Next]_(TxSpec!vars)
<1>1. /\ queue' = queue /\ slot' = slot /\ got' = got /\ pc = "index" /\ pc' = "idle"
      /\ widx = At(TSlot) /\ After(TSlot) # RSlot /\ msg.hash \in Handle
      /\ slot[widx].hash = msg.hash /\ slot[widx].error = msg.error
  BY DEF WriteIndex, Return, Goto, fvars, TxInv, AppendInv
<1>2. Settled = slot /\ Settled' = slot
  BY <1>1 DEF Settled
<1>3. RSlot \in Slots /\ TSlot \in Slots /\ WSlot \in Slots /\ slot \in Rings
  BY IndexSlots, SettledType DEF TxInv, TxType
<1>4. /\ RSlot' = RSlot /\ TSlot' = After(TSlot)
      /\ WSlot' = IF queue.skip_wr_idx THEN WSlot ELSE After(TSlot)
  BY WriteIndexSlots
<1>5. Contents = Run(slot, RSlot, TSlot) /\ Published = Gap(RSlot, WSlot)
  BY <1>1, <1>2, ContentsForm DEF TxInv, TxType
<1>6. Contents' = Run(slot, RSlot, After(TSlot)) /\ Published' = Gap(RSlot, WSlot')
  BY <1>1, <1>2, <1>4, ContentsFormNext DEF TxInv, TxType
<1>7. Contents' = Append(Contents, slot[At(TSlot)])
  BY <1>1, <1>3, <1>5, <1>6, RunAppended
<1>8. slot[At(TSlot)] \in TxSpec!Payload
  <2>1. slot[At(TSlot)] \in Payload
    BY <1>3, SlotFacts DEF Rings
  <2> QED BY <2>1, <1>1 DEF Payload, TxSpec!Payload
<1>9. Len(Contents) < Entries - 1
  <2>1. Gap(RSlot, TSlot) < Entries - 1
    BY <1>1, <1>3, GapFacts
  <2> QED BY <2>1, <1>3, <1>5, RunType
<1>10. Published' = IF queue.skip_wr_idx THEN Published ELSE Len(Contents')
  <2>1. After(TSlot) \in Slots
    BY <1>3, GapFacts
  <2>2. Len(Contents') = Gap(RSlot, After(TSlot))
    BY <2>1, <1>3, <1>6, RunType
  <2> QED BY <2>2, <1>4, <1>5, <1>6
<1>11. (pc' = "full") = (pc = "full")
  BY <1>1
<1>12. TxSpec!Append1
  BY <1>1, <1>7, <1>8, <1>9, <1>10, <1>11 DEF TxSpec!Append1
<1> QED BY <1>12 DEF TxSpec!Next

(* Nothing but the order of the first two payloads and an error changes. *)
LEMMA EditSlots ==
  ASSUME TxInv, pc \in {"find", "copy", "mark", "restore"}
  PROVE  /\ ridx = At(RSlot) /\ widx = At(TSlot) /\ msg.error = TRUE
         /\ Second = At(After(RSlot)) /\ Second \in Offsets /\ ridx \in Offsets
         /\ RSlot \in Slots /\ TSlot \in Slots /\ After(RSlot) \in Slots
         /\ slot \in Rings /\ tmp \in Payload
<1>1. ridx = At(RSlot) /\ widx = At(TSlot) /\ msg.error = TRUE
  BY DEF TxInv, EditInv
<1> QED BY <1>1, SecondSlot, IndexSlots, SettledType DEF TxInv, TxType, TypeOK

(* The oldest payload gets its error where it is. *)
LEMMA FindFirstSimulation ==
  ASSUME TxInv, TxInv', FindFirst
  PROVE  [TxSpec!Next]_(TxSpec!vars)
<1>1. /\ queue' = queue /\ UNCHANGED header /\ got' = got /\ pc = "find" /\ pc' = "idle"
      /\ ridx # widx /\ slot' = [slot EXCEPT ![ridx].error = msg.error]
  BY DEF FindFirst, Return, Goto, fvars
<1>2. /\ ridx = At(RSlot) /\ widx = At(TSlot) /\ msg.error = TRUE /\ ridx \in Offsets
      /\ RSlot \in Slots /\ TSlot \in Slots /\ slot \in Rings /\ RSlot # TSlot
  BY <1>1, EditSlots
<1>3. RSlot' = RSlot /\ WSlot' = WSlot /\ TSlot' = TSlot
  BY <1>1, SlotsKept
<1>4. Settled = slot /\ Settled' = slot'
  BY <1>1 DEF Settled
<1>5. Contents = Run(slot, RSlot, TSlot) /\ Published = Gap(RSlot, WSlot)
  BY <1>1, <1>4, ContentsForm DEF TxInv, TxType
<1>6. Contents' = Run(slot', RSlot, TSlot) /\ Published' = Gap(RSlot, WSlot)
  BY <1>1, <1>3, <1>4, ContentsFormNext DEF TxInv, TxType
<1>7. /\ slot' \in Rings /\ \A o \in Offsets : o # At(RSlot) => slot'[o] = slot[o]
      /\ slot'[At(RSlot)] = [slot[At(RSlot)] EXCEPT !.error = TRUE]
  BY <1>1, <1>2 DEF Rings, Payload
<1>8. /\ Contents' = <<slot'[At(RSlot)]>> \o Tail(Contents)
      /\ Len(Contents) > 0 /\ Contents[1] = slot[At(RSlot)]
  <2>1. PICK s \in Rings, u \in Rings : s = slot /\ u = slot'
    BY <1>2, <1>7
  <2>2. \A o \in Offsets : o # At(RSlot) => u[o] = s[o]
    BY <2>1, <1>7
  <2>3. /\ Run(u, RSlot, TSlot) = <<u[At(RSlot)]>> \o Tail(Run(s, RSlot, TSlot))
        /\ Len(Run(s, RSlot, TSlot)) > 0 /\ Run(s, RSlot, TSlot)[1] = s[At(RSlot)]
    BY <2>2, <1>2, RunFirst
  <2> QED BY <2>1, <2>3, <1>5, <1>6
<1>9. (pc' = "full") = (pc = "full")
  BY <1>1
<1>10. TxSpec!Fail
  BY <1>1, <1>5, <1>6, <1>7, <1>8, <1>9 DEF TxSpec!Fail, TxSpec!WithError
<1> QED BY <1>10 DEF TxSpec!Next

(* The second payload is copied over the first, which is kept aside; the   *)
(* move ends with the first in second place.                               *)
LEMMA MoveSimulation ==
  ASSUME TxInv, TxInv', CopySecond \/ RestoreSecond
  PROVE  [TxSpec!Next]_(TxSpec!vars)
<1>1. /\ queue' = queue /\ UNCHANGED header /\ got' = got
      /\ pc \in {"copy", "restore"} /\ pc' \in {"mark", "idle"}
  BY DEF CopySecond, RestoreSecond, Return, Goto, fvars
<1>2. /\ Second \in Offsets /\ ridx \in Offsets /\ slot \in Rings /\ tmp \in Payload
  BY <1>1, EditSlots
<1>3. Settled' = Settled
  <2>1. CASE CopySecond
    <3>1. /\ pc = "copy" /\ pc' = "mark" /\ ridx' = ridx /\ tmp' = tmp
          /\ tmp = slot[ridx] /\ slot' = [slot EXCEPT ![ridx] = slot[Second]]
      BY <2>1 DEF CopySecond, Goto, TxInv, EditInv
    <3>2. Settled = slot /\ Settled' = [slot' EXCEPT ![ridx] = tmp]
      BY <3>1 DEF Settled
    <3>3. [slot' EXCEPT ![ridx] = tmp] = slot
      BY <1>2, <3>1 DEF Rings
    <3> QED BY <3>2, <3>3
  <2>2. CASE RestoreSecond
    <3>1. pc = "restore" /\ pc' = "idle" /\ slot' = [slot EXCEPT ![Second] = tmp]
      BY <2>2 DEF RestoreSecond, Return, Goto
    <3> QED BY <3>1 DEF Settled
  <2> QED BY <2>1, <2>2
<1>4. Contents' = Contents /\ Published' = Published
  BY <1>1, <1>3, ContentsSame
<1> QED BY <1>1, <1>4, Hidden

(* The error of the moved payload: it is first from now on. *)
LEMMA MarkSimulation ==
  ASSUME TxInv, TxInv', MarkFirst
  PROVE  [TxSpec!Next]_(TxSpec!vars)
<1>1. /\ queue' = queue /\ UNCHANGED header /\ got' = got /\ pc = "mark" /\ pc' = "restore"
      /\ slot' = [slot EXCEPT ![ridx].error = msg.error]
      /\ ridx' = ridx /\ tmp' = tmp /\ slot[ridx] = slot[Second]
      /\ RSlot # TSlot /\ After(RSlot) # TSlot
  BY DEF MarkFirst, Goto, fvars, TxInv, EditInv
<1>2. /\ ridx = At(RSlot) /\ msg.error = TRUE
      /\ Second = At(After(RSlot)) /\ Second \in Offsets /\ ridx \in Offsets
      /\ RSlot \in Slots /\ TSlot \in Slots /\ After(RSlot) \in Slots
      /\ slot \in Rings /\ tmp \in Payload
  BY <1>1, EditSlots
<1>3. RSlot' = RSlot /\ WSlot' = WSlot /\ TSlot' = TSlot /\ Second' = Second
  BY <1>1, SlotsKept DEF Second, AfterOffset
<1>4. Second # ridx
  <2>1. After(RSlot) # RSlot
    BY <1>1, <1>2, TxAssumption DEF After, Slots
  <2> QED BY <1>2, <2>1, AtInjective
<1>5. Settled = [slot EXCEPT ![ridx] = tmp] /\ Settled' = [slot' EXCEPT ![Second] = tmp]
  BY <1>1, <1>3 DEF Settled
<1>6. /\ Settled \in Rings /\ Settled' \in Rings
      /\ Settled[ridx] = tmp /\ Settled[Second] = slot[ridx]
      /\ Settled'[ridx] = [slot[ridx] EXCEPT !.error = TRUE] /\ Settled'[Second] = tmp
      /\ \A o \in Offsets : o # ridx /\ o # Second => Settled'[o] = Settled[o]
  <2>1. slot' \in Rings /\ slot'[ridx] = [slot[ridx] EXCEPT !.error = TRUE]
        /\ \A o \in Offsets : o # ridx => slot'[o] = slot[o]
    BY <1>1, <1>2 DEF Rings, Payload
  <2> QED BY <2>1, <1>1, <1>2, <1>4, <1>5 DEF Rings
<1>7. Contents = Run(Settled, RSlot, TSlot) /\ Published = Gap(RSlot, WSlot)
  BY <1>1, ContentsForm DEF TxInv, TxType
<1>8. Contents' = Run(Settled', RSlot, TSlot) /\ Published' = Gap(RSlot, WSlot)
  BY <1>1, <1>3, ContentsFormNext DEF TxInv, TxType
<1>9. /\ Contents' = <<Settled'[ridx], Settled'[Second]>> \o Tail(Tail(Contents))
      /\ Len(Contents) > 1 /\ Contents[1] = tmp /\ Contents[2] = slot[ridx]
  <2>1. PICK s \in Rings, u \in Rings : s = Settled /\ u = Settled'
    BY <1>6
  <2>2. \A o \in Offsets : o # At(RSlot) /\ o # At(After(RSlot)) => u[o] = s[o]
    BY <2>1, <1>2, <1>6
  <2>3. /\ Run(u, RSlot, TSlot)
             = <<u[At(RSlot)], u[At(After(RSlot))]>> \o Tail(Tail(Run(s, RSlot, TSlot)))
        /\ Len(Run(s, RSlot, TSlot)) > 1
        /\ Run(s, RSlot, TSlot)[1] = s[At(RSlot)]
        /\ Run(s, RSlot, TSlot)[2] = s[At(After(RSlot))]
    BY <2>2, <1>1, <1>2, RunSwapped
  <2> QED BY <2>1, <2>3, <1>2, <1>6, <1>7, <1>8
<1>10. (pc' = "full") = (pc = "full")
  BY <1>1
<1>11. TxSpec!Fail
  BY <1>1, <1>6, <1>7, <1>8, <1>9, <1>10 DEF TxSpec!Fail, TxSpec!WithError
<1> QED BY <1>11 DEF TxSpec!Next

(* The reset empties the queue at once, with its first store. *)
LEMMA ResetSimulation ==
  ASSUME TxInv, TxInv', ResetWm \/ ResetReadIndex
  PROVE  [TxSpec!Next]_(TxSpec!vars)
<1>1. queue' = queue /\ got' = got /\ pc \in {"reset_wm", "reset_read"}
  BY DEF ResetWm, ResetReadIndex, Return, Goto, fvars
<1>2. CASE ResetWm
  <2>1. pc' = "reset_read" /\ (pc' = "full") = (pc = "full")
    BY <1>2 DEF ResetWm, Goto
  <2>2. Contents' = <<>> /\ Published' = 0
    BY <1>1, <2>1, ContentsFormNext DEF TxInv, TxType
  <2> QED BY <1>1, <2>1, <2>2 DEF TxSpec!Next, TxSpec!Reset
<1>3. CASE ResetReadIndex
  <2>1. pc = "reset_read" /\ pc' = "idle"
    BY <1>3 DEF ResetReadIndex, Return, Goto
  <2>2. RSlot' = WSlot /\ WSlot' = WSlot /\ TSlot' = WSlot /\ WSlot \in Slots
    BY <1>3, ResetSlots, IndexSlots DEF TxInv, TxType
  <2>3. Contents' = <<>> /\ Published' = 0
    BY <1>1, <2>1, <2>2, ContentsFormNext, RunEmpty DEF TxInv, TxType
  <2>4. Contents = <<>> /\ Published = 0
    BY <2>1, ContentsForm DEF TxInv, TxType
  <2> QED BY <1>1, <2>1, <2>3, <2>4, Hidden
<1> QED BY <1>2, <1>3

(* The hardware publishes payloads that wait. *)
LEMMA PublishSimulation ==
  ASSUME TxInv, TxInv', Quiet, Publish
  PROVE  [TxSpec!Next]_(TxSpec!vars)
<1>1. /\ queue' = queue /\ queue.skip_wr_idx /\ got' = got /\ UNCHANGED <<slot, dvars>>
      /\ pc \notin {"mark", "restore", "reset_read"} /\ pc' = pc
  BY DEF Publish, Undisturbed, Editing, fvars, dvars
<1>2. /\ RSlot' = RSlot /\ TSlot' = TSlot /\ WSlot' \in Slots
      /\ Gap(RSlot, WSlot) < Gap(RSlot, WSlot') /\ Gap(RSlot, WSlot') <= Gap(RSlot, TSlot)
  BY PublishSlots
<1>3. RSlot \in Slots /\ TSlot \in Slots /\ WSlot \in Slots /\ slot \in Rings
  BY IndexSlots, SettledType DEF TxInv, TxType
<1>4. Settled = slot /\ Settled' = slot
  BY <1>1 DEF Settled
<1>5. Contents = Run(slot, RSlot, TSlot) /\ Published = Gap(RSlot, WSlot)
  BY <1>1, <1>4, ContentsForm DEF TxInv, TxType
<1>6. Contents' = Run(slot, RSlot, TSlot) /\ Published' = Gap(RSlot, WSlot')
  BY <1>1, <1>2, <1>4, ContentsFormNext DEF TxInv, TxType
<1>7. Published' \in Published + 1 .. Len(Contents)
  <2>1. /\ Gap(RSlot, WSlot) \in Nat /\ Gap(RSlot, WSlot') \in Nat
        /\ Len(Contents) = Gap(RSlot, TSlot) /\ Gap(RSlot, TSlot) \in Nat
    BY <1>2, <1>3, <1>5, RunType
  <2> QED BY <2>1, <1>2, <1>5, <1>6
<1>8. (pc' = "full") = (pc = "full") /\ Contents' = Contents
  BY <1>1, <1>5, <1>6
<1>9. TxSpec!Publish
  BY <1>1, <1>7, <1>8 DEF TxSpec!Publish
<1> QED BY <1>9 DEF TxSpec!Next

(* The controller reads the oldest payload and takes that one. *)
LEMMA ControllerSimulation ==
  ASSUME TxInv, TxInv', ControllerStep, Quiet
  PROVE  [TxSpec!Next]_(TxSpec!vars)
<1>1. /\ queue' = queue /\ slot' = slot /\ UNCHANGED dvars /\ pc' = pc
      /\ pc \notin {"mark", "restore", "reset_read"}
  <2>1. ~Editing
    BY DEF ControllerStep, CtlIndexes, CtlCopy, CtlAdvance, Undisturbed, TxInv, CtlInv
  <2> QED BY <2>1 DEF Editing, ControllerStep, CtlIndexes, CtlCopy, CtlAdvance, dvars
<1>2. Settled = slot /\ Settled' = slot
  BY <1>1 DEF Settled
<1>3. RSlot \in Slots /\ TSlot \in Slots /\ WSlot \in Slots /\ slot \in Rings
      /\ Gap(RSlot, WSlot) <= Gap(RSlot, TSlot)
  BY IndexSlots, SettledType DEF TxInv, TxType
<1>4. Contents = Run(slot, RSlot, TSlot) /\ Published = Gap(RSlot, WSlot)
  BY <1>1, <1>2, ContentsForm DEF TxInv, TxType
<1>5. Contents' = Run(slot, RSlot', TSlot') /\ Published' = Gap(RSlot', WSlot')
  BY <1>1, <1>2, ContentsFormNext DEF TxInv, TxType
<1>6. (pc' = "full") = (pc = "full")
  BY <1>1
<1>7. ASSUME fpc # "idle"
      PROVE  /\ RSlot # WSlot /\ RSlot # TSlot /\ fidx = At(RSlot) /\ Published > 0
             /\ Head(Contents) = slot[fidx] /\ (fpc = "advance" => got = slot[fidx])
  <2>1. RSlot # WSlot /\ fidx = At(RSlot) /\ (fpc = "advance" => got = slot[fidx])
    BY <1>7 DEF TxInv, CtlInv
  <2>2. /\ Gap(RSlot, WSlot) # 0 /\ Gap(RSlot, WSlot) \in Nat
        /\ Gap(RSlot, TSlot) \in Nat /\ RSlot # TSlot
    BY <2>1, <1>3, GapFacts, TxAssumption
  <2>3. Head(Run(slot, RSlot, TSlot)) = slot[At(RSlot)]
    BY <2>2, <1>3, RunTail
  <2> QED BY <2>1, <2>2, <2>3, <1>4
<1>8. CASE CtlIndexes
  <2>1. UNCHANGED header /\ got' = got
    BY <1>8 DEF CtlIndexes
  <2>2. Contents' = Contents /\ Published' = Published
    BY <2>1, <1>1, <1>4, <1>5, SlotsKept
  <2> QED BY <2>1, <2>2, <1>1, Hidden
<1>9. CASE CtlCopy
  <2>1. UNCHANGED header /\ got' = slot[fidx] /\ fpc # "idle"
    BY <1>9 DEF CtlCopy
  <2>2. Contents' = Contents /\ Published' = Published
    BY <2>1, <1>1, <1>4, <1>5, SlotsKept
  <2>3. TxSpec!Look
    BY <2>1, <2>2, <1>1, <1>6, <1>7 DEF TxSpec!Look
  <2> QED BY <2>3 DEF TxSpec!Next
<1>10. CASE CtlAdvance
  <2>1. fpc = "advance" /\ got' = NoPayload
    BY <1>10 DEF CtlAdvance
  <2>2. RSlot' = After(RSlot) /\ TSlot' = TSlot /\ WSlot' = WSlot
    BY <1>10, CtlAdvanceSlots
  <2>3. /\ RSlot # WSlot /\ RSlot # TSlot /\ Published > 0 /\ Head(Contents) = got
    BY <2>1, <1>7
  <2>4. Contents' = Tail(Contents) /\ Published' = Published - 1
    BY <2>2, <2>3, <1>3, <1>4, <1>5, RunTail
  <2>5. TxSpec!Take
    BY <2>1, <2>3, <2>4, <1>1, <1>6 DEF TxSpec!Take
  <2> QED BY <2>5 DEF TxSpec!Next
<1> QED BY <1>8, <1>9, <1>10 DEF ControllerStep

(* Every step is a step of the abstract queue, or is hidden there. *)
LEMMA TxSimulation ==
  ASSUME Quiet
  PROVE  TxInv /\ TxInv' /\ [Next]_vars => [TxSpec!Next]_(TxSpec!vars)
<1> SUFFICES ASSUME TxInv, TxInv', [Next]_vars PROVE [TxSpec!Next]_(TxSpec!vars)
  OBVIOUS
<1>1. CASE DriverStep
  BY <1>1, CallSimulation, WriteSimulation, WriteIndexSimulation, FindFirstSimulation,
     MoveSimulation, MarkSimulation, ResetSimulation DEF DriverStep
<1>2. CASE Publish \/ ControllerStep
  BY <1>2, PublishSimulation, ControllerSimulation
<1>3. CASE UNCHANGED vars
  <2>1. UNCHANGED <<queue, slot, header, dvars, fvars>>
    BY <1>3 DEF vars
  <2>2. UNCHANGED <<pc, ridx, tmp, got>>
    BY <2>1 DEF dvars, fvars
  <2>3. Settled' = Settled
    BY <2>1, <2>2 DEF Settled, Second, AfterOffset
  <2>4. Contents' = Contents /\ Published' = Published
    BY <2>1, <2>2, <2>3 DEF Contents, Published, ToDefault, WrPtr, header
  <2> QED BY <2>1, <2>2, <2>4, Hidden
<1> QED BY <1>1, <1>2, <1>3 DEF Next

(* The ring with its working index, its edits and its reset is the queue   *)
(* of HwFenceTxSpec, for every length of the ring, every size of a payload *)
(* and every way of counting indexes, if it is left alone while the driver *)
(* edits or resets it.                                                     *)
THEOREM TxRefinesTxSpec == ASSUME Quiet PROVE Spec => RefinesTxSpec
<1>1. Init => TxSpec!Init
  <2> SUFFICES ASSUME Init PROVE TxSpec!Init
    OBVIOUS
  <2>1. TypeOK /\ RSlot \in Slots /\ pc = "idle" /\ got = NoPayload
    BY TxTypeInit, IndexSlots DEF TxType, Init
  <2>2. RSlot = WSlot /\ TSlot = WSlot
    BY DEF Init, RSlot, WSlot, TSlot, WrPtr
  <2>3. Contents = <<>> /\ Published = 0
    BY <2>1, <2>2, ContentsForm, RunEmpty
  <2>4. queue.skip_wr_idx \in BOOLEAN /\ (pc = "full") = FALSE
    BY <2>1 DEF TypeOK, Queues
  <2> QED BY <2>1, <2>3, <2>4 DEF TxSpec!Init
<1> QED BY <1>1, TxInvariance, TxSimulation, PTL DEF Spec, RefinesTxSpec, TxSpec!Spec
=============================================================================
