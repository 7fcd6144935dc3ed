--------------------------- MODULE HwFenceTxQueue ---------------------------
(***************************************************************************)
(* The Tx queue of one client: the ring through which the client hands its *)
(* fences to the fence controller.  One thread of the client's driver      *)
(* appends (msm_hw_fence_update_txq), gives an error to a fence that       *)
(* already waits (msm_hw_fence_update_txq_error) and resets the queue      *)
(* (hw_fence_utils_reset_queues); no lock is taken.  The fence controller  *)
(* takes payloads up to write_index.  With skip_wr_idx the driver only     *)
(* advances tx_wm, and the hardware of the client stores write_index when  *)
(* its work is done.                                                       *)
(*                                                                         *)
(* Indexes in shared memory may start at an offset and count payloads or   *)
(* dwords; the driver works on dword offsets into the ring.  A payload is  *)
(* what the properties tell apart: its fence and its error.                *)
(***************************************************************************)
EXTENDS Naturals, Sequences

CONSTANTS
  Handle,       \* fences: indexes in the fence table
  Entries,      \* queue_entries of the client
  PayloadSize,  \* dwords of a payload
  IdxStarts,    \* possible txq_idx_start
  AppendErrors, \* errors with which fences are handed over (display: FALSE)
  Quiet,        \* is the queue left alone while the driver edits or resets it?
  NoHandle      \* content of a slot never written

ASSUME TxAssumption ==
  /\ Entries \in Nat \ {0}
  /\ PayloadSize \in Nat \ {0}
  /\ IdxStarts \subseteq Nat
  /\ AppendErrors \subseteq BOOLEAN
  /\ Quiet \in BOOLEAN
  /\ NoHandle \notin Handle

VARIABLES
  queue,        \* rd_wr_idx_start, rd_wr_idx_factor, skip_wr_idx; never change
  slot,         \* the payload at each offset of the ring
  read_index, write_index, tx_wm,     \* fields of the queue header
  pc,           \* where the client's driver thread is
  msg,          \* payload that thread works on
  ridx, widx,   \* the indexes it read
  tmp,          \* the payload it moves
  fpc, fidx, got   \* the fence controller: place, index and payload it read

header == <<read_index, write_index, tx_wm>>
dvars == <<pc, msg, ridx, widx, tmp>>
fvars == <<fpc, fidx, got>>
vars == <<queue, slot, header, dvars, fvars>>

Size == Entries * PayloadSize
Offsets == {k * PayloadSize : k \in 0 .. Entries - 1}
Payload == [hash : Handle \union {NoHandle}, error : BOOLEAN]
NoPayload == [hash |-> NoHandle, error |-> FALSE]

-----------------------------------------------------------------------------
(* Indexes. *)

\* IDX_TRANSLATE_DEFAULT_TO_CUSTOM; the identity for start 0 and factor 1.
ToCustom(o) == (o \div queue.rd_wr_idx_factor) + queue.rd_wr_idx_start

\* IDX_TRANSLATE_CUSTOM_TO_DEFAULT.
ToDefault(i) == (i - queue.rd_wr_idx_start) * queue.rd_wr_idx_factor

\* The offset after one payload, with the wrap-around.
AfterOffset(o) == IF o + PayloadSize >= Size THEN 0 ELSE o + PayloadSize

\* Dwords from one offset to another, going round the ring.
Ahead(r, w) == IF r <= w THEN w - r ELSE Size - (r - w)

\* Faulty variant of Fits: lets the ring become completely full.
FitsExactly(r, w) == Size - Ahead(r, w) >= PayloadSize

\* q_free_u32 > payload_size_u32
Fits(r, w) == Size - Ahead(r, w) > PayloadSize

\* What wr_ptr points to.
WrPtr == IF queue.skip_wr_idx THEN tx_wm ELSE write_index

\* Faulty variant of StoreWrPtr: keeps tx_wm although it is not in use.
StoreBoth(i) == write_index' = i /\ tx_wm' = i

StoreWrPtr(i) ==
  IF queue.skip_wr_idx
    THEN tx_wm' = i /\ UNCHANGED write_index
    ELSE write_index' = i /\ UNCHANGED tx_wm

-----------------------------------------------------------------------------

Queues == [rd_wr_idx_start : IdxStarts, rd_wr_idx_factor : {1, PayloadSize},
           skip_wr_idx : BOOLEAN]

\* init_hw_fences_queues() over zeroed shared memory.
Init ==
  /\ queue \in Queues
  /\ slot = [o \in Offsets |-> NoPayload]
  /\ read_index = queue.rd_wr_idx_start
  /\ write_index = queue.rd_wr_idx_start
  /\ tx_wm = IF queue.skip_wr_idx THEN queue.rd_wr_idx_start ELSE 0
  /\ pc = "idle"
  /\ msg = NoPayload /\ ridx = 0 /\ widx = 0 /\ tmp = NoPayload
  /\ fpc = "idle" /\ fidx = 0 /\ got = NoPayload

Goto(from, to) == pc = from /\ pc' = to

\* Local variables end with the call.
Return(from) ==
  /\ Goto(from, "idle")
  /\ msg' = NoPayload /\ ridx' = 0 /\ widx' = 0 /\ tmp' = NoPayload

\* The driver changes payloads that wait, or the read index.
Editing == pc \in {"find", "copy", "mark", "restore", "reset_wm", "reset_read"}

\* A caller that needs the queue for itself waits for the controller.
MayEdit == Quiet => fpc = "idle"
Undisturbed == Quiet => ~Editing

-----------------------------------------------------------------------------
(* msm_hw_fence_update_txq(): hw_fence_update_queue() on the Tx queue. *)

\* Offsets from the read index up to wr_ptr.
Waiting ==
  {o \in Offsets : Ahead(ToDefault(read_index), o)
                     < Ahead(ToDefault(read_index), ToDefault(WrPtr))}

\* Read the indexes.  A caller hands over a fence once (txq_updated_fence).
\* The driver side of the queue has no lock: its callers take turns.
UpdateTxq(p) ==
  /\ \A o \in Waiting : slot[o].hash # p.hash
  /\ \/ /\ Fits(ToDefault(read_index), ToDefault(WrPtr))
        /\ Goto("idle", "hash")
        /\ widx' = ToDefault(WrPtr)
        /\ msg' = p
        /\ UNCHANGED <<ridx, tmp>>
     \/ /\ ~Fits(ToDefault(read_index), ToDefault(WrPtr))
        /\ Goto("idle", "full")
        /\ UNCHANGED <<msg, ridx, widx, tmp>>
  /\ UNCHANGED <<queue, slot, header, fvars>>

\* A payload that does not fit is dropped, and the call succeeds.
QueueFull ==
  /\ Return("full")
  /\ UNCHANGED <<queue, slot, header, fvars>>

WriteHash ==
  /\ Goto("hash", "error")
  /\ slot' = [slot EXCEPT ![widx].hash = msg.hash]
  /\ UNCHANGED <<queue, header, msg, ridx, widx, tmp, fvars>>

WriteError ==
  /\ Goto("error", "index")
  /\ slot' = [slot EXCEPT ![widx].error = msg.error]
  /\ UNCHANGED <<queue, header, msg, ridx, widx, tmp, fvars>>

WriteIndex ==
  /\ Return("index")
  /\ StoreWrPtr(ToCustom(AfterOffset(widx)))
  /\ UNCHANGED <<queue, slot, read_index, fvars>>

-----------------------------------------------------------------------------
(* msm_hw_fence_update_txq_error():                                        *)
(* hw_fence_update_existing_txq_payload() with an error that is not 0.     *)

ReadBoth(h) ==
  /\ MayEdit
  /\ Goto("idle", "find")
  /\ msg' = [hash |-> h, error |-> TRUE]
  /\ ridx' = ToDefault(read_index)
  /\ widx' = ToDefault(WrPtr)
  /\ UNCHANGED <<queue, slot, header, tmp, fvars>>

Second == AfterOffset(ridx)

\* The oldest payload matches: set its error in place.
FindFirst ==
  /\ ridx # widx
  /\ slot[ridx].hash = msg.hash
  /\ Return("find")
  /\ slot' = [slot EXCEPT ![ridx].error = msg.error]
  /\ UNCHANGED <<queue, header, fvars>>

SecondMatches == Second # widx /\ slot[Second].hash = msg.hash

\* The second oldest matches: keep the oldest aside.
FindSecond ==
  /\ ridx # widx
  /\ slot[ridx].hash # msg.hash
  /\ SecondMatches
  /\ Goto("find", "copy")
  /\ tmp' = slot[ridx]
  /\ UNCHANGED <<queue, slot, header, msg, ridx, widx, fvars>>

\* Empty queue, or no match in the first two payloads.
FindNothing ==
  /\ ridx = widx \/ (slot[ridx].hash # msg.hash /\ ~SecondMatches)
  /\ Return("find")
  /\ UNCHANGED <<queue, slot, header, fvars>>

CopySecond ==
  /\ Goto("copy", "mark")
  /\ slot' = [slot EXCEPT ![ridx] = slot[Second]]
  /\ UNCHANGED <<queue, header, msg, ridx, widx, tmp, fvars>>

MarkFirst ==
  /\ Goto("mark", "restore")
  /\ slot' = [slot EXCEPT ![ridx].error = msg.error]
  /\ UNCHANGED <<queue, header, msg, ridx, widx, tmp, fvars>>

RestoreSecond ==
  /\ Return("restore")
  /\ slot' = [slot EXCEPT ![Second] = tmp]
  /\ UNCHANGED <<queue, header, fvars>>

-----------------------------------------------------------------------------
(* The Tx half of hw_fence_utils_reset_queues(). *)

ResetRead ==
  /\ MayEdit
  /\ Goto("idle", "reset_wm")
  /\ widx' = write_index
  /\ UNCHANGED <<queue, slot, header, msg, ridx, tmp, fvars>>

\* Faulty variant of ResetWm: leaves tx_wm ahead of write_index.
ResetWmNothing ==
  /\ Goto("reset_wm", "reset_read")
  /\ UNCHANGED <<queue, slot, header, msg, ridx, widx, tmp, fvars>>

ResetWm ==
  /\ Goto("reset_wm", "reset_read")
  /\ tx_wm' = IF queue.skip_wr_idx THEN widx ELSE tx_wm
  /\ UNCHANGED <<queue, slot, read_index, write_index, msg, ridx, widx, tmp,
                 fvars>>

ResetReadIndex ==
  /\ Return("reset_read")
  /\ read_index' = widx
  /\ UNCHANGED <<queue, slot, write_index, tx_wm, fvars>>

-----------------------------------------------------------------------------
(* External: the hardware of the client, and the fence controller. *)

\* The hardware publishes payloads that were appended, in order.
Publish ==
  /\ Undisturbed
  /\ queue.skip_wr_idx
  /\ \E o \in Offsets :
       LET r == ToDefault(read_index) IN
       /\ Ahead(r, ToDefault(write_index)) < Ahead(r, o)
       /\ Ahead(r, o) <= Ahead(r, ToDefault(tx_wm))
       /\ write_index' = ToCustom(o)
  /\ UNCHANGED <<queue, slot, read_index, tx_wm, dvars, fvars>>

CtlIndexes ==
  /\ Undisturbed
  /\ fpc = "idle"
  /\ read_index # write_index
  /\ fidx' = ToDefault(read_index)
  /\ fpc' = "copy"
  /\ UNCHANGED <<queue, slot, header, dvars, got>>

CtlCopy ==
  /\ fpc = "copy"
  /\ got' = slot[fidx]
  /\ fpc' = "advance"
  /\ UNCHANGED <<queue, slot, header, dvars, fidx>>

CtlAdvance ==
  /\ fpc = "advance"
  /\ read_index' = ToCustom(AfterOffset(fidx))
  /\ fpc' = "idle" /\ fidx' = 0 /\ got' = NoPayload
  /\ UNCHANGED <<queue, slot, write_index, tx_wm, dvars>>

-----------------------------------------------------------------------------

DriverStep ==
  \/ \E p \in [hash : Handle, error : AppendErrors] : UpdateTxq(p)
  \/ QueueFull \/ WriteHash \/ WriteError \/ WriteIndex
  \/ \E h \in Handle : ReadBoth(h)
  \/ FindFirst \/ FindSecond \/ FindNothing
  \/ CopySecond \/ MarkFirst \/ RestoreSecond
  \/ ResetRead \/ ResetWm \/ ResetReadIndex

ControllerStep == CtlIndexes \/ CtlCopy \/ CtlAdvance

Next == DriverStep \/ Publish \/ ControllerStep

Spec == Init /\ [][Next]_vars

-----------------------------------------------------------------------------
(* Properties. *)

Custom == {ToCustom(o) : o \in Offsets}

TypeOK ==
  /\ queue \in Queues
  /\ slot \in [Offsets -> Payload]
  /\ read_index \in Custom /\ write_index \in Custom
  /\ tx_wm \in IF queue.skip_wr_idx THEN Custom ELSE {0}
  /\ pc \in {"idle", "full", "hash", "error", "index", "find", "copy", "mark",
             "restore", "reset_wm", "reset_read"}
  /\ msg \in Payload /\ tmp \in Payload
  /\ ridx \in Offsets /\ widx \in Offsets \union Custom
  /\ fpc \in {"idle", "copy", "advance"}
  /\ fidx \in Offsets /\ got \in Payload

(* The published payloads are the oldest ones of those that wait: the     *)
(* write index never overtakes the working index of the driver.           *)
PublishedFirst ==
  LET r == ToDefault(read_index) IN
  Ahead(r, ToDefault(write_index)) <= Ahead(r, ToDefault(WrPtr))

\* The ring as it is once the move in progress is undone or completed.
Settled ==
  IF pc = "mark" THEN [slot EXCEPT ![ridx] = tmp]
  ELSE IF pc = "restore" THEN [slot EXCEPT ![Second] = tmp]
  ELSE slot

Count(r, w) == Ahead(r, w) \div PayloadSize

Contents ==
  LET r == ToDefault(read_index) IN
  IF pc = "reset_read" THEN <<>>
  ELSE [i \in 1 .. Count(r, ToDefault(WrPtr)) |->
          Settled[(r + (i - 1) * PayloadSize) % Size]]

Published ==
  IF pc = "reset_read" THEN 0
  ELSE Count(ToDefault(read_index), ToDefault(write_index))

(* While nobody else touches the queue during an edit or a reset, it is    *)
(* the queue of HwFenceTxSpec: no fence is lost, taken twice, torn or out  *)
(* of turn, an error reaches the controller with its fence, and a fence is *)
(* refused only by a full queue.                                           *)
TxSpec == INSTANCE HwFenceTxSpec
            WITH Capacity <- Entries - 1, q <- Contents,
                 published <- Published, deferred <- queue.skip_wr_idx,
                 refused <- pc = "full", seen <- got

RefinesTxSpec == TxSpec!Spec
=============================================================================
