--------------------------- MODULE HwFenceRxQueue ---------------------------
(***************************************************************************)
(* The Rx queue of one client: a ring of payload slots in shared memory.   *)
(* Driver threads (hw_fence_update_queue) and the fence controller append  *)
(* to it, under the client's lock word; the client reads it without a lock *)
(* (hw_fence_read_queue_helper) and resets it (hw_fence_utils_reset_queues)*)
(* when it recovers.                                                       *)
(*                                                                         *)
(* Indexes count payloads (the queue is a whole number of payloads long,   *)
(* and an Rx queue never needs index translation).  A payload is stored in *)
(* two halves, so that a reader could see a torn one.  The lock word is    *)
(* the mutual exclusion that HwFenceLock establishes.                      *)
(***************************************************************************)
EXTENDS Naturals, Sequences

CONSTANTS
  Writers,      \* driver threads, and the fence controller
  Payload,      \* payload values
  Entries,      \* queue_entries of the client
  NoPayload,    \* content of a slot never written
  None          \* no owner

ASSUME RxAssumption ==
  /\ Entries \in Nat \ {0}
  /\ NoPayload \notin Payload
  /\ None \notin Writers \union {"client"}
  /\ "client" \notin Writers

VARIABLES
  slot,         \* the two halves of each payload in the ring
  read_index, write_index,
  owner,        \* holder of client_lock_tbl[client_id - 1]
  pc,           \* where each writer is
  idx,          \* the write index each writer read
  msg,          \* the payload each writer appends
  cpc,          \* where the client is
  cidx,         \* the read index the client read
  got,          \* the payload the client has copied
  out,          \* payload returned by the client's last read
  refused       \* some payload did not fit

vars == <<slot, read_index, write_index, owner, pc, idx, msg, cpc, cidx,
          got, out, refused>>

Client == "client"
Slots == 0 .. Entries - 1
Halves == [a : Payload \union {NoPayload}, b : Payload \union {NoPayload}]

TypeOK ==
  /\ slot \in [Slots -> Halves]
  /\ read_index \in Slots /\ write_index \in Slots
  /\ owner \in Writers \union {Client, None}
  /\ pc \in [Writers -> {"idle", "check", "first", "second", "index", "unlock"}]
  /\ idx \in [Writers -> Slots]
  /\ msg \in [Writers -> Payload \union {NoPayload}]
  /\ cpc \in {"idle", "copy", "advance", "reset", "unlock"}
  /\ cidx \in Slots
  /\ got \in Halves /\ out \in Halves
  /\ refused \in BOOLEAN

\* init_hw_fences_queues() over zeroed shared memory.
Init ==
  /\ slot = [i \in Slots |-> [a |-> NoPayload, b |-> NoPayload]]
  /\ read_index = 0 /\ write_index = 0
  /\ owner = None
  /\ pc = [w \in Writers |-> "idle"]
  /\ idx = [w \in Writers |-> 0]
  /\ msg = [w \in Writers |-> NoPayload]
  /\ cpc = "idle" /\ cidx = 0
  /\ got = [a |-> NoPayload, b |-> NoPayload]
  /\ out = got
  /\ refused = FALSE

-----------------------------------------------------------------------------
(* Index arithmetic. *)

\* Faulty variant of After: wraps only past the end.
AfterOffByOne(i) == IF i + 1 > Entries THEN 0 ELSE i + 1

\* The index after one payload, with the wrap-around.
After(i) == IF i + 1 >= Entries THEN 0 ELSE i + 1

\* Payload slots between the write and the read index.
Free(r, w) == IF r <= w THEN Entries - (w - r) ELSE r - w

\* Faulty variant of Fits: lets the write index catch up with the read index.
FitsWhenFull(r, w) == Free(r, w) >= 1

\* The message fits: one slot always stays free.
Fits(r, w) == Free(r, w) > 1

-----------------------------------------------------------------------------
(* hw_fence_update_queue() on the Rx queue. *)

Goto(w, from, to) == pc[w] = from /\ pc' = [pc EXCEPT ![w] = to]

cvars == <<cpc, cidx, got, out>>

\* Faulty variant of UpdateLock: the Rx queue is not locked.
UpdateLockNothing(w, m) ==
  /\ Goto(w, "idle", "check")
  /\ msg' = [msg EXCEPT ![w] = m]
  /\ UNCHANGED <<slot, read_index, write_index, owner, idx, refused, cvars>>

UpdateLock(w, m) ==
  /\ owner = None
  /\ owner' = w
  /\ Goto(w, "idle", "check")
  /\ msg' = [msg EXCEPT ![w] = m]
  /\ UNCHANGED <<slot, read_index, write_index, idx, refused, cvars>>

\* Read both indexes; the message that does not fit is dropped.
UpdateCheck(w) ==
  /\ idx' = [idx EXCEPT ![w] = write_index]
  /\ \/ /\ Fits(read_index, write_index)
        /\ Goto(w, "check", "first")
        /\ UNCHANGED refused
     \/ /\ ~Fits(read_index, write_index)
        /\ Goto(w, "check", "unlock")
        /\ refused' = TRUE
  /\ UNCHANGED <<slot, read_index, write_index, owner, msg, cvars>>

\* Stores of size .. hash.
UpdateFirst(w) ==
  /\ Goto(w, "first", "second")
  /\ slot' = [slot EXCEPT ![idx[w]].a = msg[w]]
  /\ UNCHANGED <<read_index, write_index, owner, idx, msg, refused, cvars>>

\* Stores of flags .. timestamp_hi.
UpdateSecond(w) ==
  /\ Goto(w, "second", "index")
  /\ slot' = [slot EXCEPT ![idx[w]].b = msg[w]]
  /\ UNCHANGED <<read_index, write_index, owner, idx, msg, refused, cvars>>

\* After wmb(): publish the payload.
UpdateIndex(w) ==
  /\ Goto(w, "index", "unlock")
  /\ write_index' = After(idx[w])
  /\ UNCHANGED <<slot, read_index, owner, idx, msg, refused, cvars>>

UpdateUnlock(w) ==
  /\ Goto(w, "unlock", "idle")
  /\ owner' = None
  /\ UNCHANGED <<slot, read_index, write_index, idx, msg, refused, cvars>>

-----------------------------------------------------------------------------
(* The client: hw_fence_read_queue_helper() and the Rx half of             *)
(* hw_fence_utils_reset_queues().  It is one thread of control.            *)

wvars == <<pc, idx, msg, refused>>

\* Read both indexes; with nothing to read the call fails at once.
ReadIndexes ==
  /\ cpc = "idle"
  /\ read_index # write_index
  /\ cidx' = read_index
  /\ cpc' = "copy"
  /\ UNCHANGED <<slot, read_index, write_index, owner, got, out, wvars>>

ReadCopy ==
  /\ cpc = "copy"
  /\ got' = slot[cidx]
  /\ cpc' = "advance"
  /\ UNCHANGED <<slot, read_index, write_index, owner, cidx, out, wvars>>

\* Store the read index and return the payload.
ReadAdvance ==
  /\ cpc = "advance"
  /\ read_index' = After(cidx)
  /\ out' = got
  /\ cpc' = "idle"
  /\ UNCHANGED <<slot, write_index, owner, cidx, got, wvars>>

\* Faulty variant of ResetLock: does not take the client lock.
ResetLockNothing ==
  /\ cpc = "idle"
  /\ cpc' = "reset"
  /\ UNCHANGED <<slot, read_index, write_index, owner, cidx, got, out, wvars>>

ResetLock ==
  /\ cpc = "idle"
  /\ owner = None
  /\ owner' = Client
  /\ cpc' = "reset"
  /\ UNCHANGED <<slot, read_index, write_index, cidx, got, out, wvars>>

ResetIndex ==
  /\ cpc = "reset"
  /\ write_index' = read_index
  /\ cpc' = "unlock"
  /\ UNCHANGED <<slot, read_index, owner, cidx, got, out, wvars>>

ResetUnlock ==
  /\ cpc = "unlock"
  /\ owner' = None
  /\ cpc' = "idle"
  /\ UNCHANGED <<slot, read_index, write_index, cidx, got, out, wvars>>

-----------------------------------------------------------------------------

WriterStep(w) ==
  \/ \E m \in Payload : UpdateLock(w, m)
  \/ UpdateCheck(w) \/ UpdateFirst(w) \/ UpdateSecond(w) \/ UpdateIndex(w)
  \/ UpdateUnlock(w)

ClientStep ==
  \/ ReadIndexes \/ ReadCopy \/ ReadAdvance
  \/ ResetLock \/ ResetIndex \/ ResetUnlock

Next == (\E w \in Writers : WriterStep(w)) \/ ClientStep

Spec == Init /\ [][Next]_vars

-----------------------------------------------------------------------------
(* Properties. *)

Used == Entries - Free(read_index, write_index)

(* The payloads between the read and the write index, oldest first. *)
Contents ==
  [i \in 1 .. Used |->
     slot[IF read_index + i - 1 >= Entries
          THEN read_index + i - 1 - Entries
          ELSE read_index + i - 1]]

(* The ring is a first-in first-out queue of Entries - 1 whole payloads,   *)
(* however writers, reader and reset interleave: a put takes effect when   *)
(* the write index is stored, a read when the read index is stored.        *)
Whole == {[a |-> m, b |-> m] : m \in Payload}

Fifo == INSTANCE HwFenceFifo
          WITH Payload <- Whole, Capacity <- Entries - 1,
               NoPayload <- [a |-> NoPayload, b |-> NoPayload],
               q <- Contents

RefinesFifo == Fifo!Spec

Writing(w) == pc[w] \in {"first", "second", "index"}

(* A writer between its check and its store of the write index works on    *)
(* the slot at the write index, and that slot is not one the reader may    *)
(* look at: the write index never reaches the read index from behind.      *)
WriterOwnsSlot ==
  \A w \in Writers :
    Writing(w) =>
      /\ owner = w
      /\ idx[w] = write_index
      /\ After(write_index) # read_index

-----------------------------------------------------------------------------
(* The invariant behind them. *)

\* The lock is held by who is between lock and unlock.
LockInv ==
  /\ \A w \in Writers : owner = w <=> pc[w] # "idle"
  /\ owner = Client <=> cpc \in {"reset", "unlock"}

\* A writer fills the slot at the write index, half by half.
WriterInv ==
  \A w \in Writers :
    /\ pc[w] # "idle" => msg[w] \in Payload
    /\ Writing(w) => idx[w] = write_index /\ After(write_index) # read_index
    /\ pc[w] \in {"second", "index"} => slot[write_index].a = msg[w]
    /\ pc[w] = "index" => slot[write_index].b = msg[w]

\* The reader is at the oldest payload, which stays as it is.
ReaderInv ==
  /\ cpc \in {"copy", "advance"} => cidx = read_index /\ read_index # write_index
  /\ cpc = "advance" => got = slot[read_index]

RxInv == TypeOK /\ LockInv /\ WriterInv /\ ReaderInv
=============================================================================
