----------------------------- MODULE HwFenceLock -----------------------------
(***************************************************************************)
(* The lock word that guards every shared hw-fence table entry and every   *)
(* client Rx queue.  It is shared between the kernel driver (the PVM, which *)
(* runs on several CPUs) and the fence controller (the SVM):               *)
(*                                                                         *)
(*   bit 0  set by the PVM thread that holds the lock                      *)
(*   bit 1  set by the SVM when it wants, or has, the lock                 *)
(*                                                                         *)
(* The word is modelled as the set of its bits that are 1.  The PVM side is *)
(* the assembly of _lock() and _unlock() one exclusive access at a time:   *)
(* mon[p] is the exclusive monitor of the CPU of p, which any store to the *)
(* word clears and which an interrupt may clear.  The SVM side is not in   *)
(* this repository; it is what the comments and the wake-up of _unlock()   *)
(* rely on: it sets bit 1, waits for bit 0 to be clear, and while it waits *)
(* it sleeps until a latched interrupt (IPC signal 30) arrives.            *)
(***************************************************************************)

CONSTANT PVM      \* driver threads that use this lock word

VARIABLES
  lock,           \* set of the bits of the lock word that are 1
  pc,             \* where each driver thread is
  reg,            \* value each driver thread read with its last LDAXR
  mon,            \* exclusive monitor of each driver thread's CPU
  svm,            \* where the SVM is
  irq             \* IPC signal 30 is pending at the SVM

vars == <<lock, pc, reg, mon, svm, irq>>

Pcs    == {"idle", "lock_load", "lock_store", "crit",
           "unlock_load", "unlock_store", "unlock_read"}
SvmPcs == {"idle", "test", "wfi", "crit"}

TypeOK ==
  /\ lock \in SUBSET {0, 1}
  /\ pc \in [PVM -> Pcs]
  /\ reg \in [PVM -> SUBSET {0, 1}]
  /\ mon \in [PVM -> BOOLEAN]
  /\ svm \in SvmPcs
  /\ irq \in BOOLEAN

\* init_global_locks(): the lock memory is zeroed.
Init ==
  /\ lock = {}
  /\ pc = [p \in PVM |-> "idle"]
  /\ reg = [p \in PVM |-> {}]
  /\ mon = [p \in PVM |-> FALSE]
  /\ svm = "idle"
  /\ irq = FALSE

-----------------------------------------------------------------------------
(* One access of p to the lock word. *)

\* LDAXR: read the word and arm the monitor.
LoadExclusive(p) ==
  /\ reg' = [reg EXCEPT ![p] = lock]
  /\ mon' = [mon EXCEPT ![p] = TRUE]
  /\ UNCHANGED lock

\* STXR that succeeds: the store disarms every CPU's monitor.
StoreExclusive(p, val) ==
  /\ mon[p]
  /\ lock' = val
  /\ mon' = [q \in PVM |-> FALSE]
  /\ UNCHANGED reg

\* STXR whose monitor was lost: nothing is stored.
StoreFails(p) ==
  /\ ~mon[p]
  /\ UNCHANGED <<lock, reg, mon>>

Goto(p, from, to) == pc[p] = from /\ pc' = [pc EXCEPT ![p] = to]

-----------------------------------------------------------------------------
(* _lock(): spin until the whole word is zero, then store bit 0. *)

\* global_atomic_store(lock, 1): preempt_disable() and enter _lock().
LockEnter(p) ==
  /\ Goto(p, "idle", "lock_load")
  /\ UNCHANGED <<lock, reg, mon, svm, irq>>

\* Faulty variant of LockLoad: tests bit 0 alone, not the whole word.
LockLoadBit0Only(p) ==
  /\ LoadExclusive(p)
  /\ Goto(p, "lock_load", IF 0 \notin lock THEN "lock_store" ELSE "lock_load")
  /\ UNCHANGED <<svm, irq>>

\* LDAXR and CBNZ: another turn of the loop while any bit is set.
LockLoad(p) ==
  /\ LoadExclusive(p)
  /\ Goto(p, "lock_load", IF lock = {} THEN "lock_store" ELSE "lock_load")
  /\ UNCHANGED <<svm, irq>>

LockStore(p) ==
  /\ StoreExclusive(p, {0})
  /\ Goto(p, "lock_store", "crit")
  /\ UNCHANGED <<svm, irq>>

LockStoreFails(p) ==
  /\ StoreFails(p)
  /\ Goto(p, "lock_store", "lock_load")
  /\ UNCHANGED <<svm, irq>>

-----------------------------------------------------------------------------
(* _unlock(): clear bit 0, keep bit 1, then wake the SVM if bit 1 is set. *)

UnlockEnter(p) ==
  /\ Goto(p, "crit", "unlock_load")
  /\ UNCHANGED <<lock, reg, mon, svm, irq>>

UnlockLoad(p) ==
  /\ LoadExclusive(p)
  /\ Goto(p, "unlock_load", "unlock_store")
  /\ UNCHANGED <<svm, irq>>

\* Faulty variant of UnlockStore: the store is not exclusive.
UnlockStorePlain(p) ==
  /\ lock' = reg[p] \ {0}
  /\ mon' = [q \in PVM |-> FALSE]
  /\ Goto(p, "unlock_store", "unlock_read")
  /\ UNCHANGED <<reg, svm, irq>>

UnlockStore(p) ==
  /\ StoreExclusive(p, reg[p] \ {0})
  /\ Goto(p, "unlock_store", "unlock_read")
  /\ UNCHANGED <<svm, irq>>

UnlockStoreFails(p) ==
  /\ StoreFails(p)
  /\ Goto(p, "unlock_store", "unlock_load")
  /\ UNCHANGED <<svm, irq>>

\* Faulty variant of UnlockRead: the wake-up tests the wrong bit.
UnlockReadWrongBit(p) ==
  /\ Goto(p, "unlock_read", "idle")
  /\ irq' = (irq \/ 0 \in lock)
  /\ UNCHANGED <<lock, reg, mon, svm>>

\* The plain read of the word after mb(), and the IPC when bit 1 is set.
UnlockRead(p) ==
  /\ Goto(p, "unlock_read", "idle")
  /\ irq' = (irq \/ 1 \in lock)
  /\ UNCHANGED <<lock, reg, mon, svm>>

\* An interrupt between LDAXR and STXR clears the monitor.
MonitorLost(p) ==
  /\ mon[p]
  /\ mon' = [mon EXCEPT ![p] = FALSE]
  /\ UNCHANGED <<lock, pc, reg, svm, irq>>

-----------------------------------------------------------------------------
(* The SVM (external). *)

SvmStore(val) == lock' = val /\ mon' = [q \in PVM |-> FALSE]

SvmAcquire ==
  /\ svm = "idle"
  /\ SvmStore(lock \union {1})
  /\ svm' = "test"
  /\ UNCHANGED <<pc, reg, irq>>

SvmTest ==
  /\ svm = "test"
  /\ svm' = IF 0 \in lock THEN "wfi" ELSE "crit"
  /\ UNCHANGED <<lock, pc, reg, mon, irq>>

SvmWake ==
  /\ svm = "wfi"
  /\ irq
  /\ irq' = FALSE
  /\ svm' = "test"
  /\ UNCHANGED <<lock, pc, reg, mon>>

SvmRelease ==
  /\ svm = "crit"
  /\ SvmStore(lock \ {1})
  /\ svm' = "idle"
  /\ UNCHANGED <<pc, reg, irq>>

-----------------------------------------------------------------------------

PvmStep(p) ==
  \/ LockEnter(p) \/ LockLoad(p) \/ LockStore(p) \/ LockStoreFails(p)
  \/ UnlockEnter(p) \/ UnlockLoad(p) \/ UnlockStore(p)
  \/ UnlockStoreFails(p) \/ UnlockRead(p) \/ MonitorLost(p)

SvmStep == SvmAcquire \/ SvmTest \/ SvmWake \/ SvmRelease

Next == (\E p \in PVM : PvmStep(p)) \/ SvmStep

Spec == Init /\ [][Next]_vars

(* A thread that has the lock runs with preemption disabled, so it goes on *)
(* to the end of _unlock(); an exclusive pair that is retried for ever     *)
(* succeeds in the end (strong fairness), as the architecture promises.    *)
(* Nobody has to ask for the lock, and nothing is assumed of _lock().      *)
Fairness ==
  /\ \A p \in PVM :
       /\ WF_vars(UnlockEnter(p) \/ UnlockLoad(p) \/ UnlockStoreFails(p)
                    \/ UnlockRead(p))
       /\ SF_vars(UnlockStore(p))
  /\ WF_vars(SvmTest \/ SvmWake)

FairSpec == Spec /\ Fairness

-----------------------------------------------------------------------------
(* Properties. *)

Holds(p) == pc[p] \in {"crit", "unlock_load", "unlock_store"}

(* At most one owner: no two driver threads are between _lock() and the    *)
(* store of _unlock(), and none is while the SVM is in its critical        *)
(* section.  This is what "lock" of struct msm_hw_fence is there for.      *)
MutualExclusion ==
  /\ \A p, q \in PVM : Holds(p) /\ Holds(q) => p = q
  /\ svm = "crit" => \A p \in PVM : ~Holds(p)

(* No lost wake-up: whenever the SVM sleeps and no signal is pending, some *)
(* driver thread still has the read of the lock word and the IPC trigger   *)
(* of _unlock() ahead of it, and the SVM's request bit is still there for  *)
(* it to see.                                                              *)
NoLostWakeup ==
  svm = "wfi" /\ ~irq =>
     /\ 1 \in lock
     /\ \E p \in PVM : Holds(p) \/ pc[p] = "unlock_read"

(* The SVM's request survives every access of the driver: only the SVM     *)
(* takes its bit back.  _unlock() must not write back a stale copy of the  *)
(* word it read before the SVM set bit 1.                                  *)
RequestKept == [][1 \in lock /\ 1 \notin lock' => svm = "crit"]_vars

(* Once the SVM has set its bit it gets the lock, whatever the driver      *)
(* threads do: they spin on the whole word, so none can overtake it.       *)
SvmServed == svm = "test" ~> svm = "crit"

-----------------------------------------------------------------------------
(* The inductive invariant behind the safety properties. *)

(* Bit 0 says that a driver thread holds the lock, bit 1 that the SVM asks *)
(* for it or has it, and the SVM only runs while bit 0 is clear.           *)
BitsTellOwner ==
  /\ 0 \in lock <=> \E p \in PVM : Holds(p)
  /\ 1 \in lock <=> svm # "idle"
  /\ svm = "crit" => 0 \notin lock

(* An armed monitor means that what was read is still what is there. *)
MonitorFresh ==
  \A p \in PVM :
    mon[p] => /\ pc[p] = "lock_store" => lock = {}
              /\ pc[p] = "unlock_store" => lock = reg[p]

Inv == TypeOK /\ BitsTellOwner /\ MonitorFresh /\ MutualExclusion /\ NoLostWakeup

=============================================================================
