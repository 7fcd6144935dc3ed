-------------------------- MODULE HwFenceLockProofs --------------------------
(***************************************************************************)
(* The safety of the inter-VM lock for any set of driver threads.  Inv is  *)
(* inductive: the lock bits say who the owner is (BitsTellOwner), and an   *)
(* armed exclusive monitor says that the value read is still the value in  *)
(* memory (MonitorFresh), which is what makes the two STXRs safe.          *)
(***************************************************************************)
EXTENDS HwFenceLock, TLAPS

(* The zeroed lock word satisfies the invariant. *)
LEMMA InitInv == Init => Inv
BY DEF Init, Inv, TypeOK, BitsTellOwner, MonitorFresh, MutualExclusion,
       NoLostWakeup, Holds, Pcs, SvmPcs

(* Every instruction of _lock() and _unlock() and every step of the SVM    *)
(* preserves the invariant.                                                *)
LEMMA NextInv == Inv /\ [Next]_vars => Inv'
<1> SUFFICES ASSUME Inv, [Next]_vars PROVE Inv'
  OBVIOUS
<1> USE DEF Inv, TypeOK, BitsTellOwner, MonitorFresh, MutualExclusion,
            NoLostWakeup, Holds, Pcs, SvmPcs, Goto
<1>1. ASSUME NEW p \in PVM, LockEnter(p) PROVE Inv'
  BY <1>1 DEF LockEnter
<1>2. ASSUME NEW p \in PVM, LockLoad(p) PROVE Inv'
  BY <1>2 DEF LockLoad, LoadExclusive
<1>3. ASSUME NEW p \in PVM, LockStore(p) PROVE Inv'
  BY <1>3 DEF LockStore, StoreExclusive
<1>4. ASSUME NEW p \in PVM, LockStoreFails(p) PROVE Inv'
  BY <1>4 DEF LockStoreFails, StoreFails
<1>5. ASSUME NEW p \in PVM, UnlockEnter(p) PROVE Inv'
  BY <1>5 DEF UnlockEnter
<1>6. ASSUME NEW p \in PVM, UnlockLoad(p) PROVE Inv'
  BY <1>6 DEF UnlockLoad, LoadExclusive
<1>7. ASSUME NEW p \in PVM, UnlockStore(p) PROVE Inv'
  BY <1>7 DEF UnlockStore, StoreExclusive
<1>8. ASSUME NEW p \in PVM, UnlockStoreFails(p) PROVE Inv'
  BY <1>8 DEF UnlockStoreFails, StoreFails
<1>9. ASSUME NEW p \in PVM, UnlockRead(p) PROVE Inv'
  BY <1>9 DEF UnlockRead
<1>10. ASSUME NEW p \in PVM, MonitorLost(p) PROVE Inv'
  BY <1>10 DEF MonitorLost
<1>11. CASE SvmAcquire
  BY <1>11 DEF SvmAcquire, SvmStore
<1>12. CASE SvmTest
  BY <1>12 DEF SvmTest
<1>13. CASE SvmWake
  BY <1>13 DEF SvmWake
<1>14. CASE SvmRelease
  BY <1>14 DEF SvmRelease, SvmStore
<1>15. CASE UNCHANGED vars
  BY <1>15 DEF vars
<1>. QED
  BY <1>1, <1>2, <1>3, <1>4, <1>5, <1>6, <1>7, <1>8, <1>9, <1>10, <1>11,
     <1>12, <1>13, <1>14, <1>15 DEF Next, PvmStep, SvmStep

(* Inv holds in every reachable state of the lock. *)
THEOREM Invariance == Spec => []Inv
BY InitInv, NextInv, PTL DEF Spec

(* For any number of driver threads, a table entry or queue guarded by the *)
(* lock word has at most one owner, PVM or SVM.                            *)
THEOREM LockMutualExclusion == Spec => []MutualExclusion
<1>1. Inv => MutualExclusion
  BY DEF Inv
<1>. QED
  BY <1>1, Invariance, PTL

(* For any number of driver threads, the SVM never sleeps with nobody left *)
(* to trigger its wake-up signal.                                          *)
THEOREM LockNoLostWakeup == Spec => []NoLostWakeup
<1>1. Inv => NoLostWakeup
  BY DEF Inv
<1>. QED
  BY <1>1, Invariance, PTL

(* No access of the driver removes the SVM's request bit. *)
THEOREM LockRequestKept == Spec => RequestKept
<1> DEFINE Kept == 1 \in lock /\ 1 \notin lock' => svm = "crit"
<1>1. Inv /\ [Next]_vars => [Kept]_vars
  <2> SUFFICES ASSUME Inv, Next, 1 \in lock, 1 \notin lock'
               PROVE  svm = "crit"
    OBVIOUS
  <2>1. CASE \E p \in PVM : PvmStep(p)
    <3> PICK p \in PVM : PvmStep(p)
      BY <2>1
    <3> QED
      BY DEF Inv, TypeOK, MonitorFresh, PvmStep, LockEnter, LockLoad,
             LockStore, LockStoreFails, UnlockEnter, UnlockLoad, UnlockStore,
             UnlockStoreFails, UnlockRead, MonitorLost, LoadExclusive,
             StoreExclusive, StoreFails, Goto
  <2>2. CASE SvmStep
    BY <2>2 DEF Inv, TypeOK, SvmStep, SvmAcquire, SvmTest, SvmWake,
                SvmRelease, SvmStore
  <2>. QED
    BY <2>1, <2>2 DEF Next
<1>. QED
  BY <1>1, Invariance, PTL DEF Spec, RequestKept
=============================================================================
