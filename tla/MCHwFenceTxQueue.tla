-------------------------- MODULE MCHwFenceTxQueue --------------------------
(* HwFenceTxQueue for TLC. *)
EXTENDS HwFenceTxQueue, TLC

HandleSymmetry == Permutations(Handle)
=============================================================================
