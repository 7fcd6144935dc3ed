--------------------------- MODULE MCHwFenceLock ---------------------------
(* HwFenceLock for TLC: three driver threads that contend with the SVM. *)
EXTENDS HwFenceLock
=============================================================================
