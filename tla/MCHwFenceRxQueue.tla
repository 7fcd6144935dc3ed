------------------------- MODULE MCHwFenceRxQueue -------------------------
(* HwFenceRxQueue for TLC: a driver thread and the fence controller write   *)
(* to a queue of four entries.                                             *)
EXTENDS HwFenceRxQueue, TLC

WriterSymmetry == Permutations(Writers) \union Permutations(Payload)
=============================================================================
