--------------------------- MODULE MCHwFenceTable ---------------------------
(* HwFenceTable for TLC: a table of three entries and four keys, two of     *)
(* which have the same first hash; the second of these belongs to a fence   *)
(* array.                                                                   *)
EXTENDS HwFenceTable, TLC

MCKeys == {[ctx |-> 1, seq |-> 1], [ctx |-> 1, seq |-> 4],
           [ctx |-> 1, seq |-> 2], [ctx |-> 2, seq |-> 1]}
MCSharedKeys == {[ctx |-> 1, seq |-> 4]}

MCSymmetry == Permutations(Threads) \union Permutations(Clients)
=============================================================================
