----------------------------- MODULE MCSpecSync -----------------------------
(* SpecSync for TLC. *)
EXTENDS SpecSync
=============================================================================
