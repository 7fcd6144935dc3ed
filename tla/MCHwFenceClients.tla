-------------------------- MODULE MCHwFenceClients --------------------------
(* HwFenceClients for TLC. *)
EXTENDS HwFenceClients
=============================================================================
