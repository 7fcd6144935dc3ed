----------------------------- MODULE HwFenceFifo -----------------------------
(***************************************************************************)
(* What a client queue promises to its writers and to its reader: a        *)
(* bounded first-in first-out queue of whole payloads.  A payload is       *)
(* refused only when Capacity payloads are waiting; a reset empties the    *)
(* queue.                                                                  *)
(***************************************************************************)
EXTENDS Naturals, Sequences

CONSTANTS Payload, Capacity, NoPayload

VARIABLES
  q,          \* payloads that wait to be read, oldest first
  out,        \* payload the last read returned
  refused     \* some payload has been refused

vars == <<q, out, refused>>

Init == q = <<>> /\ out = NoPayload /\ refused = FALSE

Put == /\ Len(q) < Capacity
       /\ \E m \in Payload : q' = Append(q, m)
       /\ UNCHANGED <<out, refused>>

Refuse == /\ Len(q) = Capacity
          /\ refused' = TRUE
          /\ UNCHANGED <<q, out>>

Get == /\ q # <<>>
       /\ out' = Head(q)
       /\ q' = Tail(q)
       /\ UNCHANGED refused

Clear == q' = <<>> /\ UNCHANGED <<out, refused>>

Next == Put \/ Refuse \/ Get \/ Clear

Spec == Init /\ [][Next]_vars
=============================================================================
