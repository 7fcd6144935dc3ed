---------------------------- MODULE HwFenceTxSpec ----------------------------
(***************************************************************************)
(* What the Tx queue of a client promises to the client and to the fence   *)
(* controller: the fences the client hands over are taken by the           *)
(* controller one by one, each once, in the order they were handed over,   *)
(* except that one of the two oldest may be given an error and move to the *)
(* front.  The client hardware says how many of them may be taken.         *)
(***************************************************************************)
EXTENDS Naturals, Sequences

CONSTANTS
  Handle,       \* fences (their index in the fence table)
  Capacity,     \* fences that can wait
  NoPayload     \* nothing read

VARIABLES
  q,            \* fences that wait, the next one to take first
  published,    \* how many of them the controller may take
  deferred,     \* the client hardware publishes (skip_wr_idx)
  seen,         \* what the controller has read and is about to take
  refused       \* a fence is being refused

vars == <<q, published, deferred, seen, refused>>

Payload == [hash : Handle, error : BOOLEAN]

Init ==
  /\ q = <<>> /\ published = 0 /\ seen = NoPayload /\ refused = FALSE
  /\ deferred \in BOOLEAN

Append1 ==
  /\ Len(q) < Capacity
  /\ \E p \in Payload : q' = Append(q, p)
  /\ published' = IF deferred THEN published ELSE Len(q')
  /\ UNCHANGED <<deferred, seen, refused>>

Refuse ==
  /\ Len(q) = Capacity
  /\ refused' = TRUE
  /\ UNCHANGED <<q, published, deferred, seen>>

Refused ==
  /\ refused' = FALSE
  /\ UNCHANGED <<q, published, deferred, seen>>

Publish ==
  /\ deferred
  /\ published' \in published + 1 .. Len(q)
  /\ UNCHANGED <<q, deferred, seen, refused>>

Look ==
  /\ published > 0
  /\ seen' = Head(q)
  /\ UNCHANGED <<q, published, deferred, refused>>

Take ==
  /\ published > 0
  /\ seen = Head(q)
  /\ seen' = NoPayload
  /\ q' = Tail(q)
  /\ published' = published - 1
  /\ UNCHANGED <<deferred, refused>>

WithError(p) == [p EXCEPT !.error = TRUE]

Fail ==
  /\ \/ /\ Len(q) > 0
        /\ q' = <<WithError(q[1])>> \o Tail(q)
     \/ /\ Len(q) > 1
        /\ q' = <<WithError(q[2]), q[1]>> \o Tail(Tail(q))
  /\ UNCHANGED <<published, deferred, seen, refused>>

Reset ==
  /\ q' = <<>> /\ published' = 0
  /\ UNCHANGED <<deferred, seen, refused>>

Next == Append1 \/ Refuse \/ Refused \/ Publish \/ Look \/ Take \/ Fail \/ Reset

Spec == Init /\ [][Next]_vars
=============================================================================
