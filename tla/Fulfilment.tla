----------------------------- MODULE Fulfilment -----------------------------
(***************************************************************************)
(* What the workspace promises about a customer's order, without leads,     *)
(* quotations, jobs, statuses or documents: the order is agreed once,       *)
(* perhaps dropped before any work, made bit by bit, shipped from what is    *)
(* made, billed once and paid at most in full.                              *)
(***************************************************************************)
EXTENDS Naturals

CONSTANTS Orders, MaxQty, Amount

VARIABLES
  phase,      \* offered (or not even known), agreed or dropped
  ordered,    \* the quantity agreed on
  made,       \* how much of it is made
  sent,       \* how much of it is shipped
  billed,     \* whether the order is invoiced
  received    \* how much the customer has paid

vars == <<phase, ordered, made, sent, billed, received>>

Init ==
  /\ phase = [o \in Orders |-> "offered"]
  /\ ordered = [o \in Orders |-> 0]
  /\ made = [o \in Orders |-> 0]
  /\ sent = [o \in Orders |-> 0]
  /\ billed = [o \in Orders |-> FALSE]
  /\ received = [o \in Orders |-> 0]

Agree(o, n) ==
  /\ phase[o] = "offered"
  /\ phase' = [phase EXCEPT ![o] = "agreed"]
  /\ ordered' = [ordered EXCEPT ![o] = n]
  /\ UNCHANGED <<made, sent, billed, received>>

Drop(o) ==
  /\ phase[o] \in {"offered", "agreed"}
  /\ made[o] = 0 /\ ~billed[o]
  /\ phase' = [phase EXCEPT ![o] = "dropped"]
  /\ ordered' = [ordered EXCEPT ![o] = 0]
  /\ UNCHANGED <<made, sent, billed, received>>

Make(o, n) ==
  /\ phase[o] = "agreed"
  /\ made[o] + n <= ordered[o]
  /\ made' = [made EXCEPT ![o] = @ + n]
  /\ UNCHANGED <<phase, ordered, sent, billed, received>>

Ship(o, n) ==
  /\ sent[o] + n <= made[o]
  /\ sent' = [sent EXCEPT ![o] = @ + n]
  /\ UNCHANGED <<phase, ordered, made, billed, received>>

Bill(o) ==
  /\ phase[o] = "agreed" /\ ~billed[o]
  /\ billed' = [billed EXCEPT ![o] = TRUE]
  /\ UNCHANGED <<phase, ordered, made, sent, received>>

Receive(o, a) ==
  /\ billed[o]
  /\ received[o] + a <= Amount[o]
  /\ received' = [received EXCEPT ![o] = @ + a]
  /\ UNCHANGED <<phase, ordered, made, sent, billed>>

Next ==
  \E o \in Orders :
    \/ \E n \in 1..MaxQty : Agree(o, n) \/ Make(o, n) \/ Ship(o, n)
    \/ Drop(o)
    \/ Bill(o)
    \/ \E a \in 1..Amount[o] : Receive(o, a)

Spec == Init /\ [][Next]_vars

=============================================================================
