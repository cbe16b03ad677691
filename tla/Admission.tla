------------------------------ MODULE Admission ------------------------------
(***************************************************************************)
(* What the prover server promises about load: at most Capacity requests   *)
(* are inside at any time; a request enters or leaves one at a time.       *)
(***************************************************************************)
EXTENDS Naturals, FiniteSets

CONSTANTS Requests, Capacity

VARIABLE inside

Init == inside = {}

Enter(r) ==
  /\ r \notin inside
  /\ Cardinality(inside) < Capacity
  /\ inside' = inside \cup {r}

Leave(r) ==
  /\ r \in inside
  /\ inside' = inside \ {r}

Next == \E r \in Requests : Enter(r) \/ Leave(r)

Spec == Init /\ [][Next]_inside
=============================================================================
