------------------------------- MODULE MCMall -------------------------------
(* Small instances of Mall for TLC. *)
EXTENDS Mall, TLC

CONSTANTS u1, u2, a1, a2, p1, p2, c1, c2, d1, t1, t2, o1, o2, k1

CONSTANTS
  MaxFailures,   \* bound on the failure rows of the audit log
  MaxEdits       \* bound on the units administrators add to a shelf

MCDeltas == {-1, 1}

\* The catalogue a run starts from: full shelves at the lowest price.
MCInit ==
  /\ Init
  /\ \A p \in Products :
       products[p] = [price |-> 1, stock |-> MaxStock, status |-> "on_sale"]

MCSpec == MCInit /\ [][Next]_vars

\* Ids are interchangeable: no operator of Mall compares them but for equality.
Interchangeable ==
  Permutations(Admins) \cup Permutations(Products) \cup Permutations(CartRows)
    \cup Permutations(Tokens) \cup Permutations(OrderIds)

Bounded ==
  /\ Cardinality({r \in audit : r.result = "failure"}) <= MaxFailures
  /\ \A p \in Products : supply[p] \in MaxStock .. MaxStock + MaxEdits
=============================================================================
