--------------------------- MODULE MCAddressBook ---------------------------
(* Small instances of AddressBook for TLC. *)
EXTENDS AddressBook, TLC

CONSTANTS x1, x2, x3, q1, q2, q3

Edit(a, default, content) ==
  [kind |-> "edit", address |-> a, default |-> default, content |-> content]

NewDefault == {[kind |-> "create", default |-> TRUE]}
Edits == {Edit(x1, "yes", TRUE), Edit(x2, "yes", FALSE)}
Deletions == {[kind |-> "delete", address |-> x1]}
Orders == {[kind |-> "order", address |-> x1]}
None == {}

\* x1 is the default at first.
MCInit == BookInit /\ Defaults = {x1}

MCSpec == MCInit /\ [][BookNext]_bookVars

MCFairSpec == MCSpec /\ \A p \in Procs : SF_bookVars(Step(p))

=============================================================================
