----------------------------- MODULE MCCheckout -----------------------------
(* Small instances of Checkout for TLC. *)
EXTENDS Checkout, TLC

CONSTANTS u1, a1, d1, t1, t2, o1, o2, o3, k1, q1, q2, q3

CONSTANTS
  Funds,       \* the signup bonus that buyer u1 starts with
  Stock,       \* the units of each product on the shelf at the start
  MaxSupply,   \* bound on the units administrators put on a shelf
  Rows         \* the cart rows, row c holding one unit of product c

Order1 == [kind |-> "create", user |-> u1, token |-> t1, rows |-> Rows, address |-> d1]
Order1Part == [Order1 EXCEPT !.rows = {1}]
Order2 == [Order1 EXCEPT !.token = t2]
Approve1 == [kind |-> "approve", admin |-> a1, order |-> o1]

DoubleSubmit == {Order1, Order1Part, Order2}
Crossing == {Order1Part, [Order1 EXCEPT !.rows = {2}], Order2}
OneKey == Crossing \ {Order2}
JustOne == {Order1}
Approvals == {Approve1}
None == {}
Gain == {1}

\* u1 has logged in, entered an address and filled the cart.
MCMallInit ==
  /\ balance = (u1 :> Funds)
  /\ ledger = (u1 :> << [key |-> <<"signup", u1>>, delta |-> Funds, after |-> Funds,
                         admin |-> NoAdmin] >>)
  /\ products = [p \in Products |-> [price |-> 1, stock |-> Stock, status |-> "on_sale"]]
  /\ cart = [c \in Rows |-> [user |-> u1, product |-> c, qty |-> 1]]
  /\ addr = (d1 :> [user |-> u1, version |-> 1])
  /\ retired = {}
  /\ orders = << >>
  /\ audit = {}
  /\ cameFrom = [o \in OrderIds |-> "paid"]
  /\ supply = [p \in Products |-> Stock]

MCInit == MCMallInit /\ TxInit

MCSpec == MCInit /\ [][CheckoutNext]_checkoutVars

MCFairSpec == MCSpec /\ \A p \in Procs : SF_checkoutVars(Step(p))

Interchangeable == Permutations(Procs) \cup Permutations(OrderIds)

Bounded ==
  /\ \A p \in Products : supply[p] \in Stock .. MaxSupply
  /\ {r \in audit : r.result = "failure" /\ r.action # "refund.approve"} = {}
=============================================================================
