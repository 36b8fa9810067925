----------------------------- MODULE MallProofs -----------------------------
(* Theorems about Mall, for every value of its constants. *)
EXTENDS Mall, SumProofs

-----------------------------------------------------------------------------
(* Operators on tables and on the shelf *)

\* What is left of a table after a deletion.
LEMMA WithoutFacts ==
  ASSUME NEW t, NEW S
  PROVE  /\ DOMAIN Without(t, S) = DOMAIN t \ S
         /\ \A k \in DOMAIN t \ S : Without(t, S)[k] = t[k]
BY DEF Without

\* A table of rows in R stays one when rows are deleted.
LEMMA WithoutType ==
  ASSUME NEW t, NEW S, NEW R, t \in [DOMAIN t -> R]
  PROVE  Without(t, S) \in [DOMAIN Without(t, S) -> R]
BY DEF Without

\* An insert adds one row and keeps the others.
LEMMA WithFacts ==
  ASSUME NEW t, NEW k, NEW r, k \notin DOMAIN t
  PROVE  /\ DOMAIN With(t, k, r) = DOMAIN t \cup {k}
         /\ With(t, k, r)[k] = r
         /\ \A x \in DOMAIN t : With(t, k, r)[x] = t[x]
BY DEF With

\* A table of rows in R stays one when a row of R is inserted.
LEMMA WithType ==
  ASSUME NEW t, NEW R, NEW k, NEW r \in R, t \in [DOMAIN t -> R]
  PROVE  With(t, k, r) \in [DOMAIN With(t, k, r) -> R]
BY DEF With

\* A shelf is one as long as every touched product row is one.
LEMMA RestockType ==
  ASSUME products \in [Products -> Product], NEW lines, NEW sign,
         \A p \in Products, l \in lines : l.product = p =>
           [products[p] EXCEPT !.stock = @ + sign * l.qty] \in Product
  PROVE  Restock(lines, sign) \in [Products -> Product]
BY DEF Restock

\* Taking purchasable lines from the shelf leaves no stock negative.
LEMMA TakeType ==
  ASSUME products \in [Products -> Product], NEW lines \in SUBSET Line,
         Purchasable(lines, products)
  PROVE  Restock(lines, -1) \in [Products -> Product]
<1> PICK sign \in Int : sign = -1  OBVIOUS
<1>1. ASSUME NEW p \in Products, NEW l \in lines, l.product = p
      PROVE  [products[p] EXCEPT !.stock = @ + sign * l.qty] \in Product
  <2>1. /\ products[p] \in Product /\ l \in Line
        /\ products[p].stock >= l.qty
        /\ products[p].stock \in 0..MaxStock /\ l.qty \in 1..MaxQty
    BY <1>1 DEF Purchasable, Product, Line
  <2>2. products[p].stock + sign * l.qty \in 0..MaxStock
    BY <2>1, MallAssumption
  <2> QED  BY <2>1, <2>2 DEF Product
<1>2. Restock(lines, sign) \in [Products -> Product]  BY <1>1, RestockType
<1> QED  BY <1>2

\* Returned goods fit the column when RefundFits says so.
LEMMA ReturnType ==
  ASSUME products \in [Products -> Product], NEW row \in Order, RefundFits(row)
  PROVE  Restock(row.lines, 1) \in [Products -> Product]
<1> SUFFICES ASSUME NEW p \in Products, NEW l \in row.lines, l.product = p
             PROVE  [products[p] EXCEPT !.stock = @ + 1 * l.qty] \in Product
    BY RestockType
<1>1. /\ products[p] \in Product /\ l \in Line
      /\ products[p].stock + l.qty <= MaxStock
      /\ products[p].stock \in 0..MaxStock /\ l.qty \in 1..MaxQty
  BY DEF RefundFits, Product, Line, Order
<1>2. products[p].stock + 1 * l.qty \in 0..MaxStock
  BY <1>1, MallAssumption
<1> QED  BY <1>1, <1>2 DEF Product

-----------------------------------------------------------------------------
(* Postings *)

\* A posting keeps both tables within their types.
LEMMA PostType ==
  ASSUME TypeOK, NEW u \in Users, NEW key \in EventKeys, NEW delta \in Int,
         NEW admin \in Admins \cup {NoAdmin}, PostPoints(u, key, delta, admin)
  PROVE  /\ DOMAIN balance' = DOMAIN balance
         /\ balance' \in [DOMAIN balance' -> 0..MaxInt]
         /\ ledger' \in [Users -> Seq(Entry)]
<1>1. /\ balance[u] + delta \in 0..MaxInt
      /\ balance' = [balance EXCEPT ![u] = balance[u] + delta]
      /\ balance \in [DOMAIN balance -> 0..MaxInt]
  BY DEF PostPoints, TypeOK
<1> DEFINE e == [key |-> key, delta |-> delta, after |-> balance[u] + delta,
                 admin |-> admin]
<1>2. e \in Entry  BY <1>1 DEF Entry
<1>3. Append(ledger[u], e) \in Seq(Entry)  BY <1>2 DEF TypeOK
<1>4. ledger' = [ledger EXCEPT ![u] = Append(ledger[u], e)]  BY DEF PostPoints
<1>5. ledger' \in [Users -> Seq(Entry)]  BY <1>3, <1>4 DEF TypeOK
<1> QED  BY <1>1, <1>5

\* An appended entry adds its event to one buyer's and removes none.
LEMMA AppendEvents ==
  ASSUME TypeOK, NEW u \in Users, NEW e,
         ledger' = [ledger EXCEPT ![u] = Append(ledger[u], e)],
         NEW v \in Users, NEW k, NEW d
  PROVE  /\ HasEvent(v, k)' <=> HasEvent(v, k) \/ (v = u /\ k = e.key)
         /\ Posted(v, k, d)' <=> Posted(v, k, d) \/ (v = u /\ k = e.key /\ d = e.delta)
<1>1. CASE v # u
  <2>1. ledger'[v] = ledger[v]  BY <1>1 DEF TypeOK
  <2> QED  BY <2>1, <1>1 DEF HasEvent, Posted
<1>2. CASE v = u
  <2>1. ledger[u] \in Seq(Entry) /\ ledger'[u] = Append(ledger[u], e)  BY DEF TypeOK
  <2>2. /\ DOMAIN ledger'[u] = DOMAIN ledger[u] \cup {Len(ledger[u]) + 1}
        /\ ledger'[u][Len(ledger[u]) + 1] = e
        /\ \A i \in DOMAIN ledger[u] : ledger'[u][i] = ledger[u][i]
    BY <2>1
  <2> QED  BY <2>2, <1>2 DEF HasEvent, Posted
<1> QED  BY <1>1, <1>2

\* The same for a posting.
LEMMA PostEvents ==
  ASSUME TypeOK, NEW u \in Users, NEW key, NEW delta, NEW admin,
         PostPoints(u, key, delta, admin),
         NEW v \in Users, NEW k, NEW d
  PROVE  /\ HasEvent(v, k)' <=> HasEvent(v, k) \/ (v = u /\ k = key)
         /\ Posted(v, k, d)' <=> Posted(v, k, d) \/ (v = u /\ k = key /\ d = delta)
<1> DEFINE e == [key |-> key, delta |-> delta, after |-> balance[u] + delta,
                 admin |-> admin]
<1>1. ledger' = [ledger EXCEPT ![u] = Append(ledger[u], e)]  BY DEF PostPoints
<1>2. e.key = key /\ e.delta = delta  OBVIOUS
<1> HIDE DEF e
<1> QED  BY <1>1, <1>2, AppendEvents

-----------------------------------------------------------------------------
(* Type correctness *)

LEMMA LoginType ==
  ASSUME TypeOK, NEW u \in Users, NEW bonus \in Bonuses, Login(u, bonus)
  PROVE  TypeOK'
<1>1. bonus \in 0..MaxInt  BY MallAssumption
<1>2. DOMAIN balance' = DOMAIN balance \cup {u} /\ balance' \in [DOMAIN balance' -> 0..MaxInt]
  BY <1>1, MaxIntAssumption DEF Login, TypeOK
<1>3. ledger' \in [Users -> Seq(Entry)]
  <2> DEFINE e == [key |-> <<"signup", u>>, delta |-> bonus, after |-> bonus, admin |-> NoAdmin]
  <2>1. <<"signup", u>> \in EventKeys  BY DEF EventKeys
  <2>2. e \in Entry  BY <1>1, <2>1 DEF Entry
  <2>3. Append(ledger[u], e) \in Seq(Entry)  BY <2>2 DEF TypeOK
  <2>4. ledger' = [ledger EXCEPT ![u] = Append(ledger[u], e)] \/ ledger' = ledger
    BY DEF Login
  <2> QED  BY <2>3, <2>4 DEF TypeOK
<1> QED  BY <1>2, <1>3 DEF Login, TypeOK

LEMMA CartType ==
  ASSUME TypeOK,
         \/ \E u \in Users, p \in Products, n \in 1..MaxQty : AddToCart(u, p, n)
         \/ \E c \in CartRows, n \in 1..MaxQty : SetCartQuantity(c, n)
         \/ \E c \in CartRows : RemoveFromCart(c)
  PROVE  TypeOK'
<1>1. ASSUME NEW u \in Users, NEW p \in Products, NEW n \in 1..MaxQty, AddToCart(u, p, n)
      PROVE  TypeOK'
  <2>1. ASSUME NEW c \in DOMAIN cart, cart[c].qty + n <= MaxQty,
               cart' = [cart EXCEPT ![c].qty = @ + n]
        PROVE  DOMAIN cart' = DOMAIN cart /\ cart' \in [DOMAIN cart' -> CartRow]
    <3>1. cart[c].qty + n \in 1..MaxQty  BY <2>1, MallAssumption DEF TypeOK, CartRow
    <3> QED  BY <3>1, <2>1 DEF TypeOK, CartRow
  <2>2. ASSUME NEW c \in CartRows \ (DOMAIN cart \cup retired),
               cart' = With(cart, c, [user |-> u, product |-> p, qty |-> n])
        PROVE  /\ DOMAIN cart' = DOMAIN cart \cup {c}
               /\ cart' \in [DOMAIN cart' -> CartRow]
    <3>1. [user |-> u, product |-> p, qty |-> n] \in CartRow  BY DEF CartRow
    <3> QED  BY <3>1, <2>2, WithFacts, WithType DEF TypeOK
  <2>3. /\ DOMAIN cart' \subseteq CartRows /\ cart' \in [DOMAIN cart' -> CartRow]
        /\ DOMAIN cart' \cap retired = {}
    <3>1. DOMAIN cart \subseteq CartRows /\ DOMAIN cart \cap retired = {}  BY DEF TypeOK
    <3>2. CASE \E c \in DOMAIN cart :
                 cart[c].qty + n <= MaxQty /\ cart' = [cart EXCEPT ![c].qty = @ + n]
      BY <2>1, <3>1, <3>2
    <3>3. CASE \E c \in CartRows \ (DOMAIN cart \cup retired) :
                 cart' = With(cart, c, [user |-> u, product |-> p, qty |-> n])
      BY <2>2, <3>1, <3>3
    <3> QED  BY <1>1, <3>2, <3>3 DEF AddToCart
  <2> QED  BY <1>1, <2>3 DEF AddToCart, TypeOK
<1>2. ASSUME NEW c \in CartRows, NEW n \in 1..MaxQty, SetCartQuantity(c, n)
      PROVE  TypeOK'
  <2>1. DOMAIN cart' = DOMAIN cart /\ cart' \in [DOMAIN cart' -> CartRow]
    BY <1>2 DEF SetCartQuantity, TypeOK, CartRow
  <2> QED  BY <1>2, <2>1 DEF SetCartQuantity, TypeOK
<1>3. ASSUME NEW c \in CartRows, RemoveFromCart(c)
      PROVE  TypeOK'
  <2>1. DOMAIN cart' = DOMAIN cart \ {c} /\ cart' \in [DOMAIN cart' -> CartRow]
    BY <1>3, WithoutFacts, WithoutType DEF RemoveFromCart, TypeOK
  <2>2. c \notin DOMAIN addr  BY MallAssumption DEF TypeOK
  <2> QED  BY <1>3, <2>1, <2>2 DEF RemoveFromCart, TypeOK
<1> QED  BY <1>1, <1>2, <1>3

LEMMA AddressType ==
  ASSUME TypeOK, NEW a \in Addresses,
         (\E u \in Users : CreateAddress(u, a)) \/ EditAddress(a) \/ DeleteAddress(a)
  PROVE  TypeOK'
<1>1. ASSUME NEW u \in Users, CreateAddress(u, a)
      PROVE  TypeOK'
  <2>1. [user |-> u, version |-> 1] \in Address  BY MallAssumption DEF Address
  <2>2. DOMAIN addr' = DOMAIN addr \cup {a} /\ addr' \in [DOMAIN addr' -> Address]
    BY <1>1, <2>1, WithFacts, WithType DEF CreateAddress, TypeOK
  <2> QED  BY <1>1, <2>2 DEF CreateAddress, TypeOK
<1>2. CASE EditAddress(a)
  <2>1. addr[a].version + 1 \in 1..MaxVersion
    BY <1>2, MallAssumption DEF EditAddress, TypeOK, Address
  <2>2. DOMAIN addr' = DOMAIN addr /\ addr' \in [DOMAIN addr' -> Address]
    BY <1>2, <2>1 DEF EditAddress, TypeOK, Address
  <2> QED  BY <1>2, <2>2 DEF EditAddress, TypeOK
<1>3. CASE DeleteAddress(a)
  <2>1. DOMAIN addr' = DOMAIN addr \ {a} /\ addr' \in [DOMAIN addr' -> Address]
    BY <1>3, WithoutFacts, WithoutType DEF DeleteAddress, TypeOK
  <2>2. a \notin DOMAIN cart  BY MallAssumption DEF TypeOK
  <2> QED  BY <1>3, <2>1, <2>2 DEF DeleteAddress, TypeOK
<1> QED  BY <1>1, <1>2, <1>3

LEMMA CreateOrderType ==
  ASSUME TypeOK, NEW o \in OrderIds, NEW u \in Users, NEW tok \in Tokens,
         NEW rows \in SUBSET CartRows, NEW a \in Addresses,
         CreateOrder(o, u, tok, rows, a)
  PROVE  TypeOK'
<1> DEFINE lines == Lines(rows, cart, products)
           hash  == RequestHash(rows, lines, a, addr[a].version)
           row   == [user |-> u, token |-> tok, hash |-> hash, status |-> "paid",
                     total |-> Total(lines), lines |-> lines,
                     shippedBy |-> NoAdmin, reviewedBy |-> NoAdmin,
                     completedAt |-> FALSE, refundedAt |-> FALSE]
<1>1. /\ PlaceOrder(o, u, tok, rows, a, addr[a].version, lines)
      /\ rows \subseteq DOMAIN cart /\ a \in DOMAIN addr
      /\ UNCHANGED <<addr, audit, cameFrom, supply>>
  BY DEF CreateOrder
<1>2. lines \in SUBSET Line
  BY <1>1 DEF Lines, Line, TypeOK, CartRow, Product
<1>3. Total(lines) \in 1..MaxInt
  BY <1>1, MaxIntAssumption DEF PlaceOrder, Priced
<1>4. hash \in Hash
  <2>1. addr[a].version \in 1..MaxVersion  BY <1>1 DEF TypeOK, Address
  <2>2. {[product |-> l.product, qty |-> l.qty] : l \in lines}
          \in SUBSET [product : Products, qty : 1..MaxQty]
    BY <1>2 DEF Line
  <2> HIDE DEF lines
  <2> QED  BY <2>1, <2>2 DEF RequestHash, Hash
<1> HIDE DEF lines, hash
<1>5. row \in Order  BY <1>2, <1>3, <1>4 DEF Order, Statuses
<1>6. /\ DOMAIN balance' = DOMAIN balance /\ balance' \in [DOMAIN balance' -> 0..MaxInt]
      /\ ledger' \in [Users -> Seq(Entry)]
  <2>1. <<"order_pay", o>> \in EventKeys  BY DEF EventKeys
  <2>2. -Total(lines) \in Int  BY <1>3
  <2> QED  BY <1>1, <2>1, <2>2, PostType DEF PlaceOrder
<1>7. products' \in [Products -> Product]
  BY <1>1, <1>2, TakeType DEF PlaceOrder, TypeOK
<1>8. /\ DOMAIN orders' = DOMAIN orders \cup {o}
      /\ orders' \in [DOMAIN orders' -> Order]
  <2>1. orders' = With(orders, o, row) /\ o \notin DOMAIN orders
    BY <1>1 DEF PlaceOrder, hash
  <2> HIDE DEF row
  <2> QED  BY <1>5, <2>1, WithFacts, WithType DEF TypeOK
<1>9. /\ DOMAIN cart' = DOMAIN cart \ rows /\ cart' \in [DOMAIN cart' -> CartRow]
      /\ retired' = retired \cup rows
  BY <1>1, WithoutFacts, WithoutType DEF PlaceOrder, TypeOK
<1>10. rows \cap DOMAIN addr = {}  BY MallAssumption DEF TypeOK
<1> QED  BY <1>1, <1>6, <1>7, <1>8, <1>9, <1>10 DEF TypeOK

\* The order after a step of its life is a row of the table.
LEMMA OrderStepType ==
  ASSUME TypeOK, NEW o \in OrderIds,
         \/ Confirm(o) \/ RequestRefund(o)
         \/ \E adm \in Admins : Ship(adm, o) \/ RejectRefund(adm, o)
  PROVE  TypeOK'
<1>1. /\ o \in DOMAIN orders /\ orders[o] \in Order /\ orders[o].status \in Statuses
      /\ orders \in [DOMAIN orders -> Order]
  BY DEF Ship, Confirm, RequestRefund, RejectRefund, TypeOK, Order
<1>2. DOMAIN orders' = DOMAIN orders /\ orders' \in [DOMAIN orders' -> Order]
  <2>1. CASE Confirm(o)  BY <1>1, <2>1 DEF Confirm, Order, Statuses
  <2>2. CASE RequestRefund(o)  BY <1>1, <2>2 DEF RequestRefund, Order, Statuses
  <2>3. ASSUME NEW adm \in Admins, Ship(adm, o)
        PROVE  DOMAIN orders' = DOMAIN orders /\ orders' \in [DOMAIN orders' -> Order]
    BY <1>1, <2>3 DEF Ship, Order, Statuses
  <2>4. ASSUME NEW adm \in Admins, RejectRefund(adm, o)
        PROVE  DOMAIN orders' = DOMAIN orders /\ orders' \in [DOMAIN orders' -> Order]
    BY <1>1, <2>4 DEF RejectRefund, Order, Statuses
  <2> QED  BY <2>1, <2>2, <2>3, <2>4
<1>3. audit' \in SUBSET AuditRow
  BY DEF Ship, Confirm, RequestRefund, RejectRefund, TypeOK, Success, AuditRow, Actions
<1>4. cameFrom' \in [OrderIds -> Statuses]
  BY <1>1 DEF Ship, Confirm, RequestRefund, RejectRefund, TypeOK
<1>5. UNCHANGED <<balance, ledger, products, cart, addr, retired, supply>>
  BY DEF Ship, Confirm, RequestRefund, RejectRefund
<1> QED  BY <1>2, <1>3, <1>4, <1>5 DEF TypeOK

LEMMA ApproveType ==
  ASSUME TypeOK, NEW o \in OrderIds, NEW adm \in Admins, ApproveRefund(adm, o)
  PROVE  TypeOK'
<1>1. /\ o \in DOMAIN orders /\ orders[o] \in Order
      /\ orders \in [DOMAIN orders -> Order]
      /\ orders[o].user \in Users /\ orders[o].total \in Int
  BY DEF ApproveRefund, TypeOK, Order
<1>2. Refund(adm, o, orders[o])  BY DEF ApproveRefund
<1>3. /\ DOMAIN balance' = DOMAIN balance /\ balance' \in [DOMAIN balance' -> 0..MaxInt]
      /\ ledger' \in [Users -> Seq(Entry)]
  <2>1. <<"order_refund", o>> \in EventKeys  BY DEF EventKeys
  <2> QED  BY <1>1, <1>2, <2>1, PostType DEF Refund
<1>4. products' \in [Products -> Product]
  BY <1>1, <1>2, ReturnType DEF Refund, TypeOK
<1>5. DOMAIN orders' = DOMAIN orders /\ orders' \in [DOMAIN orders' -> Order]
  BY <1>1, <1>2 DEF Refund, Order, Statuses
<1>6. audit' \in SUBSET AuditRow
  BY <1>2 DEF Refund, TypeOK, Success, AuditRow, Actions
<1> QED  BY <1>2, <1>3, <1>4, <1>5, <1>6 DEF Refund, TypeOK

LEMMA AdminType ==
  ASSUME TypeOK, NEW adm \in Admins,
         \/ \E key \in AdjustKeys, u \in Users, d \in Deltas : AdjustPoints(adm, key, u, d)
         \/ \E o \in OrderIds : ShipRefused(adm, o) \/ ReviewRefused(adm, o)
         \/ \E u \in Users : AdjustRefused(adm, u)
         \/ \E p \in Products, row \in Product : UpdateProduct(adm, p, row)
  PROVE  TypeOK'
<1>1. ASSUME NEW key \in AdjustKeys, NEW u \in Users, NEW d \in Deltas,
             AdjustPoints(adm, key, u, d)
      PROVE  TypeOK'
  <2>1. <<"admin_adjust", <<adm, key>>>> \in EventKeys /\ d \in Int
    BY MallAssumption DEF EventKeys
  <2>2. /\ DOMAIN balance' = DOMAIN balance /\ balance' \in [DOMAIN balance' -> 0..MaxInt]
        /\ ledger' \in [Users -> Seq(Entry)]
    BY <1>1, <2>1, PostType DEF AdjustPoints
  <2>3. audit' \in SUBSET AuditRow
    BY <1>1 DEF AdjustPoints, TypeOK, Success, AuditRow, Actions
  <2> QED  BY <1>1, <2>2, <2>3 DEF AdjustPoints, TypeOK
<1>2. ASSUME NEW target \in Users \cup OrderIds \cup Products,
             NEW action \in Actions, RecordFailure(adm, action, target)
      PROVE  TypeOK'
  <2>1. audit' \in SUBSET AuditRow
    BY <1>2 DEF RecordFailure, TypeOK, Failure, AuditRow
  <2> QED  BY <1>2, <2>1 DEF RecordFailure, TypeOK
<1>3. ASSUME NEW o \in OrderIds, ShipRefused(adm, o) \/ ReviewRefused(adm, o)
      PROVE  TypeOK'
  BY <1>2, <1>3 DEF ShipRefused, ReviewRefused, Actions
<1>4. ASSUME NEW u \in Users, AdjustRefused(adm, u)
      PROVE  TypeOK'
  BY <1>2, <1>4 DEF AdjustRefused, Actions
<1>5. ASSUME NEW p \in Products, NEW row \in Product, UpdateProduct(adm, p, row)
      PROVE  TypeOK'
  <2>1. products' \in [Products -> Product] /\ audit' \in SUBSET AuditRow
    BY <1>5 DEF UpdateProduct, TypeOK, Success, AuditRow, Actions
  <2>2. supply' \in [Products -> Int]
    <3>1. row.stock \in Int /\ products[p].stock \in Int /\ supply[p] \in Int
      BY MallAssumption DEF TypeOK, Product
    <3> QED  BY <1>5, <3>1 DEF UpdateProduct, TypeOK
  <2> QED  BY <1>5, <2>1, <2>2 DEF UpdateProduct, TypeOK
<1> QED  BY <1>1, <1>3, <1>4, <1>5

LEMMA TypeStep == TypeOK /\ [Next]_vars => TypeOK'
<1> SUFFICES ASSUME TypeOK, [Next]_vars PROVE TypeOK'  OBVIOUS
<1>1. CASE BuyerNext
  BY <1>1, LoginType, CartType, AddressType, CreateOrderType, OrderStepType
     DEF BuyerNext
<1>2. CASE AdminNext
  BY <1>2, OrderStepType, ApproveType, AdminType DEF AdminNext
<1>3. CASE UNCHANGED vars
  BY <1>3 DEF vars, TypeOK
<1> QED  BY <1>1, <1>2, <1>3 DEF Next

LEMMA TypeInit == Init => TypeOK
<1> SUFFICES ASSUME Init PROVE TypeOK  OBVIOUS
<1>1. \A p \in Products : products[p].stock \in Int
  BY MallAssumption DEF Init, Product
<1> QED  BY <1>1 DEF Init, TypeOK, Statuses

\* Every column keeps its type and bounds: no balance and no stock is ever
\* negative or past its column, and no deleted cart or address row comes back.
THEOREM TypeCorrect == Spec => []TypeOK
BY TypeInit, TypeStep, PTL DEF Spec

-----------------------------------------------------------------------------
(* The ledger *)

\* A buyer whose tables an action leaves alone stays reconciled.
LEMMA SameBooks ==
  ASSUME LedgerReconciles, UNCHANGED <<balance, ledger>>
  PROVE  LedgerReconciles'
BY DEF LedgerReconciles, Before, Booked

\* An entry that continues the buyer's chain, with its result as the live
\* balance, keeps every buyer reconciled.
LEMMA AppendReconciles ==
  ASSUME TypeOK, LedgerReconciles, NEW u \in Users, NEW e \in Entry,
         e.after = Booked(u) + e.delta,
         ledger' = [ledger EXCEPT ![u] = Append(ledger[u], e)],
         u \in DOMAIN balance' /\ balance'[u] = e.after,
         \A v \in Users \ {u} : /\ v \in DOMAIN balance' <=> v \in DOMAIN balance
                                /\ v \in DOMAIN balance => balance'[v] = balance[v]
  PROVE  LedgerReconciles'
<1> SUFFICES ASSUME NEW v \in Users
             PROVE  /\ \A i \in DOMAIN ledger'[v] :
                         ledger'[v][i].after = Before(v, i)' + ledger'[v][i].delta
                    /\ Booked(v)' = (IF v \in DOMAIN balance' THEN balance'[v] ELSE 0)
    BY DEF LedgerReconciles
<1>1. CASE v # u
  <2>1. ledger'[v] = ledger[v]  BY <1>1 DEF TypeOK
  <2> QED  BY <2>1, <1>1 DEF LedgerReconciles, Before, Booked
<1>2. CASE v = u
  <2>1. ledger[u] \in Seq(Entry) /\ ledger'[u] = Append(ledger[u], e)  BY DEF TypeOK
  <2> PICK n \in Nat : n = Len(ledger[u])  BY <2>1
  <2>2. /\ n = Len(ledger[u]) /\ DOMAIN ledger[u] = 1..n
        /\ DOMAIN ledger'[u] = 1..(n + 1) /\ Len(ledger'[u]) = n + 1
        /\ ledger'[u][n + 1] = e /\ ledger'[u] # << >>
        /\ \A i \in 1..n : ledger'[u][i] = ledger[u][i]
        /\ ledger[u] = << >> <=> n = 0
    BY <2>1
  <2>3. ASSUME NEW i \in 1..n
        PROVE  ledger'[u][i].after = Before(u, i)' + ledger'[u][i].delta
    <3>1. ledger[u][i].after = Before(u, i) + ledger[u][i].delta
      BY <2>2 DEF LedgerReconciles
    <3>2. Before(u, i)' = Before(u, i)
      <4>1. CASE i = 1  BY <4>1 DEF Before
      <4>2. CASE i # 1
        <5>1. i - 1 \in 1..n  BY <4>2, <2>2
        <5> QED  BY <5>1, <2>2 DEF Before
      <4> QED  BY <4>1, <4>2
    <3> QED  BY <3>1, <3>2, <2>2
  <2>4. Before(u, n + 1)' = Booked(u)
    <3>1. CASE n = 0  BY <3>1, <2>2 DEF Before, Booked
    <3>2. CASE n # 0
      <4>1. n \in 1..n /\ (n + 1) - 1 = n /\ n + 1 # 1  BY <3>2, <2>2
      <4> QED  BY <4>1, <2>2, <3>2 DEF Before, Booked
    <3> QED  BY <3>1, <3>2
  <2>5. Booked(u)' = e.after  BY <2>2 DEF Booked
  <2>6. \A i \in 1..(n + 1) : i \in 1..n \/ i = n + 1  BY <2>2
  <2> QED  BY <1>2, <2>2, <2>3, <2>4, <2>5, <2>6
<1> QED  BY <1>1, <1>2

\* A posting continues the chain.
LEMMA PostReconciles ==
  ASSUME TypeOK, LedgerReconciles, NEW u \in Users, NEW key \in EventKeys,
         NEW delta \in Int, NEW admin \in Admins \cup {NoAdmin},
         PostPoints(u, key, delta, admin)
  PROVE  LedgerReconciles'
<1> DEFINE e == [key |-> key, delta |-> delta, after |-> balance[u] + delta,
                 admin |-> admin]
<1>1. /\ u \in DOMAIN balance /\ balance[u] + delta \in 0..MaxInt
      /\ balance' = [balance EXCEPT ![u] = balance[u] + delta]
      /\ ledger' = [ledger EXCEPT ![u] = Append(ledger[u], e)]
      /\ balance \in [DOMAIN balance -> 0..MaxInt]
  BY DEF PostPoints, TypeOK
<1>2. e \in Entry  BY <1>1 DEF Entry
<1>3. e.after = Booked(u) + e.delta  BY <1>1 DEF LedgerReconciles
<1>4. e.after = balance[u] + delta  OBVIOUS
<1> HIDE DEF e
<1> QED  BY <1>1, <1>2, <1>3, <1>4, AppendReconciles

\* points_balance is the sum of the deltas: whatever logins, orders, refunds
\* and adjustments do, each entry continues the buyer's chain and the last
\* balance_after is the live balance.
THEOREM Reconciles == Spec => []LedgerReconciles
<1>1. Init => LedgerReconciles
  BY DEF Init, LedgerReconciles, Booked
<1>2. TypeOK /\ LedgerReconciles /\ [Next]_vars => LedgerReconciles'
  <2> SUFFICES ASSUME TypeOK, LedgerReconciles, [Next]_vars
               PROVE  LedgerReconciles'
      OBVIOUS
  <2>1. ASSUME NEW u \in Users, NEW bonus \in Bonuses, Login(u, bonus)
        PROVE  LedgerReconciles'
    <3> DEFINE current == IF u \in DOMAIN balance THEN balance[u] ELSE 0
               award == current = 0 /\ bonus > 0 /\ ~HasEvent(u, <<"signup", u>>)
               e == [key |-> <<"signup", u>>, delta |-> bonus, after |-> bonus, admin |-> NoAdmin]
    <3>1. /\ DOMAIN balance' = DOMAIN balance \cup {u}
          /\ \A v \in Users \ {u} : /\ v \in DOMAIN balance' <=> v \in DOMAIN balance
                                    /\ v \in DOMAIN balance => balance'[v] = balance[v]
          /\ balance'[u] = IF award THEN bonus ELSE current
          /\ ledger' = IF award THEN [ledger EXCEPT ![u] = Append(ledger[u], e)] ELSE ledger
      BY <2>1 DEF Login
    <3>2. CASE award
      <4>1. bonus \in 0..MaxInt /\ <<"signup", u>> \in EventKeys
        BY MallAssumption DEF EventKeys
      <4>2. e \in Entry /\ e.after = bonus /\ e.delta = bonus  BY <4>1 DEF Entry
      <4>3. Booked(u) = 0  BY <3>2 DEF LedgerReconciles
      <4>4. e.after = Booked(u) + e.delta  BY <4>1, <4>2, <4>3, MaxIntAssumption
      <4> HIDE DEF e, award, current
      <4>5. /\ ledger' = [ledger EXCEPT ![u] = Append(ledger[u], e)]
            /\ u \in DOMAIN balance' /\ balance'[u] = e.after
        BY <3>1, <3>2, <4>2
      <4> QED  BY <3>1, <4>2, <4>4, <4>5, AppendReconciles
    <3>3. CASE ~award
      BY <3>1, <3>3 DEF LedgerReconciles, Before, Booked
    <3> QED  BY <3>2, <3>3
  <2>2. ASSUME NEW o \in OrderIds, NEW u \in Users, NEW tok \in Tokens, NEW a \in Addresses,
               NEW rows \in SUBSET CartRows, CreateOrder(o, u, tok, rows, a)
        PROVE  LedgerReconciles'
    <3> DEFINE lines == Lines(rows, cart, products)
    <3>1. PostPoints(u, <<"order_pay", o>>, -Total(lines), NoAdmin) /\ Total(lines) \in 0..MaxInt
      BY <2>2 DEF CreateOrder, PlaceOrder, Priced
    <3>2. <<"order_pay", o>> \in EventKeys  BY DEF EventKeys
    <3>3. -Total(lines) \in Int  BY <3>1
    <3> QED  BY <3>1, <3>2, <3>3, PostReconciles
  <2>3. ASSUME NEW adm \in Admins, NEW o \in OrderIds, ApproveRefund(adm, o)
        PROVE  LedgerReconciles'
    <3>1. orders[o].user \in Users /\ orders[o].total \in Int
      BY <2>3 DEF ApproveRefund, TypeOK, Order
    <3>2. <<"order_refund", o>> \in EventKeys  BY DEF EventKeys
    <3> QED  BY <2>3, <3>1, <3>2, PostReconciles DEF ApproveRefund, Refund
  <2>4. ASSUME NEW adm \in Admins, NEW key \in AdjustKeys, NEW u \in Users, NEW d \in Deltas,
               AdjustPoints(adm, key, u, d)
        PROVE  LedgerReconciles'
    <3>1. <<"admin_adjust", <<adm, key>>>> \in EventKeys /\ d \in Int
      BY MallAssumption DEF EventKeys
    <3> QED  BY <2>4, <3>1, PostReconciles DEF AdjustPoints
  <2>5. CASE UNCHANGED <<balance, ledger>>
    BY <2>5, SameBooks
  <2>6. CASE BuyerNext
    BY <2>6, <2>1, <2>2, <2>5 DEF BuyerNext, AddToCart, SetCartQuantity, RemoveFromCart,
         CreateAddress, EditAddress, DeleteAddress, Confirm, RequestRefund
  <2>7. CASE AdminNext
    BY <2>7, <2>3, <2>4, <2>5 DEF AdminNext, Ship, RejectRefund, ShipRefused,
         ReviewRefused, AdjustRefused, RecordFailure, UpdateProduct
  <2> QED  BY <2>5, <2>6, <2>7 DEF Next, vars
<1> QED  BY <1>1, <1>2, TypeCorrect, PTL DEF Spec

-----------------------------------------------------------------------------
(* The life of an order: its stamps, its audit trail, its points, and the *)
(* rejection of a refund                                                  *)

\* While a refund is requested, the shipper says where the order came from:
\* the row itself does not store it, and RejectRefund relies on this.
OriginRecorded ==
  \A o \in DOMAIN orders :
    orders[o].status = "refund_requested" =>
      cameFrom[o] = IF orders[o].shippedBy = NoAdmin THEN "paid" ELSE "shipped"

LifeInv == StampsMatchStatus /\ OriginRecorded

\* The row that order creation inserts, and the rows it leaves alone.
LEMMA CreatedOrder ==
  ASSUME NEW o, NEW u, NEW tok, NEW rows, NEW a, CreateOrder(o, u, tok, rows, a)
  PROVE  /\ o \notin DOMAIN orders /\ DOMAIN orders' = DOMAIN orders \cup {o}
         /\ \A x \in DOMAIN orders : orders'[x] = orders[x]
         /\ orders'[o].user = u
         /\ orders'[o].total = Total(Lines(rows, cart, products))
         /\ orders'[o].lines = Lines(rows, cart, products)
         /\ orders'[o].status = "paid"
         /\ orders'[o].shippedBy = NoAdmin
         /\ orders'[o].completedAt = FALSE /\ orders'[o].refundedAt = FALSE
<1> DEFINE lines == Lines(rows, cart, products)
           row == [user |-> u, token |-> tok,
                   hash |-> RequestHash(rows, lines, a, addr[a].version),
                   status |-> "paid", total |-> Total(lines), lines |-> lines,
                   shippedBy |-> NoAdmin, reviewedBy |-> NoAdmin,
                   completedAt |-> FALSE, refundedAt |-> FALSE]
<1>1. o \notin DOMAIN orders /\ orders' = With(orders, o, row)
  BY DEF CreateOrder, PlaceOrder
<1>2. /\ row.user = u /\ row.total = Total(lines) /\ row.lines = lines /\ row.status = "paid"
      /\ row.shippedBy = NoAdmin /\ row.completedAt = FALSE /\ row.refundedAt = FALSE
  OBVIOUS
<1> HIDE DEF row
<1>3. /\ DOMAIN orders' = DOMAIN orders \cup {o} /\ orders'[o] = row
      /\ \A x \in DOMAIN orders : orders'[x] = orders[x]
  BY <1>1 DEF With
<1> QED  BY <1>1, <1>2, <1>3

\* Only six use cases touch an order, its origin or the audit rows about it.
LEMMA OtherSteps ==
  ASSUME Next,
         \A o \in OrderIds, u \in Users, tok \in Tokens, a \in Addresses, rows \in SUBSET CartRows :
           ~CreateOrder(o, u, tok, rows, a),
         \A o \in OrderIds : ~Confirm(o) /\ ~RequestRefund(o),
         \A o \in OrderIds, adm \in Admins :
           ~Ship(adm, o) /\ ~ApproveRefund(adm, o) /\ ~RejectRefund(adm, o)
  PROVE  /\ UNCHANGED <<orders, cameFrom>>
         /\ \A x \in Admins, o \in OrderIds, action \in {"order.ship", "refund.approve"} :
              Success(x, action, o) \in audit' <=> Success(x, action, o) \in audit
<1>1. CASE BuyerNext
  BY <1>1 DEF BuyerNext, Login, AddToCart, SetCartQuantity, RemoveFromCart,
       CreateAddress, EditAddress, DeleteAddress
<1>2. CASE AdminNext
  <2>1. ASSUME NEW adm \in Admins, NEW target, NEW action, RecordFailure(adm, action, target)
        PROVE  /\ UNCHANGED <<orders, cameFrom>>
               /\ \A x \in Admins, o \in OrderIds, act \in {"order.ship", "refund.approve"} :
                    Success(x, act, o) \in audit' <=> Success(x, act, o) \in audit
    BY <2>1 DEF RecordFailure, Success, Failure
  <2>2. ASSUME NEW adm \in Admins, NEW target, NEW action \in {"points.adjust", "product.update"},
               audit' = audit \cup {Success(adm, action, target)},
               UNCHANGED <<orders, cameFrom>>
        PROVE  /\ UNCHANGED <<orders, cameFrom>>
               /\ \A x \in Admins, o \in OrderIds, act \in {"order.ship", "refund.approve"} :
                    Success(x, act, o) \in audit' <=> Success(x, act, o) \in audit
    BY <2>2 DEF Success
  <2> QED  BY <1>2, <2>1, <2>2 DEF AdminNext, AdjustPoints, UpdateProduct, ShipRefused,
                ReviewRefused, AdjustRefused
<1> QED  BY <1>1, <1>2 DEF Next

-----------------------------------------------------------------------------
(* Stamps *)

LEMMA LifeInit == Init => LifeInv
BY DEF Init, LifeInv, StampsMatchStatus, OriginRecorded

LEMMA LifeStep == TypeOK /\ LifeInv /\ [Next]_vars => LifeInv'
<1> SUFFICES ASSUME TypeOK, LifeInv, [Next]_vars PROVE LifeInv'  OBVIOUS
<1> USE DEF LifeInv, StampsMatchStatus, OriginRecorded
<1>1. CASE UNCHANGED <<orders, cameFrom>>
  BY <1>1
<1>2. ASSUME NEW o \in OrderIds, NEW u \in Users, NEW tok \in Tokens, NEW a \in Addresses,
             NEW rows \in SUBSET CartRows, CreateOrder(o, u, tok, rows, a)
      PROVE  LifeInv'
  <2>1. cameFrom' = cameFrom  BY <1>2 DEF CreateOrder
  <2>2. /\ DOMAIN orders' = DOMAIN orders \cup {o}
        /\ \A x \in DOMAIN orders : orders'[x] = orders[x]
        /\ orders'[o].status = "paid" /\ orders'[o].shippedBy = NoAdmin
        /\ orders'[o].completedAt = FALSE /\ orders'[o].refundedAt = FALSE
    BY <1>2, CreatedOrder
  <2>3. StampsMatchStatus'  BY <2>2
  <2>4. OriginRecorded'  BY <2>1, <2>2
  <2> QED  BY <2>3, <2>4
<1>3. ASSUME NEW o \in OrderIds, Confirm(o)
      PROVE  LifeInv'
  BY <1>3 DEF Confirm, TypeOK, Order
<1>4. ASSUME NEW o \in OrderIds, RequestRefund(o)
      PROVE  LifeInv'
  BY <1>4 DEF RequestRefund, TypeOK, Order
<1>5. ASSUME NEW o \in OrderIds, NEW adm \in Admins, Ship(adm, o)
      PROVE  LifeInv'
  BY <1>5, MallAssumption DEF Ship, TypeOK, Order
<1>6. ASSUME NEW o \in OrderIds, NEW adm \in Admins, ApproveRefund(adm, o)
      PROVE  LifeInv'
  BY <1>6 DEF ApproveRefund, Refund, TypeOK, Order
<1>7. ASSUME NEW o \in OrderIds, NEW adm \in Admins, RejectRefund(adm, o)
      PROVE  LifeInv'
  BY <1>7 DEF RejectRefund, TypeOK, Order
<1>8. CASE UNCHANGED vars  BY <1>8, <1>1 DEF vars
<1> QED  BY <1>1, <1>2, <1>3, <1>4, <1>5, <1>6, <1>7, <1>8, OtherSteps

LEMMA Life == Spec => []LifeInv
BY LifeInit, LifeStep, TypeCorrect, PTL DEF Spec

\* shipped_by, completed_at and refunded_at agree with the status of every
\* order after any number of refund requests, rejections and shipments, so
\* the CHECK constraints of the orders table never refuse a use case.
THEOREM StampsCorrect == Spec => []StampsMatchStatus
<1>1. LifeInv => StampsMatchStatus  BY DEF LifeInv
<1> QED  BY <1>1, Life, PTL

\* RejectRefund returns an order to the status the request came from.
THEOREM RejectionRestores == Spec => RejectRestores
<1>1. TypeOK /\ LifeInv /\ [Next]_vars =>
        [\A o \in DOMAIN orders :
           orders[o].status = "refund_requested"
             /\ orders'[o].status \notin {"refund_requested", "refunded"}
           => orders'[o].status = cameFrom[o]]_vars
  <2> SUFFICES ASSUME TypeOK, LifeInv, Next, NEW x \in DOMAIN orders,
                      orders[x].status = "refund_requested",
                      orders'[x].status \notin {"refund_requested", "refunded"}
               PROVE  orders'[x].status = cameFrom[x]
      OBVIOUS
  <2>1. CASE orders' = orders  BY <2>1
  <2>2. ASSUME NEW o \in OrderIds, NEW u \in Users, NEW tok \in Tokens, NEW a \in Addresses,
               NEW rows \in SUBSET CartRows, CreateOrder(o, u, tok, rows, a)
        PROVE  orders'[x].status = cameFrom[x]
    BY <2>2, CreatedOrder
  <2>3. ASSUME NEW o \in OrderIds, Confirm(o) \/ RequestRefund(o)
        PROVE  orders'[x].status = cameFrom[x]
    BY <2>3 DEF Confirm, RequestRefund, TypeOK, Order
  <2>4. ASSUME NEW o \in OrderIds, NEW adm \in Admins, Ship(adm, o) \/ ApproveRefund(adm, o)
        PROVE  orders'[x].status = cameFrom[x]
    <3>1. CASE Ship(adm, o)  BY <3>1 DEF Ship, TypeOK, Order
    <3>2. CASE ApproveRefund(adm, o)  BY <3>2 DEF ApproveRefund, Refund, TypeOK, Order
    <3> QED  BY <2>4, <3>1, <3>2
  <2>5. ASSUME NEW o \in OrderIds, NEW adm \in Admins, RejectRefund(adm, o)
        PROVE  orders'[x].status = cameFrom[x]
    BY <2>5 DEF RejectRefund, TypeOK, Order, LifeInv, OriginRecorded
  <2> QED  BY <2>1, <2>2, <2>3, <2>4, <2>5, OtherSteps
<1> QED  BY <1>1, TypeCorrect, Life, PTL DEF Spec, RejectRestores

-----------------------------------------------------------------------------
(* The audit trail *)

\* Adding one success row.
LEMMA AddSuccess ==
  ASSUME NEW adm, NEW action, NEW target, audit' = audit \cup {Success(adm, action, target)}
  PROVE  \A x, act, t : Success(x, act, t) \in audit' <=>
           Success(x, act, t) \in audit \/ (x = adm /\ act = action /\ t = target)
BY DEF Success

\* The success rows for shipments and approvals are exactly those that the
\* orders' own columns call for.
THEOREM AuditCorrect == Spec => []AuditAgrees
<1>1. Init => AuditAgrees  BY DEF Init, AuditAgrees
<1>2. TypeOK /\ LifeInv /\ AuditAgrees /\ [Next]_vars => AuditAgrees'
  <2> SUFFICES ASSUME TypeOK, LifeInv, AuditAgrees, [Next]_vars,
                      NEW x \in OrderIds, NEW adm1 \in Admins
               PROVE  /\ Success(adm1, "order.ship", x) \in audit' <=>
                           x \in DOMAIN orders' /\ orders'[x].shippedBy = adm1
                      /\ Success(adm1, "refund.approve", x) \in audit' <=>
                           /\ x \in DOMAIN orders' /\ orders'[x].status = "refunded"
                           /\ orders'[x].reviewedBy = adm1
      BY DEF AuditAgrees, Success
  <2> DEFINE Agrees == /\ Success(adm1, "order.ship", x) \in audit' <=>
                            x \in DOMAIN orders' /\ orders'[x].shippedBy = adm1
                       /\ Success(adm1, "refund.approve", x) \in audit' <=>
                            /\ x \in DOMAIN orders' /\ orders'[x].status = "refunded"
                            /\ orders'[x].reviewedBy = adm1
  <2>0. /\ Success(adm1, "order.ship", x) \in audit <=>
             x \in DOMAIN orders /\ orders[x].shippedBy = adm1
        /\ Success(adm1, "refund.approve", x) \in audit <=>
             /\ x \in DOMAIN orders /\ orders[x].status = "refunded"
             /\ orders[x].reviewedBy = adm1
    BY DEF AuditAgrees
  <2>1. CASE UNCHANGED <<orders, audit>>  BY <2>0, <2>1
  <2>2. ASSUME NEW o \in OrderIds, NEW u \in Users, NEW tok \in Tokens, NEW a \in Addresses,
               NEW rows \in SUBSET CartRows, CreateOrder(o, u, tok, rows, a)
        PROVE  Agrees
    <3>1. audit' = audit  BY <2>2 DEF CreateOrder
    <3>2. /\ o \notin DOMAIN orders /\ DOMAIN orders' = DOMAIN orders \cup {o}
          /\ \A y \in DOMAIN orders : orders'[y] = orders[y]
          /\ orders'[o].status = "paid" /\ orders'[o].shippedBy = NoAdmin
      BY <2>2, CreatedOrder
    <3> QED  BY <2>0, <3>1, <3>2, MallAssumption
  <2>3. ASSUME NEW o \in OrderIds, Confirm(o) \/ RequestRefund(o)
        PROVE  Agrees
    <3>1. audit' = audit  BY <2>3 DEF Confirm, RequestRefund
    <3>2. CASE Confirm(o)  BY <2>0, <3>1, <3>2 DEF Confirm, TypeOK, Order
    <3>3. CASE RequestRefund(o)  BY <2>0, <3>1, <3>3 DEF RequestRefund, TypeOK, Order
    <3> QED  BY <2>3, <3>2, <3>3
  <2>4. ASSUME NEW o \in OrderIds, NEW adm \in Admins, Ship(adm, o)
        PROVE  Agrees
    <3>1. \A act : Success(adm1, act, x) \in audit' <=>
            Success(adm1, act, x) \in audit \/ (adm1 = adm /\ act = "order.ship" /\ x = o)
      BY <2>4, AddSuccess DEF Ship
    <3>2. orders[o].shippedBy = NoAdmin  BY <2>4 DEF Ship, LifeInv, StampsMatchStatus
    <3> QED  BY <2>0, <2>4, <3>1, <3>2, MallAssumption DEF Ship, TypeOK, Order
  <2>5. ASSUME NEW o \in OrderIds, NEW adm \in Admins, ApproveRefund(adm, o)
        PROVE  Agrees
    <3>1. \A act : Success(adm1, act, x) \in audit' <=>
            Success(adm1, act, x) \in audit \/ (adm1 = adm /\ act = "refund.approve" /\ x = o)
      BY <2>5, AddSuccess DEF ApproveRefund, Refund
    <3> QED  BY <2>0, <2>5, <3>1 DEF ApproveRefund, Refund, TypeOK, Order
  <2>6. ASSUME NEW o \in OrderIds, NEW adm \in Admins, RejectRefund(adm, o)
        PROVE  Agrees
    <3>1. \A act : Success(adm1, act, x) \in audit' <=>
            Success(adm1, act, x) \in audit \/ (adm1 = adm /\ act = "refund.reject" /\ x = o)
      BY <2>6, AddSuccess DEF RejectRefund
    <3> QED  BY <2>0, <2>6, <3>1 DEF RejectRefund, TypeOK, Order
  <2>7. CASE UNCHANGED vars  BY <2>7, <2>1 DEF vars
  <2>8. ASSUME orders' = orders,
               \A y \in Admins, o \in OrderIds, action \in {"order.ship", "refund.approve"} :
                 Success(y, action, o) \in audit' <=> Success(y, action, o) \in audit
        PROVE  Agrees
    BY <2>0, <2>8
  <2> QED  BY <2>2, <2>3, <2>4, <2>5, <2>6, <2>7, <2>8, OtherSteps
<1> QED  BY <1>1, <1>2, TypeCorrect, Life, PTL DEF Spec

-----------------------------------------------------------------------------
(* Charges and refunds *)

\* A step that posts nothing about order x, and neither inserts nor refunds it.
LEMMA UnrelatedPosting ==
  ASSUME TypeOK, ChargedAndRefunded, NEW x \in OrderIds,
         \A v \in Users : \A d :
           /\ HasEvent(v, <<"order_refund", x>>)' <=> HasEvent(v, <<"order_refund", x>>)
           /\ Posted(v, <<"order_refund", x>>, d)' <=> Posted(v, <<"order_refund", x>>, d)
           /\ Posted(v, <<"order_pay", x>>, d) => Posted(v, <<"order_pay", x>>, d)',
         x \in DOMAIN orders' <=> x \in DOMAIN orders,
         x \in DOMAIN orders =>
           /\ orders'[x].user = orders[x].user /\ orders'[x].total = orders[x].total
           /\ orders'[x].status = "refunded" <=> orders[x].status = "refunded"
  PROVE  Charged(x)' /\ \A u \in Users : PointsBack(x, u)'
<1>1. x \in DOMAIN orders => orders[x].user \in Users  BY DEF TypeOK, Order
<1>2. Charged(x)'  BY <1>1 DEF ChargedAndRefunded, Charged
<1>3. ASSUME NEW u \in Users PROVE PointsBack(x, u)'
  <2>1. PointsBack(x, u)  BY DEF ChargedAndRefunded
  <2> QED  BY <2>1 DEF PointsBack
<1> QED  BY <1>2, <1>3

\* Each order is charged once to its owner, and its points are back with the
\* owner exactly when its status says refunded.
THEOREM ChargesCorrect == Spec => []ChargedAndRefunded
<1>1. Init => ChargedAndRefunded
  BY DEF Init, ChargedAndRefunded, Charged, PointsBack, HasEvent
<1>2. TypeOK /\ ChargedAndRefunded /\ [Next]_vars => ChargedAndRefunded'
  <2> SUFFICES ASSUME TypeOK, ChargedAndRefunded, [Next]_vars, NEW x \in OrderIds
               PROVE  Charged(x)' /\ \A u \in Users : PointsBack(x, u)'
      BY DEF ChargedAndRefunded
  <2>1. ASSUME UNCHANGED <<ledger, orders>>
        PROVE  Charged(x)' /\ \A u \in Users : PointsBack(x, u)'
    BY <2>1 DEF ChargedAndRefunded, Charged, PointsBack, HasEvent, Posted
  <2>2. ASSUME NEW u \in Users, NEW bonus \in Bonuses, Login(u, bonus)
        PROVE  Charged(x)' /\ \A v \in Users : PointsBack(x, v)'
    <3> DEFINE e == [key |-> <<"signup", u>>, delta |-> bonus, after |-> bonus, admin |-> NoAdmin]
    <3>1. orders' = orders
      BY <2>2 DEF Login
    <3>2. CASE ledger' = ledger  BY <3>1, <3>2, <2>1
    <3>3. CASE ledger' = [ledger EXCEPT ![u] = Append(ledger[u], e)]
      <4>1. e.key # <<"order_refund", x>> /\ e.key # <<"order_pay", x>>  OBVIOUS
      <4> HIDE DEF e
      <4> QED  BY <3>1, <3>3, <4>1, AppendEvents, UnrelatedPosting
    <3> QED  BY <2>2, <3>2, <3>3 DEF Login
  <2>3. ASSUME NEW o \in OrderIds, NEW u \in Users, NEW tok \in Tokens, NEW a \in Addresses,
               NEW rows \in SUBSET CartRows, CreateOrder(o, u, tok, rows, a)
        PROVE  Charged(x)' /\ \A v \in Users : PointsBack(x, v)'
    <3> DEFINE total == Total(Lines(rows, cart, products))
    <3>1. PostPoints(u, <<"order_pay", o>>, -total, NoAdmin)
      BY <2>3 DEF CreateOrder, PlaceOrder
    <3>2. /\ o \notin DOMAIN orders /\ DOMAIN orders' = DOMAIN orders \cup {o}
          /\ \A y \in DOMAIN orders : orders'[y] = orders[y]
          /\ orders'[o].user = u /\ orders'[o].total = total
          /\ orders'[o].status = "paid"
      BY <2>3, CreatedOrder
    <3> HIDE DEF total
    <3>3. \A v \in Users : \A k, d :
            /\ HasEvent(v, k)' <=> HasEvent(v, k) \/ (v = u /\ k = <<"order_pay", o>>)
            /\ Posted(v, k, d)' <=>
                 Posted(v, k, d) \/ (v = u /\ k = <<"order_pay", o>> /\ d = -total)
      BY <3>1, PostEvents
    <3>4. CASE x # o
      <4>1. <<"order_pay", o>> # <<"order_pay", x>> /\ <<"order_pay", o>> # <<"order_refund", x>>
        BY <3>4
      <4> QED  BY <3>2, <3>3, <3>4, <4>1, UnrelatedPosting
    <3>5. CASE x = o
      <4>1. Charged(o)'  BY <3>2, <3>3 DEF Charged
      <4>2. ASSUME NEW v \in Users PROVE PointsBack(o, v)'
        <5>1. ~HasEvent(v, <<"order_refund", o>>)
          BY <3>2 DEF ChargedAndRefunded, PointsBack
        <5>2. <<"order_pay", o>> # <<"order_refund", o>>  OBVIOUS
        <5> QED  BY <3>2, <3>3, <5>1, <5>2 DEF PointsBack
      <4> QED  BY <3>5, <4>1, <4>2
    <3> QED  BY <3>4, <3>5
  <2>4. ASSUME NEW o \in OrderIds, NEW adm \in Admins, ApproveRefund(adm, o)
        PROVE  Charged(x)' /\ \A v \in Users : PointsBack(x, v)'
    <3>0. orders[o].user \in Users /\ orders[o].total \in Int
      BY <2>4 DEF ApproveRefund, TypeOK, Order
    <3> PICK owner \in Users, total \in Int : owner = orders[o].user /\ total = orders[o].total
      BY <3>0
    <3>1. o \in DOMAIN orders /\ PostPoints(owner, <<"order_refund", o>>, total, adm)
      BY <2>4 DEF ApproveRefund, Refund
    <3>2. /\ DOMAIN orders' = DOMAIN orders
          /\ \A y \in DOMAIN orders \ {o} : orders'[y] = orders[y]
          /\ orders'[o].user = orders[o].user /\ orders'[o].total = orders[o].total
          /\ orders'[o].status = "refunded" /\ orders[o].status # "refunded"
      BY <2>4 DEF ApproveRefund, Refund, TypeOK, Order
    <3>3. \A v \in Users : \A k, d :
            /\ HasEvent(v, k)' <=>
                 HasEvent(v, k) \/ (v = owner /\ k = <<"order_refund", o>>)
            /\ Posted(v, k, d)' <=>
                 Posted(v, k, d) \/ (v = owner /\ k = <<"order_refund", o>> /\ d = total)
      <4> DEFINE event == <<"order_refund", o>>
      <4>1. PostPoints(owner, event, total, adm)  BY <3>1
      <4> HIDE DEF event
      <4>2. \A v \in Users : \A k, d :
              /\ HasEvent(v, k)' <=> HasEvent(v, k) \/ (v = owner /\ k = event)
              /\ Posted(v, k, d)' <=> Posted(v, k, d) \/ (v = owner /\ k = event /\ d = total)
        BY <4>1, PostEvents
      <4> QED  BY <4>2 DEF event
    <3>4. CASE x # o
      <4>1. <<"order_refund", o>> # <<"order_pay", x>> /\ <<"order_refund", o>> # <<"order_refund", x>>
        BY <3>4
      <4> QED  BY <3>2, <3>3, <3>4, <4>1, UnrelatedPosting
    <3>5. CASE x = o
      <4>1. Charged(o)'  BY <3>1, <3>2, <3>3 DEF ChargedAndRefunded, Charged
      <4>2. ASSUME NEW v \in Users PROVE PointsBack(o, v)'
        <5>1. ~HasEvent(v, <<"order_refund", o>>)
          BY <3>2 DEF ChargedAndRefunded, PointsBack
        <5> QED  BY <3>1, <3>2, <3>3, <5>1 DEF PointsBack
      <4> QED  BY <3>5, <4>1, <4>2
    <3> QED  BY <3>4, <3>5
  <2>5. ASSUME NEW adm \in Admins, NEW key \in AdjustKeys, NEW u \in Users, NEW d \in Deltas,
               AdjustPoints(adm, key, u, d)
        PROVE  Charged(x)' /\ \A v \in Users : PointsBack(x, v)'
    <3> DEFINE event == <<"admin_adjust", <<adm, key>>>>
    <3>1. PostPoints(u, event, d, adm) /\ orders' = orders  BY <2>5 DEF AdjustPoints
    <3>2. event # <<"order_pay", x>> /\ event # <<"order_refund", x>>  OBVIOUS
    <3> HIDE DEF event
    <3>3. \A v \in Users : \A k, n :
            /\ HasEvent(v, k)' <=> HasEvent(v, k) \/ (v = u /\ k = event)
            /\ Posted(v, k, n)' <=> Posted(v, k, n) \/ (v = u /\ k = event /\ n = d)
      BY <3>1, PostEvents
    <3> QED  BY <3>1, <3>2, <3>3, UnrelatedPosting
  <2>6. ASSUME NEW o \in OrderIds,
               \/ Confirm(o) \/ RequestRefund(o)
               \/ \E adm \in Admins : Ship(adm, o) \/ RejectRefund(adm, o)
        PROVE  Charged(x)' /\ \A v \in Users : PointsBack(x, v)'
    <3>1. ledger' = ledger  BY <2>6 DEF Confirm, RequestRefund, Ship, RejectRefund
    <3>2. DOMAIN orders' = DOMAIN orders
      BY <2>6 DEF Confirm, RequestRefund, Ship, RejectRefund
    <3>3. x \in DOMAIN orders =>
            /\ orders'[x].user = orders[x].user /\ orders'[x].total = orders[x].total
            /\ orders'[x].status = "refunded" <=> orders[x].status = "refunded"
      <4>1. CASE Confirm(o)  BY <4>1 DEF Confirm, TypeOK, Order
      <4>2. CASE RequestRefund(o)  BY <4>2 DEF RequestRefund, TypeOK, Order
      <4>3. CASE \E adm \in Admins : Ship(adm, o)  BY <4>3 DEF Ship, TypeOK, Order
      <4>4. CASE \E adm \in Admins : RejectRefund(adm, o)
        BY <4>4 DEF RejectRefund, TypeOK, Order
      <4> QED  BY <2>6, <4>1, <4>2, <4>3, <4>4
    <3>4. \A v, k, d : /\ HasEvent(v, k)' <=> HasEvent(v, k)
                       /\ Posted(v, k, d)' <=> Posted(v, k, d)
      BY <3>1 DEF HasEvent, Posted
    <3> QED  BY <3>2, <3>3, <3>4, UnrelatedPosting
  <2>7. CASE BuyerNext
    BY <2>7, <2>1, <2>2, <2>3, <2>6 DEF BuyerNext, AddToCart, SetCartQuantity, RemoveFromCart,
         CreateAddress, EditAddress, DeleteAddress
  <2>8. CASE AdminNext
    BY <2>8, <2>1, <2>4, <2>5, <2>6 DEF AdminNext, ShipRefused, ReviewRefused,
         AdjustRefused, RecordFailure, UpdateProduct
  <2> QED  BY <2>1, <2>7, <2>8 DEF Next, vars
<1> QED  BY <1>1, <1>2, TypeCorrect, PTL DEF Spec

-----------------------------------------------------------------------------
(* Stock *)

\* Holding, for any table of orders.
HoldingOf(t, p) ==
  {x \in UNION {{o} \X t[o].lines : o \in DOMAIN t} :
     t[x[1]].status # "refunded" /\ x[2].product = p}

OneRowPerProduct(t) ==
  \A c, d \in DOMAIN t : t[c].user = t[d].user /\ t[c].product = t[d].product => c = d

OneLinePerProduct(lines) == \A l, m \in lines : l.product = m.product => l = m

\* UNIQUE (user_id, product_id) of the cart gives an order one line for a
\* product, so that restocking moves the units of all its lines.
LinesInv ==
  /\ OneRowPerProduct(cart)
  /\ \A o \in DOMAIN orders : OneLinePerProduct(orders[o].lines)

StockInv ==
  /\ LinesInv
  /\ \A p \in Products : IsFiniteSet(Holding(p))
  /\ StockConserved

LEMMA HoldingMember ==
  ASSUME NEW t, NEW p, NEW x
  PROVE  x \in HoldingOf(t, p) <=>
           \E o \in DOMAIN t : \E l \in t[o].lines :
             x = <<o, l>> /\ t[o].status # "refunded" /\ l.product = p
<1>1. ASSUME x \in HoldingOf(t, p)
      PROVE  \E o \in DOMAIN t : \E l \in t[o].lines :
               x = <<o, l>> /\ t[o].status # "refunded" /\ l.product = p
  <2>1. PICK o \in DOMAIN t : x \in {o} \X t[o].lines  BY <1>1 DEF HoldingOf
  <2>2. PICK l \in t[o].lines : x = <<o, l>>  BY <2>1
  <2> QED  BY <1>1, <2>2 DEF HoldingOf
<1>2. ASSUME NEW o \in DOMAIN t, NEW l \in t[o].lines,
             x = <<o, l>>, t[o].status # "refunded", l.product = p
      PROVE  x \in HoldingOf(t, p)
  <2>1. x \in {o} \X t[o].lines  BY <1>2
  <2>2. x[1] = o /\ x[2] = l  BY <1>2
  <2> QED  BY <1>2, <2>1, <2>2 DEF HoldingOf
<1> QED  BY <1>1, <1>2

\* A step between other statuses holds what was held.
LEMMA SameHolding ==
  ASSUME NEW t, NEW s, NEW p, DOMAIN s = DOMAIN t,
         \A o \in DOMAIN t : /\ s[o].lines = t[o].lines
                             /\ s[o].status = "refunded" <=> t[o].status = "refunded"
  PROVE  HoldingOf(s, p) = HoldingOf(t, p)
<1>1. \A x : x \in HoldingOf(s, p) <=> x \in HoldingOf(t, p)
  BY HoldingMember
<1> QED  BY <1>1

\* An order that is inserted holds its line about p.
LEMMA MoreHolding ==
  ASSUME NEW t, NEW s, NEW p, NEW o, o \notin DOMAIN t, DOMAIN s = DOMAIN t \cup {o},
         \A x \in DOMAIN t : s[x] = t[x], s[o].status = "paid"
  PROVE  HoldingOf(s, p) =
           HoldingOf(t, p) \cup {<<o, l>> : l \in {l \in s[o].lines : l.product = p}}
<1> DEFINE new == {<<o, l>> : l \in {l \in s[o].lines : l.product = p}}
<1>1. ASSUME NEW x \in HoldingOf(s, p)  PROVE x \in HoldingOf(t, p) \cup new
  <2>1. PICK q \in DOMAIN s : \E l \in s[q].lines :
               x = <<q, l>> /\ s[q].status # "refunded" /\ l.product = p
    BY HoldingMember
  <2>2. CASE q = o  BY <2>1, <2>2
  <2>3. CASE q # o  BY <2>1, <2>3, HoldingMember
  <2> QED  BY <2>2, <2>3
<1>2. ASSUME NEW x \in HoldingOf(t, p)  PROVE x \in HoldingOf(s, p)
  <2>1. PICK q \in DOMAIN t : \E l \in t[q].lines :
               x = <<q, l>> /\ t[q].status # "refunded" /\ l.product = p
    BY HoldingMember
  <2> QED  BY <2>1, HoldingMember
<1>3. ASSUME NEW x \in new  PROVE x \in HoldingOf(s, p)
  <2>1. PICK l \in s[o].lines : x = <<o, l>> /\ l.product = p  BY <1>3
  <2> QED  BY <2>1, HoldingMember
<1> QED  BY <1>1, <1>2, <1>3

\* An order that is refunded no longer holds it.
LEMMA LessHolding ==
  ASSUME NEW t, NEW s, NEW p, NEW o \in DOMAIN t, DOMAIN s = DOMAIN t,
         \A x \in DOMAIN t \ {o} : s[x] = t[x], s[o].status = "refunded"
  PROVE  HoldingOf(s, p) =
           HoldingOf(t, p) \ {<<o, l>> : l \in {l \in t[o].lines : l.product = p}}
<1> DEFINE old == {<<o, l>> : l \in {l \in t[o].lines : l.product = p}}
<1>1. ASSUME NEW x \in HoldingOf(s, p)  PROVE x \in HoldingOf(t, p) /\ x \notin old
  <2>1. PICK q \in DOMAIN s : \E l \in s[q].lines :
               x = <<q, l>> /\ s[q].status # "refunded" /\ l.product = p
    BY HoldingMember
  <2>2. q # o /\ x[1] = q  BY <2>1
  <2> QED  BY <2>1, <2>2, HoldingMember
<1>2. ASSUME NEW x \in HoldingOf(t, p), x \notin old  PROVE x \in HoldingOf(s, p)
  <2>1. PICK q \in DOMAIN t : \E l \in t[q].lines :
               x = <<q, l>> /\ t[q].status # "refunded" /\ l.product = p
    BY HoldingMember
  <2>2. q # o  BY <1>2, <2>1
  <2> QED  BY <2>1, <2>2, HoldingMember
<1> QED  BY <1>1, <1>2

\* The shelf moves by the one line about the product, if there is one.
LEMMA Restocked ==
  ASSUME products \in [Products -> Product], NEW lines \in SUBSET Line, OneLinePerProduct(lines),
         NEW sign, NEW p \in Products
  PROVE  /\ \A l \in lines : l.product = p =>
              Restock(lines, sign)[p].stock = products[p].stock + sign * l.qty
         /\ (\A l \in lines : l.product # p) => Restock(lines, sign)[p].stock = products[p].stock
<1>1. ASSUME NEW l \in lines, l.product = p
      PROVE  Restock(lines, sign)[p].stock = products[p].stock + sign * l.qty
  <2>1. PICK m : m = CHOOSE k \in lines : k.product = p  OBVIOUS
  <2>2. m \in lines /\ m.product = p  BY <1>1, <2>1
  <2>3. m = l  BY <1>1, <2>2 DEF OneLinePerProduct
  <2>4. Restock(lines, sign)[p] = [products[p] EXCEPT !.stock = @ + sign * m.qty]
    BY <1>1, <2>1 DEF Restock
  <2> QED  BY <2>3, <2>4 DEF Product
<1>2. ASSUME \A l \in lines : l.product # p
      PROVE  Restock(lines, sign)[p].stock = products[p].stock
  BY <1>2 DEF Restock
<1> QED  BY <1>1, <1>2

\* The units held change by those of the pair of order and line that comes or goes.
LEMMA UnitsMove ==
  ASSUME NEW H \in SUBSET (OrderIds \X Line), IsFiniteSet(H), NEW o \in OrderIds, NEW l \in Line
  PROVE  /\ SumFunctionOnSet(Units, H) \in Int /\ l.qty \in Int
         /\ <<o, l>> \notin H =>
              /\ IsFiniteSet(H \cup {<<o, l>>})
              /\ SumFunctionOnSet(Units, H \cup {<<o, l>>}) = l.qty + SumFunctionOnSet(Units, H)
         /\ <<o, l>> \in H =>
              /\ IsFiniteSet(H \ {<<o, l>>})
              /\ SumFunctionOnSet(Units, H \ {<<o, l>>}) = SumFunctionOnSet(Units, H) - l.qty
<1> DEFINE x == <<o, l>>
<1>1. x \in OrderIds \X Line /\ Units[x] = l.qty  BY DEF Units
<1>2. \A y \in OrderIds \X Line : Units[y] \in Int
  <2> SUFFICES ASSUME NEW y \in OrderIds \X Line  PROVE Units[y] \in Int  OBVIOUS
  <2>1. y[2] \in Line /\ Units[y] = y[2].qty  BY DEF Units
  <2> QED  BY <2>1, MallAssumption DEF Line
<1> HIDE DEF x
<1>3. SumFunctionOnSet(Units, H) \in Int /\ l.qty \in Int  BY <1>1, <1>2, SumType
<1>4. ASSUME x \notin H
      PROVE  /\ IsFiniteSet(H \cup {x})
             /\ SumFunctionOnSet(Units, H \cup {x}) = l.qty + SumFunctionOnSet(Units, H)
  <2>1. \A y \in H \cup {x} : Units[y] \in Int  BY <1>1, <1>2
  <2> QED  BY <1>1, <1>4, <2>1, SumWithNew, FS_AddElement
<1>5. ASSUME x \in H
      PROVE  /\ IsFiniteSet(H \ {x})
             /\ SumFunctionOnSet(Units, H \ {x}) = SumFunctionOnSet(Units, H) - l.qty
  <2>1. \A y \in H : Units[y] \in Int  BY <1>2
  <2>2. SumFunctionOnSet(Units, H) = Units[x] + SumFunctionOnSet(Units, H \ {x})
    BY <1>5, <2>1, SumOfMember
  <2>3. IsFiniteSet(H \ {x})  BY FS_Subset
  <2>4. SumFunctionOnSet(Units, H \ {x}) \in Int  BY <1>2, <2>3, SumType
  <2> QED  BY <1>1, <1>3, <2>2, <2>3, <2>4
<1> QED  BY <1>3, <1>4, <1>5 DEF x

\* What is held is held by orders, in lines.
LEMMA HoldingType ==
  ASSUME NEW t, NEW p, DOMAIN t \subseteq OrderIds, \A o \in DOMAIN t : t[o].lines \subseteq Line
  PROVE  HoldingOf(t, p) \in SUBSET (OrderIds \X Line)
<1> SUFFICES ASSUME NEW x \in HoldingOf(t, p)  PROVE x \in OrderIds \X Line  OBVIOUS
<1>1. PICK o \in DOMAIN t : \E l \in t[o].lines : x = <<o, l>>  BY HoldingMember
<1> QED  BY <1>1

\* A created order takes from the shelf what it holds from then on.
LEMMA CreateStock ==
  ASSUME TypeOK, StockInv, NEW o \in OrderIds, NEW u \in Users, NEW tok, NEW rows, NEW a,
         CreateOrder(o, u, tok, rows, a), TypeOK'
  PROVE  StockInv'
<1> PICK lines : lines = Lines(rows, cart, products)  OBVIOUS
<1> PICK t, s, sign : t = orders /\ s = orders' /\ sign = -1  OBVIOUS
<1>1. /\ o \notin DOMAIN t /\ DOMAIN s = DOMAIN t \cup {o}
      /\ \A x \in DOMAIN t : s[x] = t[x]
      /\ s[o].status = "paid" /\ s[o].lines = lines
  BY CreatedOrder
<1>2. /\ DOMAIN s \subseteq OrderIds /\ \A x \in DOMAIN s : s[x].lines \in SUBSET Line
      /\ DOMAIN t \subseteq OrderIds /\ \A x \in DOMAIN t : t[x].lines \in SUBSET Line
  BY DEF TypeOK, Order
<1>3. lines \in SUBSET Line  BY <1>1, <1>2
<1>4. /\ products' = Restock(lines, sign) /\ supply' = supply
      /\ rows \subseteq DOMAIN cart /\ \A c \in rows : cart[c].user = u
      /\ cart' = Without(cart, rows)
  BY DEF CreateOrder, PlaceOrder
<1>5. OneLinePerProduct(lines)
  <2> SUFFICES ASSUME NEW l \in lines, NEW m \in lines, l.product = m.product  PROVE l = m
    BY DEF OneLinePerProduct
  <2>1. PICK c \in rows : l = [product |-> cart[c].product, price |-> products[cart[c].product].price,
                               qty |-> cart[c].qty]
    BY DEF Lines
  <2>2. PICK d \in rows : m = [product |-> cart[d].product, price |-> products[cart[d].product].price,
                               qty |-> cart[d].qty]
    BY DEF Lines
  <2>3. cart[c].product = cart[d].product /\ cart[c].user = cart[d].user  BY <1>4, <2>1, <2>2
  <2>4. c = d  BY <1>4, <2>3 DEF StockInv, LinesInv, OneRowPerProduct
  <2> QED  BY <2>1, <2>2, <2>4
<1>6. LinesInv'
  <2>1. \A c \in DOMAIN cart' : c \in DOMAIN cart /\ cart'[c] = cart[c]  BY <1>4 DEF Without
  <2>2. \A x \in DOMAIN s : OneLinePerProduct(s[x].lines)
    BY <1>1, <1>5 DEF StockInv, LinesInv
  <2> QED  BY <2>1, <2>2 DEF StockInv, LinesInv, OneRowPerProduct
<1>7. ASSUME NEW p \in Products
      PROVE  /\ IsFiniteSet(HoldingOf(s, p))
             /\ products'[p].stock + SumFunctionOnSet(Units, HoldingOf(s, p)) = supply'[p]
  <2> DEFINE H == HoldingOf(t, p)
  <2>1. /\ IsFiniteSet(H) /\ products[p].stock + SumFunctionOnSet(Units, H) = supply[p]
        /\ H \in SUBSET (OrderIds \X Line) /\ products[p].stock \in Int
    BY <1>2, HoldingType, MallAssumption
       DEF StockInv, StockConserved, Held, Holding, HoldingOf, TypeOK, Product
  <2>2. HoldingOf(s, p) = H \cup {<<o, l>> : l \in {l \in lines : l.product = p}}
    BY <1>1, MoreHolding
  <2> HIDE DEF H
  <2>3. /\ \A l \in lines : l.product = p =>
              Restock(lines, sign)[p].stock = products[p].stock + sign * l.qty
        /\ (\A l \in lines : l.product # p) => Restock(lines, sign)[p].stock = products[p].stock
    <3>1. products \in [Products -> Product]  BY DEF TypeOK
    <3> QED  BY <1>3, <1>5, <3>1, Restocked
  <2>4. CASE \E l \in lines : l.product = p
    <3>1. PICK l \in lines : l.product = p  BY <2>4
    <3>2. {m \in lines : m.product = p} = {l}  BY <1>5, <3>1 DEF OneLinePerProduct
    <3>3. HoldingOf(s, p) = H \cup {<<o, l>>}  BY <2>2, <3>2
    <3>4. <<o, l>> \notin H  BY <1>1, HoldingMember DEF H
    <3>5. /\ IsFiniteSet(H \cup {<<o, l>>})
          /\ SumFunctionOnSet(Units, H \cup {<<o, l>>}) = l.qty + SumFunctionOnSet(Units, H)
          /\ SumFunctionOnSet(Units, H) \in Int /\ l.qty \in Int
      BY <1>3, <2>1, <3>1, <3>4, UnitsMove
    <3>6. products'[p].stock = products[p].stock + sign * l.qty
      BY <1>4, <2>3, <3>1
    <3>7. sign * l.qty = -l.qty  BY <3>5
    <3> QED  BY <1>4, <2>1, <3>3, <3>5, <3>6, <3>7
  <2>5. CASE \A l \in lines : l.product # p
    <3>1. HoldingOf(s, p) = H  BY <2>2, <2>5
    <3>2. products'[p].stock = products[p].stock  BY <1>4, <2>5, <2>3
    <3> QED  BY <1>4, <2>1, <3>1, <3>2
  <2> QED  BY <2>4, <2>5
<1> QED  BY <1>6, <1>7 DEF StockInv, StockConserved, Held, Holding, HoldingOf

\* An approved refund returns to the shelf what the order held.
LEMMA ApproveStock ==
  ASSUME TypeOK, StockInv, NEW o \in OrderIds, NEW adm \in Admins, ApproveRefund(adm, o)
  PROVE  StockInv'
<1> PICK lines : lines = orders[o].lines  OBVIOUS
<1> PICK t, s, sign : t = orders /\ s = orders' /\ sign = 1  OBVIOUS
<1>1. /\ o \in DOMAIN t /\ DOMAIN s = DOMAIN t
      /\ \A x \in DOMAIN t \ {o} : s[x] = t[x]
      /\ s[o].status = "refunded" /\ t[o].status = "refund_requested"
      /\ \A x \in DOMAIN t : s[x].lines = t[x].lines
  BY DEF ApproveRefund, Refund, TypeOK, Order
<1>2. /\ DOMAIN t \subseteq OrderIds /\ \A x \in DOMAIN t : t[x].lines \in SUBSET Line
      /\ lines = t[o].lines /\ lines \in SUBSET Line /\ OneLinePerProduct(lines)
  BY <1>1 DEF TypeOK, Order, StockInv, LinesInv
<1>3. products' = Restock(lines, sign) /\ supply' = supply /\ cart' = cart
  BY DEF ApproveRefund, Refund
<1>4. LinesInv'
  BY <1>1, <1>3 DEF StockInv, LinesInv
<1>5. ASSUME NEW p \in Products
      PROVE  /\ IsFiniteSet(HoldingOf(s, p))
             /\ products'[p].stock + SumFunctionOnSet(Units, HoldingOf(s, p)) = supply'[p]
  <2> DEFINE H == HoldingOf(t, p)
  <2>1. /\ IsFiniteSet(H) /\ products[p].stock + SumFunctionOnSet(Units, H) = supply[p]
        /\ H \in SUBSET (OrderIds \X Line) /\ products[p].stock \in Int
    BY <1>2, HoldingType, MallAssumption
       DEF StockInv, StockConserved, Held, Holding, HoldingOf, TypeOK, Product
  <2>2. HoldingOf(s, p) = H \ {<<o, l>> : l \in {l \in lines : l.product = p}}
    BY <1>1, <1>2, LessHolding
  <2>3. \A l \in lines : l.product = p => <<o, l>> \in H
    BY <1>1, <1>2, HoldingMember
  <2> HIDE DEF H
  <2>4. /\ \A l \in lines : l.product = p =>
              Restock(lines, sign)[p].stock = products[p].stock + sign * l.qty
        /\ (\A l \in lines : l.product # p) => Restock(lines, sign)[p].stock = products[p].stock
    <3>1. products \in [Products -> Product]  BY DEF TypeOK
    <3> QED  BY <1>2, <3>1, Restocked
  <2>5. CASE \E l \in lines : l.product = p
    <3>1. PICK l \in lines : l.product = p  BY <2>5
    <3>2. {m \in lines : m.product = p} = {l}  BY <1>2, <3>1 DEF OneLinePerProduct
    <3>3. HoldingOf(s, p) = H \ {<<o, l>>}  BY <2>2, <3>2
    <3>4. /\ IsFiniteSet(H \ {<<o, l>>})
          /\ SumFunctionOnSet(Units, H \ {<<o, l>>}) = SumFunctionOnSet(Units, H) - l.qty
          /\ SumFunctionOnSet(Units, H) \in Int /\ l.qty \in Int
      BY <1>2, <2>1, <2>3, <3>1, UnitsMove
    <3>5. products'[p].stock = products[p].stock + sign * l.qty
      BY <1>3, <2>4, <3>1
    <3>6. sign * l.qty = l.qty  BY <3>4
    <3> QED  BY <1>3, <2>1, <3>3, <3>4, <3>5, <3>6
  <2>6. CASE \A l \in lines : l.product # p
    <3>1. HoldingOf(s, p) = H  BY <2>2, <2>6
    <3>2. products'[p].stock = products[p].stock  BY <1>3, <2>4, <2>6
    <3> QED  BY <1>3, <2>1, <3>1, <3>2
  <2> QED  BY <2>5, <2>6
<1>6. \A p \in Products : Holding(p)' = HoldingOf(s, p)
  BY DEF Holding, HoldingOf
<1> QED  BY <1>4, <1>5, <1>6 DEF StockInv, StockConserved, Held

\* Where the orders hold what they held, stock and supply move together.
LEMMA SameStock ==
  ASSUME TypeOK, StockInv, LinesInv', DOMAIN orders' = DOMAIN orders,
         \A o \in DOMAIN orders :
           /\ orders'[o].lines = orders[o].lines
           /\ orders'[o].status = "refunded" <=> orders[o].status = "refunded",
         \A p \in Products : supply'[p] - products'[p].stock = supply[p] - products[p].stock,
         \A p \in Products : supply'[p] \in Int /\ products'[p].stock \in Int
  PROVE  StockInv'
<1> PICK t, s : t = orders /\ s = orders'  OBVIOUS
<1>1. ASSUME NEW p \in Products
      PROVE  /\ IsFiniteSet(HoldingOf(s, p))
             /\ products'[p].stock + SumFunctionOnSet(Units, HoldingOf(s, p)) = supply'[p]
  <2> DEFINE H == HoldingOf(t, p)
  <2>1. HoldingOf(s, p) = H  BY SameHolding
  <2>2. /\ DOMAIN t \subseteq OrderIds /\ \A x \in DOMAIN t : t[x].lines \subseteq Line
        /\ products[p].stock \in Int /\ supply[p] \in Int
    BY MallAssumption DEF TypeOK, Order, Product
  <2>3. /\ IsFiniteSet(H) /\ products[p].stock + SumFunctionOnSet(Units, H) = supply[p]
    BY DEF StockInv, StockConserved, Held, Holding, HoldingOf
  <2>4. SumFunctionOnSet(Units, H) \in Int
    <3>1. H \in SUBSET (OrderIds \X Line)  BY <2>2, HoldingType
    <3>2. \A y \in H : Units[y] \in Int
      <4> HIDE DEF H
      <4> SUFFICES ASSUME NEW y \in OrderIds \X Line  PROVE Units[y] \in Int  BY <3>1
      <4>1. y[2] \in Line /\ Units[y] = y[2].qty  BY DEF Units
      <4> QED  BY <4>1, MallAssumption DEF Line
    <3> HIDE DEF H
    <3> QED  BY <2>3, <3>2, SumType
  <2> HIDE DEF H
  <2> QED  BY <2>1, <2>2, <2>3, <2>4
<1> QED  BY <1>1 DEF StockInv, StockConserved, Held, Holding, HoldingOf

\* Steps of an order's life other than creation and approval.
LEMMA StatusStock ==
  ASSUME TypeOK, StockInv, TypeOK', NEW o \in OrderIds,
         \/ Confirm(o) \/ RequestRefund(o)
         \/ \E adm \in Admins : Ship(adm, o) \/ RejectRefund(adm, o)
  PROVE  StockInv'
<1> DEFINE Kept ==
      /\ DOMAIN orders' = DOMAIN orders
      /\ \A x \in DOMAIN orders :
           /\ orders'[x].lines = orders[x].lines
           /\ orders'[x].status = "refunded" <=> orders[x].status = "refunded"
      /\ UNCHANGED <<products, supply, cart>>
<1>1. Kept
  <2>1. CASE Confirm(o)  BY <2>1 DEF Confirm, TypeOK, Order
  <2>2. CASE RequestRefund(o)  BY <2>2 DEF RequestRefund, TypeOK, Order
  <2>3. ASSUME NEW adm \in Admins, Ship(adm, o)
        PROVE  Kept
    <3>1. o \in DOMAIN orders /\ orders \in [DOMAIN orders -> Order] /\ orders[o].status = "paid"
      BY <2>3 DEF Ship, TypeOK
    <3>2. orders' = [orders EXCEPT ![o] = [@ EXCEPT !.status = "shipped", !.shippedBy = adm]]
      BY <2>3 DEF Ship
    <3>3. /\ orders'[o].lines = orders[o].lines /\ orders'[o].status = "shipped"
          /\ \A x \in DOMAIN orders \ {o} : orders'[x] = orders[x]
          /\ DOMAIN orders' = DOMAIN orders
      BY <3>1, <3>2 DEF Order
    <3> QED  BY <2>3, <3>1, <3>3 DEF Ship
  <2>4. ASSUME NEW adm \in Admins, RejectRefund(adm, o)
        PROVE  Kept
    BY <2>4 DEF RejectRefund, TypeOK, Order
  <2> QED  BY <2>1, <2>2, <2>3, <2>4
<1>2. LinesInv'  BY <1>1 DEF StockInv, LinesInv
<1>3. \A p \in Products : supply[p] \in Int /\ products[p].stock \in Int
  BY MallAssumption DEF TypeOK, Product
<1> QED  BY <1>1, <1>2, <1>3, SameStock

\* Carts keep one row for a buyer and a product.
LEMMA CartStock ==
  ASSUME TypeOK, StockInv,
         \/ \E u \in Users, p \in Products, n \in 1..MaxQty : AddToCart(u, p, n)
         \/ \E c \in CartRows, n \in 1..MaxQty : SetCartQuantity(c, n)
         \/ \E c \in CartRows : RemoveFromCart(c)
  PROVE  LinesInv' /\ UNCHANGED <<orders, products, supply>>
<1>1. UNCHANGED <<orders, products, supply>>
  BY DEF AddToCart, SetCartQuantity, RemoveFromCart
<1>2. cart \in [DOMAIN cart -> CartRow]  BY DEF TypeOK
<1>3. OneRowPerProduct(cart)  BY DEF StockInv, LinesInv
<1> USE DEF OneRowPerProduct
<1>4. ASSUME NEW u \in Users, NEW p \in Products, NEW n \in 1..MaxQty, AddToCart(u, p, n)
      PROVE  OneRowPerProduct(cart')
  <2>1. ASSUME NEW c \in DOMAIN cart, cart' = [cart EXCEPT ![c].qty = @ + n]
        PROVE  OneRowPerProduct(cart')
    BY <1>2, <1>3, <2>1 DEF CartRow
  <2>2. ASSUME NEW c \in CartRows \ (DOMAIN cart \cup retired),
               cart' = With(cart, c, [user |-> u, product |-> p, qty |-> n]),
               ~\E d \in DOMAIN cart : cart[d].user = u /\ cart[d].product = p
        PROVE  OneRowPerProduct(cart')
    <3>1. /\ DOMAIN cart' = DOMAIN cart \cup {c}
          /\ cart'[c].user = u /\ cart'[c].product = p
          /\ \A d \in DOMAIN cart : cart'[d] = cart[d]
      BY <2>2 DEF With
    <3> QED  BY <1>3, <2>2, <3>1
  <2> QED  BY <1>4, <2>1, <2>2 DEF AddToCart
<1>5. ASSUME NEW c \in CartRows, NEW n \in 1..MaxQty, SetCartQuantity(c, n)
      PROVE  OneRowPerProduct(cart')
  BY <1>2, <1>3, <1>5 DEF SetCartQuantity, CartRow
<1>6. ASSUME NEW c \in CartRows, RemoveFromCart(c)
      PROVE  OneRowPerProduct(cart')
  BY <1>3, <1>6 DEF RemoveFromCart, Without
<1> QED  BY <1>1, <1>4, <1>5, <1>6 DEF StockInv, LinesInv

\* An administrator's update moves stock and supply alike.
LEMMA UpdateStock ==
  ASSUME TypeOK, StockInv, NEW adm \in Admins, NEW p \in Products, NEW row \in Product,
         UpdateProduct(adm, p, row)
  PROVE  StockInv'
<1>1. UNCHANGED <<orders, cart>>  BY DEF UpdateProduct
<1>2. LinesInv'  BY <1>1 DEF StockInv, LinesInv
<1>3. \A q \in Products : supply[q] \in Int /\ products[q].stock \in Int
  BY MallAssumption DEF TypeOK, Product
<1>4. row.stock \in Int  BY MallAssumption DEF Product
<1>5. /\ products' = [products EXCEPT ![p] = row]
      /\ supply' = [supply EXCEPT ![p] = @ + row.stock - products[p].stock]
      /\ products \in [Products -> Product] /\ supply \in [Products -> Int]
  BY DEF UpdateProduct, TypeOK
<1>6. \A q \in Products : /\ supply'[q] - products'[q].stock = supply[q] - products[q].stock
                          /\ supply'[q] \in Int /\ products'[q].stock \in Int
  BY <1>3, <1>4, <1>5
<1> QED  BY <1>1, <1>2, <1>6, SameStock

LEMMA StockInit == Init => StockInv
<1> SUFFICES ASSUME Init  PROVE StockInv  OBVIOUS
<1>1. orders = [o \in {} |-> 0] /\ DOMAIN orders = {} /\ DOMAIN cart = {}  BY DEF Init
<1>2. LinesInv  BY <1>1 DEF LinesInv, OneRowPerProduct
<1>3. ASSUME NEW p \in Products  PROVE Holding(p) = {}
  <2>1. ASSUME NEW x \in HoldingOf(orders, p)  PROVE FALSE  BY <1>1, HoldingMember
  <2> QED  BY <2>1 DEF Holding, HoldingOf
<1>4. ASSUME NEW p \in Products
      PROVE  IsFiniteSet(Holding(p)) /\ products[p].stock + Held(p) = supply[p]
  <2>1. Held(p) = 0  BY <1>3, SumEmpty DEF Held
  <2>2. supply[p] = products[p].stock /\ products[p].stock \in Int
    BY MallAssumption DEF Init, Product
  <2> QED  BY <1>3, <2>1, <2>2, FS_EmptySet
<1> QED  BY <1>2, <1>4 DEF StockInv, StockConserved

LEMMA StockStep == ASSUME TypeOK, StockInv, TypeOK', [Next]_vars  PROVE StockInv'
<1>1. \A p \in Products : supply[p] \in Int /\ products[p].stock \in Int
  BY MallAssumption DEF TypeOK, Product
<1>2. ASSUME UNCHANGED <<orders, products, supply>>, LinesInv'  PROVE StockInv'
  BY <1>1, <1>2, SameStock
<1>3. ASSUME UNCHANGED <<orders, products, supply, cart>>  PROVE StockInv'
  <2>1. LinesInv'  BY <1>3 DEF StockInv, LinesInv
  <2> QED  BY <1>2, <1>3, <2>1
<1>4. CASE UNCHANGED vars  BY <1>3, <1>4 DEF vars
<1>5. CASE BuyerNext
  <2>1. ASSUME NEW u \in Users, NEW b \in Bonuses, Login(u, b)  PROVE StockInv'
    BY <1>3, <2>1 DEF Login
  <2>2. CASE \/ \E u \in Users, p \in Products, n \in 1..MaxQty : AddToCart(u, p, n)
             \/ \E c \in CartRows, n \in 1..MaxQty : SetCartQuantity(c, n)
             \/ \E c \in CartRows : RemoveFromCart(c)
    BY <1>2, <2>2, CartStock
  <2>3. CASE \/ \E u \in Users, a \in Addresses : CreateAddress(u, a)
             \/ \E a \in Addresses : EditAddress(a) \/ DeleteAddress(a)
    BY <1>3, <2>3 DEF CreateAddress, EditAddress, DeleteAddress
  <2>4. ASSUME NEW o \in OrderIds, NEW u \in Users, NEW tok \in Tokens, NEW a \in Addresses,
               NEW rows \in SUBSET CartRows, CreateOrder(o, u, tok, rows, a)
        PROVE  StockInv'
    BY <2>4, CreateStock
  <2>5. ASSUME NEW o \in OrderIds, Confirm(o) \/ RequestRefund(o)  PROVE StockInv'
    BY <2>5, StatusStock
  <2> QED  BY <1>5, <2>1, <2>2, <2>3, <2>4, <2>5 DEF BuyerNext
<1>6. CASE AdminNext
  <2>1. ASSUME NEW adm \in Admins, NEW o \in OrderIds, Ship(adm, o) \/ RejectRefund(adm, o)
        PROVE  StockInv'
    BY <2>1, StatusStock
  <2>2. ASSUME NEW adm \in Admins, NEW o \in OrderIds, ApproveRefund(adm, o)  PROVE StockInv'
    BY <2>2, ApproveStock
  <2>3. ASSUME NEW adm \in Admins,
               \/ \E key \in AdjustKeys, u \in Users, d \in Deltas : AdjustPoints(adm, key, u, d)
               \/ \E o \in OrderIds : ShipRefused(adm, o) \/ ReviewRefused(adm, o)
               \/ \E u \in Users : AdjustRefused(adm, u)
        PROVE  StockInv'
    BY <1>3, <2>3 DEF AdjustPoints, ShipRefused, ReviewRefused, AdjustRefused, RecordFailure
  <2>4. ASSUME NEW adm \in Admins, NEW p \in Products, NEW row \in Product,
               UpdateProduct(adm, p, row)
        PROVE  StockInv'
    BY <2>4, UpdateStock
  <2> QED  BY <1>6, <2>1, <2>2, <2>3, <2>4 DEF AdminNext
<1> QED  BY <1>4, <1>5, <1>6 DEF Next

\* Nothing is oversold and nothing vanishes: whatever is ordered, refunded,
\* rejected and restocked, the shelf and the orders that are not refunded hold
\* together what administrators have supplied.
THEOREM StockCorrect == Spec => []StockConserved
<1>1. StockInv => StockConserved  BY DEF StockInv
<1>2. TypeOK /\ StockInv /\ TypeOK' /\ [Next]_vars => StockInv'  BY StockStep
<1> QED  BY <1>1, <1>2, StockInit, TypeCorrect, PTL DEF Spec

-----------------------------------------------------------------------------
(* Keys: what a repeated order request is matched against *)

\* An order belongs to a registered buyer, is the only one under that buyer's
\* key, and the cart rows it was made of never come back.
KeysInv ==
  /\ \A o \in DOMAIN orders :
       orders[o].user \in DOMAIN balance /\ orders[o].hash.rows \subseteq retired
  /\ \A o, r \in DOMAIN orders :
       orders[o].user = orders[r].user /\ orders[o].token = orders[r].token => o = r

\* No buyer is deleted and no row id is used again.
LEMMA NothingReturns ==
  ASSUME TypeOK, [Next]_vars
  PROVE  DOMAIN balance \subseteq DOMAIN balance' /\ retired \subseteq retired'
<1>1. ASSUME NEW u, NEW key, NEW delta, NEW admin, PostPoints(u, key, delta, admin)
      PROVE  DOMAIN balance' = DOMAIN balance
  BY <1>1 DEF PostPoints
<1>2. CASE BuyerNext
  <2>1. ASSUME NEW o, NEW u, NEW tok, NEW rows, NEW a, CreateOrder(o, u, tok, rows, a)
        PROVE  DOMAIN balance \subseteq DOMAIN balance' /\ retired \subseteq retired'
    BY <1>1, <2>1 DEF CreateOrder, PlaceOrder
  <2>2. ASSUME NEW u \in Users, NEW bonus, Login(u, bonus)
        PROVE  DOMAIN balance \subseteq DOMAIN balance' /\ retired \subseteq retired'
    BY <2>2 DEF Login
  <2> QED  BY <1>2, <2>1, <2>2 DEF BuyerNext, AddToCart, SetCartQuantity, RemoveFromCart, CreateAddress,
                EditAddress, DeleteAddress, Confirm, RequestRefund
<1>3. CASE AdminNext
  <2>1. PICK adm \in Admins :
          \/ \E o \in OrderIds : Ship(adm, o) \/ ApproveRefund(adm, o) \/ RejectRefund(adm, o)
          \/ \E key \in AdjustKeys, u \in Users, d \in Deltas : AdjustPoints(adm, key, u, d)
          \/ \E o \in OrderIds : ShipRefused(adm, o) \/ ReviewRefused(adm, o)
          \/ \E u \in Users : AdjustRefused(adm, u)
          \/ \E p \in Products, row \in Product : UpdateProduct(adm, p, row)
    BY <1>3, Zenon DEF AdminNext
  <2>2. ASSUME NEW o \in OrderIds, Ship(adm, o) \/ ApproveRefund(adm, o) \/ RejectRefund(adm, o)
        PROVE  DOMAIN balance \subseteq DOMAIN balance' /\ retired \subseteq retired'
    BY <1>1, <2>2 DEF Ship, ApproveRefund, Refund, RejectRefund
  <2>3. ASSUME NEW key \in AdjustKeys, NEW u \in Users, NEW d \in Deltas, AdjustPoints(adm, key, u, d)
        PROVE  DOMAIN balance \subseteq DOMAIN balance' /\ retired \subseteq retired'
    BY <1>1, <2>3 DEF AdjustPoints
  <2>4. ASSUME NEW action, NEW target, RecordFailure(adm, action, target)
        PROVE  DOMAIN balance \subseteq DOMAIN balance' /\ retired \subseteq retired'
    BY <2>4 DEF RecordFailure
  <2>5. ASSUME NEW p \in Products, NEW row \in Product, UpdateProduct(adm, p, row)
        PROVE  DOMAIN balance \subseteq DOMAIN balance' /\ retired \subseteq retired'
    BY <2>5 DEF UpdateProduct
  <2> QED  BY <2>1, <2>2, <2>3, <2>4, <2>5 DEF ShipRefused, ReviewRefused, AdjustRefused
<1>4. CASE UNCHANGED vars  BY <1>4 DEF vars
<1> QED  BY <1>2, <1>3, <1>4 DEF Next

\* Every use case but order creation leaves an order its owner, key and hash.
LEMMA SameKeys ==
  ASSUME TypeOK, KeysInv, [Next]_vars, DOMAIN orders' = DOMAIN orders,
         \A x \in DOMAIN orders :
           /\ orders'[x].user = orders[x].user /\ orders'[x].token = orders[x].token
           /\ orders'[x].hash = orders[x].hash
  PROVE  KeysInv'
BY NothingReturns DEF KeysInv

LEMMA OrderStepKeys ==
  ASSUME TypeOK, NEW o \in OrderIds,
         \/ Confirm(o) \/ RequestRefund(o)
         \/ \E adm \in Admins : Ship(adm, o) \/ ApproveRefund(adm, o) \/ RejectRefund(adm, o)
  PROVE  /\ DOMAIN orders' = DOMAIN orders
         /\ \A x \in DOMAIN orders :
              /\ orders'[x].user = orders[x].user /\ orders'[x].token = orders[x].token
              /\ orders'[x].hash = orders[x].hash
<1>1. orders \in [DOMAIN orders -> Order]  BY DEF TypeOK
<1>2. CASE Confirm(o)  BY <1>1, <1>2 DEF Confirm, Order
<1>3. CASE RequestRefund(o)  BY <1>1, <1>3 DEF RequestRefund, Order
<1>4. ASSUME NEW adm \in Admins, Ship(adm, o) \/ ApproveRefund(adm, o) \/ RejectRefund(adm, o)
      PROVE  /\ DOMAIN orders' = DOMAIN orders
             /\ \A x \in DOMAIN orders :
                  /\ orders'[x].user = orders[x].user /\ orders'[x].token = orders[x].token
                  /\ orders'[x].hash = orders[x].hash
  <2>1. CASE Ship(adm, o)  BY <1>1, <2>1 DEF Ship, Order
  <2>2. CASE ApproveRefund(adm, o)  BY <1>1, <2>2 DEF ApproveRefund, Refund, Order
  <2>3. CASE RejectRefund(adm, o)
    <3>0. PICK status : status = IF orders[o].shippedBy # NoAdmin THEN "shipped" ELSE "paid"
      OBVIOUS
    <3>1. orders' = [orders EXCEPT ![o].status = status, ![o].reviewedBy = adm]
      BY <2>3, <3>0 DEF RejectRefund
    <3>2. DOMAIN orders' = DOMAIN orders /\ \A x \in DOMAIN orders \ {o} : orders'[x] = orders[x]
      BY <3>1
    <3>3. o \in DOMAIN orders /\ orders[o] \in Order  BY <1>1, <2>3 DEF RejectRefund
    <3>4. orders'[o] = [orders[o] EXCEPT !.status = status, !.reviewedBy = adm]
      BY <3>1, <3>3
    <3>5. /\ orders'[o].user = orders[o].user /\ orders'[o].token = orders[o].token
          /\ orders'[o].hash = orders[o].hash
      BY <3>3, <3>4 DEF Order
    <3> QED  BY <3>2, <3>5
  <2> QED  BY <1>4, <2>1, <2>2, <2>3
<1> QED  BY <1>2, <1>3, <1>4

\* A new order takes a key that was free and retires rows of the cart.
LEMMA CreateKeys ==
  ASSUME TypeOK, KeysInv, NEW o \in OrderIds, NEW u \in Users, NEW tok \in Tokens,
         NEW a \in Addresses, NEW rows \in SUBSET CartRows, CreateOrder(o, u, tok, rows, a)
  PROVE  KeysInv'
<1>1. PICK lines : PlaceOrder(o, u, tok, rows, a, addr[a].version, lines)
  BY DEF CreateOrder
<1>2. /\ o \notin DOMAIN orders /\ DOMAIN orders' = DOMAIN orders \cup {o}
      /\ \A x \in DOMAIN orders : orders'[x] = orders[x]
      /\ orders'[o].user = u /\ orders'[o].token = tok /\ orders'[o].hash.rows = rows
  BY <1>1 DEF PlaceOrder, With, RequestHash
<1>3. DOMAIN balance' = DOMAIN balance /\ u \in DOMAIN balance /\ retired' = retired \cup rows
  BY <1>1 DEF PlaceOrder, PostPoints
<1>4. \A x \in DOMAIN orders : ~(orders[x].user = u /\ orders[x].token = tok)
  BY <1>1 DEF PlaceOrder, HasToken
<1> QED  BY <1>2, <1>3, <1>4 DEF KeysInv

LEMMA KeysInit == Init => KeysInv
BY DEF Init, KeysInv

LEMMA KeysStep == TypeOK /\ KeysInv /\ [Next]_vars => KeysInv'
<1> SUFFICES ASSUME TypeOK, KeysInv, [Next]_vars  PROVE KeysInv'
  OBVIOUS
<1>1. CASE UNCHANGED orders  BY <1>1, SameKeys
<1>2. ASSUME NEW o \in OrderIds, NEW u \in Users, NEW tok \in Tokens, NEW a \in Addresses,
             NEW rows \in SUBSET CartRows, CreateOrder(o, u, tok, rows, a)
      PROVE  KeysInv'
  BY <1>2, CreateKeys
<1>3. ASSUME NEW o \in OrderIds, Confirm(o) \/ RequestRefund(o)  PROVE KeysInv'
  BY <1>3, OrderStepKeys, SameKeys
<1>4. ASSUME NEW o \in OrderIds, NEW adm \in Admins,
             Ship(adm, o) \/ ApproveRefund(adm, o) \/ RejectRefund(adm, o)
      PROVE  KeysInv'
  BY <1>4, OrderStepKeys, SameKeys
<1>5. CASE UNCHANGED vars  BY <1>5, <1>1 DEF vars
<1> QED  BY <1>1, <1>2, <1>3, <1>4, <1>5, OtherSteps

\* UNIQUE (user_id, client_token) names one order for ever: whoever repeats an
\* order request is matched against that order and no other, and the cart rows
\* of an order cannot make a second one.
THEOREM KeysNameOneOrder == Spec => []KeysInv
BY KeysInit, KeysStep, TypeCorrect, PTL DEF Spec

-----------------------------------------------------------------------------
(* Points *)

\* The entries of one buyer's ledger that give points, and their sum.
Gifts(l) == {i \in DOMAIN l : l[i].key[1] \in {"signup", "admin_adjust"}}

GivenBy(l) == SumFunctionOnSet([i \in DOMAIN l |-> l[i].delta], Gifts(l))

\* The unrefunded orders of buyer u in the table t, and what they cost.
Open(t, u) == {o \in DOMAIN t : t[o].user = u /\ t[o].status # "refunded"}

CostOf(t, u) == SumFunctionOnSet([o \in DOMAIN t |-> t[o].total], Open(t, u))

Purse(u) == IF u \in DOMAIN balance THEN balance[u] ELSE 0

PurseInv == IsFiniteSet(DOMAIN orders) /\ PointsConserved

LEMMA GivenType == ASSUME NEW l \in Seq(Entry)  PROVE GivenBy(l) \in Int
<1> DEFINE f == [i \in DOMAIN l |-> l[i].delta]
<1> PICK n \in Nat : n = Len(l)  OBVIOUS
<1>1. DOMAIN l = 1..n /\ \A i \in 1..n : l[i] \in Entry  OBVIOUS
<1>2. Gifts(l) \subseteq 1..n /\ IsFiniteSet(1..n)  BY <1>1, FS_Interval DEF Gifts
<1>3. \A i \in Gifts(l) : f[i] \in Int  BY <1>1, <1>2 DEF Entry
<1>4. GivenBy(l) = SumFunctionOnSet(f, Gifts(l))  BY DEF GivenBy
<1> HIDE DEF f
<1> QED  BY <1>2, <1>3, <1>4, FS_Subset, SumType

\* An entry adds its delta to what was given if it gives points.
LEMMA GivenAppended ==
  ASSUME NEW l \in Seq(Entry), NEW e \in Entry, NEW m, m = Append(l, e)
  PROVE  /\ GivenBy(l) \in Int
         /\ GivenBy(m) = IF e.key[1] \in {"signup", "admin_adjust"}
                         THEN GivenBy(l) + e.delta ELSE GivenBy(l)
<1> DEFINE f == [i \in DOMAIN l |-> l[i].delta]
           g == [i \in DOMAIN m |-> m[i].delta]
           S == Gifts(l)
<1> PICK n \in Nat : n = Len(l)  OBVIOUS
<1>1. /\ DOMAIN l = 1..n /\ DOMAIN m = 1..(n + 1) /\ m[n + 1] = e /\ n + 1 \notin 1..n
      /\ \A i \in 1..n : m[i] = l[i] /\ l[i] \in Entry
      /\ 1..(n + 1) = (1..n) \cup {n + 1}
  OBVIOUS
<1>2. IsFiniteSet(S)
  <2>1. S \subseteq 1..n  BY <1>1 DEF Gifts
  <2>2. IsFiniteSet(1..n)  BY FS_Interval
  <2> QED  BY <2>1, <2>2, FS_Subset
<1>3. \A i \in S : f[i] \in Int /\ g[i] = f[i]
  BY <1>1 DEF Gifts, Entry
<1>4. g[n + 1] = e.delta /\ e.delta \in Int  BY <1>1 DEF Entry
<1>5. n + 1 \notin S  BY <1>1 DEF Gifts
<1>6. Gifts(m) = IF e.key[1] \in {"signup", "admin_adjust"} THEN S \cup {n + 1} ELSE S
  BY <1>1 DEF Gifts
<1>7. GivenBy(l) = SumFunctionOnSet(f, S) /\ GivenBy(m) = SumFunctionOnSet(g, Gifts(m))
  BY DEF GivenBy
<1> HIDE DEF f, g, S
<1>8. SumFunctionOnSet(f, S) \in Int  BY <1>2, <1>3, SumType
<1>9. SumFunctionOnSet(g, S) = SumFunctionOnSet(f, S)  BY <1>2, <1>3, SumSame
<1>10. SumFunctionOnSet(g, S \cup {n + 1}) = g[n + 1] + SumFunctionOnSet(g, S)
  <2>1. \A y \in S \cup {n + 1} : g[y] \in Int  BY <1>3, <1>4
  <2> QED  BY ONLY <1>2, <1>5, <2>1, SumWithNew
<1> QED  BY <1>4, <1>6, <1>7, <1>8, <1>9, <1>10

\* What is open of a finite table is finite and has a sum.
LEMMA OpenFacts ==
  ASSUME NEW t, NEW u, IsFiniteSet(DOMAIN t), \A o \in DOMAIN t : t[o].total \in Int
  PROVE  IsFiniteSet(Open(t, u)) /\ CostOf(t, u) \in Int
<1>1. Open(t, u) \subseteq DOMAIN t  BY DEF Open
<1>2. IsFiniteSet(Open(t, u))  BY <1>1, FS_Subset
<1> DEFINE f == [o \in DOMAIN t |-> t[o].total]
<1>3. \A o \in Open(t, u) : f[o] \in Int  BY <1>1
<1>4. CostOf(t, u) = SumFunctionOnSet(f, Open(t, u))  BY DEF CostOf
<1> HIDE DEF f
<1> QED  BY <1>2, <1>3, <1>4, SumType

\* Orders that keep their owner, their total and whether they are refunded cost the same.
LEMMA CostSame ==
  ASSUME NEW t, NEW s, NEW u, IsFiniteSet(DOMAIN t), \A o \in DOMAIN t : t[o].total \in Int,
         DOMAIN s = DOMAIN t,
         \A o \in DOMAIN t :
           /\ s[o].user = t[o].user /\ s[o].total = t[o].total
           /\ s[o].status = "refunded" <=> t[o].status = "refunded"
  PROVE  CostOf(s, u) = CostOf(t, u)
<1> DEFINE f == [o \in DOMAIN t |-> t[o].total]
           g == [o \in DOMAIN s |-> s[o].total]
<1>1. f = g /\ Open(s, u) = Open(t, u)  BY DEF Open
<1> QED  BY <1>1 DEF CostOf

\* A new order adds its total to what its owner has spent.
LEMMA CostMore ==
  ASSUME NEW t, NEW s, NEW u, IsFiniteSet(DOMAIN t), NEW o, o \notin DOMAIN t,
         DOMAIN s = DOMAIN t \cup {o}, \A x \in DOMAIN t : s[x] = t[x],
         \A x \in DOMAIN s : s[x].total \in Int, s[o].status # "refunded"
  PROVE  CostOf(s, u) = IF u = s[o].user THEN CostOf(t, u) + s[o].total ELSE CostOf(t, u)
<1> DEFINE f == [x \in DOMAIN t |-> t[x].total]
           g == [x \in DOMAIN s |-> s[x].total]
           S == Open(t, u)
<1>1. IsFiniteSet(S) /\ CostOf(t, u) \in Int
  BY OpenFacts
<1>2. \A x \in S : g[x] = f[x] /\ g[x] \in Int  BY DEF Open
<1>3. o \notin S /\ g[o] = s[o].total /\ g[o] \in Int  BY DEF Open
<1>4. Open(s, u) = IF u = s[o].user THEN S \cup {o} ELSE S  BY DEF Open
<1>5. CostOf(t, u) = SumFunctionOnSet(f, S) /\ CostOf(s, u) = SumFunctionOnSet(g, Open(s, u))
  BY DEF CostOf
<1> HIDE DEF f, g, S
<1>6. SumFunctionOnSet(g, S) = SumFunctionOnSet(f, S)  BY <1>1, <1>2, SumSame
<1>7. SumFunctionOnSet(g, S \cup {o}) = g[o] + SumFunctionOnSet(g, S)
  <2>1. \A y \in S \cup {o} : g[y] \in Int  BY <1>2, <1>3
  <2> QED  BY ONLY <1>1, <1>3, <2>1, SumWithNew
<1> QED  BY <1>1, <1>3, <1>4, <1>5, <1>6, <1>7

\* A refunded order takes its total off again.
LEMMA CostLess ==
  ASSUME NEW t, NEW s, NEW u, IsFiniteSet(DOMAIN t), \A x \in DOMAIN t : t[x].total \in Int,
         NEW o \in DOMAIN t, DOMAIN s = DOMAIN t, \A x \in DOMAIN t \ {o} : s[x] = t[x],
         s[o].user = t[o].user, s[o].total = t[o].total,
         t[o].status # "refunded", s[o].status = "refunded"
  PROVE  CostOf(s, u) = IF u = t[o].user THEN CostOf(t, u) - t[o].total ELSE CostOf(t, u)
<1> DEFINE f == [x \in DOMAIN t |-> t[x].total]
           S == Open(t, u)
<1>1. IsFiniteSet(S) /\ CostOf(t, u) \in Int
  BY OpenFacts
<1>2. \A x \in S : f[x] \in Int  BY DEF Open
<1>3. f[o] = t[o].total /\ f[o] \in Int /\ (u = t[o].user => o \in S)  BY DEF Open
<1>4. Open(s, u) = IF u = t[o].user THEN S \ {o} ELSE S  BY DEF Open
<1>5. f = [x \in DOMAIN s |-> s[x].total]  OBVIOUS
<1>6. CostOf(t, u) = SumFunctionOnSet(f, S) /\ CostOf(s, u) = SumFunctionOnSet(f, Open(s, u))
  BY <1>5, Zenon DEF CostOf
<1> HIDE DEF f, S
<1>7. u = t[o].user =>
        /\ SumFunctionOnSet(f, S) = f[o] + SumFunctionOnSet(f, S \ {o})
        /\ SumFunctionOnSet(f, S \ {o}) \in Int
  <2> SUFFICES ASSUME u = t[o].user
               PROVE  /\ SumFunctionOnSet(f, S) = f[o] + SumFunctionOnSet(f, S \ {o})
                      /\ SumFunctionOnSet(f, S \ {o}) \in Int
    OBVIOUS
  <2>1. o \in S  BY <1>3
  <2>2. IsFiniteSet(S \ {o}) /\ \A x \in S \ {o} : f[x] \in Int  BY <1>1, <1>2, FS_Subset
  <2>3. SumFunctionOnSet(f, S \ {o}) \in Int  BY ONLY <2>2, SumType
  <2> QED  BY ONLY <1>1, <1>2, <2>1, <2>3, SumOfMember
<1> QED  BY <1>1, <1>3, <1>4, <1>6, <1>7

LEMMA PursesNow ==
  ASSUME TypeOK, PurseInv, NEW u \in Users
  PROVE  /\ Purse(u) = GivenBy(ledger[u]) - CostOf(orders, u)
         /\ Purse(u) \in Int /\ GivenBy(ledger[u]) \in Int /\ CostOf(orders, u) \in Int
         /\ IsFiniteSet(DOMAIN orders) /\ \A o \in DOMAIN orders : orders[o].total \in Int
<1>1. Purse(u) = GivenBy(ledger[u]) - CostOf(orders, u)
  BY DEF PurseInv, PointsConserved, Granted, Spent, Purse, GivenBy, Gifts, CostOf, Open
<1>2. Purse(u) \in Int  BY MaxIntAssumption DEF Purse, TypeOK
<1>3. IsFiniteSet(DOMAIN orders) /\ \A o \in DOMAIN orders : orders[o].total \in Int
  BY MaxIntAssumption DEF PurseInv, TypeOK, Order
<1>4. CostOf(orders, u) \in Int  BY <1>3, OpenFacts
<1>5. GivenBy(ledger[u]) \in Int
  <2>1. ledger[u] \in Seq(Entry)  BY DEF TypeOK
  <2> QED  BY <2>1, GivenType
<1> QED  BY <1>1, <1>2, <1>3, <1>4, <1>5

\* What has to be shown of a step.
LEMMA PursesNext ==
  ASSUME IsFiniteSet(DOMAIN orders'),
         \A u \in Users : Purse(u)' = GivenBy(ledger'[u]) - CostOf(orders', u)
  PROVE  PurseInv'
BY DEF PurseInv, PointsConserved, Granted, Spent, Purse, GivenBy, Gifts, CostOf, Open

\* A posting moves the purse by its delta, and what was given if it is a gift.
LEMMA PostMoves ==
  ASSUME TypeOK, NEW u \in Users, NEW key \in EventKeys, NEW delta \in Int,
         NEW admin \in Admins \cup {NoAdmin}, PostPoints(u, key, delta, admin), NEW v \in Users
  PROVE  /\ Purse(v)' = IF v = u THEN Purse(v) + delta ELSE Purse(v)
         /\ GivenBy(ledger'[v]) = IF v = u /\ key[1] \in {"signup", "admin_adjust"}
                                  THEN GivenBy(ledger[v]) + delta ELSE GivenBy(ledger[v])
<1> DEFINE e == [key |-> key, delta |-> delta, after |-> balance[u] + delta, admin |-> admin]
<1>1. /\ u \in DOMAIN balance /\ balance[u] + delta \in 0..MaxInt
      /\ balance' = [balance EXCEPT ![u] = balance[u] + delta]
      /\ ledger' = [ledger EXCEPT ![u] = Append(ledger[u], e)]
      /\ ledger \in [Users -> Seq(Entry)]
  BY DEF PostPoints, TypeOK
<1>2. e \in Entry /\ e.key = key /\ e.delta = delta  BY <1>1 DEF Entry
<1> HIDE DEF e
<1>3. Purse(v)' = IF v = u THEN Purse(v) + delta ELSE Purse(v)
  BY <1>1 DEF Purse
<1>4. CASE v = u
  <2>1. ledger'[u] = Append(ledger[u], e) /\ ledger[u] \in Seq(Entry)  BY <1>1
  <2>2. GivenBy(ledger'[u]) = IF e.key[1] \in {"signup", "admin_adjust"}
                              THEN GivenBy(ledger[u]) + e.delta ELSE GivenBy(ledger[u])
    BY <1>2, <2>1, GivenAppended
  <2> QED  BY <1>2, <1>3, <1>4, <2>2
<1>5. CASE v # u
  <2>1. ledger'[v] = ledger[v]  BY <1>1, <1>5
  <2> QED  BY <1>3, <1>5, <2>1
<1> QED  BY <1>4, <1>5

\* A bonus is posted to an empty purse, without the guards of PostPoints.
LEMMA LoginPoints ==
  ASSUME TypeOK, PurseInv, NEW u \in Users, NEW bonus \in Bonuses, Login(u, bonus)
  PROVE  PurseInv'
<1> DEFINE current == IF u \in DOMAIN balance THEN balance[u] ELSE 0
           award == current = 0 /\ bonus > 0 /\ ~HasEvent(u, <<"signup", u>>)
           e == [key |-> <<"signup", u>>, delta |-> bonus, after |-> bonus, admin |-> NoAdmin]
<1>1. /\ DOMAIN balance' = DOMAIN balance \cup {u}
      /\ \A v \in Users \ {u} : /\ v \in DOMAIN balance' <=> v \in DOMAIN balance
                                /\ v \in DOMAIN balance => balance'[v] = balance[v]
      /\ balance'[u] = IF award THEN bonus ELSE current
      /\ ledger' = IF award THEN [ledger EXCEPT ![u] = Append(ledger[u], e)] ELSE ledger
      /\ orders' = orders
  BY DEF Login
<1>2. e \in Entry /\ e.delta = bonus /\ e.key[1] = "signup"
  BY MallAssumption DEF Entry, EventKeys
<1>3. current = Purse(u) /\ ledger \in [Users -> Seq(Entry)] /\ bonus \in Int
  BY MallAssumption DEF Purse, TypeOK
<1>4. award => current = 0  OBVIOUS
<1> HIDE DEF award, current, e
<1>5. ASSUME NEW v \in Users  PROVE Purse(v)' = GivenBy(ledger'[v]) - CostOf(orders', v)
  <2>0. /\ Purse(v) = GivenBy(ledger[v]) - CostOf(orders, v)
        /\ Purse(v) \in Int /\ GivenBy(ledger[v]) \in Int /\ CostOf(orders, v) \in Int
    BY PursesNow
  <2>1. CASE v # u
    <3>1. Purse(v)' = Purse(v) /\ ledger'[v] = ledger[v]  BY <1>1, <1>3, <2>1 DEF Purse
    <3> QED  BY <1>1, <2>0, <3>1
  <2>2. CASE v = u /\ ~award
    <3>1. Purse(v)' = Purse(v) /\ ledger' = ledger  BY <1>1, <1>3, <2>2 DEF Purse
    <3> QED  BY <1>1, <2>0, <3>1
  <2>3. CASE v = u /\ award
    <3>1. Purse(v)' = bonus /\ Purse(v) = 0  BY <1>1, <1>3, <1>4, <2>3 DEF Purse
    <3>2. ledger'[v] = Append(ledger[v], e) /\ ledger[v] \in Seq(Entry)  BY <1>1, <1>3, <2>3
    <3>3. GivenBy(ledger'[v]) = GivenBy(ledger[v]) + bonus  BY <1>2, <3>2, GivenAppended
    <3> QED  BY <1>1, <1>3, <2>0, <3>1, <3>3
  <2> QED  BY <2>1, <2>2, <2>3
<1>6. IsFiniteSet(DOMAIN orders')  BY <1>1 DEF PurseInv
<1> QED  BY <1>5, <1>6, PursesNext

LEMMA CreatePoints ==
  ASSUME TypeOK, PurseInv, TypeOK', NEW o \in OrderIds, NEW u \in Users, NEW tok, NEW rows, NEW a,
         CreateOrder(o, u, tok, rows, a)
  PROVE  PurseInv'
<1> PICK t, s : t = orders /\ s = orders'  OBVIOUS
<1> PICK total : total = Total(Lines(rows, cart, products))  OBVIOUS
<1>1. /\ o \notin DOMAIN t /\ DOMAIN s = DOMAIN t \cup {o}
      /\ \A x \in DOMAIN t : s[x] = t[x]
      /\ s[o].status = "paid" /\ s[o].user = u /\ s[o].total = total
  BY CreatedOrder
<1>2. \A x \in DOMAIN s : s[x].total \in Int  BY MaxIntAssumption DEF TypeOK, Order
<1>3. total \in Int  BY <1>1, <1>2
<1>4. PICK d \in Int : d = -total  BY <1>3
<1>5. PostPoints(u, <<"order_pay", o>>, d, NoAdmin)
  BY <1>4 DEF CreateOrder, PlaceOrder
<1>6. IsFiniteSet(DOMAIN t)  BY DEF PurseInv
<1>7. ASSUME NEW v \in Users  PROVE Purse(v)' = GivenBy(ledger'[v]) - CostOf(s, v)
  <2>0. /\ Purse(v) = GivenBy(ledger[v]) - CostOf(t, v)
        /\ Purse(v) \in Int /\ GivenBy(ledger[v]) \in Int /\ CostOf(t, v) \in Int
    BY PursesNow
  <2>1. PICK key \in EventKeys : key = <<"order_pay", o>>  BY DEF EventKeys
  <2>2. key[1] \notin {"signup", "admin_adjust"}  BY <2>1
  <2>3. /\ Purse(v)' = IF v = u THEN Purse(v) + d ELSE Purse(v)
        /\ GivenBy(ledger'[v]) = GivenBy(ledger[v])
    BY <1>5, <2>1, <2>2, PostMoves
  <2>4. CostOf(s, v) = IF v = u THEN CostOf(t, v) + total ELSE CostOf(t, v)
    <3>1. CostOf(s, v) = IF v = s[o].user THEN CostOf(t, v) + s[o].total ELSE CostOf(t, v)
      BY <1>1, <1>2, <1>6, CostMore
    <3> QED  BY <1>1, <3>1
  <2> QED  BY <1>3, <1>4, <2>0, <2>3, <2>4
<1>8. IsFiniteSet(DOMAIN s)  BY <1>1, <1>6, FS_AddElement
<1> QED  BY <1>7, <1>8, PursesNext

LEMMA ApprovePoints ==
  ASSUME TypeOK, PurseInv, NEW o \in OrderIds, NEW adm \in Admins, ApproveRefund(adm, o)
  PROVE  PurseInv'
<1> PICK t, s : t = orders /\ s = orders'  OBVIOUS
<1>1. /\ o \in DOMAIN t /\ t[o] \in Order /\ t[o].status = "refund_requested"
      /\ s = [t EXCEPT ![o] = [t[o] EXCEPT !.status = "refunded", !.refundedAt = TRUE,
                                           !.reviewedBy = adm]]
      /\ PostPoints(t[o].user, <<"order_refund", o>>, t[o].total, adm)
  BY DEF ApproveRefund, Refund, TypeOK
<1>2. /\ DOMAIN s = DOMAIN t /\ \A x \in DOMAIN t \ {o} : s[x] = t[x]
      /\ s[o].user = t[o].user /\ s[o].total = t[o].total /\ s[o].status = "refunded"
  <2>1. PICK r : r = [t[o] EXCEPT !.status = "refunded", !.refundedAt = TRUE, !.reviewedBy = adm]
    OBVIOUS
  <2>2. r.user = t[o].user /\ r.total = t[o].total /\ r.status = "refunded"
    BY <1>1, <2>1 DEF Order
  <2>3. s = [t EXCEPT ![o] = r]  BY <1>1, <2>1
  <2> QED  BY <1>1, <2>2, <2>3
<1>3. PICK u \in Users, total \in Int : u = t[o].user /\ total = t[o].total
  BY <1>1, MaxIntAssumption DEF Order
<1>4. IsFiniteSet(DOMAIN t) /\ \A x \in DOMAIN t : t[x].total \in Int
  BY MaxIntAssumption DEF PurseInv, TypeOK, Order
<1>5. ASSUME NEW v \in Users  PROVE Purse(v)' = GivenBy(ledger'[v]) - CostOf(s, v)
  <2>0. /\ Purse(v) = GivenBy(ledger[v]) - CostOf(t, v)
        /\ Purse(v) \in Int /\ GivenBy(ledger[v]) \in Int /\ CostOf(t, v) \in Int
    BY PursesNow
  <2>1. PICK key \in EventKeys : key = <<"order_refund", o>>  BY DEF EventKeys
  <2>2. key[1] \notin {"signup", "admin_adjust"}  BY <2>1
  <2>3. /\ Purse(v)' = IF v = u THEN Purse(v) + total ELSE Purse(v)
        /\ GivenBy(ledger'[v]) = GivenBy(ledger[v])
    BY <1>1, <1>3, <2>1, <2>2, PostMoves
  <2>4. CostOf(s, v) = IF v = u THEN CostOf(t, v) - total ELSE CostOf(t, v)
    <3>1. CostOf(s, v) = IF v = t[o].user THEN CostOf(t, v) - t[o].total ELSE CostOf(t, v)
      <4>1. o \in DOMAIN t /\ t[o].status # "refunded"  BY <1>1
      <4> QED  BY ONLY <1>2, <1>4, <4>1, CostLess
    <3> QED  BY <1>3, <3>1
  <2> QED  BY <1>3, <2>0, <2>3, <2>4
<1>6. IsFiniteSet(DOMAIN s)  BY <1>2, <1>4
<1> QED  BY <1>5, <1>6, PursesNext

\* An adjustment is a gift, positive or not.
LEMMA AdjustPurses ==
  ASSUME TypeOK, PurseInv, NEW adm \in Admins, NEW k \in AdjustKeys, NEW u \in Users,
         NEW delta \in Deltas, AdjustPoints(adm, k, u, delta)
  PROVE  PurseInv'
<1>1. PostPoints(u, <<"admin_adjust", <<adm, k>>>>, delta, adm) /\ orders' = orders /\ delta \in Int
  BY MallAssumption DEF AdjustPoints
<1>2. PICK key \in EventKeys : key = <<"admin_adjust", <<adm, k>>>>  BY DEF EventKeys
<1>3. key[1] = "admin_adjust"  BY <1>2
<1>4. ASSUME NEW v \in Users  PROVE Purse(v)' = GivenBy(ledger'[v]) - CostOf(orders', v)
  <2>0. /\ Purse(v) = GivenBy(ledger[v]) - CostOf(orders, v)
        /\ Purse(v) \in Int /\ GivenBy(ledger[v]) \in Int /\ CostOf(orders, v) \in Int
    BY PursesNow
  <2>1. /\ Purse(v)' = IF v = u THEN Purse(v) + delta ELSE Purse(v)
        /\ GivenBy(ledger'[v]) = IF v = u THEN GivenBy(ledger[v]) + delta ELSE GivenBy(ledger[v])
    BY <1>1, <1>2, <1>3, PostMoves
  <2> QED  BY <1>1, <2>0, <2>1
<1>5. IsFiniteSet(DOMAIN orders')  BY <1>1 DEF PurseInv
<1> QED  BY <1>4, <1>5, PursesNext

\* Where no points move, the orders cost what they cost.
LEMMA SamePoints ==
  ASSUME TypeOK, PurseInv, UNCHANGED <<balance, ledger>>, DOMAIN orders' = DOMAIN orders,
         \A x \in DOMAIN orders :
           /\ orders'[x].user = orders[x].user /\ orders'[x].total = orders[x].total
           /\ orders'[x].status = "refunded" <=> orders[x].status = "refunded"
  PROVE  PurseInv'
<1> PICK t, s : t = orders /\ s = orders'  OBVIOUS
<1>1. IsFiniteSet(DOMAIN t) /\ \A x \in DOMAIN t : t[x].total \in Int
  BY MaxIntAssumption DEF PurseInv, TypeOK, Order
<1>2. ASSUME NEW v \in Users  PROVE Purse(v)' = GivenBy(ledger'[v]) - CostOf(s, v)
  <2>1. Purse(v) = GivenBy(ledger[v]) - CostOf(t, v)  BY PursesNow
  <2>2. CostOf(s, v) = CostOf(t, v)  BY <1>1, CostSame
  <2>3. Purse(v)' = Purse(v)  BY DEF Purse
  <2> QED  BY <2>1, <2>2, <2>3
<1> QED  BY <1>1, <1>2, PursesNext

LEMMA StatusPoints ==
  ASSUME TypeOK, PurseInv, NEW o \in OrderIds,
         \/ Confirm(o) \/ RequestRefund(o)
         \/ \E adm \in Admins : Ship(adm, o) \/ RejectRefund(adm, o)
  PROVE  PurseInv'
<1>1. UNCHANGED <<balance, ledger>>
  BY DEF Confirm, RequestRefund, Ship, RejectRefund
<1>2. PICK r : /\ orders' = [orders EXCEPT ![o] = r] /\ o \in DOMAIN orders
               /\ r.user = orders[o].user /\ r.total = orders[o].total
               /\ orders[o].status # "refunded" /\ r.status # "refunded"
  <2>1. o \in DOMAIN orders /\ orders[o] \in Order
    BY DEF Confirm, RequestRefund, Ship, RejectRefund, TypeOK
  <2>2. CASE Confirm(o)
    <3>1. PICK r : r = [orders[o] EXCEPT !.status = "completed", !.completedAt = TRUE]  OBVIOUS
    <3>2. r.user = orders[o].user /\ r.total = orders[o].total /\ r.status = "completed"
      BY <2>1, <3>1 DEF Order
    <3> QED  BY <2>1, <2>2, <3>1, <3>2 DEF Confirm
  <2>3. CASE RequestRefund(o)
    <3>1. PICK r : r = [orders[o] EXCEPT !.status = "refund_requested", !.reviewedBy = NoAdmin]
      OBVIOUS
    <3>2. r.user = orders[o].user /\ r.total = orders[o].total /\ r.status = "refund_requested"
      BY <2>1, <3>1 DEF Order
    <3> QED  BY <2>1, <2>3, <3>1, <3>2 DEF RequestRefund
  <2>4. ASSUME NEW adm \in Admins, Ship(adm, o)
        PROVE  \E r : /\ orders' = [orders EXCEPT ![o] = r] /\ o \in DOMAIN orders
                      /\ r.user = orders[o].user /\ r.total = orders[o].total
                      /\ orders[o].status # "refunded" /\ r.status # "refunded"
    <3>1. PICK r : r = [orders[o] EXCEPT !.status = "shipped", !.shippedBy = adm]  OBVIOUS
    <3>2. r.user = orders[o].user /\ r.total = orders[o].total /\ r.status = "shipped"
      BY <2>1, <3>1 DEF Order
    <3> QED  BY <2>1, <2>4, <3>1, <3>2 DEF Ship
  <2>5. ASSUME NEW adm \in Admins, RejectRefund(adm, o)
        PROVE  \E r : /\ orders' = [orders EXCEPT ![o] = r] /\ o \in DOMAIN orders
                      /\ r.user = orders[o].user /\ r.total = orders[o].total
                      /\ orders[o].status # "refunded" /\ r.status # "refunded"
    <3>1. PICK status \in {"shipped", "paid"} :
            orders' = [orders EXCEPT ![o] = [orders[o] EXCEPT !.status = status, !.reviewedBy = adm]]
      BY <2>5 DEF RejectRefund
    <3>2. PICK r : r = [orders[o] EXCEPT !.status = status, !.reviewedBy = adm]  OBVIOUS
    <3>3. r.user = orders[o].user /\ r.total = orders[o].total /\ r.status = status
      BY <2>1, <3>2 DEF Order
    <3> QED  BY <2>1, <2>5, <3>1, <3>2, <3>3 DEF RejectRefund
  <2> QED  BY <2>2, <2>3, <2>4, <2>5
<1>3. DOMAIN orders' = DOMAIN orders /\ orders'[o] = r /\ \A x \in DOMAIN orders \ {o} : orders'[x] = orders[x]
  BY <1>2
<1> QED  BY <1>1, <1>2, <1>3, SamePoints

LEMMA PurseInit == Init => PurseInv
<1> SUFFICES ASSUME Init  PROVE PurseInv
  OBVIOUS
<1>1. DOMAIN orders = {} /\ DOMAIN balance = {} /\ \A u \in Users : ledger[u] = << >>
  BY DEF Init
<1>2. ASSUME NEW u \in Users  PROVE Granted(u) = 0 /\ Spent(u) = 0
  <2>1. {i \in DOMAIN ledger[u] : ledger[u][i].key[1] \in {"signup", "admin_adjust"}} = {}
    BY <1>1
  <2>2. {o \in DOMAIN orders : orders[o].user = u /\ orders[o].status # "refunded"} = {}
    BY <1>1
  <2> QED  BY <2>1, <2>2, SumEmpty DEF Granted, Spent
<1>3. IsFiniteSet(DOMAIN orders)  BY <1>1, FS_EmptySet
<1> QED  BY <1>1, <1>2, <1>3 DEF PurseInv, PointsConserved

LEMMA PurseStep == ASSUME TypeOK, PurseInv, TypeOK', [Next]_vars  PROVE PurseInv'
<1>1. ASSUME UNCHANGED <<balance, ledger, orders>>  PROVE PurseInv'
  BY <1>1, SamePoints
<1>2. ASSUME NEW o \in OrderIds, NEW u \in Users, NEW tok \in Tokens, NEW a \in Addresses,
             NEW rows \in SUBSET CartRows, CreateOrder(o, u, tok, rows, a)
      PROVE  PurseInv'
  BY <1>2, CreatePoints
<1>3. CASE BuyerNext
  <2>1. ASSUME NEW o \in OrderIds, Confirm(o) \/ RequestRefund(o)  PROVE PurseInv'
    BY <2>1, StatusPoints
  <2>2. ASSUME NEW u \in Users, NEW b \in Bonuses, Login(u, b)  PROVE PurseInv'
    BY <2>2, LoginPoints
  <2> QED  BY <1>1, <1>2, <1>3, <2>1, <2>2 DEF BuyerNext, AddToCart, SetCartQuantity, RemoveFromCart,
                CreateAddress, EditAddress, DeleteAddress
<1>4. CASE AdminNext
  <2>1. ASSUME NEW adm \in Admins, NEW o \in OrderIds,
               Ship(adm, o) \/ ApproveRefund(adm, o) \/ RejectRefund(adm, o)
        PROVE  PurseInv'
    BY <2>1, StatusPoints, ApprovePoints
  <2>2. ASSUME NEW adm \in Admins, NEW k \in AdjustKeys, NEW u \in Users, NEW d \in Deltas,
               AdjustPoints(adm, k, u, d)
        PROVE  PurseInv'
    BY <2>2, AdjustPurses
  <2>3. ASSUME NEW adm, NEW action, NEW target, RecordFailure(adm, action, target)  PROVE PurseInv'
    BY <1>1, <2>3 DEF RecordFailure
  <2>4. ASSUME NEW adm, NEW p, NEW row, UpdateProduct(adm, p, row)  PROVE PurseInv'
    BY <1>1, <2>4 DEF UpdateProduct
  <2> QED  BY <1>4, <2>1, <2>2, <2>3, <2>4 DEF AdminNext, ShipRefused, ReviewRefused, AdjustRefused
<1>5. CASE UNCHANGED vars  BY <1>1, <1>5 DEF vars
<1> QED  BY <1>3, <1>4, <1>5 DEF Next

\* What a buyer owns is what was granted less what the unrefunded orders cost:
\* no sequence of orders, refund requests, rejections and approvals makes or
\* loses a point.
THEOREM PointsCorrect == Spec => []PointsConserved
<1>1. TypeOK /\ PurseInv /\ TypeOK' /\ [Next]_vars => PurseInv'  BY PurseStep
<1>2. Spec => []PurseInv
  BY <1>1, PurseInit, TypeCorrect, PTL DEF Spec
<1>3. PurseInv => PointsConserved  BY DEF PurseInv
<1> QED  BY <1>2, <1>3, PTL

\* A chain in which each entry adds its delta to the one before sums up to its end.
LEMMA ChainSum ==
  ASSUME NEW l \in Seq(Entry),
         \A i \in DOMAIN l : l[i].after = (IF i = 1 THEN 0 ELSE l[i - 1].after) + l[i].delta
  PROVE  SumFunctionOnSet([i \in DOMAIN l |-> l[i].delta], DOMAIN l)
           = IF l = << >> THEN 0 ELSE l[Len(l)].after
<1> PICK n \in Nat : n = Len(l)  OBVIOUS
<1> DEFINE f == [i \in DOMAIN l |-> l[i].delta]
           End(k) == IF k = 0 THEN 0 ELSE l[k].after
           B == {T \in SUBSET (1..n) : \E k \in 0..n : T = 1..k /\ SumFunctionOnSet(f, T) # End(k)}
<1>1. /\ DOMAIN l = 1..n /\ \A i \in 1..n : l[i] \in Entry
      /\ l = << >> <=> n = 0
  OBVIOUS
<1>2. \A i \in 1..n :
        f[i] \in Int /\ l[i].after = End(i - 1) + f[i] /\ End(i) = l[i].after /\ l[i].after \in Int
  <2> SUFFICES ASSUME NEW i \in 1..n
               PROVE  /\ f[i] \in Int /\ l[i].after = End(i - 1) + f[i]
                      /\ End(i) = l[i].after /\ l[i].after \in Int
    OBVIOUS
  <2>1. f[i] = l[i].delta /\ f[i] \in Int  BY <1>1 DEF Entry
  <2>2. l[i].after = (IF i = 1 THEN 0 ELSE l[i - 1].after) + l[i].delta  BY <1>1
  <2>3. (i - 1 = 0 <=> i = 1) /\ i # 0  OBVIOUS
  <2>4. l[i].after \in Int  BY <1>1, MaxIntAssumption DEF Entry
  <2> HIDE DEF f
  <2> QED  BY <2>1, <2>2, <2>3, <2>4
<1> HIDE DEF f, End
<1>3. B = {}
  <2> SUFFICES ASSUME B # {}  PROVE FALSE  OBVIOUS
  <2>1. PICK T \in B : \A U \in B : ~(U \subseteq T /\ U # T)
    <3>1. PICK S : S = 1..n  OBVIOUS
    <3>2. IsFiniteSet(S) /\ B \in SUBSET (SUBSET S)  BY <3>1, FS_Interval
    <3> HIDE DEF B
    <3> QED  BY ONLY <3>2, B # {}, LeastSubset
  <2>2. PICK k \in 0..n : T = 1..k /\ SumFunctionOnSet(f, T) # End(k)  OBVIOUS
  <2>3. CASE k = 0
    <3>1. T = {}  BY <2>2, <2>3
    <3> QED  BY <2>2, <2>3, <3>1, SumEmpty DEF End
  <2>4. CASE k # 0
    <3>1. /\ k - 1 \in 0..n /\ k \in 1..n /\ 1..(k - 1) \subseteq 1..n
          /\ 1..k = (1..(k - 1)) \cup {k} /\ k \notin 1..(k - 1)
      BY <2>4
    <3>2. 1..(k - 1) \notin B  BY <2>1, <2>2, <3>1
    <3>3. SumFunctionOnSet(f, 1..(k - 1)) = End(k - 1)  BY <3>1, <3>2
    <3>4. SumFunctionOnSet(f, (1..(k - 1)) \cup {k}) = f[k] + SumFunctionOnSet(f, 1..(k - 1))
      <4>1. IsFiniteSet(1..(k - 1))  BY <3>1, FS_Interval
      <4>2. \A y \in (1..(k - 1)) \cup {k} : f[y] \in Int  BY <1>2, <3>1
      <4> QED  BY ONLY <3>1, <4>1, <4>2, SumWithNew
    <3>5. End(k - 1) \in Int
      <4>1. k - 1 = 0 \/ k - 1 \in 1..n  BY <3>1
      <4>2. \A i \in 1..n : End(i) \in Int  BY <1>2
      <4> QED  BY <4>1, <4>2 DEF End
    <3>6. End(k) = End(k - 1) + f[k]  BY <1>2, <3>1
    <3>7. SumFunctionOnSet(f, 1..k) = f[k] + End(k - 1)  BY <3>1, <3>3, <3>4, Zenon
    <3>8. f[k] \in Int  BY <1>2, <3>1
    <3>9. SumFunctionOnSet(f, 1..k) = End(k)  BY ONLY <3>5, <3>6, <3>7, <3>8
    <3> QED  BY <2>2, <3>9
  <2> QED  BY <2>3, <2>4
<1>4. 1..n \in SUBSET (1..n) /\ n \in 0..n  OBVIOUS
<1>5. SumFunctionOnSet(f, 1..n) = End(n)  BY <1>3, <1>4
<1> QED  BY <1>1, <1>5 DEF f, End

\* SELECT SUM(delta) over the buyer's ledger.
LedgerSum(u) == SumFunctionOnSet([i \in DOMAIN ledger[u] |-> ledger[u][i].delta], DOMAIN ledger[u])

\* The reconciliation of the database design in its own words: the balance of
\* every buyer is the sum of the deltas of the buyer's ledger rows.
THEOREM BalanceIsLedgerSum ==
  Spec => [](\A u \in Users : (IF u \in DOMAIN balance THEN balance[u] ELSE 0) = LedgerSum(u))
<1>1. TypeOK /\ LedgerReconciles =>
        \A u \in Users : (IF u \in DOMAIN balance THEN balance[u] ELSE 0) = LedgerSum(u)
  <2> SUFFICES ASSUME TypeOK, LedgerReconciles, NEW u \in Users
               PROVE  (IF u \in DOMAIN balance THEN balance[u] ELSE 0) = LedgerSum(u)
    OBVIOUS
  <2>1. PICK l \in Seq(Entry) : l = ledger[u]  BY DEF TypeOK
  <2>2. \A i \in DOMAIN l : l[i].after = (IF i = 1 THEN 0 ELSE l[i - 1].after) + l[i].delta
    BY <2>1 DEF LedgerReconciles, Before
  <2>3. LedgerSum(u) = IF l = << >> THEN 0 ELSE l[Len(l)].after
    BY <2>1, <2>2, ChainSum DEF LedgerSum
  <2> QED  BY <2>1, <2>3 DEF LedgerReconciles, Booked
<1> QED  BY <1>1, TypeCorrect, Reconciles, PTL

-----------------------------------------------------------------------------
(* Prices *)

\* Quotient and remainder are determined by their bounds.
LEMMA Remainder ==
  ASSUME NEW a \in Int, NEW b \in Nat \ {0}, NEW q \in Int, NEW r \in Int,
         a = b * q + r, 0 <= r, r < b
  PROVE  a % b = r
<1>1. PICK k \in Int, s \in Int : k = a \div b /\ s = a % b  OBVIOUS
<1>2. a = b * k + s /\ 0 <= s /\ s < b  BY <1>1
<1>3. b * (q - k) = s - r  BY <1>2
<1>4. PICK d \in Int : d = q - k  OBVIOUS
<1>5. CASE d >= 1
  <2>1. b * d >= b  BY <1>5
  <2> QED  BY <1>2, <1>3, <1>4, <2>1
<1>6. CASE d <= -1
  <2>1. b * d <= -b  BY <1>6
  <2> QED  BY <1>2, <1>3, <1>4, <2>1
<1>7. CASE d = 0
  <2> QED  BY <1>1, <1>3, <1>4, <1>7
<1> QED  BY <1>5, <1>6, <1>7

\* An int64 product is exact as long as it fits, and always in range.
LEMMA WrapFacts ==
  ASSUME NEW n \in Int
  PROVE  /\ Wrap(n) \in -(MaxInt + 1) .. MaxInt
         /\ n \in -(MaxInt + 1) .. MaxInt => Wrap(n) = n
<1>1. PICK M \in Nat \ {0} : M = MaxInt  BY MaxIntAssumption
<1>2. PICK b \in Nat \ {0} : b = 2 * (M + 1)  OBVIOUS
<1>3. PICK a \in Int : a = n + M + 1  OBVIOUS
<1>4. a % b \in 0..(b - 1)  OBVIOUS
<1>5. Wrap(n) = (a % b) - (M + 1)  BY <1>1, <1>2, <1>3 DEF Wrap
<1>6. ASSUME n \in -(M + 1) .. M  PROVE a % b = a
  <2>1. 0 <= a /\ a < b  BY <1>2, <1>3, <1>6
  <2>2. a = b * 0 + a  OBVIOUS
  <2> QED  BY <2>1, <2>2, Remainder
<1> QED  BY <1>1, <1>2, <1>3, <1>4, <1>5, <1>6

\* A line has a positive price and a positive quantity.
LEMMA LineFacts ==
  ASSUME NEW l \in Line
  PROVE  l.price \in Nat \ {0} /\ l.qty \in Nat \ {0}
<1>1. l.price \in Prices /\ l.qty \in 1..MaxQty  BY DEF Line
<1>2. PICK M \in Nat : M = MaxInt  BY MaxIntAssumption
<1>3. PICK Q \in Nat : Q = MaxQty  BY MallAssumption
<1>4. l.price \in 1..M  BY <1>1, <1>2, MallAssumption
<1>5. l.qty \in 1..Q  BY <1>1, <1>3
<1> QED  BY <1>4, <1>5

\* A total that was accepted does not depend on the order of the lines: the
\* running sum over any of them fits the column, so no iteration of the loop
\* takes the overflow exit on the way to it.
THEOREM PricedInAnyOrder ==
  ASSUME NEW lines \in SUBSET Line, IsFiniteSet(lines), Priced(lines), NEW part \in SUBSET lines
  PROVE  Total(part) \in 0..MaxInt
<1> DEFINE f == [l \in lines |-> LineTotal(l)]
           g == [l \in part |-> LineTotal(l)]
<1>1. \A l \in lines : LineTotal(l) \in Nat
  <2> SUFFICES ASSUME NEW l \in lines  PROVE LineTotal(l) \in Nat
    OBVIOUS
  <2>1. PICK n \in Int : n = l.price * l.qty
    <3>1. PICK i \in Nat, j \in Nat : i = l.price /\ j = l.qty  BY LineFacts
    <3> QED  BY <3>1
  <2>2. Wrap(n) \in Int  BY WrapFacts, MaxIntAssumption
  <2> QED  BY <2>1, <2>2 DEF Priced, LineTotal
<1>2. \A l \in lines : f[l] \in Nat  BY <1>1
<1>3. \A l \in part : g[l] = f[l]  OBVIOUS
<1>4. Total(lines) = SumFunctionOnSet(f, lines) /\ Total(part) = SumFunctionOnSet(g, part)
  BY DEF Total, SumFunction
<1>5. IsFiniteSet(part)  BY FS_Subset
<1> HIDE DEF f, g
<1>6. Total(part) = SumFunctionOnSet(f, part)  BY <1>3, <1>4, <1>5, SumSame
<1>7. SumFunctionOnSet(f, part) \in Nat  BY <1>2, <1>5, SumNonNegative
<1>8. SumFunctionOnSet(f, part) <= SumFunctionOnSet(f, lines)  BY <1>2, SumOfPart
<1>9. Total(lines) \in 0..MaxInt  BY DEF Priced
<1> QED  BY <1>4, <1>6, <1>7, <1>8, <1>9, MaxIntAssumption

\* Where every product of price and quantity fits int64, an order costs the sum
\* of those products.
THEOREM TotalIsExact ==
  ASSUME NEW lines \in SUBSET Line, \A l \in lines : l.price * l.qty <= MaxInt
  PROVE  Total(lines) = SumFunction([l \in lines |-> l.price * l.qty])
<1>1. ASSUME NEW l \in lines  PROVE LineTotal(l) = l.price * l.qty
  <2>1. PICK i \in Nat, j \in Nat : i = l.price /\ j = l.qty  BY LineFacts
  <2>2. PICK n \in Nat : n = i * j  OBVIOUS
  <2>3. n \in -(MaxInt + 1) .. MaxInt  BY <2>1, <2>2, MaxIntAssumption
  <2>4. Wrap(n) = n  BY <2>3, WrapFacts
  <2> QED  BY <2>1, <2>2, <2>4 DEF LineTotal
<1>2. [l \in lines |-> LineTotal(l)] = [l \in lines |-> l.price * l.qty]
  BY <1>1
<1> QED  BY <1>2 DEF Total

\* Only the sum is guarded in the code, not the product: three units at the
\* highest price wrap around to less than the price of one, and are accepted.
\* This is why TotalIsExact needs its hypothesis.
THEOREM HighestPriceWraps ==
  ASSUME MaxInt >= 2, NEW p
  PROVE  LineTotal([product |-> p, price |-> MaxInt, qty |-> 3]) = MaxInt - 2
<1>1. PICK M \in Nat : M = MaxInt /\ M >= 2  BY MaxIntAssumption
<1>2. PICK a \in Int, b \in Nat \ {0}, r \in Int : a = M * 3 + M + 1 /\ b = 2 * (M + 1) /\ r = 2 * M - 1
  OBVIOUS
<1>3. a = b * 1 + r /\ 0 <= r /\ r < b  BY <1>1, <1>2
<1>4. a % b = r  BY <1>3, Remainder
<1>5. LineTotal([product |-> p, price |-> MaxInt, qty |-> 3]) = (a % b) - (M + 1)
  BY <1>1, <1>2 DEF LineTotal, Wrap
<1> QED  BY <1>1, <1>2, <1>4, <1>5
=============================================================================
