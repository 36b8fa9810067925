-------------------------------- MODULE Mall --------------------------------
(***************************************************************************)
(* What the shop promises: every use case of the backend is one atomic     *)
(* step on the tables.  A table is a function whose DOMAIN is the set of   *)
(* primary keys present; the UUIDs of deleted rows are never reused.       *)
(*                                                                         *)
(* Requests that end in an error or in an idempotent replay leave the      *)
(* tables alone (they are stuttering steps), except for the failure audit  *)
(* rows that the administrator use cases write on their way out.           *)
(***************************************************************************)
EXTENDS Sequences, FiniteSets, OrderTotal

CONSTANTS
  Users, Admins, Products,      \* ids of buyers, administrators, products
  CartRows, Addresses, OrderIds,\* row ids that inserts may draw from
  Tokens,                       \* Idempotency-Key values of order requests
  AdjustKeys,                   \* Idempotency-Key values of points requests
  Bonuses,                      \* SIGNUP_BONUS_POINTS, one value per deployment
  Deltas,                       \* signed amounts an administrator may post
  Prices, MaxStock, MaxQty,     \* price choices, INT bounds of stock and qty
  MaxVersion,                   \* bound on the edits of one address
  NoAdmin                       \* the NULL of an administrator column

ASSUME MallAssumption ==
  /\ Bonuses \subseteq 0..MaxInt
  /\ Deltas \subseteq Int \ {0}
  /\ Prices \subseteq 1..MaxInt
  /\ MaxStock \in Nat /\ MaxQty \in Nat \ {0} /\ MaxVersion \in Nat \ {0}
  /\ NoAdmin \notin Admins
  /\ CartRows \cap Addresses = {}

VARIABLES
  balance,   \* users.points_balance; DOMAIN is the set of registered buyers
  ledger,    \* points_ledger, one sequence per buyer in commit order
  products,  \* products: price, stock, status
  cart,      \* cart_items
  addr,      \* user_addresses: owner and version (edits bump the version)
  retired,   \* ids of deleted cart and address rows
  orders,    \* orders with their items
  audit,     \* audit_logs, append-only
  cameFrom,  \* history: the status each order had when a refund was requested
  supply     \* history: stock the administrators have put on the shelves

vars == <<balance, ledger, products, cart, addr, retired, orders, audit,
          cameFrom, supply>>

Statuses == {"paid", "shipped", "completed", "refund_requested", "refunded"}

EventKeys ==
  ({"order_pay", "order_refund"} \X OrderIds) \cup ({"signup"} \X Users)
    \cup ({"admin_adjust"} \X (Admins \X AdjustKeys))

Entry == [key : EventKeys, delta : Int, after : 0..MaxInt,
          admin : Admins \cup {NoAdmin}]

Product == [price : Prices, stock : 0..MaxStock, status : {"on_sale", "off_sale"}]

CartRow == [user : Users, product : Products, qty : 1..MaxQty]

Address == [user : Users, version : 1..MaxVersion]

Line == [product : Products, price : Prices, qty : 1..MaxQty]

Hash == [rows : SUBSET CartRows, items : SUBSET [product : Products, qty : 1..MaxQty],
         addr : Addresses, version : 1..MaxVersion]

(* What ComputeOrderRequestHash covers; SHA-256 is taken to be injective. *)
RequestHash(rows, lines, a, version) ==
  [rows |-> rows, items |-> {[product |-> l.product, qty |-> l.qty] : l \in lines},
   addr |-> a, version |-> version]

Order ==
  [user : Users, token : Tokens, hash : Hash, status : Statuses,
   total : 1..MaxInt, lines : SUBSET Line,
   shippedBy : Admins \cup {NoAdmin}, reviewedBy : Admins \cup {NoAdmin},
   completedAt : BOOLEAN, refundedAt : BOOLEAN]

Actions == {"order.ship", "refund.approve", "refund.reject", "points.adjust", "product.update"}

AuditRow == [actor : Admins, action : Actions, target : Users \cup OrderIds \cup Products,
             result : {"success", "failure"}]

-----------------------------------------------------------------------------
(* Helpers *)

Success(a, action, target) ==
  [actor |-> a, action |-> action, target |-> target, result |-> "success"]

Failure(a, action, target) ==
  [actor |-> a, action |-> action, target |-> target, result |-> "failure"]

HasEvent(u, key) == \E i \in DOMAIN ledger[u] : ledger[u][i].key = key

\* Mutant of PostPoints: balance_after is read before the update.
PostPointsStale(u, key, delta, admin) ==
  /\ u \in DOMAIN balance
  /\ balance[u] + delta \in 0..MaxInt
  /\ balance' = [balance EXCEPT ![u] = @ + delta]
  /\ ledger' = [ledger EXCEPT ![u] =
        Append(@, [key |-> key, delta |-> delta, after |-> balance[u], admin |-> admin])]

\* AdjustBalance followed by the insert of the ledger row in the same
\* transaction: a debit needs the funds, a credit must fit the column.
PostPoints(u, key, delta, admin) ==
  /\ u \in DOMAIN balance
  /\ balance[u] + delta \in 0..MaxInt
  /\ \A v \in Users : ~HasEvent(v, key)
  /\ balance' = [balance EXCEPT ![u] = @ + delta]
  /\ ledger' = [ledger EXCEPT ![u] =
        Append(@, [key |-> key, delta |-> delta, after |-> balance[u] + delta,
                   admin |-> admin])]

\* The rows of table t without those in S.
Without(t, S) == [k \in DOMAIN t \ S |-> t[k]]

\* Table t with row r under the fresh key k.
With(t, k, r) == [x \in DOMAIN t \cup {k} |-> IF x = k THEN r ELSE t[x]]

-----------------------------------------------------------------------------
(* Buyers *)

\* UpsertByOpenID: insert the buyer, or find the row, and award the bonus to
\* a zero balance that has no signup entry.  The bonus is an absolute write.
Login(u, bonus) ==
  LET current == IF u \in DOMAIN balance THEN balance[u] ELSE 0
      award   == current = 0 /\ bonus > 0 /\ ~HasEvent(u, <<"signup", u>>)
  IN  /\ balance' = [v \in DOMAIN balance \cup {u} |->
                       IF v # u THEN balance[v]
                       ELSE IF award THEN bonus ELSE current]
      /\ ledger' = IF award
                   THEN [ledger EXCEPT ![u] =
                          Append(@, [key |-> <<"signup", u>>, delta |-> bonus,
                                     after |-> bonus, admin |-> NoAdmin])]
                   ELSE ledger
      /\ UNCHANGED <<products, cart, addr, retired, orders, audit, cameFrom, supply>>

\* CartService.Add accumulates on (user, product).
AddToCart(u, p, n) ==
  /\ u \in DOMAIN balance
  /\ \/ \E c \in DOMAIN cart :
          /\ cart[c].user = u /\ cart[c].product = p
          /\ cart[c].qty + n <= MaxQty
          /\ cart' = [cart EXCEPT ![c].qty = @ + n]
     \/ /\ ~\E c \in DOMAIN cart : cart[c].user = u /\ cart[c].product = p
        /\ \E c \in CartRows \ (DOMAIN cart \cup retired) :
             cart' = With(cart, c, [user |-> u, product |-> p, qty |-> n])
  /\ UNCHANGED <<balance, ledger, products, addr, retired, orders, audit, cameFrom, supply>>

SetCartQuantity(c, n) ==
  /\ c \in DOMAIN cart
  /\ cart' = [cart EXCEPT ![c].qty = n]
  /\ UNCHANGED <<balance, ledger, products, addr, retired, orders, audit, cameFrom, supply>>

RemoveFromCart(c) ==
  /\ c \in DOMAIN cart
  /\ cart' = Without(cart, {c})
  /\ retired' = retired \cup {c}
  /\ UNCHANGED <<balance, ledger, products, addr, orders, audit, cameFrom, supply>>

CreateAddress(u, a) ==
  /\ u \in DOMAIN balance
  /\ a \notin DOMAIN addr \cup retired
  /\ addr' = With(addr, a, [user |-> u, version |-> 1])
  /\ UNCHANGED <<balance, ledger, products, cart, retired, orders, audit, cameFrom, supply>>

EditAddress(a) ==
  /\ a \in DOMAIN addr
  /\ addr[a].version < MaxVersion
  /\ addr' = [addr EXCEPT ![a].version = @ + 1]
  /\ UNCHANGED <<balance, ledger, products, cart, retired, orders, audit, cameFrom, supply>>

DeleteAddress(a) ==
  /\ a \in DOMAIN addr
  /\ addr' = Without(addr, {a})
  /\ retired' = retired \cup {a}
  /\ UNCHANGED <<balance, ledger, products, cart, orders, audit, cameFrom, supply>>

-----------------------------------------------------------------------------
(* Orders *)

\* The order lines for the cart rows `rows' read as `items', at the product
\* rows `shelf'.  (user, product) is unique in the cart, so a product has one line.
Lines(rows, items, shelf) ==
  {[product |-> items[c].product, price |-> shelf[items[c].product].price,
    qty |-> items[c].qty] : c \in rows}

\* Mutant of Restock: one of the lines only.
RestockOneLine(lines, sign) ==
  LET line == CHOOSE l \in lines : TRUE
  IN  [products EXCEPT ![line.product].stock = @ + sign * line.qty]

\* The shelf after `sign' times the units of every line were added to it.
Restock(lines, sign) ==
  [p \in Products |->
     IF \E l \in lines : l.product = p
     THEN LET l == CHOOSE l \in lines : l.product = p
          IN  [products[p] EXCEPT !.stock = @ + sign * l.qty]
     ELSE products[p]]

\* Every line is on sale with enough stock.
Purchasable(lines, shelf) ==
  \A l \in lines :
    shelf[l.product].status = "on_sale" /\ shelf[l.product].stock >= l.qty

HasToken(u, tok) == \E o \in DOMAIN orders : orders[o].user = u /\ orders[o].token = tok

\* buildAndCommit, from the conditional stock decrements to the deletion of
\* the cart rows, for lines priced earlier in the transaction.  The points
\* check is in PostPoints; UNIQUE (user_id, client_token) and the CHECK on
\* total_points are the constraints an insert may trip over.
PlaceOrder(o, u, tok, rows, a, version, lines) ==
  /\ o \in OrderIds \ DOMAIN orders
  /\ Priced(lines) /\ Total(lines) > 0
  /\ Purchasable(lines, products)
  /\ products' = Restock(lines, -1)
  /\ PostPoints(u, <<"order_pay", o>>, -Total(lines), NoAdmin)
  /\ ~HasToken(u, tok)
  /\ orders' = With(orders, o,
        [user |-> u, token |-> tok, hash |-> RequestHash(rows, lines, a, version),
         status |-> "paid", total |-> Total(lines), lines |-> lines,
         shippedBy |-> NoAdmin, reviewedBy |-> NoAdmin,
         completedAt |-> FALSE, refundedAt |-> FALSE])
  /\ cart' = Without(cart, rows)
  /\ retired' = retired \cup rows

\* CreateOrderUsecase.Execute when it creates an order.
CreateOrder(o, u, tok, rows, a) ==
  /\ rows # {} /\ rows \subseteq DOMAIN cart
  /\ \A c \in rows : cart[c].user = u
  /\ a \in DOMAIN addr /\ addr[a].user = u
  /\ LET lines == Lines(rows, cart, products)
     IN  PlaceOrder(o, u, tok, rows, a, addr[a].version, lines)
  /\ UNCHANGED <<addr, audit, cameFrom, supply>>

\* Mutant of Ship: a shipped order may be shipped again.
ShipAgain(adm, o) ==
  /\ o \in DOMAIN orders
  /\ orders[o].status \in {"paid", "shipped"}
  /\ orders' = [orders EXCEPT ![o].status = "shipped", ![o].shippedBy = adm]
  /\ audit' = audit \cup {Success(adm, "order.ship", o)}
  /\ UNCHANGED <<balance, ledger, products, cart, addr, retired, cameFrom, supply>>

\* FulfillmentUsecase.Ship
Ship(adm, o) ==
  /\ o \in DOMAIN orders
  /\ orders[o].status = "paid"
  /\ orders' = [orders EXCEPT ![o].status = "shipped", ![o].shippedBy = adm]
  /\ audit' = audit \cup {Success(adm, "order.ship", o)}
  /\ UNCHANGED <<balance, ledger, products, cart, addr, retired, cameFrom, supply>>

\* FulfillmentUsecase.Confirm
Confirm(o) ==
  /\ o \in DOMAIN orders
  /\ orders[o].status = "shipped"
  /\ orders' = [orders EXCEPT ![o].status = "completed", ![o].completedAt = TRUE]
  /\ UNCHANGED <<balance, ledger, products, cart, addr, retired, audit, cameFrom, supply>>

\* Mutant of RequestRefund: the shipper is cleared along with the review.
RequestUnshipped(o) ==
  /\ o \in DOMAIN orders
  /\ orders[o].status \in {"paid", "shipped"}
  /\ orders' = [orders EXCEPT ![o].status = "refund_requested", ![o].reviewedBy = NoAdmin,
                             ![o].shippedBy = NoAdmin]
  /\ cameFrom' = [cameFrom EXCEPT ![o] = orders[o].status]
  /\ UNCHANGED <<balance, ledger, products, cart, addr, retired, audit, supply>>

\* RefundUsecase.Request: a new request forgets the previous review.
RequestRefund(o) ==
  /\ o \in DOMAIN orders
  /\ orders[o].status \in {"paid", "shipped"}
  /\ orders' = [orders EXCEPT ![o].status = "refund_requested", ![o].reviewedBy = NoAdmin]
  /\ cameFrom' = [cameFrom EXCEPT ![o] = orders[o].status]
  /\ UNCHANGED <<balance, ledger, products, cart, addr, retired, audit, supply>>

\* Mutant of RefundFits: only the balance is looked at.
RefundFitsBalance(row) == balance[row.user] + row.total <= MaxInt

\* No column overflows when the order's points and goods come back.
RefundFits(row) ==
  /\ balance[row.user] + row.total <= MaxInt
  /\ \A l \in row.lines : products[l.product].stock + l.qty <= MaxStock

\* Mutants of Refund: the status is forgotten, or the goods are.
RefundUnflagged(adm, o, row) ==
  /\ PostPoints(row.user, <<"order_refund", o>>, row.total, adm)
  /\ RefundFits(row)
  /\ products' = Restock(row.lines, 1)
  /\ audit' = audit \cup {Success(adm, "refund.approve", o)}
  /\ UNCHANGED <<orders, cart, addr, retired, cameFrom, supply>>

RefundWithoutGoods(adm, o, row) ==
  /\ PostPoints(row.user, <<"order_refund", o>>, row.total, adm)
  /\ orders' = [orders EXCEPT ![o].status = "refunded", ![o].refundedAt = TRUE,
                              ![o].reviewedBy = adm]
  /\ audit' = audit \cup {Success(adm, "refund.approve", o)}
  /\ UNCHANGED <<products, cart, addr, retired, cameFrom, supply>>

\* The side effects of an approved refund, for the order row as it was read
\* under its lock: points, ledger, stock, status and audit together.
Refund(adm, o, row) ==
  /\ PostPoints(row.user, <<"order_refund", o>>, row.total, adm)
  /\ RefundFits(row)
  /\ products' = Restock(row.lines, 1)
  /\ orders[o].status = "refund_requested"
  /\ orders' = [orders EXCEPT ![o].status = "refunded", ![o].refundedAt = TRUE,
                              ![o].reviewedBy = adm]
  /\ audit' = audit \cup {Success(adm, "refund.approve", o)}
  /\ UNCHANGED <<cart, addr, retired, cameFrom, supply>>

\* RefundUsecase.Approve
ApproveRefund(adm, o) ==
  /\ o \in DOMAIN orders
  /\ orders[o].status = "refund_requested"
  /\ Refund(adm, o, orders[o])

\* Mutant of RejectRefund: always back to paid, as src/specs/refund/spec.md:69 has
\* it, although the request may have come from shipped.
RejectToPaid(adm, o) ==
  /\ o \in DOMAIN orders
  /\ orders[o].status = "refund_requested"
  /\ orders' = [orders EXCEPT ![o].status = "paid", ![o].reviewedBy = adm]
  /\ audit' = audit \cup {Success(adm, "refund.reject", o)}
  /\ UNCHANGED <<balance, ledger, products, cart, addr, retired, cameFrom, supply>>

\* RefundUsecase.Reject: back to shipped when a shipper is recorded, else paid.
RejectRefund(adm, o) ==
  /\ o \in DOMAIN orders
  /\ orders[o].status = "refund_requested"
  /\ orders' = [orders EXCEPT
       ![o].status = IF orders[o].shippedBy # NoAdmin THEN "shipped" ELSE "paid",
       ![o].reviewedBy = adm]
  /\ audit' = audit \cup {Success(adm, "refund.reject", o)}
  /\ UNCHANGED <<balance, ledger, products, cart, addr, retired, cameFrom, supply>>

-----------------------------------------------------------------------------
(* Administrators *)

\* AdjustPointsUsecase.Execute when it posts the adjustment.
AdjustPoints(adm, key, u, delta) ==
  /\ PostPoints(u, <<"admin_adjust", <<adm, key>>>>, delta, adm)
  /\ audit' = audit \cup {Success(adm, "points.adjust", u)}
  /\ UNCHANGED <<products, cart, addr, retired, orders, cameFrom, supply>>

\* product.Service.Update: price, stock and status are overwritten.
UpdateProduct(adm, p, row) ==
  /\ products' = [products EXCEPT ![p] = row]
  /\ supply' = [supply EXCEPT ![p] = @ + row.stock - products[p].stock]
  /\ audit' = audit \cup {Success(adm, "product.update", p)}
  /\ UNCHANGED <<balance, ledger, cart, addr, retired, orders, cameFrom>>

-----------------------------------------------------------------------------
(* A refused administrator call writes its failure row in a transaction of *)
(* its own, after the refusal: by then the order may have moved on, so the *)
(* guards say what the call may have seen, not what holds now.             *)

RecordFailure(adm, action, target) ==
  /\ audit' = audit \cup {Failure(adm, action, target)}
  /\ UNCHANGED <<balance, ledger, products, cart, addr, retired, orders, cameFrom, supply>>

\* Once not paid: an order that is paid again carries its reviewer.
ShipRefused(adm, o) ==
  /\ o \in DOMAIN orders
  /\ orders[o].status # "paid" \/ orders[o].reviewedBy # NoAdmin
  /\ RecordFailure(adm, "order.ship", o)

\* Every order was once not requested to be refunded.
ReviewRefused(adm, o) ==
  /\ o \in DOMAIN orders
  /\ \E action \in {"refund.approve", "refund.reject"} : RecordFailure(adm, action, o)

\* Unknown buyer, missing points or a reused key.
AdjustRefused(adm, u) == RecordFailure(adm, "points.adjust", u)

-----------------------------------------------------------------------------
Init ==
  /\ balance = [u \in {} |-> 0]
  /\ ledger = [u \in Users |-> << >>]
  /\ products \in [Products -> Product]
  /\ cart = [c \in {} |-> 0]
  /\ addr = [a \in {} |-> 0]
  /\ retired = {}
  /\ orders = [o \in {} |-> 0]
  /\ audit = {}
  /\ cameFrom = [o \in OrderIds |-> "paid"]
  /\ supply = [p \in Products |-> products[p].stock]

BuyerNext ==
  \/ \E u \in Users, b \in Bonuses : Login(u, b)
  \/ \E u \in Users, p \in Products, n \in 1..MaxQty : AddToCart(u, p, n)
  \/ \E c \in CartRows, n \in 1..MaxQty : SetCartQuantity(c, n)
  \/ \E c \in CartRows : RemoveFromCart(c)
  \/ \E u \in Users, a \in Addresses : CreateAddress(u, a)
  \/ \E a \in Addresses : EditAddress(a) \/ DeleteAddress(a)
  \/ \E o \in OrderIds, u \in Users, tok \in Tokens, a \in Addresses :
       \E rows \in SUBSET CartRows : CreateOrder(o, u, tok, rows, a)
  \/ \E o \in OrderIds : Confirm(o) \/ RequestRefund(o)

AdminNext ==
  \E adm \in Admins :
    \/ \E o \in OrderIds : Ship(adm, o) \/ ApproveRefund(adm, o) \/ RejectRefund(adm, o)
    \/ \E key \in AdjustKeys, u \in Users, d \in Deltas : AdjustPoints(adm, key, u, d)
    \/ \E o \in OrderIds : ShipRefused(adm, o) \/ ReviewRefused(adm, o)
    \/ \E u \in Users : AdjustRefused(adm, u)
    \/ \E p \in Products, row \in Product : UpdateProduct(adm, p, row)

Next == BuyerNext \/ AdminNext

Spec == Init /\ [][Next]_vars

-----------------------------------------------------------------------------
(* Properties *)

\* Every column keeps its type and its bounds: no balance or stock is ever
\* negative or past its column, no deleted id is live again.
TypeOK ==
  /\ DOMAIN balance \subseteq Users /\ balance \in [DOMAIN balance -> 0..MaxInt]
  /\ ledger \in [Users -> Seq(Entry)]
  /\ products \in [Products -> Product]
  /\ DOMAIN cart \subseteq CartRows /\ cart \in [DOMAIN cart -> CartRow]
  /\ DOMAIN addr \subseteq Addresses /\ addr \in [DOMAIN addr -> Address]
  /\ retired \subseteq (CartRows \cup Addresses) \ (DOMAIN cart \cup DOMAIN addr)
  /\ DOMAIN orders \subseteq OrderIds /\ orders \in [DOMAIN orders -> Order]
  /\ audit \subseteq AuditRow
  /\ cameFrom \in [OrderIds -> Statuses]
  /\ supply \in [Products -> Int]

\* What the buyer's books say before entry i.
Before(u, i) == IF i = 1 THEN 0 ELSE ledger[u][i - 1].after

Booked(u) == IF ledger[u] = << >> THEN 0 ELSE ledger[u][Len(ledger[u])].after

\* The reconciliation query of the database design finds nothing: each
\* balance_after is the previous one plus the delta, and the last one is the
\* live balance, so users.points_balance is the sum of the ledger's deltas.
LedgerReconciles ==
  \A u \in Users :
    /\ \A i \in DOMAIN ledger[u] :
         ledger[u][i].after = Before(u, i) + ledger[u][i].delta
    /\ Booked(u) = (IF u \in DOMAIN balance THEN balance[u] ELSE 0)

\* The points a buyer was given, as a bonus or by an administrator ...
Granted(u) ==
  SumFunctionOnSet([i \in DOMAIN ledger[u] |-> ledger[u][i].delta],
                   {i \in DOMAIN ledger[u] : ledger[u][i].key[1] \in {"signup", "admin_adjust"}})

\* ... and those that the buyer's orders still cost.
Spent(u) ==
  SumFunctionOnSet([o \in DOMAIN orders |-> orders[o].total],
                   {o \in DOMAIN orders : orders[o].user = u /\ orders[o].status # "refunded"})

\* Points are neither made nor lost by shopping: through every order, refund
\* request, rejection and approval a buyer owns what was granted less what
\* the unrefunded orders cost.  It ties users and orders together across the
\* ledger, whose rows the orders do not reference.
PointsConserved ==
  \A u \in Users :
    (IF u \in DOMAIN balance THEN balance[u] ELSE 0) = Granted(u) - Spent(u)

Posted(u, key, delta) ==
  \E i \in DOMAIN ledger[u] : ledger[u][i].key = key /\ ledger[u][i].delta = delta

Charged(o) ==
  o \in DOMAIN orders => Posted(orders[o].user, <<"order_pay", o>>, -orders[o].total)

PointsBack(o, u) ==
  HasEvent(u, <<"order_refund", o>>) <=>
    /\ o \in DOMAIN orders /\ orders[o].user = u
    /\ orders[o].status = "refunded"
    /\ Posted(u, <<"order_refund", o>>, orders[o].total)

\* Every order was charged to its owner for its total, and its points came
\* back to the same owner exactly when it is refunded: a refund is neither
\* lost nor posted before the status says so, whatever reviews came before.
ChargedAndRefunded ==
  \A o \in OrderIds : Charged(o) /\ \A u \in Users : PointsBack(o, u)

\* The CHECK constraints of the orders table on shipped_by, completed_at and
\* refunded_at never fire: the use cases keep the stamps in step with the
\* status through every ship, refund request, rejection and confirmation.
StampsMatchStatus ==
  \A o \in DOMAIN orders :
    LET r == orders[o]
    IN  /\ r.status \in {"shipped", "completed"} => r.shippedBy # NoAdmin
        /\ r.status = "paid" => r.shippedBy = NoAdmin
        /\ r.completedAt <=> r.status = "completed"
        /\ r.refundedAt <=> r.status = "refunded"

\* The lines about p of the orders that still hold their goods, and their units.
Holding(p) ==
  {x \in UNION {{o} \X orders[o].lines : o \in DOMAIN orders} :
     orders[x[1]].status # "refunded" /\ x[2].product = p}

Units == [x \in OrderIds \X Line |-> x[2].qty]

Held(p) == SumFunctionOnSet(Units, Holding(p))

\* Nothing is oversold and nothing vanishes: the shelf and the unrefunded
\* orders together hold exactly what administrators have supplied.
StockConserved == \A p \in Products : products[p].stock + Held(p) = supply[p]

\* The audit trail and the orders tell one story: an order's shipper and the
\* approver of its refund have their success row, and a success row names the
\* administrator whom the order records.
AuditAgrees ==
  \A o \in OrderIds, adm \in Admins :
    /\ Success(adm, "order.ship", o) \in audit <=>
         o \in DOMAIN orders /\ orders[o].shippedBy = adm
    /\ Success(adm, "refund.approve", o) \in audit <=>
         /\ o \in DOMAIN orders /\ orders[o].status = "refunded"
         /\ orders[o].reviewedBy = adm

\* Reject "restores the state the request came from" (its comment, and
\* refund_test.go): an order that leaves refund_requested without being refunded
\* is back where it was, although the row does not store that status.  The
\* documents know no requests from shipped, and only rejections back to paid.
RejectRestores ==
  [][\A o \in DOMAIN orders :
       orders[o].status = "refund_requested" /\ orders'[o].status \notin {"refund_requested", "refunded"}
         => orders'[o].status = cameFrom[o]]_vars
=============================================================================
