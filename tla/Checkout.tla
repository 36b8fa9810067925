------------------------------ MODULE Checkout ------------------------------
(***************************************************************************)
(* Order creation and refund approval as the database sees them, statement *)
(* by statement: each row is read when its lock is taken, and the writes   *)
(* become visible at the commit.                                           *)
(*                                                                         *)
(* The one-statement use cases of Mall run in between, whenever the row    *)
(* they write is not locked.  Clients give up, lose answers and retry with *)
(* the same Idempotency-Key.                                               *)
(***************************************************************************)
EXTENDS Mall, Transactions

CONSTANTS
  CreateCalls,  \* calls [kind |-> "create", user, token, rows, address]
  ApproveCalls  \* calls [kind |-> "approve", admin, order]

(* 422 and 404, 409, 500, and no answer at all. *)
Refusals == {"rejected", "conflict", "error", "lost"}

(* Row ids are compared by the ORDER BY of the multi-row locks. *)
ASSUME CheckoutAssumption ==
  /\ CartRows \subseteq Nat /\ Products \subseteq Nat
  /\ CreateCalls \subseteq
       [kind : {"create"}, user : Users, token : Tokens, rows : (SUBSET CartRows) \ {{}}, address : Addresses]
  /\ ApproveCalls \subseteq [kind : {"approve"}, admin : Admins, order : OrderIds]
  /\ OrderIds \cap (Refusals \cup {"none"}) = {}

\* The server runs finitely many transactions at a time: it has a connection each.
ASSUME ProcsAssumption == IsFiniteSet(Procs)

checkoutVars == <<vars, txVars>>

\* What a transaction has read when it starts.
Nothing == [order |-> "none", row |-> NoCall, version |-> 0, items |-> << >>, shelf |-> << >>]

Reply(p, a) == Finish(p, a) /\ UNCHANGED vars

-----------------------------------------------------------------------------
(* Order creation *)

SameToken(c) == {o \in DOMAIN orders : orders[o].user = c.user /\ orders[o].token = c.token}

OwnAddress(c) == c.address \in DOMAIN addr /\ addr[c.address].user = c.user

\* The hash of the call against order o: its items, the current address.
ReplayHash(c, o) ==
  [rows |-> c.rows, items |-> orders[o].hash.items,
   addr |-> c.address, version |-> addr[c.address].version]

FirstStatement(c) == IF c.kind = "create" THEN "replay?" ELSE "order"

\* A client names cart rows that it has been shown.
Begin(p) ==
  /\ \E c \in CreateCalls \cup ApproveCalls :
       /\ c.kind = "create" => c.rows \subseteq DOMAIN cart \cup retired
       /\ Serve(p, c, FirstStatement(c), Nothing)
  /\ UNCHANGED vars

\* Step 1, LockForReplay.
LockForReplay(p) ==
  /\ pc[p] = "replay?"
  /\ \/ /\ SameToken(call[p]) = {}
        /\ Goto(p, "user")
        /\ UNCHANGED <<seen, held>>
     \/ \E o \in SameToken(call[p]) :
          /\ Lock(p, <<"order", o>>)
          /\ Note(p, "order", o)
          /\ Goto(p, "replay")
  /\ UNCHANGED <<vars, call, answer>>

\* Mutant of ResolveReplay: the hashes are not compared.
ReplayUnchecked(p) ==
  /\ pc[p] = "replay"
  /\ IF OwnAddress(call[p]) THEN Reply(p, seen[p].order) ELSE Reply(p, "rejected")

\* resolveReplay: lock the address, compare the hashes, commit.
ResolveReplay(p) ==
  /\ pc[p] = "replay"
  /\ IF OwnAddress(call[p])
     THEN /\ Free(<<"address", call[p].address>>, p)
          /\ LET o == seen[p].order
             IN  Reply(p, IF ReplayHash(call[p], o) = orders[o].hash THEN o ELSE "conflict")
     ELSE Reply(p, "rejected")

\* Step 2, for an approval too: the buyer's row.
LockUser(p) ==
  /\ pc[p] = "user"
  /\ LET u == IF call[p].kind = "create" THEN call[p].user ELSE seen[p].row.user
     IN  IF u \in DOMAIN balance
         THEN /\ Lock(p, <<"user", u>>)
              /\ Goto(p, IF call[p].kind = "create" THEN "address" ELSE "shelf")
              /\ UNCHANGED <<vars, call, seen, answer>>
         ELSE Reply(p, "rejected")

\* Mutant of LockAddress: a plain read.
ReadAddress(p) ==
  /\ pc[p] = "address"
  /\ IF OwnAddress(call[p])
     THEN /\ Note(p, "version", addr[call[p].address].version)
          /\ Goto(p, "cart")
          /\ UNCHANGED <<vars, call, held, answer>>
     ELSE Reply(p, "rejected")

\* Step 3, AddressService.LockForOrder.
LockAddress(p) ==
  /\ pc[p] = "address"
  /\ IF OwnAddress(call[p])
     THEN /\ Lock(p, <<"address", call[p].address>>)
          /\ Note(p, "version", addr[call[p].address].version)
          /\ Goto(p, "cart")
          /\ UNCHANGED <<vars, call, answer>>
     ELSE Reply(p, "rejected")

\* Mutant of Least: descending order.
Greatest(S) == CHOOSE x \in S : \A y \in S : x >= y

\* The next row in ascending id order.
Least(S) == CHOOSE x \in S : \A y \in S : x <= y

CartWanted(p) ==
  {c \in call[p].rows : /\ <<"cart", c>> \notin held[p]
                        /\ c \in DOMAIN cart /\ cart[c].user = call[p].user}

\* Mutants of LockCart: no second look for the order, or one that locks it.
LockCartOnce(p) ==
  /\ pc[p] = "cart"
  /\ \/ /\ CartWanted(p) # {}
        /\ LET c == Least(CartWanted(p))
           IN  /\ Lock(p, <<"cart", c>>)
               /\ Note(p, "items", With(seen[p].items, c, cart[c]))
        /\ UNCHANGED <<vars, pc, call, answer>>
     \/ /\ CartWanted(p) = {}
        /\ IF DOMAIN seen[p].items = call[p].rows
           THEN Goto(p, "shelf") /\ UNCHANGED <<vars, call, seen, held, answer>>
           ELSE Reply(p, "rejected")

LockCartThenOrder(p) ==
  /\ pc[p] = "cart"
  /\ \/ /\ CartWanted(p) # {}
        /\ LET c == Least(CartWanted(p))
           IN  /\ Lock(p, <<"cart", c>>)
               /\ Note(p, "items", With(seen[p].items, c, cart[c]))
        /\ UNCHANGED <<vars, pc, call, answer>>
     \/ /\ CartWanted(p) = {}
        /\ Goto(p, IF DOMAIN seen[p].items = call[p].rows THEN "shelf" ELSE "replay?")
        /\ UNCHANGED <<vars, call, seen, held, answer>>

\* Step 4, cart LockForOrder: row after row, ascending.  When a row is missing
\* a plain read decides between a replay and the refusal.
LockCart(p) ==
  /\ pc[p] = "cart"
  /\ \/ /\ CartWanted(p) # {}
        /\ LET c == Least(CartWanted(p))
           IN  /\ Lock(p, <<"cart", c>>)
               /\ Note(p, "items", With(seen[p].items, c, cart[c]))
        /\ UNCHANGED <<vars, pc, call, answer>>
     \/ /\ CartWanted(p) = {}
        /\ DOMAIN seen[p].items = call[p].rows
        /\ Goto(p, "shelf")
        /\ UNCHANGED <<vars, call, seen, held, answer>>
     \/ /\ CartWanted(p) = {}
        /\ DOMAIN seen[p].items # call[p].rows
        /\ IF SameToken(call[p]) = {}
           THEN Reply(p, "rejected")
           ELSE /\ Note(p, "order", CHOOSE o \in SameToken(call[p]) : TRUE)
                /\ Goto(p, "replay")
                /\ UNCHANGED <<vars, call, held, answer>>

ShelfWanted(p) ==
  LET ids == IF call[p].kind = "create"
             THEN {seen[p].items[c].product : c \in DOMAIN seen[p].items}
             ELSE {l.product : l \in seen[p].row.lines}
  IN  {q \in ids : <<"product", q>> \notin held[p]}

\* Step 5, LockByIDs: products in ascending id order.
LockShelf(p) ==
  /\ pc[p] = "shelf"
  /\ IF ShelfWanted(p) # {}
     THEN LET q == Least(ShelfWanted(p))
          IN  /\ Lock(p, <<"product", q>>)
              /\ Note(p, "shelf", With(seen[p].shelf, q, products[q]))
              /\ UNCHANGED <<vars, pc, call, answer>>
     ELSE /\ Goto(p, "commit")
          /\ UNCHANGED <<vars, call, seen, held, answer>>

\* buildAndCommit and the commit itself; the answer may get lost on the way.
Commit(p) ==
  /\ pc[p] = "commit" /\ call[p].kind = "create"
  /\ LET c     == call[p]
         lines == Lines(c.rows, seen[p].items, seen[p].shelf)
     IN  \/ /\ Purchasable(lines, seen[p].shelf)
            /\ \E o \in OrderIds :
                 /\ PlaceOrder(o, c.user, c.token, c.rows, c.address, seen[p].version, lines)
                 /\ \E a \in {o, "lost"} : Finish(p, a)
            /\ UNCHANGED <<addr, audit, cameFrom, supply>>
         \/ /\ \/ ~Purchasable(lines, seen[p].shelf)
               \/ ~Priced(lines)
               \/ balance[c.user] < Total(lines)
            /\ Reply(p, "rejected")
         \/ \* The insert trips over CHECK (total_points > 0) ...
            /\ Purchasable(lines, seen[p].shelf) /\ Priced(lines)
            /\ Total(lines) = 0
            /\ Reply(p, "error")
         \/ \* ... or over UNIQUE (user_id, client_token).
            /\ Purchasable(lines, seen[p].shelf) /\ Priced(lines)
            /\ balance[c.user] >= Total(lines) /\ Total(lines) > 0
            /\ SameToken(c) # {}
            /\ Rollback(p, "unique violation")
            /\ UNCHANGED vars

\* resolveAfterConflict, after the rollback: plain reads.  Anything but a
\* replay is reported as the unique violation itself, an internal error.
ResolveAfterConflict(p) ==
  /\ pc[p] = "unique violation"
  /\ \E o \in SameToken(call[p]) :
       Reply(p, IF OwnAddress(call[p]) /\ ReplayHash(call[p], o) = orders[o].hash
                THEN o ELSE "error")

-----------------------------------------------------------------------------
(* Refund approval *)

\* Mutant of LockOrder: a shared lock.
ShareOrder(p) ==
  /\ pc[p] = "order"
  /\ LET o == call[p].order
     IN  IF o \notin DOMAIN orders THEN Reply(p, "rejected")
         ELSE IF orders[o].status = "refund_requested"
         THEN /\ held' = [held EXCEPT ![p] = @ \cup {<<"order", o>>}]
              /\ Note(p, "row", orders[o])
              /\ Goto(p, "user")
              /\ UNCHANGED <<vars, call, answer>>
         ELSE Goto(p, "refused") /\ UNCHANGED <<vars, call, seen, held, answer>>

\* LockForUpdate on the order, and the state check on what it returned.
LockOrder(p) ==
  /\ pc[p] = "order"
  /\ LET o == call[p].order
     IN  IF o \notin DOMAIN orders THEN Reply(p, "rejected")
         ELSE /\ Free(<<"order", o>>, p)
              /\ IF orders[o].status = "refund_requested"
                 THEN /\ Lock(p, <<"order", o>>)
                      /\ Note(p, "row", orders[o])
                      /\ Goto(p, "user")
                      /\ UNCHANGED <<vars, call, answer>>
                 ELSE /\ Goto(p, "refused")
                      /\ UNCHANGED <<vars, call, seen, held, answer>>

\* recordFailure, in its own transaction, at best effort.
RecordRefusal(p) ==
  /\ pc[p] = "refused"
  /\ \/ RecordFailure(call[p].admin, "refund.approve", call[p].order)
     \/ UNCHANGED vars
  /\ Finish(p, "conflict")

\* Mutant of CommitRefund: the points are not posted.
CommitUnpaid(p) ==
  /\ pc[p] = "commit" /\ call[p].kind = "approve"
  /\ products' = Restock(seen[p].row.lines, 1)
  /\ orders' = [orders EXCEPT ![call[p].order].status = "refunded",
                              ![call[p].order].refundedAt = TRUE]
  /\ UNCHANGED <<balance, ledger, cart, addr, retired, audit, cameFrom, supply>>
  /\ Finish(p, call[p].order)

\* RefundUsecase.Approve's writes and its commit.
CommitRefund(p) ==
  /\ pc[p] = "commit" /\ call[p].kind = "approve"
  /\ \/ /\ Refund(call[p].admin, call[p].order, seen[p].row)
        /\ \E a \in {call[p].order, "lost"} : Finish(p, a)
     \/ /\ ~RefundFits(seen[p].row)
        /\ Reply(p, "error")

-----------------------------------------------------------------------------
(* Failures *)

\* The client is gone or the connection breaks: the transaction rolls back.
Disconnect(p) ==
  /\ pc[p] \notin {"idle", "done"}
  /\ Reply(p, "lost")

\* The same request with the same Idempotency-Key.
Retry(p) == SendAgain(p, FirstStatement(call[p]), Nothing) /\ UNCHANGED vars

-----------------------------------------------------------------------------
(* The short transactions of Mall, each on one row *)

Around ==
  \/ \E u \in Users :
       /\ Unlocked(<<"user", u>>)
       /\ (\E b \in Bonuses : Login(u, b)) \/ (\E a \in Addresses : CreateAddress(u, a))
  \/ \E a \in Addresses :
       Unlocked(<<"address", a>>) /\ (EditAddress(a) \/ DeleteAddress(a))
  \/ \E c \in CartRows :
       /\ Unlocked(<<"cart", c>>)
       /\ RemoveFromCart(c) \/ \E n \in 1..MaxQty : SetCartQuantity(c, n)
  \/ \E u \in Users, q \in Products, n \in 1..MaxQty :
       /\ \A c \in DOMAIN cart :
            cart[c].user = u /\ cart[c].product = q => Unlocked(<<"cart", c>>)
       /\ Unlocked(<<"user", u>>)
       /\ AddToCart(u, q, n)
  \/ \E o \in OrderIds : Unlocked(<<"order", o>>) /\ (Confirm(o) \/ RequestRefund(o))
  \/ \E adm \in Admins :
       \/ \E o \in OrderIds :
            Unlocked(<<"order", o>>) /\ (Ship(adm, o) \/ RejectRefund(adm, o))
       \/ \E key \in AdjustKeys, u \in Users, d \in Deltas :
            Unlocked(<<"user", u>>) /\ AdjustPoints(adm, key, u, d)
       \/ \E q \in Products, row \in Product :
            Unlocked(<<"product", q>>) /\ UpdateProduct(adm, q, row)

-----------------------------------------------------------------------------
\* One statement of the transaction that p runs.
Step(p) ==
  \/ LockForReplay(p) \/ ResolveReplay(p) \/ LockUser(p) \/ LockAddress(p)
  \/ LockCart(p) \/ LockShelf(p) \/ Commit(p) \/ ResolveAfterConflict(p)
  \/ LockOrder(p) \/ RecordRefusal(p) \/ CommitRefund(p)

CheckoutNext ==
  \/ \E p \in Procs : Begin(p) \/ Step(p) \/ Disconnect(p) \/ Retry(p)
  \/ Around /\ UNCHANGED txVars

CheckoutInit == Init /\ TxInit

CheckoutSpec == CheckoutInit /\ [][CheckoutNext]_checkoutVars

\* The server runs every statement it can, and the lock queues of the
\* database are first come, first served.
FairCheckoutSpec == CheckoutSpec /\ \A p \in Procs : SF_checkoutVars(Step(p))

-----------------------------------------------------------------------------
(* Properties *)

\* Every process keeps within its program.
TxTypeOK ==
  /\ pc \in [Procs -> {"idle", "replay?", "replay", "user", "address", "cart", "shelf",
                       "commit", "unique violation", "order", "refused", "done"}]
  /\ call \in [Procs -> CreateCalls \cup ApproveCalls \cup {NoCall}]
  /\ answer \in [Procs -> OrderIds \cup Refusals \cup {"none"}]
  /\ \A p \in Procs : pc[p] \in {"idle", "done", "refused", "unique violation"} => held[p] = {}

(* The documented lock order: order, user, address and cart, products. *)
Level(row) ==
  CASE row[1] = "order"   -> 1
    [] row[1] = "user"    -> 2
    [] row[1] = "address" -> 3
    [] row[1] = "cart"    -> 4
    [] row[1] = "product" -> 5

Above(r, s) ==
  \/ Level(r) < Level(s)
  \/ Level(r) = Level(s) /\ Level(r) \in {4, 5} /\ r[2] < s[2]

\* The rows whose lock p asks for next.
Wants(p) ==
  CASE pc[p] = "replay?" -> {<<"order", o>> : o \in SameToken(call[p])}
    [] pc[p] \in {"replay", "address"} ->
         {<<"address", call[p].address>>} \ held[p]
    [] pc[p] = "user" ->
         {<<"user", IF call[p].kind = "create" THEN call[p].user ELSE seen[p].row.user>>}
    [] pc[p] = "cart" -> IF CartWanted(p) = {} THEN {} ELSE {<<"cart", Least(CartWanted(p))>>}
    [] pc[p] = "shelf" -> IF ShelfWanted(p) = {} THEN {} ELSE {<<"product", Least(ShelfWanted(p))>>}
    [] pc[p] = "order" -> {<<"order", call[p].order>>}
    [] OTHER -> {}

\* Locks are exclusive and follow the documented order.
LockOrderRespected ==
  \A p \in Procs :
    /\ \A row \in held[p] : Free(row, p)
    /\ \A row \in held[p], w \in Wants(p) : Above(row, w)

\* Concurrent orders, replays and approvals cannot deadlock: in any group of
\* transactions there is one that waits for no lock of the others, whichever
\* rows their calls have in common.
NoCyclicWait ==
  \A group \in (SUBSET Procs) \ {{}} :
    \E p \in group : \A q \in group \ {p} : Wants(p) \cap held[q] = {}

\* A call whose order exists, with the same content, is never turned away
\* with a business error: double submits and retries after a lost answer get
\* the order, even when the first attempt consumed the cart, the stock and the
\* points meanwhile.
DuplicateNeverRefused ==
  [][\A p \in Procs :
       /\ pc[p] \notin {"idle", "done"} /\ pc'[p] = "done"
       /\ call[p].kind = "create" /\ OwnAddress(call[p])
       /\ \E o \in SameToken(call[p]) : ReplayHash(call[p], o) = orders[o].hash
       => answer'[p] \in SameToken(call[p]) \cup {"lost"}]_checkoutVars

\* An order number in an answer names an order of that buyer under that key,
\* made from exactly the cart rows that this call asked for.
AnswersAreTrue ==
  \A p \in Procs :
    pc[p] = "done" /\ call[p].kind = "create" /\ answer[p] \in OrderIds =>
      /\ answer[p] \in SameToken(call[p])
      /\ orders[answer[p]].hash.rows = call[p].rows

\* specs/checkout: of two requests with one key, one creates the order and the
\* other ends with a replay or a conflict.  (Losing the answer aside.)
SameKeyReplaysOrConflicts ==
  [][\A p \in Procs :
       /\ pc[p] \notin {"idle", "done"} /\ pc'[p] = "done"
       /\ call[p].kind = "create" /\ OwnAddress(call[p]) /\ SameToken(call[p]) # {}
       => answer'[p] \in SameToken(call[p]) \cup {"conflict", "lost"}]_checkoutVars

Atomic == INSTANCE Mall WITH
  balance <- balance, ledger <- ledger, products <- products, cart <- cart, addr <- addr,
  retired <- retired, orders <- orders, audit <- audit, cameFrom <- cameFrom, supply <- supply

\* Every commit is one atomic use case of Mall and every other statement is
\* invisible: what a transaction has read is still true when it commits.
ImplementsMall == [][Atomic!Next]_vars

\* Every call is answered: no transaction waits for ever.
EveryCallAnswered == \A p \in Procs : pc[p] # "idle" ~> pc[p] = "done"
=============================================================================
