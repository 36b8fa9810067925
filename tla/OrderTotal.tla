----------------------------- MODULE OrderTotal -----------------------------
(***************************************************************************)
(* The price of an order as buildAndCommit computes it: the order lines    *)
(* are a set of [product, price, qty] records, one per product; the line   *)
(* total is an int64 product (it wraps), and only the running sum is       *)
(* guarded.                                                                *)
(* MaxInt stands for math.MaxInt64, the largest value of every points      *)
(* column; a model chooses a small width.                                  *)
(***************************************************************************)
EXTENDS Integers, Functions

CONSTANT MaxInt

ASSUME MaxIntAssumption == MaxInt \in Nat \ {0}

\* Two's complement wrap-around into -(MaxInt + 1) .. MaxInt.
Wrap(n) == ((n + MaxInt + 1) % (2 * (MaxInt + 1))) - (MaxInt + 1)

\* lineTotal := productRow.PricePoints * int64(cartItem.Quantity)
LineTotal(line) == Wrap(line.price * line.qty)

\* total after the loop, when no iteration returned an error.
Total(lines) == SumFunction([l \in lines |-> LineTotal(l)])

(***************************************************************************)
(* No iteration takes the `total > MaxInt64-lineTotal' exit.  A negative   *)
(* line total makes the right-hand side wrap below zero, so it is always   *)
(* refused; sums of non-negative line totals are refused past MaxInt in    *)
(* whatever order the lines come.                                          *)
(***************************************************************************)
Priced(lines) ==
  /\ \A l \in lines : LineTotal(l) >= 0
  /\ Total(lines) \in 0..MaxInt
=============================================================================
