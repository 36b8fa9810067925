--------------------------- MODULE DefaultAddress ---------------------------
(***************************************************************************)
(* What a buyer's address book promises: every call is one atomic step, and *)
(* a new default replaces the old one in that step.                         *)
(***************************************************************************)
EXTENDS Integers

CONSTANT Addresses   \* ids of one buyer's address rows

VARIABLE book        \* user_addresses: default flag and version per live row

Undefaulted(S) == [a \in DOMAIN book |-> IF a \in S THEN [book[a] EXCEPT !.default = FALSE] ELSE book[a]]

With(t, k, r) == [x \in DOMAIN t \cup {k} |-> IF x = k THEN r ELSE t[x]]

\* Table t with the edit of row a that leaves its flag at d.
Edited(t, a, d) == With(t, a, [default |-> d, version |-> t[a].version + 1])

Insert(a, default) ==
  /\ a \notin DOMAIN book
  /\ book' = With(IF default THEN Undefaulted(DOMAIN book) ELSE book, a,
                  [default |-> default, version |-> 1])

\* The address becomes the one default, or its other fields change.
Promote(a) == a \in DOMAIN book /\ book' = Edited(Undefaulted(DOMAIN book \ {a}), a, TRUE)

Touch(a) == a \in DOMAIN book /\ book' = Edited(book, a, book[a].default)

Demote(a) == a \in DOMAIN book /\ book' = Edited(book, a, FALSE)

Remove(a) == a \in DOMAIN book /\ book' = [x \in DOMAIN book \ {a} |-> book[x]]

Next ==
  \E a \in Addresses :
    Insert(a, TRUE) \/ Insert(a, FALSE) \/ Promote(a) \/ Touch(a) \/ Demote(a) \/ Remove(a)

\* uq_default_address
OneDefault == \A a, b \in DOMAIN book : book[a].default /\ book[b].default => a = b
=============================================================================
