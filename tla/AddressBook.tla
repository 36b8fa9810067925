---------------------------- MODULE AddressBook ----------------------------
(***************************************************************************)
(* One buyer's addresses, statement by statement: creations, edits and     *)
(* deletions run against each other and against the locks of an order.     *)
(* Besides the rows, transactions wait for                                 *)
(*   <<"slot">>   the buyer's entry in the partial unique index            *)
(*                uq_default_address, which an insert of a second entry    *)
(*                waits for while a transaction is changing it;            *)
(*   <<"share">>  the FOR KEY SHARE of a foreign key on the buyer's row.   *)
(* The database cancels a transaction that closes a cycle of waits, and    *)
(* RunTransaction starts it again, a few times.                            *)
(***************************************************************************)
EXTENDS FiniteSets, Relation, DefaultAddress, Transactions

CONSTANTS
  CreateCalls,  \* [kind |-> "create", default]
  EditCalls,    \* [kind |-> "edit", address, default \in {"keep", "yes", "no"}, content]
  DeleteCalls,  \* [kind |-> "delete", address]
  OrderCalls,   \* [kind |-> "order", address]
  Entered,      \* the addresses there are before
  Attempts      \* DefaultTransactionAttempts

ASSUME BookAssumption ==
  /\ CreateCalls \subseteq [kind : {"create"}, default : BOOLEAN]
  /\ EditCalls \subseteq
       [kind : {"edit"}, address : Addresses, default : {"keep", "yes", "no"}, content : BOOLEAN]
  /\ DeleteCalls \subseteq [kind : {"delete"}, address : Addresses]
  /\ OrderCalls \subseteq [kind : {"order"}, address : Addresses]
  /\ Entered \subseteq Addresses /\ Attempts \in Nat \ {0} /\ IsFiniteSet(Procs)

VARIABLES
  gone,    \* ids of deleted rows
  tries    \* the attempt each process is at

bookVars == <<book, gone, tries, txVars>>

Slot == <<"slot">>
User == <<"user">>
Share == <<"share">>

\* Read by the transaction: the row's flag, the default that a clearing
\* statement has in its snapshot, and the rows that it has cleared.
Nothing == [flag |-> FALSE, target |-> {}, cleared |-> {}]

FirstStatement(c) ==
  CASE c.kind = "create" -> IF c.default THEN "snapshot" ELSE "buyer"
    [] c.kind = "edit" -> "read"
    [] c.kind = "delete" -> "row"
    [] c.kind = "order" -> "buyer"

Defaults == {a \in DOMAIN book : book[a].default}

\* The rows a write to address a changes: an entry of the index too, perhaps.
Touched(a) == {<<"address", a>>} \cup IF a \in Defaults THEN {Slot} ELSE {}

Take(p, rows) == held' = [held EXCEPT ![p] = @ \cup rows]

Reply(p, a) == Finish(p, a) /\ UNCHANGED <<book, gone, tries>>

Becomes(c) == (c.kind = "create" /\ c.default) \/ (c.kind = "edit" /\ c.default = "yes")

\* Ids that no row has had (UUIDs never run out).
FreshIds == Addresses \ (DOMAIN book \cup gone)

Creating == {p \in Procs : pc[p] \notin {"idle", "done"} /\ call[p].kind = "create"}

Begin(p) ==
  /\ \E c \in CreateCalls \cup EditCalls \cup DeleteCalls \cup OrderCalls :
       /\ c.kind = "create" => Cardinality(Creating) < Cardinality(FreshIds)
       /\ Serve(p, c, FirstStatement(c), Nothing)
  /\ UNCHANGED <<book, gone, tries>>

-----------------------------------------------------------------------------
\* Update's plain read of the row decides what it is going to write.
Read(p) ==
  /\ pc[p] = "read"
  /\ LET c    == call[p]
         flag == c.address \in Defaults
     IN  IF c.address \notin DOMAIN book \/ (~c.content /\ c.default = (IF flag THEN "yes" ELSE "no"))
         THEN Reply(p, "rejected")
         ELSE /\ Note(p, "flag", flag)
              /\ Goto(p, IF c.default = "yes" /\ ~flag THEN "snapshot" ELSE "row")
              /\ UNCHANGED <<book, gone, tries, call, held, answer>>

\* clearDefaultAddress: the UPDATE finds its row in a snapshot ...
Snapshot(p) ==
  /\ pc[p] = "snapshot"
  /\ Note(p, "target", IF call[p].kind = "edit" THEN Defaults \ {call[p].address} ELSE Defaults)
  /\ Goto(p, "clear")
  /\ UNCHANGED <<book, gone, tries, call, held, answer>>

\* Mutant of Clear: in a transaction of its own.
ClearAtOnce(p) ==
  /\ pc[p] = "clear"
  /\ \A a \in seen[p].target : Free(<<"address", a>>, p)
  /\ book' = Undefaulted(seen[p].target)
  /\ Goto(p, IF call[p].kind = "create" THEN "index" ELSE "row")
  /\ UNCHANGED <<gone, tries, call, seen, held, answer>>

\* ... waits for it, and leaves it alone when it is no longer a default.
Clear(p) ==
  /\ pc[p] = "clear"
  /\ \A a \in seen[p].target : Free(<<"address", a>>, p)
  /\ Take(p, UNION {Touched(a) : a \in seen[p].target \cap Defaults})
  /\ Note(p, "cleared", seen[p].target \cap Defaults)
  /\ Goto(p, IF call[p].kind = "create" THEN "index" ELSE "row")
  /\ UNCHANGED <<book, gone, tries, call, answer>>

\* The UPDATE, DELETE or SELECT ... FOR UPDATE of the row the call names.  An
\* UPDATE that finds no row is noticed by the read that follows it.
TakeRow(p) ==
  /\ pc[p] = "row"
  /\ LET c == call[p]
     IN  IF c.address \in DOMAIN book
         THEN /\ Free(<<"address", c.address>>, p)
              /\ Take(p, IF c.kind = "order" THEN {<<"address", c.address>>} ELSE Touched(c.address))
              /\ Goto(p, IF Becomes(c) /\ ~seen[p].flag THEN "index" ELSE "commit")
              /\ UNCHANGED <<book, gone, tries, call, seen, answer>>
         ELSE Reply(p, IF c.kind = "edit" THEN "error" ELSE "rejected")

\* Mutant of TakeIndex: there is no index.
TakeNothing(p) ==
  /\ pc[p] = "index"
  /\ Goto(p, IF call[p].kind = "create" THEN "buyer" ELSE "commit")
  /\ UNCHANGED <<book, gone, tries, call, seen, held, answer>>

\* Index entries that another row of the buyer has and p has not taken out.
Rivals(p) ==
  Defaults \ (seen[p].cleared \cup IF call[p].kind = "edit" THEN {call[p].address} ELSE {})

\* uq_default_address: wait for whoever is changing the entry; then it is there
\* or it is not.
TakeIndex(p) ==
  /\ pc[p] = "index"
  /\ Free(Slot, p)
  /\ IF Rivals(p) = {}
     THEN /\ Take(p, {Slot})
          /\ Goto(p, IF call[p].kind = "create" THEN "buyer" ELSE "commit")
          /\ UNCHANGED <<book, gone, tries, call, seen, answer>>
     ELSE Reply(p, "rejected")

\* The buyer's row: shared by the foreign keys, exclusive for an order.
TakeBuyer(p) ==
  /\ pc[p] = "buyer"
  /\ Free(User, p)
  /\ IF call[p].kind = "order"
     THEN Free(Share, p) /\ Take(p, {User}) /\ Goto(p, "row")
     ELSE Take(p, {Share}) /\ Goto(p, "commit")
  /\ UNCHANGED <<book, gone, tries, call, seen, answer>>

\* The flag that edit c leaves, when the row's flag is `now'.
Left(c, read, now) ==
  IF c.default = "keep" \/ (c.default = "yes") = read THEN now ELSE c.default = "yes"

\* Mutant of WriteEdit: the version stays.
WriteUnversioned(p, c) ==
  book' = With(Undefaulted(seen[p].cleared), c.address,
               [book[c.address] EXCEPT !.default = Left(c, seen[p].flag, @)])

WriteEdit(p, c) ==
  book' = Edited(Undefaulted(seen[p].cleared), c.address,
                 Left(c, seen[p].flag, book[c.address].default))

\* What the transaction of call c commits.
Write(p, c) ==
  \/ /\ c.kind = "create"
     /\ \E a \in FreshIds :
          book' = With(Undefaulted(seen[p].cleared), a, [default |-> c.default, version |-> 1])
     /\ UNCHANGED gone
  \/ c.kind = "edit" /\ WriteEdit(p, c) /\ UNCHANGED gone
  \/ /\ c.kind = "delete"
     /\ book' = [a \in DOMAIN book \ {c.address} |-> book[a]]
     /\ gone' = gone \cup {c.address}
  \/ c.kind = "order" /\ UNCHANGED <<book, gone>>

Commit(p) ==
  /\ pc[p] = "commit"
  /\ Write(p, call[p])
  /\ \E a \in {"ok", "lost"} : Finish(p, a)
  /\ UNCHANGED tries

-----------------------------------------------------------------------------
(* Deadlocks *)

\* The rows whose locks p needs now.
Wanted(p) ==
  CASE pc[p] = "clear" -> {<<"address", a>> : a \in seen[p].target}
    [] pc[p] = "row" -> IF call[p].address \in DOMAIN book
                        THEN {<<"address", call[p].address>>} ELSE {}
    [] pc[p] = "index" -> {Slot}
    [] pc[p] = "buyer" -> IF call[p].kind = "order" THEN {User, Share} ELSE {User}
    [] OTHER -> {}

Waits(p, q) == p # q /\ Wanted(p) \cap held[q] # {}

WaitsFor == [pq \in Procs \X Procs |-> Waits(pq[1], pq[2])]

InCycle(p) ==
  /\ \E q \in Procs : Waits(p, q)
  /\ TransitiveClosure(WaitsFor, Procs)[p, p]

\* Mutant of Victim: nobody breaks a deadlock.
VictimWaits(p) == FALSE /\ UNCHANGED bookVars

\* deadlock detected: RunTransaction's next attempt, or its last error.
Victim(p) ==
  /\ InCycle(p)
  /\ IF tries[p] < Attempts
     THEN /\ tries' = [tries EXCEPT ![p] = @ + 1]
          /\ held' = [held EXCEPT ![p] = {}]
          /\ seen' = [seen EXCEPT ![p] = Nothing]
          /\ Goto(p, FirstStatement(call[p]))
          /\ UNCHANGED <<book, gone, call, answer>>
     ELSE Reply(p, "error")

\* The client is gone: the context ends the transaction.
Disconnect(p) == pc[p] \notin {"idle", "done"} /\ Reply(p, "lost")

Step(p) ==
  \/ Read(p) \/ Snapshot(p) \/ Clear(p) \/ TakeRow(p) \/ TakeIndex(p) \/ TakeBuyer(p)
  \/ Commit(p) \/ Victim(p)

BookInit ==
  /\ book \in [Entered -> [default : BOOLEAN, version : {1}]] /\ OneDefault
  /\ gone = {}
  /\ tries = [p \in Procs |-> 1]
  /\ TxInit

BookNext == \E p \in Procs : Begin(p) \/ Step(p) \/ Disconnect(p)

BookSpec == BookInit /\ [][BookNext]_bookVars

\* The server runs every statement it can, the database breaks every deadlock,
\* and its lock queues are first come, first served.
FairBookSpec == BookSpec /\ \A p \in Procs : SF_bookVars(Step(p))

-----------------------------------------------------------------------------
(* Properties *)

\* Every process keeps within its program, and the index has one entry.
BookTypeOK ==
  /\ DOMAIN book \subseteq Addresses \ gone
  /\ book \in [DOMAIN book -> [default : BOOLEAN, version : 1..(Cardinality(Procs) + 1)]]
  /\ pc \in [Procs -> {"idle", "read", "snapshot", "clear", "row", "index", "buyer", "commit", "done"}]
  /\ answer \in [Procs -> {"none", "ok", "rejected", "error", "lost"}]
  /\ tries \in [Procs -> 1..Attempts]
  /\ OneDefault

Atomic == INSTANCE DefaultAddress WITH Addresses <- Addresses, book <- book

\* Every commit is one atomic step of the address book: the replacement of the
\* default shows no moment without one, two racing promotions leave one
\* default, and no edit of a version is lost.
ImplementsBook == [][Atomic!Next]_book

\* A buyer who has a default only loses it by deleting or demoting it.
DefaultSurvives ==
  [][Defaults # {} /\ Defaults' = {} =>
       \E p \in Procs :
         /\ pc[p] = "commit" /\ pc'[p] = "done"
         /\ call[p].kind = "delete" \/ (call[p].kind = "edit" /\ call[p].default = "no")]_bookVars

\* Every call is answered, through deadlocks and retries.
EveryCallAnswered == \A p \in Procs : pc[p] # "idle" ~> pc[p] = "done"
=============================================================================
