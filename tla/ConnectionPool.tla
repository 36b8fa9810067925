--------------------------- MODULE ConnectionPool ---------------------------
(***************************************************************************)
(* The pool of database connections under administrators' requests: every  *)
(* query outside a transaction borrows a connection, and a transaction      *)
(* keeps one to its end.  A request that the gate of a coupon route denies, *)
(* or whose image is turned down, writes its failure audit in a transaction *)
(* that asks for the actor's role outside of itself, by a query on another  *)
(* connection.  What the requests read and write is other modules' matter.  *)
(***************************************************************************)
EXTENDS Transactions

CONSTANT Connections   \* DB_MAX_OPEN_CONNS of them

VARIABLE recorded   \* the requests whose failure audit is written

poolVars == <<recorded, txVars>>

Kinds == {"write", "denied", "badImage"}

Queries == {"state", "gate", "actor", "role"}

\* The statement after s: the middleware's two look-ups, the actor of a change,
\* and its transaction, or that of the failure audit.
After(c, s) ==
  CASE s = "state" -> "gate"
    [] s = "gate" -> IF c.kind = "write" THEN "actor" ELSE "begin"
    [] s = "actor" -> "begin"
    [] s = "begin" -> IF c.kind = "write" THEN "commit" ELSE "role"
    [] s = "role" -> "commit"

Arrive(p) ==
  /\ \E kind \in Kinds : Serve(p, [kind |-> kind], "state", [query |-> {}])
  /\ UNCHANGED recorded

\* AdminState, PermissionsForAdmin and FindByID each wait for a connection ...
Query(p) ==
  /\ pc[p] \in Queries /\ seen[p].query = {}
  /\ \E conn \in Connections : Lock(p, conn) /\ conn \notin held[p] /\ Note(p, "query", {conn})
  /\ UNCHANGED <<recorded, pc, call, answer>>

\* ... and give it back.
Result(p) ==
  /\ pc[p] \in Queries /\ seen[p].query # {}
  /\ held' = [held EXCEPT ![p] = @ \ seen[p].query]
  /\ Note(p, "query", {})
  /\ Goto(p, After(call[p], pc[p]))
  /\ UNCHANGED <<recorded, call, answer>>

\* RunTransaction
Begin(p) ==
  /\ pc[p] = "begin"
  /\ \E conn \in Connections : Lock(p, conn)
  /\ Goto(p, After(call[p], "begin"))
  /\ UNCHANGED <<recorded, call, seen, answer>>

Commit(p) ==
  /\ pc[p] = "commit"
  /\ recorded' = IF call[p].kind = "write" THEN recorded ELSE recorded \cup {p}
  /\ Finish(p, IF call[p].kind = "write" THEN "done" ELSE "refused")

\* The client hangs up before its answer: its context is canceled.
Disconnect(p) ==
  /\ pc[p] \notin {"idle", "done"}
  /\ Finish(p, "left")
  /\ UNCHANGED recorded

Waiting(p) == \/ pc[p] \in Queries /\ seen[p].query = {}
              \/ pc[p] = "begin"

\* The server's timeouts are longer than any statement takes, so they only run
\* out when every connection is with a request that waits for another.
Stuck == \A conn \in Connections : \E p \in Procs : conn \in held[p] /\ Waiting(p)

\* ReadTimeout cancels the context, and after WriteTimeout nothing is sent.
TimeOut(p) ==
  /\ Stuck /\ Waiting(p)
  /\ Finish(p, "timeout")
  /\ UNCHANGED recorded

PoolInit == recorded = {} /\ TxInit

PoolNext ==
  \E p \in Procs : Arrive(p) \/ Query(p) \/ Result(p) \/ Begin(p) \/ Commit(p) \/ Disconnect(p) \/ TimeOut(p)

PoolSpec == PoolInit /\ [][PoolNext]_poolVars

-----------------------------------------------------------------------------
(* Properties *)

\* specs/coupon: an administrator without the permission is answered 403 and one
\* failure audit records the attempt (if the client waits for the answer).
DenialsRecorded ==
  \A p \in Procs :
    pc[p] = "done" /\ call[p].kind = "denied" /\ answer[p] # "left" =>
      answer[p] = "refused" /\ p \in recorded
=============================================================================
