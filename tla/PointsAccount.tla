--------------------------- MODULE PointsAccount ---------------------------
(***************************************************************************)
(* A buyer's points account, statement by statement: logins that create    *)
(* the account and award the signup bonus, and administrators' adjustments *)
(* under an Idempotency-Key.  Logins read the balance without a lock and   *)
(* write it absolutely; adjustments lock the buyer's row.                  *)
(*                                                                         *)
(* An INSERT that meets the same unique key in a transaction still running *)
(* waits for it: that is a lock on <<"event", key>> or <<"openid", u>>.    *)
(***************************************************************************)
EXTENDS Mall, Transactions

CONSTANTS
  LoginCalls,   \* calls [kind |-> "login", user]
  AdjustCalls   \* calls [kind |-> "adjust", admin, key, user, delta]

ASSUME PointsAssumption ==
  /\ LoginCalls \subseteq [kind : {"login"}, user : Users]
  /\ AdjustCalls \subseteq
       [kind : {"adjust"}, admin : Admins, key : AdjustKeys, user : Users, delta : Deltas]

pointsVars == <<vars, txVars>>

\* What a login remembers: the balance it read, the deployment's bonus, whether
\* it inserted the buyer, and (later) whether it awards the bonus.
Noted(points, bonus, new) ==
  [balance |-> points, bonus |-> bonus, new |-> new, award |-> FALSE]

Nothing == Noted(0, 0, FALSE)

Reply(p, a) == Finish(p, a) /\ UNCHANGED vars

FirstStatement(c) == IF c.kind = "login" THEN "upsert" ELSE "key?"

Begin(p) ==
  /\ \E c \in LoginCalls \cup AdjustCalls : Serve(p, c, FirstStatement(c), Nothing)
  /\ UNCHANGED vars

-----------------------------------------------------------------------------
(* UpsertByOpenID *)

\* INSERT ... ON CONFLICT DO NOTHING, and the read of the row that was there.
\* Each server process carries the SIGNUP_BONUS_POINTS it was deployed with.
Upsert(p) ==
  /\ pc[p] = "upsert"
  /\ LET u == call[p].user
     IN  \E bonus \in Bonuses :
           IF u \in DOMAIN balance
           THEN /\ seen' = [seen EXCEPT ![p] = Noted(balance[u], bonus, FALSE)]
                /\ UNCHANGED held
           ELSE /\ Lock(p, <<"openid", u>>)
                /\ seen' = [seen EXCEPT ![p] = Noted(0, bonus, TRUE)]
  /\ Goto(p, "award?")
  /\ UNCHANGED <<vars, call, answer>>

\* Mutant of AwardBonus: nothing keeps a second signup entry out.
AwardAgain(p) ==
  /\ pc[p] = "award?"
  /\ LET u   == call[p].user
         key == <<"signup", u>>
     IN  IF seen[p].balance # 0 \/ seen[p].bonus = 0
         THEN UNCHANGED <<held, seen>>
         ELSE /\ Free(<<"event", key>>, p) /\ Free(<<"user", u>>, p)
              /\ held' = [held EXCEPT ![p] = @ \cup {<<"event", key>>, <<"user", u>>}]
              /\ Note(p, "award", TRUE)
  /\ Goto(p, "commit")
  /\ UNCHANGED <<vars, call, answer>>

\* awardSignupBonus: the ledger insert, which waits for a login that has the
\* same event in flight, and whose foreign key waits for the buyer's row.
AwardBonus(p) ==
  /\ pc[p] = "award?"
  /\ LET u   == call[p].user
         key == <<"signup", u>>
     IN  IF seen[p].balance # 0 \/ seen[p].bonus = 0 \/ HasEvent(u, key)
         THEN UNCHANGED <<held, seen>>
         ELSE /\ Free(<<"event", key>>, p) /\ Free(<<"user", u>>, p)
              /\ held' = [held EXCEPT ![p] = @ \cup {<<"event", key>>, <<"user", u>>}]
              /\ Note(p, "award", TRUE)
  /\ Goto(p, "commit")
  /\ UNCHANGED <<vars, call, answer>>

\* The absolute write of the bonus, the commit, and the answer.
CommitLogin(p) ==
  /\ pc[p] = "commit" /\ call[p].kind = "login"
  /\ LET u == call[p].user
         s == seen[p]
     IN  /\ balance' = IF s.award \/ s.new
                       THEN [v \in DOMAIN balance \cup {u} |->
                               IF v # u THEN balance[v] ELSE IF s.award THEN s.bonus ELSE 0]
                       ELSE balance
         /\ ledger' = IF s.award
                      THEN [ledger EXCEPT ![u] =
                             Append(@, [key |-> <<"signup", u>>, delta |-> s.bonus,
                                        after |-> s.bonus, admin |-> NoAdmin])]
                      ELSE ledger
  /\ UNCHANGED <<products, cart, addr, retired, orders, audit, cameFrom, supply>>
  /\ \E a \in {"ok", "lost"} : Finish(p, a)

-----------------------------------------------------------------------------
(* AdjustPointsUsecase.Execute *)

AdjustKey(c) == <<"admin_adjust", <<c.admin, c.key>>>>

\* The entries under the key of call c, wherever they were posted.
Posting(c) ==
  {at \in Users \X (1..Cardinality(EventKeys)) :
     at[2] \in DOMAIN ledger[at[1]] /\ ledger[at[1]][at[2]].key = AdjustKey(c)}

\* Mutant of SameRequest: the hash forgets the delta.
SameBuyer(c, at) == at[1] = c.user

\* The request hash covers the buyer and the delta.
SameRequest(c, at) == at[1] = c.user /\ ledger[at[1]][at[2]].delta = c.delta

\* LockByEventKey: replay, conflict, or on to the adjustment.
FindKey(p) ==
  /\ pc[p] = "key?"
  /\ IF Posting(call[p]) = {}
     THEN Goto(p, "user") /\ UNCHANGED <<vars, call, seen, held, answer>>
     ELSE \E at \in Posting(call[p]) :
            IF SameRequest(call[p], at) THEN Reply(p, "ok")
            ELSE Rollback(p, "conflict") /\ UNCHANGED vars

LockBuyer(p) ==
  /\ pc[p] = "user"
  /\ IF call[p].user \in DOMAIN balance
     THEN /\ Lock(p, <<"user", call[p].user>>)
          /\ Goto(p, "post")
          /\ UNCHANGED <<vars, call, seen, answer>>
     ELSE Rollback(p, "refused") /\ UNCHANGED vars

\* AdjustBalance, then the ledger insert, which waits for an insert of the
\* same key that is in flight and fails on one that is committed.
Post(p) ==
  /\ pc[p] = "post"
  /\ LET after == balance[call[p].user] + call[p].delta
     IN  \/ after < 0 /\ Rollback(p, "refused")
         \/ after > MaxInt /\ Finish(p, "error")
         \/ /\ after \in 0..MaxInt /\ Posting(call[p]) = {}
            /\ Lock(p, <<"event", AdjustKey(call[p])>>)
            /\ Goto(p, "commit")
            /\ UNCHANGED <<call, seen, answer>>
         \/ /\ after \in 0..MaxInt /\ Posting(call[p]) # {}
            /\ Rollback(p, "unique violation")
  /\ UNCHANGED vars

CommitAdjust(p) ==
  /\ pc[p] = "commit" /\ call[p].kind = "adjust"
  /\ AdjustPoints(call[p].admin, call[p].key, call[p].user, call[p].delta)
  /\ \E a \in {"ok", "lost"} : Finish(p, a)

\* FindByEventKey after the rollback: a plain read decides.
FindWinner(p) ==
  /\ pc[p] = "unique violation"
  /\ \E at \in Posting(call[p]) :
       IF SameRequest(call[p], at) THEN Reply(p, "ok")
       ELSE Rollback(p, "conflict") /\ UNCHANGED vars

\* recordFailure, in a transaction of its own, at best effort.
RecordRefusal(p) ==
  /\ pc[p] \in {"refused", "conflict"}
  /\ RecordFailure(call[p].admin, "points.adjust", call[p].user) \/ UNCHANGED vars
  /\ Finish(p, IF pc[p] = "refused" THEN "rejected" ELSE "conflict")

-----------------------------------------------------------------------------
Disconnect(p) == pc[p] \notin {"idle", "done"} /\ Reply(p, "lost")

Retry(p) == SendAgain(p, FirstStatement(call[p]), Nothing) /\ UNCHANGED vars

Step(p) ==
  \/ Upsert(p) \/ AwardBonus(p) \/ CommitLogin(p)
  \/ FindKey(p) \/ LockBuyer(p) \/ Post(p) \/ CommitAdjust(p)
  \/ FindWinner(p) \/ RecordRefusal(p)

PointsNext == \E p \in Procs : Begin(p) \/ Step(p) \/ Disconnect(p) \/ Retry(p)

PointsInit == Init /\ TxInit

PointsSpec == PointsInit /\ [][PointsNext]_pointsVars

\* The server runs every statement it can; lock queues are first come, first served.
FairPointsSpec == PointsSpec /\ \A p \in Procs : SF_pointsVars(Step(p))

-----------------------------------------------------------------------------
(* Properties *)

\* Every process keeps within its program.
PointsTypeOK ==
  /\ pc \in [Procs -> {"idle", "upsert", "award?", "key?", "user", "post", "commit",
                       "unique violation", "refused", "conflict", "done"}]
  /\ call \in [Procs -> LoginCalls \cup AdjustCalls \cup {NoCall}]
  /\ answer \in [Procs -> {"none", "ok", "rejected", "conflict", "error", "lost"}]
  /\ \A p \in Procs : pc[p] \notin {"award?", "post", "commit"} => held[p] = {}

\* A successful answer to an adjustment is about an entry of that buyer with
\* that delta: a key reused for another adjustment is never taken for a replay.
AnswersMatchCall ==
  \A p \in Procs :
    pc[p] = "done" /\ answer[p] = "ok" /\ call[p].kind = "adjust" =>
      Posted(call[p].user, AdjustKey(call[p]), call[p].delta)

\* One SIGNUP_BONUS_POINTS for all server processes, old and new.
OneBonus == \A a, b \in Bonuses : a = b

\* As long as the bonus stays what it is, concurrent logins and adjustments
\* are atomic: the unlocked read and the absolute write of the bonus lose no
\* adjustment and award nothing twice.
PointsImplementMall == [][Next]_vars

\* Every login and every adjustment is answered.
EveryCallAnswered == \A p \in Procs : pc[p] # "idle" ~> pc[p] = "done"
=============================================================================
