------------------------ MODULE PointsAccountProofs ------------------------
(* Theorems about PointsAccount, for every value of its constants. *)
EXTENDS PointsAccount, MallProofs

-----------------------------------------------------------------------------
(* The invariant *)

Calls == LoginCalls \cup AdjustCalls

\* A process that runs a login has noted something after its upsert.
Noting(w, c) == w = "award?" \/ (w = "commit" /\ c.kind = "login")

\* A process at statement w of call c runs its own program ...
ProgramOK(w, c) ==
  /\ w \in {"idle", "upsert", "award?", "key?", "user", "post", "commit",
            "unique violation", "refused", "conflict", "done"}
  /\ c \in Calls \cup {NoCall}
  /\ w # "idle" => c \in Calls
  /\ w \in {"upsert", "award?"} => c.kind = "login"
  /\ w \in {"key?", "user", "post", "unique violation", "refused", "conflict"} => c.kind = "adjust"

\* ... has locked the buyer it inserts ...
LocksOK(w, c, s, h) ==
  /\ w \notin {"award?", "post", "commit"} => h = {}
  /\ Noting(w, c) /\ s.new => <<"openid", c.user>> \in h

\* ... who is in no table yet, and gets the bonus.  Where all processes have
\* one bonus nobody else gets it.
NotesOK(w, c, s) ==
  /\ w = "upsert" => s = Nothing
  /\ Noting(w, c) =>
       /\ s = [balance |-> s.balance, bonus |-> s.bonus, new |-> s.new, award |-> s.award]
       /\ s.bonus \in Bonuses /\ s.new \in BOOLEAN /\ s.award \in BOOLEAN
       /\ s.new => s.balance = 0 /\ c.user \notin DOMAIN balance
       /\ ~s.new => c.user \in DOMAIN balance /\ (OneBonus => ~s.award)
  /\ w = "award?" => ~s.award
  /\ w = "commit" /\ c.kind = "login" /\ s.new => (s.award <=> s.bonus # 0)

\* ... and has told its client the truth.
AnswerOK(w, c, a) ==
  /\ a \in {"none", "ok", "rejected", "conflict", "error", "lost"}
  /\ w = "done" /\ a = "ok" /\ c.kind = "adjust" => Posted(c.user, AdjustKey(c), c.delta)

ProcOK(w, c, s, h, a) ==
  ProgramOK(w, c) /\ LocksOK(w, c, s, h) /\ NotesOK(w, c, s) /\ AnswerOK(w, c, a)

ShapeInv ==
  /\ pc = [p \in Procs |-> pc[p]] /\ call = [p \in Procs |-> call[p]]
  /\ seen = [p \in Procs |-> seen[p]] /\ held = [p \in Procs |-> held[p]]
  /\ answer = [p \in Procs |-> answer[p]]

\* Nothing is booked for a stranger; with one bonus every buyer has got it.
BooksOpen ==
  /\ \A u \in Users \ DOMAIN balance : ledger[u] = << >>
  /\ OneBonus => \A u \in DOMAIN balance, b \in Bonuses : b # 0 => HasEvent(u, <<"signup", u>>)

PointsInv ==
  /\ TypeOK /\ ShapeInv /\ BooksOpen
  /\ \A p \in Procs : ProcOK(pc[p], call[p], seen[p], held[p], answer[p])
  /\ \A p, q \in Procs : p # q => held[p] \cap held[q] = {}

-----------------------------------------------------------------------------
(* What the steps of others leave alone *)

Growth ==
  /\ DOMAIN balance \subseteq DOMAIN balance'
  /\ \A u \in Users : \A k, d : Posted(u, k, d) => Posted(u, k, d)'

\* Buyers whose insert is locked are not inserted.
Keeps(h) ==
  \A u \in Users : <<"openid", u>> \in h /\ u \notin DOMAIN balance => u \notin DOMAIN balance'

LEMMA CallFacts ==
  ASSUME NEW c \in Calls
  PROVE  \/ c \in LoginCalls /\ c.kind = "login" /\ c.user \in Users
         \/ /\ c \in AdjustCalls /\ c.kind = "adjust" /\ c.admin \in Admins /\ c.key \in AdjustKeys
            /\ c.user \in Users /\ c.delta \in Deltas
<1>1. CASE c \in LoginCalls
  <2>1. c \in [kind : {"login"}, user : Users]  BY <1>1, PointsAssumption
  <2> QED  BY <1>1, <2>1
<1>2. CASE c \in AdjustCalls
  <2>1. c \in [kind : {"adjust"}, admin : Admins, key : AdjustKeys, user : Users, delta : Deltas]
    BY <1>2, PointsAssumption
  <2> QED  BY <1>2, <2>1
<1> QED  BY <1>1, <1>2 DEF Calls

LEMMA ProcKept ==
  ASSUME NEW w, NEW c, NEW s, NEW h, NEW a, ProcOK(w, c, s, h, a), Growth, Keeps(h)
  PROVE  ProcOK(w, c, s, h, a)'
<1>1. /\ ProgramOK(w, c) /\ LocksOK(w, c, s, h) /\ NotesOK(w, c, s) /\ AnswerOK(w, c, a)
  BY DEF ProcOK
<1>2. ProgramOK(w, c)' /\ LocksOK(w, c, s, h)'
  BY <1>1 DEF ProgramOK, LocksOK, Noting
<1>3. w # "idle" => c.user \in Users
  BY <1>1, CallFacts DEF ProgramOK
<1>4. AnswerOK(w, c, a)'
  BY <1>1, <1>3 DEF AnswerOK, Growth, AdjustKey
<1>5. Noting(w, c) /\ s.new => c.user \notin DOMAIN balance'
  BY <1>1, <1>3 DEF NotesOK, LocksOK, Noting, Keeps
<1>6. Noting(w, c) /\ ~s.new => c.user \in DOMAIN balance'
  BY <1>1 DEF NotesOK, Growth
<1>7. NotesOK(w, c, s)'
  BY <1>1, <1>5, <1>6 DEF NotesOK, Noting, OneBonus
<1> QED  BY <1>2, <1>4, <1>7 DEF ProcOK

LEMMA SameGrowth == UNCHANGED vars => Growth /\ (BooksOpen => BooksOpen') /\ \A h : Keeps(h)
BY DEF vars, Growth, Keeps, Posted, BooksOpen, HasEvent, OneBonus

LEMMA Facts ==
  ASSUME PointsInv, NEW p \in Procs
  PROVE  /\ ProgramOK(pc[p], call[p]) /\ LocksOK(pc[p], call[p], seen[p], held[p])
         /\ NotesOK(pc[p], call[p], seen[p]) /\ AnswerOK(pc[p], call[p], answer[p])
         /\ \A q \in Procs \ {p} : held[p] \cap held[q] = {}
BY DEF PointsInv, ProcOK

\* Process p takes a step, and what the others rely on stays.
LEMMA LocalStep ==
  ASSUME PointsInv, NEW p \in Procs, ShapeInv', TypeOK', BooksOpen', Growth,
         \A q \in Procs \ {p} : Keeps(held[q]),
         \A q \in Procs \ {p} :
           /\ pc'[q] = pc[q] /\ call'[q] = call[q] /\ seen'[q] = seen[q]
           /\ held'[q] = held[q] /\ answer'[q] = answer[q],
         ProcOK(pc[p], call[p], seen[p], held[p], answer[p])',
         \A q \in Procs \ {p} : held'[p] \cap held[q] = {}
  PROVE  PointsInv'
<1>1. ASSUME NEW q \in Procs  PROVE ProcOK(pc[q], call[q], seen[q], held[q], answer[q])'
  <2>1. CASE q # p
    <3>1. PICK w, c, s, h, a : w = pc[q] /\ c = call[q] /\ s = seen[q] /\ h = held[q] /\ a = answer[q]
      OBVIOUS
    <3>2. ProcOK(w, c, s, h, a) /\ Keeps(h)  BY <2>1, <3>1 DEF PointsInv
    <3>3. ProcOK(w, c, s, h, a)'  BY <3>2, ProcKept
    <3> QED  BY <2>1, <3>1, <3>3
  <2> QED  BY <2>1
<1>2. \A q, r \in Procs : q # r => held'[q] \cap held'[r] = {}
  BY DEF PointsInv
<1> QED  BY <1>1, <1>2 DEF PointsInv

\* Process p goes on to statement w, and the tables stay.
LEMMA Moved ==
  ASSUME PointsInv, NEW p \in Procs, NEW w, NEW c, NEW s, NEW h, NEW a,
         Goto(p, w),
         call' = [call EXCEPT ![p] = c] \/ (UNCHANGED call /\ c = call[p]),
         seen' = [seen EXCEPT ![p] = s] \/ (UNCHANGED seen /\ s = seen[p]),
         held' = [held EXCEPT ![p] = h] \/ (UNCHANGED held /\ h = held[p]),
         answer' = [answer EXCEPT ![p] = a] \/ (UNCHANGED answer /\ a = answer[p]),
         UNCHANGED vars, ProcOK(w, c, s, h, a),
         \A q \in Procs \ {p} : h \cap held[q] = {}
  PROVE  PointsInv'
<1>1. /\ pc'[p] = w /\ call'[p] = c /\ seen'[p] = s /\ held'[p] = h /\ answer'[p] = a
      /\ \A q \in Procs \ {p} :
           /\ pc'[q] = pc[q] /\ call'[q] = call[q] /\ seen'[q] = seen[q]
           /\ held'[q] = held[q] /\ answer'[q] = answer[q]
  BY DEF Goto, PointsInv, ShapeInv
<1>2. ShapeInv'
  <2>1. pc' = [q \in Procs |-> pc'[q]]  BY DEF Goto, PointsInv, ShapeInv
  <2>2. call' = [q \in Procs |-> call'[q]]  BY DEF PointsInv, ShapeInv
  <2>3. seen' = [q \in Procs |-> seen'[q]]  BY DEF PointsInv, ShapeInv
  <2>4. held' = [q \in Procs |-> held'[q]]  BY DEF PointsInv, ShapeInv
  <2>5. answer' = [q \in Procs |-> answer'[q]]  BY DEF PointsInv, ShapeInv
  <2> QED  BY <2>1, <2>2, <2>3, <2>4, <2>5 DEF ShapeInv
<1>3. ProcOK(w, c, s, h, a)'  BY SameGrowth, ProcKept
<1>4. ProcOK(pc[p], call[p], seen[p], held[p], answer[p])'  BY <1>1, <1>3
<1>5. TypeOK'  BY TypeStep DEF PointsInv
<1>6. BooksOpen'  BY SameGrowth DEF PointsInv
<1> QED  BY <1>1, <1>2, <1>4, <1>5, <1>6, SameGrowth, LocalStep

\* Process p ends its transaction with answer a, and without its locks.
LEMMA Finished ==
  ASSUME PointsInv, NEW p \in Procs, NEW a, Finish(p, a), pc[p] # "idle",
         TypeOK', BooksOpen', Growth, \A q \in Procs \ {p} : Keeps(held[q]),
         NEW c, c = call[p], AnswerOK("done", c, a)'
  PROVE  PointsInv'
<1>1. /\ pc'[p] = "done" /\ call'[p] = c /\ seen'[p] = NoCall /\ held'[p] = {} /\ answer'[p] = a
      /\ \A q \in Procs \ {p} :
           /\ pc'[q] = pc[q] /\ call'[q] = call[q] /\ seen'[q] = seen[q]
           /\ held'[q] = held[q] /\ answer'[q] = answer[q]
  BY DEF Finish, PointsInv, ShapeInv
<1>2. ShapeInv'
  BY DEF Finish, PointsInv, ShapeInv
<1>3. ProgramOK("done", c)'
  BY Facts DEF ProgramOK
<1>4. LocksOK("done", c, NoCall, {})' /\ NotesOK("done", c, NoCall)'
  BY DEF LocksOK, NotesOK, Noting
<1>5. ProcOK("done", c, NoCall, {}, a)'
  BY <1>3, <1>4 DEF ProcOK
<1>6. ProcOK(pc[p], call[p], seen[p], held[p], answer[p])'
  BY <1>1, <1>5
<1> QED  BY <1>1, <1>2, <1>6, LocalStep

LEMMA Replied ==
  ASSUME PointsInv, NEW p \in Procs, NEW a, Reply(p, a), pc[p] # "idle",
         \/ a \in {"rejected", "conflict", "error", "lost"}
         \/ a = "ok" /\ Posted(call[p].user, AdjustKey(call[p]), call[p].delta)
  PROVE  PointsInv'
<1>1. Finish(p, a) /\ UNCHANGED vars  BY DEF Reply
<1>2. PICK c : c = call[p]  OBVIOUS
<1>3. AnswerOK("done", c, a)
  BY <1>2 DEF AnswerOK
<1>4. c.user \in Users
  BY <1>2, Facts, CallFacts DEF ProgramOK
<1>5. AnswerOK("done", c, a)'
  BY <1>1, <1>3, <1>4, SameGrowth DEF AnswerOK, Growth, AdjustKey
<1>6. TypeOK' /\ BooksOpen'
  BY <1>1, TypeStep, SameGrowth DEF PointsInv
<1> QED  BY <1>1, <1>2, <1>5, <1>6, SameGrowth, Finished

\* A rollback to a statement of an adjustment that has no locks.
LEMMA RolledBack ==
  ASSUME PointsInv, NEW p \in Procs, NEW w \in {"refused", "conflict", "unique violation"},
         Rollback(p, w), UNCHANGED vars, pc[p] # "idle", call[p].kind = "adjust"
  PROVE  PointsInv'
<1>1. ProcOK(w, call[p], NoCall, {}, answer[p])
  BY Facts DEF ProcOK, ProgramOK, LocksOK, NotesOK, Noting, AnswerOK
<1> QED  BY <1>1, Moved DEF Rollback

-----------------------------------------------------------------------------
(* The statements that leave the tables alone *)

LEMMA FirstOK ==
  ASSUME NEW c \in Calls, NEW a \in {"none", "ok", "rejected", "conflict", "error", "lost"}
  PROVE  ProcOK(FirstStatement(c), c, Nothing, {}, a)
<1>1. CASE c.kind = "login"
  <2>1. FirstStatement(c) = "upsert"  BY <1>1 DEF FirstStatement
  <2> QED  BY <1>1, <2>1 DEF ProcOK, ProgramOK, LocksOK, NotesOK, Noting, AnswerOK
<1>2. CASE c.kind = "adjust"
  <2>1. FirstStatement(c) = "key?"  BY <1>2 DEF FirstStatement
  <2> QED  BY <1>2, <2>1 DEF ProcOK, ProgramOK, LocksOK, NotesOK, Noting, AnswerOK
<1> QED  BY <1>1, <1>2, CallFacts

LEMMA BeginOK == ASSUME PointsInv, NEW p \in Procs, Begin(p)  PROVE PointsInv'
<1>1. PICK c \in Calls : Serve(p, c, FirstStatement(c), Nothing)
  BY DEF Begin, Calls
<1>2. UNCHANGED vars /\ UNCHANGED <<held, answer>> /\ pc[p] = "idle"
  BY <1>1 DEF Begin, Serve
<1>3. held[p] = {}  BY <1>2, Facts DEF LocksOK
<1>4. answer[p] \in {"none", "ok", "rejected", "conflict", "error", "lost"}  BY Facts DEF AnswerOK
<1>5. ProcOK(FirstStatement(c), c, Nothing, {}, answer[p])  BY <1>1, <1>4, FirstOK
<1> QED  BY <1>1, <1>2, <1>3, <1>5, Moved DEF Serve

LEMMA RetryOK == ASSUME PointsInv, NEW p \in Procs, Retry(p)  PROVE PointsInv'
<1>1. SendAgain(p, FirstStatement(call[p]), Nothing) /\ UNCHANGED vars
  BY DEF Retry
<1>2. pc[p] = "done" /\ UNCHANGED <<call, held>>
  BY <1>1 DEF SendAgain
<1>3. held[p] = {} /\ call[p] \in Calls
  BY <1>2, Facts DEF LocksOK, ProgramOK
<1>4. ProcOK(FirstStatement(call[p]), call[p], Nothing, {}, "none")  BY <1>3, FirstOK
<1> QED  BY <1>1, <1>2, <1>3, <1>4, Moved DEF SendAgain

LEMMA DisconnectOK == ASSUME PointsInv, NEW p \in Procs, Disconnect(p)  PROVE PointsInv'
BY Replied DEF Disconnect

LEMMA Locked ==
  ASSUME PointsInv, NEW p \in Procs, NEW row, Lock(p, row)
  PROVE  /\ held' = [held EXCEPT ![p] = held[p] \cup {row}]
         /\ \A q \in Procs \ {p} : (held[p] \cup {row}) \cap held[q] = {}
<1>1. \A q \in Procs \ {p} : held[p] \cap held[q] = {}
  BY Facts
<1> QED  BY <1>1 DEF Lock, Free

LEMMA UpsertOK == ASSUME PointsInv, NEW p \in Procs, Upsert(p)  PROVE PointsInv'
<1> DEFINE u == call[p].user
<1>1. pc[p] = "upsert" /\ Goto(p, "award?") /\ UNCHANGED <<vars, call, answer>>
  BY DEF Upsert
<1>2. /\ call[p] \in Calls /\ call[p].kind = "login" /\ held[p] = {} /\ seen[p] = Nothing
      /\ answer[p] \in {"none", "ok", "rejected", "conflict", "error", "lost"}
  BY <1>1, Facts DEF ProgramOK, LocksOK, NotesOK, AnswerOK
<1>3. ASSUME NEW bonus \in Bonuses, u \in DOMAIN balance,
             seen' = [seen EXCEPT ![p] = Noted(balance[u], bonus, FALSE)], UNCHANGED held
      PROVE  PointsInv'
  <2> DEFINE s == [balance |-> balance[u], bonus |-> bonus, new |-> FALSE, award |-> FALSE]
  <2>1. seen' = [seen EXCEPT ![p] = s]
    BY <1>3 DEF Noted
  <2>2. ProcOK("award?", call[p], s, held[p], answer[p])
    BY <1>2, <1>3 DEF ProcOK, ProgramOK, LocksOK, NotesOK, Noting, AnswerOK
  <2> HIDE DEF s
  <2> QED  BY <1>1, <1>3, <2>1, <2>2, Facts, Moved
<1>4. ASSUME NEW bonus \in Bonuses, u \notin DOMAIN balance, Lock(p, <<"openid", u>>),
             seen' = [seen EXCEPT ![p] = Noted(0, bonus, TRUE)]
      PROVE  PointsInv'
  <2> DEFINE s == [balance |-> 0, bonus |-> bonus, new |-> TRUE, award |-> FALSE]
  <2>1. seen' = [seen EXCEPT ![p] = s]
    BY <1>4 DEF Noted
  <2>2. /\ held' = [held EXCEPT ![p] = held[p] \cup {<<"openid", u>>}]
        /\ \A q \in Procs \ {p} : (held[p] \cup {<<"openid", u>>}) \cap held[q] = {}
    BY <1>4, Locked
  <2>3. ProcOK("award?", call[p], s, held[p] \cup {<<"openid", u>>}, answer[p])
    BY <1>2, <1>4 DEF ProcOK, ProgramOK, LocksOK, NotesOK, Noting, AnswerOK
  <2> HIDE DEF s
  <2> QED  BY <1>1, <1>4, <2>1, <2>2, <2>3, Moved
<1> QED  BY <1>3, <1>4 DEF Upsert

LEMMA NotedAward ==
  ASSUME NEW s, NEW v,
         s = [balance |-> s.balance, bonus |-> s.bonus, new |-> s.new, award |-> s.award]
  PROVE  [s EXCEPT !["award"] = v]
           = [balance |-> s.balance, bonus |-> s.bonus, new |-> s.new, award |-> v]
<1> DEFINE f == [balance |-> s.balance, bonus |-> s.bonus, new |-> s.new, award |-> s.award]
<1>1. s = f  OBVIOUS
<1>2. [f EXCEPT !["award"] = v]
        = [balance |-> s.balance, bonus |-> s.bonus, new |-> s.new, award |-> v]
  OBVIOUS
<1> HIDE DEF f
<1> QED  BY <1>1, <1>2

LEMMA AwardBonusOK == ASSUME PointsInv, NEW p \in Procs, AwardBonus(p)  PROVE PointsInv'
<1> DEFINE c == call[p]
           u == c.user
           s == seen[p]
           key == <<"signup", u>>
<1>1. pc[p] = "award?" /\ Goto(p, "commit") /\ UNCHANGED <<vars, call, answer>>
  BY DEF AwardBonus
<1>0. /\ ProgramOK("award?", c) /\ LocksOK("award?", c, s, held[p]) /\ NotesOK("award?", c, s)
      /\ AnswerOK("award?", c, answer[p])
  BY <1>1, Facts
<1>2. /\ c \in Calls /\ c.kind = "login" /\ u \in Users
      /\ s = [balance |-> s.balance, bonus |-> s.bonus, new |-> s.new, award |-> s.award]
      /\ s.bonus \in Bonuses /\ s.new \in BOOLEAN /\ s.award \in BOOLEAN /\ ~s.award
      /\ s.new => s.balance = 0 /\ u \notin DOMAIN balance /\ <<"openid", u>> \in held[p]
      /\ ~s.new => u \in DOMAIN balance
  BY <1>0, CallFacts DEF ProgramOK, LocksOK, NotesOK, Noting
<1>3. s.new => ~HasEvent(u, key)
  BY <1>2 DEF PointsInv, BooksOpen, HasEvent
<1>4. ProgramOK("commit", c) /\ AnswerOK("commit", c, answer[p])
  BY <1>0 DEF ProgramOK, AnswerOK
<1>5. CASE (s.balance # 0 \/ s.bonus = 0 \/ HasEvent(u, key)) /\ UNCHANGED <<held, seen>>
  <2>1. s.new => (s.award <=> s.bonus # 0)
    BY <1>2, <1>3, <1>5
  <2>2. NotesOK("commit", c, s)
    BY <1>2, <2>1 DEF NotesOK, Noting
  <2>3. LocksOK("commit", c, s, held[p])
    BY <1>2 DEF LocksOK, Noting
  <2>4. ProcOK("commit", c, s, held[p], answer[p])
    BY <1>4, <2>2, <2>3 DEF ProcOK
  <2> HIDE DEF c, s
  <2>5. c = call[p] /\ s = seen[p]  BY DEF c, s
  <2> QED  BY <1>1, <1>5, <2>4, <2>5, Facts, Moved
<1>6. CASE /\ ~(s.balance # 0 \/ s.bonus = 0 \/ HasEvent(u, key))
           /\ Free(<<"event", key>>, p) /\ Free(<<"user", u>>, p)
           /\ held' = [held EXCEPT ![p] = @ \cup {<<"event", key>>, <<"user", u>>}]
           /\ Note(p, "award", TRUE)
  <2> DEFINE t == [balance |-> s.balance, bonus |-> s.bonus, new |-> s.new, award |-> TRUE]
             h == held[p] \cup {<<"event", key>>, <<"user", u>>}
  <2>1. seen' = [seen EXCEPT ![p] = t]
    BY <1>2, <1>6, NotedAward DEF Note, PointsInv, ShapeInv
  <2>2. ASSUME OneBonus, ~s.new  PROVE FALSE
    <3>1. HasEvent(u, key)
      BY <1>2, <1>6, <2>2 DEF PointsInv, BooksOpen
    <3> QED  BY <1>6, <3>1
  <2>3. NotesOK("commit", c, t)
    BY <1>2, <1>6, <2>2 DEF NotesOK, Noting
  <2>4. LocksOK("commit", c, t, h)
    BY <1>2 DEF LocksOK, Noting
  <2>5. ProcOK("commit", c, t, h, answer[p])
    BY <1>4, <2>3, <2>4 DEF ProcOK
  <2>6. \A q \in Procs \ {p} : h \cap held[q] = {}
    BY <1>6, Facts DEF Free
  <2>7. held' = [held EXCEPT ![p] = h]
    BY <1>6
  <2> HIDE DEF t, h, s
  <2> QED  BY <1>1, <2>1, <2>5, <2>6, <2>7, Moved
<1> QED  BY <1>5, <1>6 DEF AwardBonus

LEMMA PostingFacts ==
  ASSUME NEW c, NEW at \in Posting(c), SameRequest(c, at)
  PROVE  Posted(c.user, AdjustKey(c), c.delta)
BY DEF Posting, SameRequest, Posted

LEMMA AdjustReadsOK ==
  ASSUME PointsInv, NEW p \in Procs, FindKey(p) \/ LockBuyer(p) \/ Post(p) \/ FindWinner(p)
  PROVE  PointsInv'
<1>1. pc[p] \in {"key?", "user", "post", "unique violation"}
  BY DEF FindKey, LockBuyer, Post, FindWinner
<1>2. /\ call[p].kind = "adjust" /\ call[p] \in Calls
      /\ answer[p] \in {"none", "ok", "rejected", "conflict", "error", "lost"}
      /\ pc[p] \in {"key?", "user", "unique violation"} => held[p] = {}
  BY <1>1, Facts DEF ProgramOK, AnswerOK, LocksOK
<1>3. ASSUME NEW w \in {"user", "post", "commit"}, NEW h, w = "user" => h = {}
      PROVE  ProcOK(w, call[p], seen[p], h, answer[p])
  BY <1>2, <1>3 DEF ProcOK, ProgramOK, LocksOK, NotesOK, Noting, AnswerOK
<1>4. CASE FindKey(p)
  <2>1. CASE Goto(p, "user") /\ UNCHANGED <<vars, call, seen, held, answer>>
    <3>1. pc[p] = "key?"  BY <1>4 DEF FindKey
    <3> QED  BY <1>2, <1>3, <2>1, <3>1, Facts, Moved
  <2>2. ASSUME NEW at \in Posting(call[p]), SameRequest(call[p], at), Reply(p, "ok")
        PROVE  PointsInv'
    BY <1>1, <2>2, PostingFacts, Replied
  <2> QED  BY <1>1, <1>2, <1>4, <2>1, <2>2, RolledBack DEF FindKey
<1>5. CASE LockBuyer(p)
  <2>1. CASE /\ Lock(p, <<"user", call[p].user>>) /\ Goto(p, "post")
             /\ UNCHANGED <<vars, call, seen, answer>>
    BY <1>3, <2>1, Locked, Moved
  <2> QED  BY <1>1, <1>2, <1>5, <2>1, RolledBack DEF LockBuyer
<1>6. CASE Post(p)
  <2>1. CASE /\ Lock(p, <<"event", AdjustKey(call[p])>>) /\ Goto(p, "commit")
             /\ UNCHANGED <<vars, call, seen, answer>>
    BY <1>3, <2>1, Locked, Moved
  <2>2. CASE Reply(p, "error")
    BY <1>1, <2>2, Replied
  <2> QED  BY <1>1, <1>2, <1>6, <2>1, <2>2, RolledBack DEF Post, Reply
<1>7. CASE FindWinner(p)
  <2>1. ASSUME NEW at \in Posting(call[p]), SameRequest(call[p], at), Reply(p, "ok")
        PROVE  PointsInv'
    BY <1>1, <2>1, PostingFacts, Replied
  <2> QED  BY <1>1, <1>2, <1>7, <2>1, RolledBack DEF FindWinner
<1> QED  BY <1>4, <1>5, <1>6, <1>7

-----------------------------------------------------------------------------
(* The statements that write *)

LEMMA AdjustKeyFacts ==
  ASSUME NEW c \in Calls, c.kind = "adjust"
  PROVE  /\ AdjustKey(c) \in EventKeys /\ c.delta \in Int
         /\ c.admin \in Admins /\ c.key \in AdjustKeys /\ c.user \in Users /\ c.delta \in Deltas
<1>1. /\ c.admin \in Admins /\ c.key \in AdjustKeys /\ c.user \in Users /\ c.delta \in Deltas
  BY CallFacts
<1>2. AdjustKey(c) \in EventKeys  BY <1>1 DEF AdjustKey, EventKeys
<1> QED  BY <1>1, <1>2, MallAssumption

LEMMA RefusalIsNext ==
  ASSUME PointsInv, NEW p \in Procs, RecordRefusal(p)
  PROVE  Next \/ UNCHANGED vars
<1>1. pc[p] \in {"refused", "conflict"}  BY DEF RecordRefusal
<1>2. call[p] \in Calls /\ call[p].kind = "adjust"  BY <1>1, Facts DEF ProgramOK
<1>3. call[p].admin \in Admins /\ call[p].user \in Users  BY <1>2, CallFacts
<1>4. CASE RecordFailure(call[p].admin, "points.adjust", call[p].user)
  BY <1>3, <1>4 DEF Next, AdminNext, AdjustRefused
<1> QED  BY <1>4 DEF RecordRefusal

LEMMA RecordRefusalOK == ASSUME PointsInv, NEW p \in Procs, RecordRefusal(p)  PROVE PointsInv'
<1>1. PICK a \in {"rejected", "conflict"} : pc[p] # "idle" /\ Finish(p, a)
  BY DEF RecordRefusal
<1>2. TypeOK'  BY RefusalIsNext, TypeStep DEF PointsInv
<1>3. UNCHANGED <<balance, ledger>>
  BY DEF RecordRefusal, RecordFailure, vars
<1>4. BooksOpen' /\ Growth /\ \A h : Keeps(h)
  BY <1>3 DEF PointsInv, BooksOpen, Growth, Keeps, Posted, HasEvent, OneBonus
<1>5. PICK c : c = call[p]  OBVIOUS
<1>6. AnswerOK("done", c, a)'  BY DEF AnswerOK
<1> QED  BY <1>1, <1>2, <1>4, <1>5, <1>6, Finished

LEMMA AdjustIsNext ==
  ASSUME PointsInv, NEW p \in Procs, CommitAdjust(p)
  PROVE  Next
<1>1. call[p] \in Calls /\ call[p].kind = "adjust"
  BY Facts DEF CommitAdjust, ProgramOK
<1>2. /\ call[p].admin \in Admins /\ call[p].key \in AdjustKeys /\ call[p].user \in Users
      /\ call[p].delta \in Deltas
  BY <1>1, CallFacts
<1> QED  BY <1>2 DEF CommitAdjust, Next, AdminNext

LEMMA CommitAdjustOK == ASSUME PointsInv, NEW p \in Procs, CommitAdjust(p)  PROVE PointsInv'
<1>1. pc[p] = "commit" /\ call[p].kind = "adjust"  BY DEF CommitAdjust
<1>2. PICK c : c = call[p]  OBVIOUS
<1>3. c \in Calls  BY <1>1, <1>2, Facts DEF ProgramOK
<1>4. /\ AdjustKey(c) \in EventKeys /\ c.delta \in Int
      /\ c.admin \in Admins /\ c.key \in AdjustKeys /\ c.user \in Users /\ c.delta \in Deltas
  BY <1>1, <1>2, <1>3, AdjustKeyFacts
<1>5. PostPoints(c.user, AdjustKey(c), c.delta, c.admin)
  BY <1>2 DEF CommitAdjust, AdjustPoints, AdjustKey
<1>6. TypeOK  BY DEF PointsInv
<1>7. TypeOK'  BY <1>6, AdjustIsNext, TypeStep
<1>8. DOMAIN balance' = DOMAIN balance /\ c.user \in DOMAIN balance
      /\ \A v \in Users \ {c.user} : ledger'[v] = ledger[v]
  BY <1>5, <1>6 DEF PostPoints, TypeOK
<1>9. ASSUME NEW v \in Users, NEW k, NEW d
      PROVE  /\ HasEvent(v, k)' <=> HasEvent(v, k) \/ (v = c.user /\ k = AdjustKey(c))
             /\ Posted(v, k, d)' <=> Posted(v, k, d) \/ (v = c.user /\ k = AdjustKey(c) /\ d = c.delta)
  BY <1>4, <1>5, <1>6, PostEvents
<1>10. BooksOpen'
  <2>1. \A u \in Users \ DOMAIN balance' : ledger'[u] = << >>
    BY <1>8 DEF PointsInv, BooksOpen
  <2>2. ASSUME OneBonus, NEW u \in DOMAIN balance, NEW b \in Bonuses, b # 0
        PROVE  HasEvent(u, <<"signup", u>>)'
    <3>1. u \in Users  BY <1>6 DEF TypeOK
    <3>2. HasEvent(u, <<"signup", u>>)  BY <2>2 DEF PointsInv, BooksOpen
    <3> QED  BY <1>9, <3>1, <3>2
  <2> QED  BY <1>8, <2>1, <2>2 DEF BooksOpen, OneBonus
<1>11. Growth /\ \A h : Keeps(h)
  BY <1>8, <1>9 DEF Growth, Keeps
<1>12. ASSUME NEW a \in {"ok", "lost"}  PROVE AnswerOK("done", c, a)'
  <2>1. Posted(c.user, AdjustKey(c), c.delta)'
    BY <1>4, <1>9
  <2> QED  BY <2>1 DEF AnswerOK, AdjustKey
<1>13. PICK a \in {"ok", "lost"} : Finish(p, a)  BY DEF CommitAdjust
<1> QED  BY <1>1, <1>2, <1>7, <1>10, <1>11, <1>12, <1>13, Finished

\* The commit of a login that found the buyer, or of one that inserts it.
LEMMA LoginFacts ==
  ASSUME PointsInv, NEW p \in Procs, CommitLogin(p), NEW c, c = call[p], NEW s, s = seen[p]
  PROVE  /\ c.kind = "login" /\ c.user \in Users /\ pc[p] = "commit"
         /\ s.bonus \in Bonuses /\ s.bonus \in 0..MaxInt
         /\ s.new \in BOOLEAN /\ s.award \in BOOLEAN
         /\ s.new => /\ c.user \notin DOMAIN balance /\ ledger[c.user] = << >>
                     /\ <<"openid", c.user>> \in held[p] /\ (s.award <=> s.bonus # 0)
         /\ ~s.new => c.user \in DOMAIN balance /\ (OneBonus => ~s.award)
<1>1. pc[p] = "commit" /\ c.kind = "login"  BY DEF CommitLogin
<1>2. ProgramOK("commit", c) /\ LocksOK("commit", c, s, held[p]) /\ NotesOK("commit", c, s)
  BY <1>1, Facts
<1>3. c.user \in Users  BY <1>2, CallFacts DEF ProgramOK
<1>4. s.bonus \in Bonuses  BY <1>1, <1>2 DEF NotesOK, Noting
<1>5. s.bonus \in 0..MaxInt  BY <1>4, MallAssumption
<1>6. /\ s.new \in BOOLEAN /\ s.award \in BOOLEAN
      /\ s.new => c.user \notin DOMAIN balance /\ (s.award <=> s.bonus # 0)
      /\ ~s.new => c.user \in DOMAIN balance /\ (OneBonus => ~s.award)
  BY <1>1, <1>2 DEF NotesOK, Noting
<1>7. s.new => <<"openid", c.user>> \in held[p]
  BY <1>1, <1>2 DEF LocksOK, Noting
<1>8. s.new => ledger[c.user] = << >>
  BY <1>3, <1>6 DEF PointsInv, BooksOpen
<1> QED  BY <1>1, <1>3, <1>4, <1>5, <1>6, <1>7, <1>8

LEMMA CommitLoginOK == ASSUME PointsInv, NEW p \in Procs, CommitLogin(p)  PROVE PointsInv'
<1>1. PICK c, s : c = call[p] /\ s = seen[p]  OBVIOUS
<1> DEFINE u == c.user
           e == [key |-> <<"signup", u>>, delta |-> s.bonus, after |-> s.bonus, admin |-> NoAdmin]
<1>2. /\ c.kind = "login" /\ u \in Users /\ pc[p] = "commit"
      /\ s.bonus \in Bonuses /\ s.bonus \in 0..MaxInt
      /\ s.new \in BOOLEAN /\ s.award \in BOOLEAN
      /\ s.new => /\ u \notin DOMAIN balance /\ ledger[u] = << >>
                  /\ <<"openid", u>> \in held[p] /\ (s.award <=> s.bonus # 0)
      /\ ~s.new => u \in DOMAIN balance /\ (OneBonus => ~s.award)
  BY <1>1, LoginFacts
<1>3. TypeOK  BY DEF PointsInv
<1>4. /\ balance' = IF s.award \/ s.new
                    THEN [v \in DOMAIN balance \cup {u} |->
                            IF v # u THEN balance[v] ELSE IF s.award THEN s.bonus ELSE 0]
                    ELSE balance
      /\ ledger' = IF s.award THEN [ledger EXCEPT ![u] = Append(ledger[u], e)] ELSE ledger
      /\ UNCHANGED <<products, cart, addr, retired, orders, audit, cameFrom, supply>>
  BY <1>1 DEF CommitLogin
<1>5. <<"signup", u>> \in EventKeys  BY <1>2 DEF EventKeys
<1>6. e \in Entry /\ e.key = <<"signup", u>>  BY <1>2, <1>5 DEF Entry
<1> HIDE DEF e
<1>7. DOMAIN balance' = DOMAIN balance \cup {u}
  BY <1>2, <1>4
<1>8. balance' \in [DOMAIN balance' -> 0..MaxInt]
  BY <1>2, <1>3, <1>4, <1>7, MaxIntAssumption DEF TypeOK
<1>9. ledger' \in [Users -> Seq(Entry)]
  <2>1. Append(ledger[u], e) \in Seq(Entry)  BY <1>2, <1>3, <1>6 DEF TypeOK
  <2> QED  BY <1>3, <1>4, <2>1 DEF TypeOK
<1>10. TypeOK'
  BY <1>2, <1>3, <1>4, <1>7, <1>8, <1>9 DEF TypeOK
<1>11. ASSUME NEW v \in Users, NEW k, NEW d
       PROVE  /\ HasEvent(v, k) => HasEvent(v, k)'
              /\ Posted(v, k, d) => Posted(v, k, d)'
              /\ s.award => HasEvent(u, <<"signup", u>>)'
  <2>1. CASE s.award
    <3>1. PICK f : f = e  OBVIOUS
    <3>2. ledger' = [ledger EXCEPT ![u] = Append(ledger[u], f)]  BY <1>4, <2>1, <3>1
    <3>3. f.key = <<"signup", u>>  BY <1>6, <3>1
    <3>4. \A x \in Users : \A key, delta :
            /\ HasEvent(x, key)' <=> HasEvent(x, key) \/ (x = u /\ key = f.key)
            /\ Posted(x, key, delta)' <=> Posted(x, key, delta) \/ (x = u /\ key = f.key /\ delta = f.delta)
      BY <1>2, <1>3, <3>2, AppendEvents
    <3> QED  BY <1>2, <3>3, <3>4
  <2>2. CASE ~s.award
    <3>1. ledger' = ledger  BY <1>4, <2>2
    <3> QED  BY <2>2, <3>1 DEF HasEvent, Posted
  <2> QED  BY <2>1, <2>2
<1>12. Growth  BY <1>7, <1>11 DEF Growth
<1>13. ASSUME NEW q \in Procs \ {p}  PROVE Keeps(held[q])
  <2>1. held[p] \cap held[q] = {}  BY Facts
  <2>2. s.new => <<"openid", u>> \notin held[q]  BY <1>2, <2>1
  <2> QED  BY <1>2, <1>7, <2>2 DEF Keeps
<1>14. \A v \in Users \ DOMAIN balance' : ledger'[v] = << >>
  BY <1>3, <1>4, <1>7 DEF PointsInv, BooksOpen, TypeOK
<1>15. ASSUME OneBonus, NEW v \in DOMAIN balance', NEW b \in Bonuses, b # 0
       PROVE  HasEvent(v, <<"signup", v>>)'
  <2>1. v \in Users  BY <1>2, <1>3, <1>7 DEF TypeOK
  <2>2. CASE v \in DOMAIN balance
    <3>1. HasEvent(v, <<"signup", v>>)  BY <1>15, <2>2 DEF PointsInv, BooksOpen
    <3> QED  BY <1>11, <2>1, <3>1
  <2>3. CASE v \notin DOMAIN balance
    <3>1. v = u /\ s.new  BY <1>2, <1>7, <2>3
    <3>2. s.bonus # 0  BY <1>2, <1>15 DEF OneBonus
    <3> QED  BY <1>2, <1>11, <3>1, <3>2
  <2> QED  BY <2>2, <2>3
<1>16. BooksOpen'
  <2>1. OneBonus' <=> OneBonus  BY DEF OneBonus
  <2> QED  BY <1>14, <1>15, <2>1 DEF BooksOpen
<1>17. PICK a \in {"ok", "lost"} : Finish(p, a)  BY DEF CommitLogin
<1>18. AnswerOK("done", c, a)'  BY <1>2 DEF AnswerOK
<1> QED  BY <1>1, <1>2, <1>10, <1>12, <1>13, <1>16, <1>17, <1>18, Finished

-----------------------------------------------------------------------------
(* The invariant holds, and with it the properties *)

LEMMA PointsInvInit == PointsInit => PointsInv
<1> SUFFICES ASSUME PointsInit  PROVE PointsInv
  OBVIOUS
<1>1. TypeOK  BY TypeInit DEF PointsInit
<1>2. ShapeInv  BY DEF PointsInit, TxInit, ShapeInv
<1>3. BooksOpen  BY DEF PointsInit, Init, BooksOpen
<1>4. ASSUME NEW p \in Procs
      PROVE  /\ pc[p] = "idle" /\ call[p] = NoCall /\ seen[p] = NoCall
             /\ held[p] = {} /\ answer[p] = "none"
  BY DEF PointsInit, TxInit
<1>5. ProcOK("idle", NoCall, NoCall, {}, "none")
  <2>1. NoCall.kind = "none"  BY DEF NoCall
  <2> QED  BY <2>1 DEF ProcOK, ProgramOK, LocksOK, NotesOK, Noting, AnswerOK
<1> QED  BY <1>1, <1>2, <1>3, <1>4, <1>5 DEF PointsInv

LEMMA PointsInvStep == PointsInv /\ [PointsNext]_pointsVars => PointsInv'
<1> SUFFICES ASSUME PointsInv, [PointsNext]_pointsVars  PROVE PointsInv'
  OBVIOUS
<1>1. CASE UNCHANGED pointsVars
  <2>1. UNCHANGED <<vars, pc, call, seen, held, answer>>
    BY <1>1 DEF pointsVars, txVars
  <2>2. TypeOK' /\ BooksOpen'  BY <2>1, TypeStep, SameGrowth DEF PointsInv
  <2>3. ShapeInv'  BY <2>1 DEF ShapeInv, PointsInv
  <2>4. ASSUME NEW q \in Procs  PROVE ProcOK(pc[q], call[q], seen[q], held[q], answer[q])'
    <3>1. PICK w, c, s, h, a : w = pc[q] /\ c = call[q] /\ s = seen[q] /\ h = held[q] /\ a = answer[q]
      OBVIOUS
    <3>2. ProcOK(w, c, s, h, a)  BY <3>1 DEF PointsInv
    <3>3. ProcOK(w, c, s, h, a)'  BY <2>1, <3>2, SameGrowth, ProcKept
    <3> QED  BY <2>1, <3>1, <3>3
  <2> QED  BY <2>1, <2>2, <2>3, <2>4 DEF PointsInv
<1>2. ASSUME NEW p \in Procs, Begin(p) \/ Step(p) \/ Disconnect(p) \/ Retry(p)  PROVE PointsInv'
  <2>1. Step(p) => PointsInv'
    BY UpsertOK, AwardBonusOK, CommitLoginOK, AdjustReadsOK, CommitAdjustOK, RecordRefusalOK DEF Step
  <2> QED  BY <1>2, <2>1, BeginOK, DisconnectOK, RetryOK
<1> QED  BY <1>1, <1>2 DEF PointsNext

THEOREM PointsInvariant == PointsSpec => []PointsInv
BY PointsInvInit, PointsInvStep, PTL DEF PointsSpec

\* Every process keeps within its program and answers with what it may.
THEOREM PointsTypeCorrect == PointsSpec => []PointsTypeOK
<1>1. PointsInv => PointsTypeOK
  <2> SUFFICES ASSUME PointsInv  PROVE PointsTypeOK
    OBVIOUS
  <2>1. \A p \in Procs : ProgramOK(pc[p], call[p]) /\ LocksOK(pc[p], call[p], seen[p], held[p])
                         /\ AnswerOK(pc[p], call[p], answer[p])
    BY Facts
  <2>2. ShapeInv  BY DEF PointsInv
  <2>3. \A p \in Procs :
          /\ pc[p] \in {"idle", "upsert", "award?", "key?", "user", "post", "commit",
                        "unique violation", "refused", "conflict", "done"}
          /\ call[p] \in LoginCalls \cup AdjustCalls \cup {NoCall}
    BY <2>1 DEF ProgramOK, Calls
  <2>4. \A p \in Procs : answer[p] \in {"none", "ok", "rejected", "conflict", "error", "lost"}
    BY <2>1 DEF AnswerOK
  <2>5. \A p \in Procs : pc[p] \notin {"award?", "post", "commit"} => held[p] = {}
    BY <2>1 DEF LocksOK
  <2>6. /\ pc \in [Procs -> {"idle", "upsert", "award?", "key?", "user", "post", "commit",
                             "unique violation", "refused", "conflict", "done"}]
        /\ call \in [Procs -> LoginCalls \cup AdjustCalls \cup {NoCall}]
        /\ answer \in [Procs -> {"none", "ok", "rejected", "conflict", "error", "lost"}]
    BY <2>2, <2>3, <2>4 DEF ShapeInv
  <2> QED  BY <2>5, <2>6 DEF PointsTypeOK
<1> QED  BY <1>1, PointsInvariant, PTL

\* A successful adjustment is in the books of its buyer, under its key, with its delta.
THEOREM AnswersMatch == PointsSpec => []AnswersMatchCall
<1>1. PointsInv => AnswersMatchCall
  BY DEF PointsInv, ProcOK, AnswerOK, AnswersMatchCall
<1> QED  BY <1>1, PointsInvariant, PTL

-----------------------------------------------------------------------------
(* Refinement *)

\* With one bonus the commit of a login is the atomic login, or changes nothing.
LEMMA LoginIsNext ==
  ASSUME OneBonus, PointsInv, NEW p \in Procs, CommitLogin(p)
  PROVE  Next \/ UNCHANGED vars
<1>1. PICK c, s : c = call[p] /\ s = seen[p]  OBVIOUS
<1> DEFINE u == c.user
           e == [key |-> <<"signup", u>>, delta |-> s.bonus, after |-> s.bonus, admin |-> NoAdmin]
<1>2. /\ c.kind = "login" /\ u \in Users /\ s.bonus \in Bonuses /\ s.bonus \in 0..MaxInt
      /\ s.new \in BOOLEAN /\ s.award \in BOOLEAN
      /\ s.new => /\ u \notin DOMAIN balance /\ ledger[u] = << >>
                  /\ <<"openid", u>> \in held[p] /\ (s.award <=> s.bonus # 0)
      /\ ~s.new => u \in DOMAIN balance /\ (OneBonus => ~s.award)
  BY <1>1, LoginFacts
<1>3. /\ balance' = IF s.award \/ s.new
                    THEN [v \in DOMAIN balance \cup {u} |->
                            IF v # u THEN balance[v] ELSE IF s.award THEN s.bonus ELSE 0]
                    ELSE balance
      /\ ledger' = IF s.award THEN [ledger EXCEPT ![u] = Append(ledger[u], e)] ELSE ledger
      /\ UNCHANGED <<products, cart, addr, retired, orders, audit, cameFrom, supply>>
  BY <1>1 DEF CommitLogin
<1>4. CASE ~s.new
  BY <1>2, <1>3, <1>4 DEF vars
<1>5. CASE s.new
  <2>1. ~HasEvent(u, <<"signup", u>>)  BY <1>2, <1>5 DEF HasEvent
  <2>2. s.award <=> s.bonus > 0  BY <1>2, <1>5, MaxIntAssumption
  <2>3. Login(u, s.bonus)
    <3>1. CASE s.award
      BY <1>2, <1>3, <1>5, <2>1, <2>2, <3>1 DEF Login
    <3>2. CASE ~s.award
      BY <1>2, <1>3, <1>5, <2>1, <2>2, <3>2 DEF Login
    <3> QED  BY <3>1, <3>2
  <2> QED  BY <1>2, <2>3 DEF Next, BuyerNext
<1> QED  BY <1>2, <1>4, <1>5

LEMMA PointsStepIsNext == OneBonus /\ PointsInv /\ [PointsNext]_pointsVars => [Next]_vars
<1> SUFFICES ASSUME OneBonus, PointsInv, [PointsNext]_pointsVars  PROVE Next \/ UNCHANGED vars
  OBVIOUS
<1>1. CASE UNCHANGED pointsVars
  BY <1>1 DEF pointsVars
<1>2. ASSUME NEW p \in Procs, Begin(p) \/ Step(p) \/ Disconnect(p) \/ Retry(p)
      PROVE  Next \/ UNCHANGED vars
  <2>1. CASE Begin(p) \/ Disconnect(p) \/ Retry(p)
    BY <2>1 DEF Begin, Disconnect, Retry, Reply
  <2>2. CASE Upsert(p) \/ AwardBonus(p) \/ FindKey(p) \/ LockBuyer(p) \/ Post(p) \/ FindWinner(p)
    BY <2>2 DEF Upsert, AwardBonus, FindKey, LockBuyer, Post, FindWinner, Reply
  <2>3. CASE CommitLogin(p) \/ CommitAdjust(p) \/ RecordRefusal(p)
    BY <2>3, LoginIsNext, AdjustIsNext, RefusalIsNext
  <2> QED  BY <1>2, <2>1, <2>2, <2>3 DEF Step
<1> QED  BY <1>1, <1>2 DEF PointsNext

\* While the bonus is one, the unlocked read and the absolute write of a login
\* lose nothing: every commit is an atomic login or adjustment.
THEOREM SteadyBonusIsAtomic == OneBonus => (PointsSpec => PointsImplementMall)
<1> SUFFICES ASSUME OneBonus  PROVE PointsSpec => PointsImplementMall
  OBVIOUS
<1>1. PointsInv /\ [PointsNext]_pointsVars => [Next]_vars
  BY PointsStepIsNext
<1> QED  BY <1>1, PointsInvariant, PTL DEF PointsSpec, PointsImplementMall

\* Hence Mall's invariants hold of the account.
THEOREM SteadyBonusRefines == OneBonus => (PointsSpec => Spec)
<1> SUFFICES ASSUME OneBonus  PROVE PointsSpec => Spec
  OBVIOUS
<1>1. PointsInv /\ [PointsNext]_pointsVars => [Next]_vars
  BY PointsStepIsNext
<1>2. PointsInit => Init
  BY DEF PointsInit
<1> QED  BY <1>1, <1>2, PointsInvariant, PTL DEF PointsSpec, Spec

\* Logins and adjustments that overlap neither lose nor invent points.
THEOREM SteadyBonusConserves ==
  OneBonus => (PointsSpec => [](LedgerReconciles /\ PointsConserved))
<1> SUFFICES ASSUME OneBonus  PROVE PointsSpec => [](LedgerReconciles /\ PointsConserved)
  OBVIOUS
<1> QED  BY SteadyBonusRefines, Reconciles, PointsCorrect, PTL
-----------------------------------------------------------------------------
(* Who waits for whom *)

\* The rows and index entries whose lock p asks for next.
Awaits(p) ==
  LET u == call[p].user
  IN  CASE pc[p] = "upsert" -> {<<"openid", u>>}
        [] pc[p] = "award?" -> {<<"event", <<"signup", u>>>>, <<"user", u>>}
        [] pc[p] = "user"   -> {<<"user", u>>}
        [] pc[p] = "post"   -> {<<"event", AdjustKey(call[p])>>}
        [] OTHER            -> {}

\* How far a transaction has come.
Stage(where) ==
  CASE where \in {"award?", "user"} -> 1
    [] where = "post"               -> 2
    [] where = "commit"             -> 3
    [] OTHER                        -> 0

\* Each kind of lock is held in the last stages only.
HeldOK(where, rows) ==
  \A row \in rows :
    /\ row[1] \in {"openid", "user", "event"}
    /\ row[1] = "openid" => where \in {"award?", "commit"}
    /\ row[1] = "user"   => where \in {"post", "commit"}
    /\ row[1] = "event"  => where = "commit"

HeldInv == \A p \in Procs : HeldOK(pc[p], held[p])

LEMMA HeldStep == PointsInv /\ HeldInv /\ [PointsNext]_pointsVars => HeldInv'
<1> SUFFICES ASSUME PointsInv, HeldInv, [PointsNext]_pointsVars  PROVE HeldInv'
  OBVIOUS
<1>1. CASE UNCHANGED pointsVars
  BY <1>1 DEF HeldInv, pointsVars, txVars
<1>2. ASSUME NEW p \in Procs, NEW w, NEW h,
             pc' = [pc EXCEPT ![p] = w], held' = [held EXCEPT ![p] = h], HeldOK(w, h)
      PROVE  HeldInv'
  <2>1. pc = [q \in Procs |-> pc[q]] /\ held = [q \in Procs |-> held[q]]
    BY DEF PointsInv, ShapeInv
  <2>2. \A q \in Procs : IF q = p THEN pc'[q] = w /\ held'[q] = h
                                  ELSE pc'[q] = pc[q] /\ held'[q] = held[q]
    BY <1>2, <2>1
  <2> QED  BY <1>2, <2>2 DEF HeldInv
<1>3. \A w : HeldOK(w, {})
  BY DEF HeldOK
<1>4. ASSUME NEW p \in Procs, Begin(p) \/ Step(p) \/ Disconnect(p) \/ Retry(p)
      PROVE  HeldInv'
  <2>0. /\ held = [q \in Procs |-> held[q]] /\ HeldOK(pc[p], held[p])
        /\ pc[p] \notin {"award?", "post", "commit"} => held[p] = {}
    BY DEF PointsInv, ShapeInv, ProcOK, LocksOK, HeldInv
  <2>1. ASSUME NEW a, Finish(p, a)  PROVE HeldInv'
    BY <2>1, <1>2, <1>3 DEF Finish
  <2>2. ASSUME NEW w, Rollback(p, w)  PROVE HeldInv'
    BY <2>2, <1>2, <1>3 DEF Rollback, Goto
  <2>3. ASSUME NEW w, Goto(p, w), held' = held, held[p] = {} \/ w = "commit"  PROVE HeldInv'
    <3>1. held' = [held EXCEPT ![p] = held[p]]  BY <2>0, <2>3
    <3>2. HeldOK(w, held[p])  BY <2>0, <2>3 DEF HeldOK
    <3> QED  BY <2>3, <3>1, <3>2, <1>2 DEF Goto
  <2>4. ASSUME NEW w, NEW row, Goto(p, w), held' = [held EXCEPT ![p] = held[p] \cup {row}],
               \/ held[p] = {} /\ HeldOK(w, {row})
               \/ w = "commit" /\ row[1] = "event"
        PROVE  HeldInv'
    <3>1. HeldOK(w, held[p] \cup {row})  BY <2>0, <2>4 DEF HeldOK
    <3> QED  BY <2>4, <3>1, <1>2 DEF Goto
  <2>5. CASE Begin(p)
    BY <2>0, <2>3, <2>5 DEF Begin, Serve
  <2>6. CASE Disconnect(p)
    BY <2>1, <2>6 DEF Disconnect, Reply
  <2>7. CASE Retry(p)
    BY <2>0, <2>3, <2>7 DEF Retry, SendAgain
  <2>8. CASE Upsert(p)
    <3>1. PICK u : u = call[p].user  OBVIOUS
    <3>2. HeldOK("award?", {<<"openid", u>>})  BY DEF HeldOK
    <3>3. Goto(p, "award?") /\ (held' = held \/ Lock(p, <<"openid", u>>))
      BY <2>8, <3>1 DEF Upsert
    <3>4. held[p] = {}  BY <2>0, <2>8 DEF Upsert
    <3> QED  BY <3>2, <3>3, <3>4, <2>3, <2>4 DEF Lock
  <2>9. CASE AwardBonus(p)
    <3>1. PICK u, key : u = call[p].user /\ key = <<"event", <<"signup", u>>>>  OBVIOUS
    <3>2. Goto(p, "commit")  BY <2>9 DEF AwardBonus
    <3>3. held' = held \/ held' = [held EXCEPT ![p] = held[p] \cup {key, <<"user", u>>}]
      BY <2>9, <3>1 DEF AwardBonus
    <3>4. HeldOK("commit", held[p] \cup {key, <<"user", u>>})  BY <2>0, <3>1 DEF HeldOK
    <3> QED  BY <3>2, <3>3, <3>4, <2>3, <1>2 DEF Goto
  <2>10. CASE CommitLogin(p) \/ CommitAdjust(p) \/ RecordRefusal(p)
    BY <2>1, <2>10 DEF CommitLogin, CommitAdjust, RecordRefusal
  <2>11. CASE FindKey(p)
    <3>1. held[p] = {}  BY <2>0, <2>11 DEF FindKey
    <3>2. \/ Goto(p, "user") /\ held' = held
          \/ Finish(p, "ok") \/ Rollback(p, "conflict")
      BY <2>11 DEF FindKey, Reply
    <3> QED  BY <3>1, <3>2, <2>1, <2>2, <2>3
  <2>12. CASE LockBuyer(p)
    <3>1. PICK u : u = call[p].user  OBVIOUS
    <3>2. HeldOK("post", {<<"user", u>>})  BY DEF HeldOK
    <3>3. held[p] = {}  BY <2>0, <2>12 DEF LockBuyer
    <3>4. (Goto(p, "post") /\ Lock(p, <<"user", u>>)) \/ Rollback(p, "refused")
      BY <2>12, <3>1 DEF LockBuyer
    <3> QED  BY <3>2, <3>3, <3>4, <2>2, <2>4 DEF Lock
  <2>13. CASE Post(p)
    <3>1. PICK key : key = AdjustKey(call[p])  OBVIOUS
    <3>2. \/ Rollback(p, "refused") \/ Finish(p, "error") \/ Rollback(p, "unique violation")
          \/ Goto(p, "commit") /\ Lock(p, <<"event", key>>)
      BY <2>13, <3>1 DEF Post
    <3>3. <<"event", key>>[1] = "event"  OBVIOUS
    <3> QED  BY <3>2, <3>3, <2>1, <2>2, <2>4 DEF Lock
  <2>14. CASE FindWinner(p)
    BY <2>14, <2>1, <2>2 DEF FindWinner, Reply
  <2> QED
    BY <1>4, <2>5, <2>6, <2>7, <2>8, <2>9, <2>10, <2>11, <2>12, <2>13, <2>14 DEF Step
<1> QED  BY <1>1, <1>4 DEF PointsNext

\* Waits on unique keys and waits on rows do not mix into a cycle, although
\* logins and adjustments ask for them in different orders and the code of
\* awardSignupBonus locks nothing itself: whoever waits is at an earlier stage
\* of its transaction than the one it waits for, and a transaction that is
\* about to commit waits for nobody.
THEOREM WaitsGoForward ==
  PointsSpec => [](\A p, q \in Procs :
                     p # q /\ Awaits(p) \cap held[q] # {} => Stage(pc[p]) < Stage(pc[q]))
<1>1. PointsInit => HeldInv
  BY DEF PointsInit, TxInit, HeldInv, HeldOK
<1>2. HeldInv => \A p, q \in Procs :
                   p # q /\ Awaits(p) \cap held[q] # {} => Stage(pc[p]) < Stage(pc[q])
  <2> SUFFICES ASSUME HeldInv, NEW p \in Procs, NEW q \in Procs,
                      NEW row \in Awaits(p) \cap held[q]
               PROVE  Stage(pc[p]) < Stage(pc[q])
    OBVIOUS
  <2>1. HeldOK(pc[q], held[q])  BY DEF HeldInv
  <2>2. /\ row[1] = "openid" => pc[q] \in {"award?", "commit"}
        /\ row[1] = "user"   => pc[q] \in {"post", "commit"}
        /\ row[1] = "event"  => pc[q] = "commit"
    BY <2>1 DEF HeldOK
  <2>3. \/ pc[p] = "upsert" /\ row[1] = "openid"
        \/ pc[p] = "award?" /\ row[1] \in {"event", "user"}
        \/ pc[p] = "user" /\ row[1] = "user"
        \/ pc[p] = "post" /\ row[1] = "event"
    BY DEF Awaits
  <2> QED  BY <2>2, <2>3 DEF Stage
<1> QED  BY <1>1, <1>2, HeldStep, PointsInvariant, PTL DEF PointsSpec
=============================================================================
