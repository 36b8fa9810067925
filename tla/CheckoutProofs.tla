--------------------------- MODULE CheckoutProofs ---------------------------
(* Theorems about Checkout, for every value of its constants. *)
EXTENDS Checkout, MallProofs, WellFoundedInduction

-----------------------------------------------------------------------------
(* The invariant *)

Calls == CreateCalls \cup ApproveCalls

\* What a running transaction has noted.
Noted(s) ==
  s = [order |-> s.order, row |-> s.row, version |-> s.version, items |-> s.items, shelf |-> s.shelf]

\* The rows that order creation locks first, and the rows of a multi-row lock.
Front(c) == {<<"user", c.user>>, <<"address", c.address>>}

CartLocks(X) == {<<"cart", x>> : x \in X}

ShelfLocks(Q) == {<<"product", q>> : q \in Q}

\* A process at statement w of call c runs its own program on notes ...
ProgramOK(w, c, s) ==
  /\ w \in {"idle", "replay?", "replay", "user", "address", "cart", "shelf",
            "commit", "unique violation", "order", "refused", "done"}
  /\ c \in Calls \cup {NoCall}
  /\ w # "idle" => c \in Calls
  /\ w \in {"replay?", "replay", "address", "cart", "unique violation"} => c.kind = "create"
  /\ w \in {"order", "refused"} => c.kind = "approve"
  /\ w \notin {"idle", "done", "unique violation"} => Noted(s)
  /\ c.kind = "create" => c.rows \subseteq DOMAIN cart \cup retired

\* ... has locked what its statements lock ...
LocksOK(w, c, s, h) ==
  /\ w \in {"idle", "done", "replay?", "order", "refused", "unique violation"} => h = {}
  /\ w = "replay" =>
       (\E o \in OrderIds : h = {<<"order", o>>}) \/ <<"address", c.address>> \in h
  /\ w = "user" => h = IF c.kind = "create" THEN {} ELSE {<<"order", c.order>>}
  /\ w = "address" => h = {<<"user", c.user>>}
  /\ w = "cart" => h = Front(c) \cup CartLocks(DOMAIN s.items)
  /\ w \in {"shelf", "commit"} =>
       h = ShelfLocks(DOMAIN s.shelf)
             \cup IF c.kind = "create" THEN Front(c) \cup CartLocks(c.rows)
                  ELSE {<<"order", c.order>>, <<"user", s.row.user>>}

Goods(c, s) ==
  IF c.kind = "create" THEN {s.items[x].product : x \in DOMAIN s.items}
  ELSE {l.product : l \in s.row.lines}

Sought(c, s) ==
  {x \in c.rows : x \notin DOMAIN s.items /\ x \in DOMAIN cart /\ cart[x].user = c.user}

\* ... and noted what is still so, in ascending order ...
ReadsOK(w, c, s) ==
  /\ w = "replay" => s.order \in SameToken(c)
  /\ w \in {"replay?", "order", "user", "address"} => s.items = << >> /\ s.shelf = << >>
  /\ w = "refused" => c.order \in DOMAIN orders
  /\ w = "cart" => s.shelf = << >> /\ DOMAIN s.items \subseteq c.rows
                   /\ \A x \in DOMAIN s.items, y \in Sought(c, s) : x < y
  /\ w \in {"cart", "shelf", "commit"} /\ c.kind = "create" =>
       /\ OwnAddress(c) /\ s.version = addr[c.address].version
       /\ \A x \in DOMAIN s.items : x \in DOMAIN cart /\ s.items[x] = cart[x] /\ cart[x].user = c.user
  /\ w \in {"shelf", "commit"} =>
       /\ c.kind = "create" => DOMAIN s.items = c.rows
       /\ DOMAIN s.shelf \subseteq Goods(c, s) /\ DOMAIN s.shelf \subseteq Products
       /\ \A q \in DOMAIN s.shelf : s.shelf[q] = products[q]
       /\ \A q \in DOMAIN s.shelf, r \in Goods(c, s) \ DOMAIN s.shelf : q < r
  /\ w = "commit" => Goods(c, s) \subseteq DOMAIN s.shelf
  /\ w \in {"user", "shelf", "commit"} /\ c.kind = "approve" =>
       /\ c.order \in DOMAIN orders /\ orders[c.order] = s.row
       /\ s.row.status = "refund_requested"

\* ... and has told its client the truth.
AnswerOK(w, c, a) ==
  /\ a \in OrderIds \cup Refusals \cup {"none"}
  /\ w = "done" /\ c.kind = "create" /\ a \in OrderIds =>
       a \in SameToken(c) /\ orders[a].hash.rows = c.rows

ProcOK(w, c, s, h, a) ==
  ProgramOK(w, c, s) /\ LocksOK(w, c, s, h) /\ ReadsOK(w, c, s) /\ AnswerOK(w, c, a)

ShapeInv ==
  /\ pc = [p \in Procs |-> pc[p]] /\ call = [p \in Procs |-> call[p]]
  /\ seen = [p \in Procs |-> seen[p]] /\ held = [p \in Procs |-> held[p]]
  /\ answer = [p \in Procs |-> answer[p]]

\* The tables keep their types, every process is as above, locks are exclusive.
CheckoutInv ==
  /\ TypeOK /\ ShapeInv
  /\ \A p \in Procs : ProcOK(pc[p], call[p], seen[p], held[p], answer[p])
  /\ \A p, q \in Procs : p # q => held[p] \cap held[q] = {}

-----------------------------------------------------------------------------
(* What the steps of others leave alone *)

Growth ==
  /\ \A o \in DOMAIN orders :
       /\ o \in DOMAIN orders' /\ orders'[o].user = orders[o].user
       /\ orders'[o].token = orders[o].token /\ orders'[o].hash = orders[o].hash
  /\ DOMAIN cart \cup retired \subseteq DOMAIN cart' \cup retired'
  /\ \A x \in DOMAIN cart' \cap (DOMAIN cart \cup retired) :
       x \in DOMAIN cart /\ cart'[x].user = cart[x].user

\* The rows in h stay as they are.
Keeps(h) ==
  /\ \A x \in DOMAIN cart : <<"cart", x>> \in h => x \in DOMAIN cart' /\ cart'[x] = cart[x]
  /\ \A x \in DOMAIN addr : <<"address", x>> \in h => x \in DOMAIN addr' /\ addr'[x] = addr[x]
  /\ \A q \in Products : <<"product", q>> \in h => products'[q] = products[q]
  /\ \A o \in DOMAIN orders : <<"order", o>> \in h => orders'[o] = orders[o]

LEMMA ProcKept ==
  ASSUME NEW w, NEW c, NEW s, NEW h, NEW a, ProcOK(w, c, s, h, a), Growth, Keeps(h)
  PROVE  ProcOK(w, c, s, h, a)'
<1>1. /\ ProgramOK(w, c, s) /\ LocksOK(w, c, s, h) /\ ReadsOK(w, c, s) /\ AnswerOK(w, c, a)
  BY DEF ProcOK
<1>2. ProgramOK(w, c, s)'
  BY <1>1 DEF ProgramOK, Growth
<1>3. LocksOK(w, c, s, h)'
  BY <1>1 DEF LocksOK
<1>4. SameToken(c) \subseteq SameToken(c)'
  BY DEF SameToken, Growth
<1>5. AnswerOK(w, c, a)'
  BY <1>1, <1>4 DEF AnswerOK, Growth, SameToken
<1>6. ReadsOK(w, c, s)'
  <2>1. w = "cart" => \A x \in DOMAIN s.items, y \in Sought(c, s)' : x < y
    <3> SUFFICES ASSUME w = "cart"  PROVE Sought(c, s)' \subseteq Sought(c, s)
      BY <1>1 DEF ReadsOK
    <3> QED  BY <1>1 DEF Sought, ProgramOK, Growth
  <2>2. ASSUME w \in {"cart", "shelf", "commit"}, c.kind = "create"
        PROVE  /\ OwnAddress(c)' /\ s.version = addr'[c.address].version
               /\ \A x \in DOMAIN s.items : x \in DOMAIN cart' /\ s.items[x] = cart'[x] /\ cart'[x].user = c.user
    <3>1. <<"address", c.address>> \in h /\ \A x \in DOMAIN s.items : <<"cart", x>> \in h
      BY <1>1, <2>2 DEF LocksOK, ReadsOK, Front, CartLocks
    <3> QED  BY <1>1, <2>2, <3>1 DEF ReadsOK, OwnAddress, Keeps
  <2>3. w \in {"shelf", "commit"} => \A q \in DOMAIN s.shelf : s.shelf[q] = products'[q]
    BY <1>1 DEF LocksOK, ReadsOK, ShelfLocks, Keeps
  <2>4. w \in {"user", "shelf", "commit"} /\ c.kind = "approve" =>
          c.order \in DOMAIN orders' /\ orders'[c.order] = s.row
    <3> SUFFICES ASSUME w \in {"user", "shelf", "commit"}, c.kind = "approve"
                 PROVE  c.order \in DOMAIN orders' /\ orders'[c.order] = s.row
      OBVIOUS
    <3>1. <<"order", c.order>> \in h  BY <1>1 DEF LocksOK
    <3> QED  BY <1>1, <3>1 DEF ReadsOK, Keeps, Growth
  <2>5. w = "refused" => c.order \in DOMAIN orders'
    BY <1>1 DEF ReadsOK, Growth
  <2>6. w = "replay" => s.order \in SameToken(c)'
    BY <1>1, <1>4 DEF ReadsOK
  <2> QED  BY <1>1, <2>1, <2>2, <2>3, <2>4, <2>5, <2>6 DEF ReadsOK, Goods
<1> QED  BY <1>2, <1>3, <1>5, <1>6 DEF ProcOK

LEMMA SameGrowth == UNCHANGED vars => Growth /\ \A h : Keeps(h)
BY DEF vars, Growth, Keeps

LEMMA Facts ==
  ASSUME CheckoutInv, NEW p \in Procs
  PROVE  /\ ProgramOK(pc[p], call[p], seen[p]) /\ LocksOK(pc[p], call[p], seen[p], held[p])
         /\ ReadsOK(pc[p], call[p], seen[p]) /\ AnswerOK(pc[p], call[p], answer[p])
         /\ \A q \in Procs \ {p} : held[p] \cap held[q] = {}
BY DEF CheckoutInv, ProcOK

\* Process p takes a step, the rows that the others have locked stay.
LEMMA LocalStep ==
  ASSUME CheckoutInv, NEW p \in Procs, ShapeInv', [Next]_vars, Growth,
         \A q \in Procs \ {p} : Keeps(held[q]),
         \A q \in Procs \ {p} :
           /\ pc'[q] = pc[q] /\ call'[q] = call[q] /\ seen'[q] = seen[q]
           /\ held'[q] = held[q] /\ answer'[q] = answer[q],
         ProcOK(pc[p], call[p], seen[p], held[p], answer[p])',
         \A q \in Procs \ {p} : held'[p] \cap held[q] = {}
  PROVE  CheckoutInv'
<1>1. TypeOK'  BY TypeStep DEF CheckoutInv
<1>2. ASSUME NEW q \in Procs  PROVE ProcOK(pc[q], call[q], seen[q], held[q], answer[q])'
  <2>1. CASE q # p
    <3>1. PICK w, c, s, h, a : w = pc[q] /\ c = call[q] /\ s = seen[q] /\ h = held[q] /\ a = answer[q]
      OBVIOUS
    <3>2. ProcOK(w, c, s, h, a) /\ Keeps(h)  BY <2>1, <3>1 DEF CheckoutInv
    <3>3. ProcOK(w, c, s, h, a)'  BY <3>2, ProcKept
    <3> QED  BY <2>1, <3>1, <3>3
  <2> QED  BY <2>1
<1>3. \A q, r \in Procs : q # r => held'[q] \cap held'[r] = {}
  BY DEF CheckoutInv
<1> QED  BY <1>1, <1>2, <1>3 DEF CheckoutInv

\* Process p goes on to statement w, and the tables stay.
LEMMA Moved ==
  ASSUME CheckoutInv, NEW p \in Procs, NEW w, NEW c, NEW s, NEW h, NEW a,
         Goto(p, w),
         call' = [call EXCEPT ![p] = c] \/ (UNCHANGED call /\ c = call[p]),
         seen' = [seen EXCEPT ![p] = s] \/ (UNCHANGED seen /\ s = seen[p]),
         held' = [held EXCEPT ![p] = h] \/ (UNCHANGED held /\ h = held[p]),
         answer' = [answer EXCEPT ![p] = a] \/ (UNCHANGED answer /\ a = answer[p]),
         UNCHANGED vars, ProcOK(w, c, s, h, a),
         \A q \in Procs \ {p} : h \cap held[q] = {}
  PROVE  CheckoutInv'
<1>1. /\ pc'[p] = w /\ call'[p] = c /\ seen'[p] = s /\ held'[p] = h /\ answer'[p] = a
      /\ \A q \in Procs \ {p} :
           /\ pc'[q] = pc[q] /\ call'[q] = call[q] /\ seen'[q] = seen[q]
           /\ held'[q] = held[q] /\ answer'[q] = answer[q]
  BY DEF Goto, CheckoutInv, ShapeInv
<1>2. ShapeInv'
  <2>1. pc' = [q \in Procs |-> pc'[q]]  BY DEF Goto, CheckoutInv, ShapeInv
  <2>2. call' = [q \in Procs |-> call'[q]]  BY DEF CheckoutInv, ShapeInv
  <2>3. seen' = [q \in Procs |-> seen'[q]]  BY DEF CheckoutInv, ShapeInv
  <2>4. held' = [q \in Procs |-> held'[q]]  BY DEF CheckoutInv, ShapeInv
  <2>5. answer' = [q \in Procs |-> answer'[q]]  BY DEF CheckoutInv, ShapeInv
  <2> QED  BY <2>1, <2>2, <2>3, <2>4, <2>5 DEF ShapeInv
<1>3. ProcOK(w, c, s, h, a)'
  BY SameGrowth, ProcKept
<1>4. ProcOK(pc[p], call[p], seen[p], held[p], answer[p])'
  BY <1>1, <1>3
<1> QED  BY <1>1, <1>2, <1>4, SameGrowth, LocalStep

\* Process p ends its transaction with answer a, and without its locks.
LEMMA Finished ==
  ASSUME CheckoutInv, NEW p \in Procs, NEW a, Finish(p, a), pc[p] # "idle",
         [Next]_vars, Growth, \A q \in Procs \ {p} : Keeps(held[q]),
         NEW c, c = call[p], AnswerOK("done", c, a)'
  PROVE  CheckoutInv'
<1>1. /\ pc'[p] = "done" /\ call'[p] = c /\ seen'[p] = NoCall /\ held'[p] = {} /\ answer'[p] = a
      /\ \A q \in Procs \ {p} :
           /\ pc'[q] = pc[q] /\ call'[q] = call[q] /\ seen'[q] = seen[q]
           /\ held'[q] = held[q] /\ answer'[q] = answer[q]
  BY DEF Finish, CheckoutInv, ShapeInv
<1>2. ShapeInv'
  BY DEF Finish, CheckoutInv, ShapeInv
<1>3. ProgramOK("done", c, NoCall)'
  BY Facts DEF ProgramOK, Growth
<1>4. LocksOK("done", c, NoCall, {})' /\ ReadsOK("done", c, NoCall)'
  BY DEF LocksOK, ReadsOK
<1>5. ProcOK("done", c, NoCall, {}, a)'
  BY <1>3, <1>4 DEF ProcOK
<1>6. ProcOK(pc[p], call[p], seen[p], held[p], answer[p])'
  BY <1>1, <1>5
<1> QED  BY <1>1, <1>2, <1>6, LocalStep

\* Any answer but a wrong order number is true.
LEMMA Replied ==
  ASSUME CheckoutInv, NEW p \in Procs, NEW a, Reply(p, a), pc[p] # "idle",
         \/ a \in Refusals
         \/ a \in OrderIds /\ a \in SameToken(call[p]) /\ orders[a].hash.rows = call[p].rows
         \/ a \in OrderIds /\ call[p].kind # "create"
  PROVE  CheckoutInv'
<1>1. Finish(p, a) /\ UNCHANGED vars  BY DEF Reply
<1>2. PICK c : c = call[p]  OBVIOUS
<1>3. AnswerOK("done", c, a)
  BY <1>2, CheckoutAssumption DEF AnswerOK
<1>4. AnswerOK("done", c, a)'
  BY <1>1, <1>3 DEF AnswerOK, SameToken, vars
<1> QED  BY <1>1, <1>2, <1>4, SameGrowth, Finished

-----------------------------------------------------------------------------
(* The statements that leave the tables alone *)

LEMMA LeastFacts ==
  ASSUME NEW S \in SUBSET Nat, S # {}
  PROVE  Least(S) \in S /\ \A y \in S : Least(S) <= y
<1>1. PICK x \in S : \A y \in S : ~(<<y, x>> \in OpToRel(<, Nat))
  BY NatLessThanWellFounded, WFMin
<1>2. ASSUME NEW y \in S  PROVE x <= y
  <2>1. x \in Nat /\ y \in Nat  OBVIOUS
  <2>2. y < x => <<y, x>> \in OpToRel(<, Nat)
    BY <2>1, Zenon DEF OpToRel
  <2>3. ~(y < x)  BY <1>1, <2>2
  <2> QED  BY <2>1, <2>3
<1> QED  BY <1>2 DEF Least

LEMMA CallFacts ==
  ASSUME NEW c \in Calls
  PROVE  \/ /\ c.kind = "create" /\ c \in CreateCalls /\ c.user \in Users /\ c.token \in Tokens
            /\ c.rows \in SUBSET CartRows /\ c.rows # {} /\ c.address \in Addresses
         \/ c.kind = "approve" /\ c \in ApproveCalls /\ c.admin \in Admins /\ c.order \in OrderIds
<1>1. CASE c \in CreateCalls
  <2>1. c \in [kind : {"create"}, user : Users, token : Tokens, rows : (SUBSET CartRows) \ {{}}, address : Addresses]
    BY <1>1, CheckoutAssumption
  <2> QED  BY <1>1, <2>1
<1>2. CASE c \in ApproveCalls
  <2>1. c \in [kind : {"approve"}, admin : Admins, order : OrderIds]
    BY <1>2, CheckoutAssumption
  <2> QED  BY <1>2, <2>1
<1> QED  BY <1>1, <1>2 DEF Calls

LEMMA NothingNoted == Noted(Nothing) /\ Nothing.items = << >> /\ Nothing.shelf = << >>
BY DEF Noted, Nothing

\* What a note makes of the notes s.
LEMMA NotedOrder ==
  ASSUME NEW s, Noted(s), NEW v
  PROVE  [s EXCEPT !["order"] = v]
           = [order |-> v, row |-> s.row, version |-> s.version, items |-> s.items, shelf |-> s.shelf]
<1> DEFINE f == [order |-> s.order, row |-> s.row, version |-> s.version, items |-> s.items, shelf |-> s.shelf]
<1>1. s = f  BY DEF Noted
<1>2. [f EXCEPT !["order"] = v] = [order |-> v, row |-> s.row, version |-> s.version, items |-> s.items, shelf |-> s.shelf]
  OBVIOUS
<1> HIDE DEF f
<1> QED  BY <1>1, <1>2

LEMMA NotedRow ==
  ASSUME NEW s, Noted(s), NEW v
  PROVE  [s EXCEPT !["row"] = v]
           = [order |-> s.order, row |-> v, version |-> s.version, items |-> s.items, shelf |-> s.shelf]
<1> DEFINE f == [order |-> s.order, row |-> s.row, version |-> s.version, items |-> s.items, shelf |-> s.shelf]
<1>1. s = f  BY DEF Noted
<1>2. [f EXCEPT !["row"] = v] = [order |-> s.order, row |-> v, version |-> s.version, items |-> s.items, shelf |-> s.shelf]
  OBVIOUS
<1> HIDE DEF f
<1> QED  BY <1>1, <1>2

LEMMA NotedVersion ==
  ASSUME NEW s, Noted(s), NEW v
  PROVE  [s EXCEPT !["version"] = v]
           = [order |-> s.order, row |-> s.row, version |-> v, items |-> s.items, shelf |-> s.shelf]
<1> DEFINE f == [order |-> s.order, row |-> s.row, version |-> s.version, items |-> s.items, shelf |-> s.shelf]
<1>1. s = f  BY DEF Noted
<1>2. [f EXCEPT !["version"] = v] = [order |-> s.order, row |-> s.row, version |-> v, items |-> s.items, shelf |-> s.shelf]
  OBVIOUS
<1> HIDE DEF f
<1> QED  BY <1>1, <1>2

LEMMA NotedItems ==
  ASSUME NEW s, Noted(s), NEW v
  PROVE  [s EXCEPT !["items"] = v]
           = [order |-> s.order, row |-> s.row, version |-> s.version, items |-> v, shelf |-> s.shelf]
<1> DEFINE f == [order |-> s.order, row |-> s.row, version |-> s.version, items |-> s.items, shelf |-> s.shelf]
<1>1. s = f  BY DEF Noted
<1>2. [f EXCEPT !["items"] = v] = [order |-> s.order, row |-> s.row, version |-> s.version, items |-> v, shelf |-> s.shelf]
  OBVIOUS
<1> HIDE DEF f
<1> QED  BY <1>1, <1>2

LEMMA NotedShelf ==
  ASSUME NEW s, Noted(s), NEW v
  PROVE  [s EXCEPT !["shelf"] = v]
           = [order |-> s.order, row |-> s.row, version |-> s.version, items |-> s.items, shelf |-> v]
<1> DEFINE f == [order |-> s.order, row |-> s.row, version |-> s.version, items |-> s.items, shelf |-> s.shelf]
<1>1. s = f  BY DEF Noted
<1>2. [f EXCEPT !["shelf"] = v] = [order |-> s.order, row |-> s.row, version |-> s.version, items |-> s.items, shelf |-> v]
  OBVIOUS
<1> HIDE DEF f
<1> QED  BY <1>1, <1>2

LEMMA FirstOK ==
  ASSUME NEW c \in Calls, c.kind = "create" => c.rows \subseteq DOMAIN cart \cup retired,
         NEW a \in OrderIds \cup Refusals \cup {"none"}
  PROVE  ProcOK(FirstStatement(c), c, Nothing, {}, a)
<1>1. CASE c.kind = "create"
  <2>1. FirstStatement(c) = "replay?"  BY <1>1 DEF FirstStatement
  <2> QED  BY <1>1, <2>1, NothingNoted DEF ProcOK, ProgramOK, LocksOK, ReadsOK, AnswerOK
<1>2. CASE c.kind = "approve"
  <2>1. FirstStatement(c) = "order"  BY <1>2 DEF FirstStatement
  <2> QED  BY <1>2, <2>1, NothingNoted DEF ProcOK, ProgramOK, LocksOK, ReadsOK, AnswerOK
<1> QED  BY <1>1, <1>2, CallFacts

LEMMA BeginOK == ASSUME CheckoutInv, NEW p \in Procs, Begin(p)  PROVE CheckoutInv'
<1>1. PICK c \in Calls :
        /\ c.kind = "create" => c.rows \subseteq DOMAIN cart \cup retired
        /\ Serve(p, c, FirstStatement(c), Nothing)
  BY DEF Begin, Calls
<1>2. UNCHANGED vars /\ UNCHANGED <<held, answer>> /\ pc[p] = "idle"
  BY <1>1 DEF Begin, Serve
<1>3. held[p] = {}  BY <1>2, Facts DEF LocksOK
<1>4. answer[p] \in OrderIds \cup Refusals \cup {"none"}  BY Facts DEF AnswerOK
<1>5. ProcOK(FirstStatement(c), c, Nothing, {}, answer[p])  BY <1>1, <1>4, FirstOK
<1> QED  BY <1>1, <1>2, <1>3, <1>5, Moved DEF Serve

LEMMA RetryOK == ASSUME CheckoutInv, NEW p \in Procs, Retry(p)  PROVE CheckoutInv'
<1>1. SendAgain(p, FirstStatement(call[p]), Nothing) /\ UNCHANGED vars
  BY DEF Retry
<1>2. pc[p] = "done" /\ UNCHANGED <<call, held>>
  BY <1>1 DEF SendAgain
<1>3. held[p] = {} /\ call[p] \in Calls
      /\ (call[p].kind = "create" => call[p].rows \subseteq DOMAIN cart \cup retired)
  BY <1>2, Facts DEF LocksOK, ProgramOK
<1>4. ProcOK(FirstStatement(call[p]), call[p], Nothing, {}, "none")  BY <1>3, FirstOK
<1> QED  BY <1>1, <1>2, <1>3, <1>4, Moved DEF SendAgain

LEMMA DisconnectOK == ASSUME CheckoutInv, NEW p \in Procs, Disconnect(p)  PROVE CheckoutInv'
BY Replied DEF Disconnect, Refusals

LEMMA LockForReplayOK == ASSUME CheckoutInv, NEW p \in Procs, LockForReplay(p)  PROVE CheckoutInv'
<1>1. pc[p] = "replay?" /\ UNCHANGED <<vars, call, answer>>
  BY DEF LockForReplay
<1>2. /\ call[p] \in Calls /\ call[p].kind = "create" /\ held[p] = {}
      /\ call[p].rows \subseteq DOMAIN cart \cup retired
      /\ Noted(seen[p]) /\ seen[p].items = << >> /\ seen[p].shelf = << >>
      /\ answer[p] \in OrderIds \cup Refusals \cup {"none"}
  BY <1>1, Facts DEF ProgramOK, LocksOK, ReadsOK, AnswerOK
<1>3. CASE Goto(p, "user") /\ UNCHANGED <<seen, held>>
  <2>1. ProcOK("user", call[p], seen[p], {}, answer[p])
    BY <1>2 DEF ProcOK, ProgramOK, LocksOK, ReadsOK, AnswerOK
  <2> QED  BY <1>1, <1>2, <1>3, <2>1, Moved
<1>4. ASSUME NEW o \in SameToken(call[p]), Lock(p, <<"order", o>>), Note(p, "order", o), Goto(p, "replay")
      PROVE  CheckoutInv'
  <2> DEFINE s == [order |-> o, row |-> seen[p].row, version |-> seen[p].version,
                   items |-> seen[p].items, shelf |-> seen[p].shelf]
  <2>1. seen' = [seen EXCEPT ![p] = s]
    BY <1>2, <1>4, NotedOrder DEF Note, CheckoutInv, ShapeInv
  <2>2. held' = [held EXCEPT ![p] = {<<"order", o>>}]
    BY <1>2, <1>4 DEF Lock
  <2>3. o \in OrderIds  BY DEF SameToken, CheckoutInv, TypeOK
  <2>4. ProcOK("replay", call[p], s, {<<"order", o>>}, answer[p])
    BY <1>2, <2>3 DEF ProcOK, ProgramOK, LocksOK, ReadsOK, AnswerOK, Noted
  <2>5. \A q \in Procs \ {p} : {<<"order", o>>} \cap held[q] = {}
    BY <1>4 DEF Lock, Free
  <2> HIDE DEF s
  <2> QED  BY <1>1, <1>4, <2>1, <2>2, <2>4, <2>5, Moved
<1> QED  BY <1>3, <1>4 DEF LockForReplay

LEMMA ResolveReplayOK == ASSUME CheckoutInv, NEW p \in Procs, ResolveReplay(p)  PROVE CheckoutInv'
<1>1. pc[p] = "replay"  BY DEF ResolveReplay
<1>2. seen[p].order \in SameToken(call[p])
  BY <1>1, Facts DEF ReadsOK
<1>3. seen[p].order \in OrderIds  BY <1>2 DEF SameToken, CheckoutInv, TypeOK
<1>4. ReplayHash(call[p], seen[p].order) = orders[seen[p].order].hash =>
        orders[seen[p].order].hash.rows = call[p].rows
  BY DEF ReplayHash
<1>5. CASE Reply(p, "rejected") \/ Reply(p, "conflict")
  BY <1>1, <1>5, Replied DEF Refusals
<1>6. CASE Reply(p, seen[p].order) /\ ReplayHash(call[p], seen[p].order) = orders[seen[p].order].hash
  <2>1. PICK o : o = seen[p].order  OBVIOUS
  <2> QED  BY <1>1, <1>2, <1>3, <1>4, <1>6, <2>1, Replied
<1> QED  BY <1>5, <1>6 DEF ResolveReplay

LEMMA Locked ==
  ASSUME CheckoutInv, NEW p \in Procs, NEW row, Lock(p, row)
  PROVE  /\ held' = [held EXCEPT ![p] = held[p] \cup {row}]
         /\ \A q \in Procs \ {p} : (held[p] \cup {row}) \cap held[q] = {}
<1>1. \A q \in Procs \ {p} : held[p] \cap held[q] = {}
  BY Facts
<1> QED  BY <1>1 DEF Lock, Free

LEMMA LockUserOK == ASSUME CheckoutInv, NEW p \in Procs, LockUser(p)  PROVE CheckoutInv'
<1> DEFINE u == IF call[p].kind = "create" THEN call[p].user ELSE seen[p].row.user
           w == IF call[p].kind = "create" THEN "address" ELSE "shelf"
<1>1. pc[p] = "user"  BY DEF LockUser
<1>0. /\ ProgramOK("user", call[p], seen[p]) /\ LocksOK("user", call[p], seen[p], held[p])
      /\ ReadsOK("user", call[p], seen[p]) /\ AnswerOK("user", call[p], answer[p])
  BY <1>1, Facts
<1>2. /\ call[p] \in Calls /\ Noted(seen[p]) /\ seen[p].items = << >> /\ seen[p].shelf = << >>
      /\ held[p] = IF call[p].kind = "create" THEN {} ELSE {<<"order", call[p].order>>}
  BY <1>0 DEF ProgramOK, LocksOK, ReadsOK
<1>3. CASE Reply(p, "rejected")
  BY <1>1, <1>3, Replied DEF Refusals
<1>4. CASE Lock(p, <<"user", u>>) /\ Goto(p, w) /\ UNCHANGED <<vars, call, seen, answer>>
  <2>1. CASE call[p].kind = "create"
    <3>1. ProcOK("address", call[p], seen[p], held[p] \cup {<<"user", u>>}, answer[p])
      BY <1>0, <1>2, <2>1 DEF ProcOK, ProgramOK, LocksOK, ReadsOK, AnswerOK
    <3> QED  BY <1>4, <2>1, <3>1, Locked, Moved
  <2>2. CASE call[p].kind = "approve"
    <3>1. DOMAIN seen[p].shelf = {} /\ ShelfLocks({}) = {}
      BY <1>2 DEF ShelfLocks
    <3>2. ProgramOK("shelf", call[p], seen[p]) /\ AnswerOK("shelf", call[p], answer[p])
      BY <1>0, <1>2, <2>2 DEF ProgramOK, AnswerOK
    <3>3. LocksOK("shelf", call[p], seen[p], held[p] \cup {<<"user", u>>})
      BY <1>2, <2>2, <3>1 DEF LocksOK
    <3>4. ReadsOK("shelf", call[p], seen[p])
      BY <1>0, <1>2, <2>2, <3>1 DEF ReadsOK
    <3>5. ProcOK("shelf", call[p], seen[p], held[p] \cup {<<"user", u>>}, answer[p])
      BY <3>2, <3>3, <3>4 DEF ProcOK
    <3> QED  BY <1>4, <2>2, <3>5, Locked, Moved
  <2> QED  BY <1>2, <2>1, <2>2, CallFacts
<1> QED  BY <1>3, <1>4 DEF LockUser

LEMMA LockAddressOK == ASSUME CheckoutInv, NEW p \in Procs, LockAddress(p)  PROVE CheckoutInv'
<1> DEFINE v == addr[call[p].address].version
           s == [order |-> seen[p].order, row |-> seen[p].row, version |-> v,
                 items |-> seen[p].items, shelf |-> seen[p].shelf]
<1>1. pc[p] = "address"  BY DEF LockAddress
<1>0. /\ ProgramOK("address", call[p], seen[p]) /\ LocksOK("address", call[p], seen[p], held[p])
      /\ ReadsOK("address", call[p], seen[p]) /\ AnswerOK("address", call[p], answer[p])
  BY <1>1, Facts
<1>2. /\ call[p] \in Calls /\ Noted(seen[p]) /\ seen[p].items = << >> /\ seen[p].shelf = << >>
      /\ held[p] = {<<"user", call[p].user>>} /\ call[p].kind = "create"
  BY <1>0 DEF ProgramOK, LocksOK, ReadsOK
<1>3. CASE Reply(p, "rejected")
  BY <1>1, <1>3, Replied DEF Refusals
<1>4. CASE /\ OwnAddress(call[p]) /\ Lock(p, <<"address", call[p].address>>)
           /\ Note(p, "version", v) /\ Goto(p, "cart") /\ UNCHANGED <<vars, call, answer>>
  <2>1. seen' = [seen EXCEPT ![p] = s]
    BY <1>2, <1>4, NotedVersion DEF Note, CheckoutInv, ShapeInv
  <2>2. DOMAIN s.items = {} /\ CartLocks({}) = {} /\ s.shelf = << >>
    BY <1>2 DEF CartLocks
  <2>3. Noted(s)  BY DEF Noted
  <2>4. ProgramOK("cart", call[p], s) /\ AnswerOK("cart", call[p], answer[p])
    BY <1>0, <1>2, <2>3 DEF ProgramOK, AnswerOK
  <2>5. LocksOK("cart", call[p], s, held[p] \cup {<<"address", call[p].address>>})
    BY <1>2, <2>2 DEF LocksOK, Front
  <2>6. ReadsOK("cart", call[p], s)
    BY <1>2, <1>4, <2>2 DEF ReadsOK
  <2>7. ProcOK("cart", call[p], s, held[p] \cup {<<"address", call[p].address>>}, answer[p])
    BY <2>4, <2>5, <2>6 DEF ProcOK
  <2>8. /\ held' = [held EXCEPT ![p] = held[p] \cup {<<"address", call[p].address>>}]
        /\ \A q \in Procs \ {p} : (held[p] \cup {<<"address", call[p].address>>}) \cap held[q] = {}
    BY <1>4, Locked
  <2> HIDE DEF s
  <2> QED  BY <1>4, <2>1, <2>7, <2>8, Moved
<1> QED  BY <1>3, <1>4 DEF LockAddress

\* Order creation wants the rows it seeks, and takes the least.
LEMMA CartFacts ==
  ASSUME CheckoutInv, NEW p \in Procs, pc[p] = "cart"
  PROVE  /\ CartWanted(p) = Sought(call[p], seen[p]) /\ CartWanted(p) \subseteq Nat
         /\ CartWanted(p) \subseteq call[p].rows
<1>0. /\ ProgramOK("cart", call[p], seen[p]) /\ LocksOK("cart", call[p], seen[p], held[p])
  BY Facts
<1>1. call[p].rows \subseteq Nat
  BY <1>0, CallFacts, CheckoutAssumption DEF ProgramOK
<1>2. held[p] = Front(call[p]) \cup CartLocks(DOMAIN seen[p].items)
  BY <1>0 DEF LocksOK
<1>3. \A x : <<"cart", x>> \in held[p] <=> x \in DOMAIN seen[p].items
  BY <1>2 DEF Front, CartLocks
<1> QED  BY <1>1, <1>3 DEF CartWanted, Sought

LEMMA LockCartOK == ASSUME CheckoutInv, NEW p \in Procs, LockCart(p)  PROVE CheckoutInv'
<1>1. pc[p] = "cart"  BY DEF LockCart
<1>0. /\ ProgramOK("cart", call[p], seen[p]) /\ LocksOK("cart", call[p], seen[p], held[p])
      /\ ReadsOK("cart", call[p], seen[p]) /\ AnswerOK("cart", call[p], answer[p])
  BY <1>1, Facts
<1>2. /\ call[p] \in Calls /\ Noted(seen[p]) /\ call[p].kind = "create"
      /\ held[p] = Front(call[p]) \cup CartLocks(DOMAIN seen[p].items)
  BY <1>0 DEF ProgramOK, LocksOK
<1>3. ASSUME CartWanted(p) # {},
             NEW x, x = Least(CartWanted(p)),
             Lock(p, <<"cart", x>>), Note(p, "items", With(seen[p].items, x, cart[x])),
             UNCHANGED <<vars, pc, call, answer>>
      PROVE  CheckoutInv'
  <2> DEFINE items == With(seen[p].items, x, cart[x])
             s == [order |-> seen[p].order, row |-> seen[p].row, version |-> seen[p].version,
                   items |-> items, shelf |-> seen[p].shelf]
  <2>1. x \in Sought(call[p], seen[p]) /\ \A y \in Sought(call[p], seen[p]) : x <= y
    BY <1>1, <1>3, CartFacts, LeastFacts
  <2>2. seen' = [seen EXCEPT ![p] = s]
    BY <1>2, <1>3, NotedItems DEF Note, CheckoutInv, ShapeInv
  <2>3. /\ DOMAIN items = DOMAIN seen[p].items \cup {x} /\ items[x] = cart[x]
        /\ \A y \in DOMAIN seen[p].items : items[y] = seen[p].items[y]
    BY <2>1 DEF With, Sought
  <2>4. Noted(s)  BY DEF Noted
  <2>5. ProgramOK("cart", call[p], s) /\ AnswerOK("cart", call[p], answer[p])
    BY <1>0, <2>4 DEF ProgramOK, AnswerOK
  <2>6. LocksOK("cart", call[p], s, held[p] \cup {<<"cart", x>>})
    <3>1. CartLocks(DOMAIN items) = CartLocks(DOMAIN seen[p].items) \cup {<<"cart", x>>}
      BY <2>3 DEF CartLocks
    <3> QED  BY <1>2, <3>1 DEF LocksOK
  <2>7. \A y \in DOMAIN items, z \in Sought(call[p], s) : y < z
    <3> SUFFICES ASSUME NEW y \in DOMAIN items, NEW z \in Sought(call[p], s)  PROVE y < z
      OBVIOUS
    <3>1. z \in Sought(call[p], seen[p]) /\ z # x
      BY <2>3 DEF Sought
    <3>2. CASE y = x
      BY <1>1, <2>1, <3>1, <3>2, CartFacts
    <3>3. CASE y \in DOMAIN seen[p].items
      BY <1>0, <3>1, <3>3 DEF ReadsOK
    <3> QED  BY <2>3, <3>2, <3>3
  <2>8. ReadsOK("cart", call[p], s)
    <3>1. s.shelf = << >> /\ DOMAIN s.items \subseteq call[p].rows
      BY <1>0, <2>1, <2>3 DEF ReadsOK, Sought
    <3>2. OwnAddress(call[p]) /\ s.version = addr[call[p].address].version
      BY <1>0, <1>2 DEF ReadsOK
    <3>3. \A y \in DOMAIN s.items : y \in DOMAIN cart /\ s.items[y] = cart[y] /\ cart[y].user = call[p].user
      BY <1>0, <1>2, <2>1, <2>3 DEF ReadsOK, Sought
    <3> QED  BY <2>7, <3>1, <3>2, <3>3 DEF ReadsOK
  <2>9. ProcOK("cart", call[p], s, held[p] \cup {<<"cart", x>>}, answer[p])
    BY <2>5, <2>6, <2>8 DEF ProcOK
  <2>10. /\ held' = [held EXCEPT ![p] = held[p] \cup {<<"cart", x>>}]
         /\ \A q \in Procs \ {p} : (held[p] \cup {<<"cart", x>>}) \cap held[q] = {}
    BY <1>3, Locked
  <2>11. Goto(p, "cart")
    BY <1>1, <1>3 DEF Goto, CheckoutInv, ShapeInv
  <2> HIDE DEF s
  <2> QED  BY <1>3, <2>2, <2>9, <2>10, <2>11, Moved
<1>4. CASE /\ DOMAIN seen[p].items = call[p].rows /\ Goto(p, "shelf")
           /\ UNCHANGED <<vars, call, seen, held, answer>>
  <2>1. seen[p].shelf = << >> /\ DOMAIN seen[p].shelf = {} /\ ShelfLocks({}) = {}
    BY <1>0 DEF ReadsOK, ShelfLocks
  <2>2. ProgramOK("shelf", call[p], seen[p]) /\ AnswerOK("shelf", call[p], answer[p])
    BY <1>0 DEF ProgramOK, AnswerOK
  <2>3. LocksOK("shelf", call[p], seen[p], held[p])
    BY <1>2, <1>4, <2>1 DEF LocksOK
  <2>4. ReadsOK("shelf", call[p], seen[p])
    BY <1>0, <1>2, <1>4, <2>1 DEF ReadsOK
  <2>5. ProcOK("shelf", call[p], seen[p], held[p], answer[p])
    BY <2>2, <2>3, <2>4 DEF ProcOK
  <2> QED  BY <1>4, <2>5, Facts, Moved
<1>5. CASE Reply(p, "rejected")
  BY <1>1, <1>5, Replied DEF Refusals
<1>6. ASSUME NEW o \in SameToken(call[p]), Note(p, "order", o), Goto(p, "replay"),
             UNCHANGED <<vars, call, held, answer>>
      PROVE  CheckoutInv'
  <2> DEFINE s == [order |-> o, row |-> seen[p].row, version |-> seen[p].version,
                   items |-> seen[p].items, shelf |-> seen[p].shelf]
  <2>1. seen' = [seen EXCEPT ![p] = s]
    BY <1>2, <1>6, NotedOrder DEF Note, CheckoutInv, ShapeInv
  <2>2. Noted(s)  BY DEF Noted
  <2>3. ProgramOK("replay", call[p], s) /\ AnswerOK("replay", call[p], answer[p])
    BY <1>0, <2>2 DEF ProgramOK, AnswerOK
  <2>4. LocksOK("replay", call[p], s, held[p])
    BY <1>2 DEF LocksOK, Front
  <2>5. ReadsOK("replay", call[p], s)
    BY DEF ReadsOK
  <2>6. ProcOK("replay", call[p], s, held[p], answer[p])
    BY <2>3, <2>4, <2>5 DEF ProcOK
  <2> HIDE DEF s
  <2> QED  BY <1>6, <2>1, <2>6, Facts, Moved
<1> QED
  <2>1. CASE /\ CartWanted(p) = {} /\ DOMAIN seen[p].items # call[p].rows
             /\ IF SameToken(call[p]) = {}
                THEN Reply(p, "rejected")
                ELSE /\ Note(p, "order", CHOOSE o \in SameToken(call[p]) : TRUE)
                     /\ Goto(p, "replay")
                     /\ UNCHANGED <<vars, call, held, answer>>
    BY <1>5, <1>6, <2>1
  <2> QED  BY <1>3, <1>4, <2>1 DEF LockCart

\* What a transaction wants from the shelf are the goods it has no lock on.
LEMMA ShelfFacts ==
  ASSUME CheckoutInv, NEW p \in Procs, pc[p] = "shelf"
  PROVE  /\ ShelfWanted(p) = Goods(call[p], seen[p]) \ DOMAIN seen[p].shelf
         /\ Goods(call[p], seen[p]) \subseteq Products /\ Products \subseteq Nat
<1>0. /\ ProgramOK("shelf", call[p], seen[p]) /\ LocksOK("shelf", call[p], seen[p], held[p])
      /\ ReadsOK("shelf", call[p], seen[p])
  BY Facts
<1>1. \A q : <<"product", q>> \in held[p] <=> q \in DOMAIN seen[p].shelf
  BY <1>0 DEF LocksOK, Front, CartLocks, ShelfLocks
<1>2. Goods(call[p], seen[p]) \subseteq Products
  <2>1. CASE call[p].kind = "create"
    <3>1. \A x \in DOMAIN seen[p].items : x \in DOMAIN cart /\ seen[p].items[x] = cart[x]
      BY <1>0, <2>1 DEF ReadsOK
    <3>2. \A x \in DOMAIN cart : cart[x].product \in Products
      BY DEF CheckoutInv, TypeOK, CartRow
    <3> QED  BY <2>1, <3>1, <3>2 DEF Goods
  <2>2. CASE call[p].kind = "approve"
    <3>1. seen[p].row \in Order
      BY <1>0, <2>2 DEF ReadsOK, CheckoutInv, TypeOK
    <3>2. \A l \in seen[p].row.lines : l.product \in Products
      BY <3>1 DEF Order, Line
    <3> QED  BY <2>2, <3>2 DEF Goods
  <2> QED  BY <1>0, <2>1, <2>2, CallFacts DEF ProgramOK
<1>3. ShelfWanted(p) = Goods(call[p], seen[p]) \ DOMAIN seen[p].shelf
  BY <1>1 DEF ShelfWanted, Goods
<1> QED  BY <1>2, <1>3, CheckoutAssumption

LEMMA LockShelfOK == ASSUME CheckoutInv, NEW p \in Procs, LockShelf(p)  PROVE CheckoutInv'
<1>1. pc[p] = "shelf"  BY DEF LockShelf
<1>0. /\ ProgramOK("shelf", call[p], seen[p]) /\ LocksOK("shelf", call[p], seen[p], held[p])
      /\ ReadsOK("shelf", call[p], seen[p]) /\ AnswerOK("shelf", call[p], answer[p])
  BY <1>1, Facts
<1> DEFINE rest == IF call[p].kind = "create" THEN Front(call[p]) \cup CartLocks(call[p].rows)
                   ELSE {<<"order", call[p].order>>, <<"user", seen[p].row.user>>}
<1>2. Noted(seen[p]) /\ held[p] = ShelfLocks(DOMAIN seen[p].shelf) \cup rest
  BY <1>0 DEF ProgramOK, LocksOK
<1>3. ASSUME ShelfWanted(p) # {},
             NEW x, x = Least(ShelfWanted(p)),
             Lock(p, <<"product", x>>), Note(p, "shelf", With(seen[p].shelf, x, products[x])),
             UNCHANGED <<vars, pc, call, answer>>
      PROVE  CheckoutInv'
  <2> DEFINE shelf == With(seen[p].shelf, x, products[x])
             s == [order |-> seen[p].order, row |-> seen[p].row, version |-> seen[p].version,
                   items |-> seen[p].items, shelf |-> shelf]
  <2>1. /\ x \in Goods(call[p], seen[p]) \ DOMAIN seen[p].shelf /\ x \in Products
        /\ \A y \in Goods(call[p], seen[p]) \ DOMAIN seen[p].shelf : x <= y
    BY <1>1, <1>3, ShelfFacts, LeastFacts
  <2>2. seen' = [seen EXCEPT ![p] = s]
    BY <1>2, <1>3, NotedShelf DEF Note, CheckoutInv, ShapeInv
  <2>3. /\ DOMAIN shelf = DOMAIN seen[p].shelf \cup {x} /\ shelf[x] = products[x]
        /\ \A y \in DOMAIN seen[p].shelf : shelf[y] = seen[p].shelf[y]
    BY <2>1 DEF With
  <2>4. Noted(s) /\ Goods(call[p], s) = Goods(call[p], seen[p])
    BY DEF Noted, Goods
  <2>5. ProgramOK("shelf", call[p], s) /\ AnswerOK("shelf", call[p], answer[p])
    BY <1>0, <2>4 DEF ProgramOK, AnswerOK
  <2>6. LocksOK("shelf", call[p], s, held[p] \cup {<<"product", x>>})
    <3>1. ShelfLocks(DOMAIN shelf) = ShelfLocks(DOMAIN seen[p].shelf) \cup {<<"product", x>>}
      BY <2>3 DEF ShelfLocks
    <3>2. held[p] \cup {<<"product", x>>} = ShelfLocks(DOMAIN shelf) \cup rest
      BY <1>2, <3>1
    <3> QED  BY <3>2 DEF LocksOK
  <2>7. \A y \in DOMAIN shelf, z \in Goods(call[p], s) \ DOMAIN shelf : y < z
    <3> SUFFICES ASSUME NEW y \in DOMAIN shelf, NEW z \in Goods(call[p], s) \ DOMAIN shelf
                 PROVE  y < z
      OBVIOUS
    <3>1. z \in Goods(call[p], seen[p]) \ DOMAIN seen[p].shelf /\ z # x
      BY <2>3, <2>4
    <3>2. CASE y = x
      BY <1>1, <2>1, <3>1, <3>2, ShelfFacts
    <3>3. CASE y \in DOMAIN seen[p].shelf
      BY <1>0, <3>1, <3>3 DEF ReadsOK
    <3> QED  BY <2>3, <3>2, <3>3
  <2>8. ReadsOK("shelf", call[p], s)
    <3>1. DOMAIN s.shelf \subseteq Goods(call[p], s) /\ DOMAIN s.shelf \subseteq Products
      BY <1>0, <2>1, <2>3, <2>4 DEF ReadsOK
    <3>2. \A q \in DOMAIN s.shelf : s.shelf[q] = products[q]
      BY <1>0, <2>3 DEF ReadsOK
    <3>3. s.items = seen[p].items /\ s.version = seen[p].version /\ s.row = seen[p].row
          /\ s.shelf = shelf
      OBVIOUS
    <3> HIDE DEF s, shelf
    <3> QED  BY <1>0, <2>7, <3>1, <3>2, <3>3 DEF ReadsOK
  <2>9. ProcOK("shelf", call[p], s, held[p] \cup {<<"product", x>>}, answer[p])
    BY <2>5, <2>6, <2>8 DEF ProcOK
  <2>10. /\ held' = [held EXCEPT ![p] = held[p] \cup {<<"product", x>>}]
         /\ \A q \in Procs \ {p} : (held[p] \cup {<<"product", x>>}) \cap held[q] = {}
    BY <1>3, Locked
  <2>11. Goto(p, "shelf")
    BY <1>1, <1>3 DEF Goto, CheckoutInv, ShapeInv
  <2> HIDE DEF s
  <2> QED  BY <1>3, <2>2, <2>9, <2>10, <2>11, Moved
<1>4. CASE ShelfWanted(p) = {} /\ Goto(p, "commit") /\ UNCHANGED <<vars, call, seen, held, answer>>
  <2>1. ProgramOK("commit", call[p], seen[p]) /\ AnswerOK("commit", call[p], answer[p])
        /\ LocksOK("commit", call[p], seen[p], held[p])
    BY <1>0 DEF ProgramOK, AnswerOK, LocksOK
  <2>2. Goods(call[p], seen[p]) \subseteq DOMAIN seen[p].shelf
    BY <1>1, <1>4, ShelfFacts
  <2>3. ReadsOK("commit", call[p], seen[p])
    BY <1>0, <2>2 DEF ReadsOK
  <2>4. ProcOK("commit", call[p], seen[p], held[p], answer[p])
    BY <2>1, <2>3 DEF ProcOK
  <2> QED  BY <1>4, <2>4, Facts, Moved
<1> QED  BY <1>3, <1>4 DEF LockShelf

LEMMA ResolveAfterConflictOK ==
  ASSUME CheckoutInv, NEW p \in Procs, ResolveAfterConflict(p)  PROVE CheckoutInv'
<1>1. pc[p] = "unique violation"  BY DEF ResolveAfterConflict
<1>2. PICK o \in SameToken(call[p]) :
        Reply(p, IF OwnAddress(call[p]) /\ ReplayHash(call[p], o) = orders[o].hash THEN o ELSE "error")
  BY DEF ResolveAfterConflict
<1>3. o \in OrderIds  BY DEF SameToken, CheckoutInv, TypeOK
<1>4. ReplayHash(call[p], o) = orders[o].hash => orders[o].hash.rows = call[p].rows
  BY DEF ReplayHash
<1>5. CASE Reply(p, "error")
  BY <1>1, <1>5, Replied DEF Refusals
<1>6. CASE Reply(p, o) /\ ReplayHash(call[p], o) = orders[o].hash
  BY <1>1, <1>2, <1>3, <1>4, <1>6, Replied
<1> QED  BY <1>2, <1>5, <1>6

LEMMA LockOrderOK == ASSUME CheckoutInv, NEW p \in Procs, LockOrder(p)  PROVE CheckoutInv'
<1>1. pc[p] = "order"  BY DEF LockOrder
<1>0. /\ ProgramOK("order", call[p], seen[p]) /\ LocksOK("order", call[p], seen[p], held[p])
      /\ ReadsOK("order", call[p], seen[p]) /\ AnswerOK("order", call[p], answer[p])
  BY <1>1, Facts
<1> DEFINE o == call[p].order
           s == [order |-> seen[p].order, row |-> orders[o], version |-> seen[p].version,
                 items |-> seen[p].items, shelf |-> seen[p].shelf]
<1>2. /\ call[p] \in Calls /\ Noted(seen[p]) /\ call[p].kind = "approve" /\ held[p] = {}
      /\ seen[p].items = << >> /\ seen[p].shelf = << >>
  BY <1>0 DEF ProgramOK, LocksOK, ReadsOK
<1>3. CASE Reply(p, "rejected")
  BY <1>1, <1>3, Replied DEF Refusals
<1>4. CASE /\ o \in DOMAIN orders /\ orders[o].status = "refund_requested"
           /\ Lock(p, <<"order", o>>) /\ Note(p, "row", orders[o]) /\ Goto(p, "user")
           /\ UNCHANGED <<vars, call, answer>>
  <2>1. seen' = [seen EXCEPT ![p] = s]
    BY <1>2, <1>4, NotedRow DEF Note, CheckoutInv, ShapeInv
  <2>2. Noted(s)  BY DEF Noted
  <2>3. ProgramOK("user", call[p], s) /\ AnswerOK("user", call[p], answer[p])
    BY <1>0, <1>2, <2>2 DEF ProgramOK, AnswerOK
  <2>4. LocksOK("user", call[p], s, held[p] \cup {<<"order", o>>})
    BY <1>2 DEF LocksOK
  <2>5. ReadsOK("user", call[p], s)
    BY <1>2, <1>4 DEF ReadsOK
  <2>6. ProcOK("user", call[p], s, held[p] \cup {<<"order", o>>}, answer[p])
    BY <2>3, <2>4, <2>5 DEF ProcOK
  <2>7. /\ held' = [held EXCEPT ![p] = held[p] \cup {<<"order", o>>}]
        /\ \A q \in Procs \ {p} : (held[p] \cup {<<"order", o>>}) \cap held[q] = {}
    BY <1>4, Locked
  <2> HIDE DEF s
  <2> QED  BY <1>4, <2>1, <2>6, <2>7, Moved
<1>5. CASE o \in DOMAIN orders /\ Goto(p, "refused") /\ UNCHANGED <<vars, call, seen, held, answer>>
  <2>1. ProgramOK("refused", call[p], seen[p]) /\ AnswerOK("refused", call[p], answer[p])
        /\ LocksOK("refused", call[p], seen[p], held[p])
    BY <1>0, <1>2 DEF ProgramOK, AnswerOK, LocksOK
  <2>2. ReadsOK("refused", call[p], seen[p])
    BY <1>5 DEF ReadsOK
  <2>3. ProcOK("refused", call[p], seen[p], held[p], answer[p])
    BY <2>1, <2>2 DEF ProcOK
  <2> QED  BY <1>5, <2>3, Facts, Moved
<1> HIDE DEF s
<1> QED  BY <1>3, <1>4, <1>5 DEF LockOrder

-----------------------------------------------------------------------------
(* The statements that write *)

LEMMA RecordsNow ==
  ASSUME CheckoutInv, NEW p \in Procs, pc[p] = "refused",
         RecordFailure(call[p].admin, "refund.approve", call[p].order)
  PROVE  Next
<1>1. ProgramOK("refused", call[p], seen[p]) /\ ReadsOK("refused", call[p], seen[p])
  BY Facts
<1>2. /\ call[p].admin \in Admins /\ call[p].order \in OrderIds /\ call[p].order \in DOMAIN orders
  BY <1>1, CallFacts DEF ProgramOK, ReadsOK
<1>3. ReviewRefused(call[p].admin, call[p].order)
  BY <1>2 DEF ReviewRefused
<1> QED  BY <1>2, <1>3 DEF Next, AdminNext

LEMMA RecordRefusalOK == ASSUME CheckoutInv, NEW p \in Procs, RecordRefusal(p)  PROVE CheckoutInv'
<1>1. pc[p] = "refused"  BY DEF RecordRefusal
<1>2. call[p].kind = "approve"
  BY <1>1, Facts DEF ProgramOK
<1>3. CASE Reply(p, "conflict")
  BY <1>1, <1>3, Replied DEF Refusals
<1>4. CASE RecordFailure(call[p].admin, "refund.approve", call[p].order) /\ Finish(p, "conflict")
  <2>2. Next
    BY <1>1, <1>4, RecordsNow
  <2>3. Growth /\ \A h : Keeps(h)
    BY <1>4 DEF RecordFailure, Growth, Keeps
  <2>4. PICK c : c = call[p]  OBVIOUS
  <2>5. AnswerOK("done", c, "conflict")'
    BY <1>2, <2>4 DEF AnswerOK, Refusals
  <2> QED  BY <1>1, <1>4, <2>2, <2>3, <2>4, <2>5, Finished
<1> QED  BY <1>3, <1>4 DEF RecordRefusal, Reply

\* Only the products of the lines are restocked.
LEMMA RestockElsewhere ==
  ASSUME NEW lines, NEW sign, NEW q \in Products, \A l \in lines : l.product # q
  PROVE  Restock(lines, sign)[q] = products[q]
BY DEF Restock

\* The lines of an order are those of the tables at the commit.
LEMMA LinesNow ==
  ASSUME CheckoutInv, NEW p \in Procs, pc[p] = "commit", call[p].kind = "create"
  PROVE  /\ Lines(call[p].rows, seen[p].items, seen[p].shelf) = Lines(call[p].rows, cart, products)
         /\ \A l \in Lines(call[p].rows, cart, products) :
              l.product \in Products /\ <<"product", l.product>> \in held[p]
         /\ \A x \in call[p].rows :
              x \in DOMAIN cart /\ cart[x].user = call[p].user /\ <<"cart", x>> \in held[p]
<1>0. LocksOK("commit", call[p], seen[p], held[p]) /\ ReadsOK("commit", call[p], seen[p])
  BY Facts
<1> DEFINE c == call[p]
<1>1. /\ DOMAIN seen[p].items = c.rows
      /\ \A x \in c.rows : x \in DOMAIN cart /\ seen[p].items[x] = cart[x] /\ cart[x].user = c.user
  BY <1>0 DEF ReadsOK
<1>2. \A x \in c.rows : /\ cart[x].product \in DOMAIN seen[p].shelf
                        /\ cart[x].product \in Products
                        /\ seen[p].shelf[cart[x].product] = products[cart[x].product]
  BY <1>0, <1>1 DEF ReadsOK, Goods
<1>3. held[p] = ShelfLocks(DOMAIN seen[p].shelf) \cup Front(c) \cup CartLocks(c.rows)
  BY <1>0 DEF LocksOK
<1>4. Lines(c.rows, seen[p].items, seen[p].shelf) = Lines(c.rows, cart, products)
  <2> DEFINE line(x) == [product |-> cart[x].product, price |-> products[cart[x].product].price,
                         qty |-> cart[x].qty]
             noted(x) == [product |-> seen[p].items[x].product,
                          price |-> seen[p].shelf[seen[p].items[x].product].price,
                          qty |-> seen[p].items[x].qty]
  <2>1. \A x \in c.rows : noted(x) = line(x)
    BY <1>1, <1>2
  <2>2. {noted(x) : x \in c.rows} = {line(x) : x \in c.rows}
    <3> HIDE DEF noted, line
    <3> QED  BY <2>1
  <2> QED  BY <2>2 DEF Lines
<1>5. \A l \in Lines(c.rows, cart, products) : \E x \in c.rows : l.product = cart[x].product
  BY DEF Lines
<1>6. \A l \in Lines(c.rows, cart, products) :
        l.product \in Products /\ <<"product", l.product>> \in held[p]
  BY <1>2, <1>3, <1>5 DEF ShelfLocks
<1> QED  BY <1>1, <1>3, <1>4, <1>6 DEF CartLocks

\* What the transaction has read is still so: it creates the order of Mall.
LEMMA CreatesNow ==
  ASSUME CheckoutInv, NEW p \in Procs, pc[p] = "commit", call[p].kind = "create", NEW o \in OrderIds,
         PlaceOrder(o, call[p].user, call[p].token, call[p].rows, call[p].address, seen[p].version,
                    Lines(call[p].rows, seen[p].items, seen[p].shelf)),
         UNCHANGED <<addr, audit, cameFrom, supply>>
  PROVE  Next
<1> DEFINE c == call[p]
<1>1. ProgramOK("commit", c, seen[p]) /\ ReadsOK("commit", c, seen[p])
  BY Facts
<1>2. /\ c.user \in Users /\ c.token \in Tokens /\ c.rows \in SUBSET CartRows
      /\ c.rows # {} /\ c.address \in Addresses
  BY <1>1, CallFacts DEF ProgramOK
<1>3. seen[p].version = addr[c.address].version /\ OwnAddress(c)
  BY <1>1 DEF ReadsOK
<1>4. CreateOrder(o, c.user, c.token, c.rows, c.address)
  BY <1>2, <1>3, LinesNow DEF CreateOrder, OwnAddress
<1> QED  BY <1>2, <1>4 DEF Next, BuyerNext

LEMMA CommitOK == ASSUME CheckoutInv, NEW p \in Procs, Commit(p)  PROVE CheckoutInv'
<1>1. pc[p] = "commit" /\ call[p].kind = "create"  BY DEF Commit
<1>0. /\ ProgramOK("commit", call[p], seen[p]) /\ LocksOK("commit", call[p], seen[p], held[p])
      /\ ReadsOK("commit", call[p], seen[p]) /\ AnswerOK("commit", call[p], answer[p])
  BY <1>1, Facts
<1> DEFINE c     == call[p]
           lines == Lines(c.rows, seen[p].items, seen[p].shelf)
<1>2. /\ c \in Calls /\ c.user \in Users /\ c.token \in Tokens /\ c.rows \in SUBSET CartRows
      /\ c.rows # {} /\ c.address \in Addresses
  BY <1>0, <1>1, CallFacts DEF ProgramOK
<1>3. CASE Reply(p, "rejected") \/ Reply(p, "error")
  BY <1>1, <1>3, Replied DEF Refusals
<1>4. CASE Rollback(p, "unique violation") /\ UNCHANGED vars
  <2>1. ProcOK("unique violation", c, NoCall, {}, answer[p])
    BY <1>0, <1>1 DEF ProcOK, ProgramOK, LocksOK, ReadsOK, AnswerOK
  <2> QED  BY <1>4, <2>1, Moved DEF Rollback
<1>5. ASSUME NEW o \in OrderIds,
             PlaceOrder(o, c.user, c.token, c.rows, c.address, seen[p].version, lines),
             NEW a \in {o, "lost"}, Finish(p, a), UNCHANGED <<addr, audit, cameFrom, supply>>
      PROVE  CheckoutInv'
  <2>2. lines = Lines(c.rows, cart, products)
    BY <1>1, LinesNow
  <2>5. Next
    BY <1>1, <1>5, CreatesNow
  <2>6. /\ o \notin DOMAIN orders
        /\ DOMAIN orders' = DOMAIN orders \cup {o}
        /\ \A r \in DOMAIN orders : orders'[r] = orders[r]
        /\ orders'[o].user = c.user /\ orders'[o].token = c.token /\ orders'[o].hash.rows = c.rows
    BY <1>5 DEF PlaceOrder, With, RequestHash
  <2>7. /\ DOMAIN cart' = DOMAIN cart \ c.rows /\ retired' = retired \cup c.rows
        /\ \A x \in DOMAIN cart' : cart'[x] = cart[x]
    BY <1>5 DEF PlaceOrder, Without
  <2>8. Growth
    <3>1. \A x \in DOMAIN cart' \cap (DOMAIN cart \cup retired) :
            x \in DOMAIN cart /\ cart'[x].user = cart[x].user
      BY <2>7
    <3> HIDE DEF c
    <3> QED  BY <2>6, <2>7, <3>1 DEF Growth
  <2>9. ASSUME NEW q \in Procs \ {p}  PROVE Keeps(held[q])
    <3>1. held[p] \cap held[q] = {}  BY Facts
    <3>2. \A x \in DOMAIN cart : <<"cart", x>> \in held[q] => x \in DOMAIN cart' /\ cart'[x] = cart[x]
      BY <1>1, <2>7, <3>1, LinesNow
    <3>3. ASSUME NEW r \in Products, <<"product", r>> \in held[q]  PROVE products'[r] = products[r]
      <4>1. \A l \in lines : l.product # r
        BY <1>1, <2>2, <3>1, <3>3, LinesNow
      <4>2. products' = Restock(lines, -1)
        BY <1>5 DEF PlaceOrder
      <4> HIDE DEF lines
      <4> QED  BY <4>1, <4>2, RestockElsewhere
    <3> QED  BY <1>5, <2>6, <3>2, <3>3 DEF Keeps
  <2>10. PICK k : k = c  OBVIOUS
  <2>11. AnswerOK("done", k, a)'
    BY <1>5, <2>6, <2>10, CheckoutAssumption DEF AnswerOK, SameToken, Refusals
  <2> QED  BY <1>1, <1>5, <2>5, <2>8, <2>9, <2>10, <2>11, Finished
<1> QED
  <2>1. \/ Reply(p, "rejected") \/ Reply(p, "error")
        \/ Rollback(p, "unique violation") /\ UNCHANGED vars
        \/ \E o \in OrderIds :
             /\ PlaceOrder(o, c.user, c.token, c.rows, c.address, seen[p].version, lines)
             /\ \E a \in {o, "lost"} : Finish(p, a)
             /\ UNCHANGED <<addr, audit, cameFrom, supply>>
    BY DEF Commit
  <2> HIDE DEF c, lines
  <2> QED  BY <2>1, <1>3, <1>4, <1>5

\* The order has not left its review: it is the approval of Mall.
LEMMA RefundsNow ==
  ASSUME CheckoutInv, NEW p \in Procs, pc[p] = "commit", call[p].kind = "approve",
         Refund(call[p].admin, call[p].order, seen[p].row)
  PROVE  Next
<1>1. ProgramOK("commit", call[p], seen[p]) /\ ReadsOK("commit", call[p], seen[p])
  BY Facts
<1>2. /\ call[p].admin \in Admins /\ call[p].order \in OrderIds
  BY <1>1, CallFacts DEF ProgramOK
<1>3. /\ call[p].order \in DOMAIN orders /\ orders[call[p].order] = seen[p].row
      /\ seen[p].row.status = "refund_requested"
  BY <1>1 DEF ReadsOK
<1>4. ApproveRefund(call[p].admin, call[p].order)
  BY <1>3 DEF ApproveRefund
<1> QED  BY <1>2, <1>4 DEF Next, AdminNext

LEMMA CommitRefundOK == ASSUME CheckoutInv, NEW p \in Procs, CommitRefund(p)  PROVE CheckoutInv'
<1>1. pc[p] = "commit" /\ call[p].kind = "approve"  BY DEF CommitRefund
<1>0. /\ ProgramOK("commit", call[p], seen[p]) /\ LocksOK("commit", call[p], seen[p], held[p])
      /\ ReadsOK("commit", call[p], seen[p])
  BY <1>1, Facts
<1> DEFINE o   == call[p].order
           row == seen[p].row
<1>2. /\ call[p].admin \in Admins /\ o \in OrderIds
  BY <1>0, <1>1, CallFacts DEF ProgramOK
<1>3. /\ o \in DOMAIN orders /\ orders[o] = row /\ row.status = "refund_requested"
      /\ held[p] = ShelfLocks(DOMAIN seen[p].shelf) \cup {<<"order", o>>, <<"user", row.user>>}
      /\ \A l \in row.lines : l.product \in DOMAIN seen[p].shelf
  BY <1>0, <1>1 DEF LocksOK, ReadsOK, Goods
<1>4. CASE Reply(p, "error")
  BY <1>1, <1>4, Replied DEF Refusals
<1>5. ASSUME Refund(call[p].admin, o, row), NEW a \in {o, "lost"}, Finish(p, a)  PROVE CheckoutInv'
  <2>2. Next
    BY <1>1, <1>5, RefundsNow
  <2>3. orders[o] \in Order
    BY <1>3 DEF CheckoutInv, TypeOK
  <2>4. /\ DOMAIN orders' = DOMAIN orders /\ \A r \in DOMAIN orders \ {o} : orders'[r] = orders[r]
        /\ orders'[o].user = orders[o].user /\ orders'[o].token = orders[o].token
        /\ orders'[o].hash = orders[o].hash
    BY <1>3, <1>5, <2>3 DEF Refund, Order
  <2>5. UNCHANGED <<cart, addr, retired>> /\ products' = Restock(row.lines, 1)
    BY <1>5 DEF Refund
  <2>6. Growth
    BY <1>3, <2>4, <2>5 DEF Growth
  <2>7. ASSUME NEW q \in Procs \ {p}  PROVE Keeps(held[q])
    <3>1. held[p] \cap held[q] = {}  BY Facts
    <3>2. <<"order", o>> \notin held[q]  BY <1>3, <3>1
    <3>3. ASSUME NEW r \in Products, <<"product", r>> \in held[q]  PROVE products'[r] = products[r]
      <4>1. \A l \in row.lines : l.product # r
        BY <1>3, <3>1, <3>3 DEF ShelfLocks
      <4> HIDE DEF row
      <4> QED  BY <2>5, <4>1, RestockElsewhere
    <3> QED  BY <2>4, <2>5, <3>2, <3>3 DEF Keeps
  <2>8. PICK k : k = call[p]  OBVIOUS
  <2>9. AnswerOK("done", k, a)'
    BY <1>1, <1>2, <1>5, <2>8 DEF AnswerOK, Refusals
  <2> QED  BY <1>1, <1>5, <2>2, <2>6, <2>7, <2>8, <2>9, Finished
<1> QED  BY <1>4, <1>5 DEF CommitRefund

LEMMA StepOK == ASSUME CheckoutInv, NEW p \in Procs, Step(p)  PROVE CheckoutInv'
BY LockForReplayOK, ResolveReplayOK, LockUserOK, LockAddressOK, LockCartOK, LockShelfOK,
   CommitOK, ResolveAfterConflictOK, LockOrderOK, RecordRefusalOK, CommitRefundOK DEF Step

-----------------------------------------------------------------------------
(* The short transactions write a row that nobody has locked *)

LEMMA AroundKeeps ==
  ASSUME CheckoutInv, Around
  PROVE  Next /\ Growth /\ \A p \in Procs : Keeps(held[p])
<1> USE DEF CheckoutInv
<1>1. ASSUME NEW u \in Users, Unlocked(<<"user", u>>), NEW b \in Bonuses, Login(u, b)
      PROVE  Next /\ Growth /\ \A p \in Procs : Keeps(held[p])
  <2>1. Next  BY <1>1 DEF Next, BuyerNext
  <2>2. UNCHANGED <<cart, addr, retired, products, orders>>  BY <1>1 DEF Login
  <2> QED  BY <2>1, <2>2 DEF Growth, Keeps
<1>2. ASSUME NEW u \in Users, NEW a \in Addresses, CreateAddress(u, a)
      PROVE  Next /\ Growth /\ \A p \in Procs : Keeps(held[p])
  <2>1. Next  BY <1>2 DEF Next, BuyerNext
  <2>2. UNCHANGED <<cart, retired, products, orders>>  BY <1>2 DEF CreateAddress
  <2>3. \A x \in DOMAIN addr : x \in DOMAIN addr' /\ addr'[x] = addr[x]
    BY <1>2 DEF CreateAddress, With
  <2> QED  BY <2>1, <2>2, <2>3 DEF Growth, Keeps
<1>3. ASSUME NEW a \in Addresses, Unlocked(<<"address", a>>), EditAddress(a) \/ DeleteAddress(a)
      PROVE  Next /\ Growth /\ \A p \in Procs : Keeps(held[p])
  <2>1. Next  BY <1>3 DEF Next, BuyerNext
  <2>2. UNCHANGED <<cart, products, orders>> /\ retired \subseteq retired'
    BY <1>3 DEF EditAddress, DeleteAddress
  <2>3. \A x \in DOMAIN addr \ {a} : x \in DOMAIN addr' /\ addr'[x] = addr[x]
    BY <1>3 DEF EditAddress, DeleteAddress, Without, TypeOK
  <2>4. \A x \in DOMAIN cart \cap retired : x \in {}
    BY DEF TypeOK
  <2>5. Growth
    BY <2>2 DEF Growth, TypeOK
  <2> QED  BY <1>3, <2>1, <2>2, <2>3, <2>5 DEF Keeps, Unlocked
<1>4. ASSUME NEW x \in CartRows, Unlocked(<<"cart", x>>),
             RemoveFromCart(x) \/ \E n \in 1..MaxQty : SetCartQuantity(x, n)
      PROVE  Next /\ Growth /\ \A p \in Procs : Keeps(held[p])
  <2>1. Next  BY <1>4 DEF Next, BuyerNext
  <2>2. UNCHANGED <<addr, products, orders>>
    BY <1>4 DEF RemoveFromCart, SetCartQuantity
  <2>3. \A y \in DOMAIN cart \ {x} : y \in DOMAIN cart' /\ cart'[y] = cart[y]
    BY <1>4 DEF RemoveFromCart, SetCartQuantity, Without, TypeOK
  <2>4. Growth
    <3>1. CASE RemoveFromCart(x)
      BY <2>2, <3>1 DEF RemoveFromCart, Without, Growth
    <3>2. ASSUME NEW n \in 1..MaxQty, SetCartQuantity(x, n)  PROVE Growth
      <4>1. cart[x] \in CartRow /\ DOMAIN cart' = DOMAIN cart /\ retired' = retired
        BY <3>2 DEF SetCartQuantity, TypeOK
      <4>2. \A y \in DOMAIN cart : cart'[y].user = cart[y].user
        BY <3>2 DEF SetCartQuantity, TypeOK, CartRow
      <4>3. DOMAIN cart \cap retired = {}  BY DEF TypeOK
      <4> QED  BY <2>2, <4>1, <4>2, <4>3 DEF Growth
    <3> QED  BY <1>4, <3>1, <3>2
  <2> QED  BY <1>4, <2>1, <2>2, <2>3, <2>4 DEF Keeps, Unlocked
<1>5. ASSUME NEW u \in Users, NEW q \in Products, NEW n \in 1..MaxQty,
             \A x \in DOMAIN cart : cart[x].user = u /\ cart[x].product = q => Unlocked(<<"cart", x>>),
             AddToCart(u, q, n)
      PROVE  Next /\ Growth /\ \A p \in Procs : Keeps(held[p])
  <2>1. Next  BY <1>5 DEF Next, BuyerNext
  <2>2. UNCHANGED <<addr, products, orders, retired>>
    BY <1>5 DEF AddToCart
  <2>3. ASSUME NEW x \in DOMAIN cart, cart[x].user = u, cart[x].product = q,
               cart' = [cart EXCEPT ![x].qty = @ + n]
        PROVE  Growth /\ \A p \in Procs : Keeps(held[p])
    <3>1. cart[x] \in CartRow /\ DOMAIN cart' = DOMAIN cart
      BY <2>3 DEF TypeOK
    <3>2. \A y \in DOMAIN cart : cart'[y].user = cart[y].user
      BY <2>3 DEF TypeOK, CartRow
    <3>3. DOMAIN cart \cap retired = {}  BY DEF TypeOK
    <3>4. \A y \in DOMAIN cart \ {x} : y \in DOMAIN cart' /\ cart'[y] = cart[y]
      BY <2>3 DEF TypeOK
    <3>5. Growth  BY <2>2, <3>1, <3>2, <3>3 DEF Growth
    <3> QED  BY <1>5, <2>2, <2>3, <3>4, <3>5 DEF Keeps, Unlocked
  <2>4. ASSUME NEW x \in CartRows \ (DOMAIN cart \cup retired),
               cart' = With(cart, x, [user |-> u, product |-> q, qty |-> n])
        PROVE  Growth /\ \A p \in Procs : Keeps(held[p])
    <3>1. DOMAIN cart' = DOMAIN cart \cup {x} /\ \A y \in DOMAIN cart : cart'[y] = cart[y]
      BY <2>4 DEF With
    <3>2. DOMAIN cart \cap retired = {}  BY DEF TypeOK
    <3> QED  BY <2>2, <2>4, <3>1, <3>2 DEF Keeps, Growth
  <2> QED  BY <1>5, <2>1, <2>3, <2>4 DEF AddToCart
<1>6. ASSUME NEW o \in OrderIds, Unlocked(<<"order", o>>),
             \/ Confirm(o) \/ RequestRefund(o)
             \/ \E adm \in Admins : Ship(adm, o) \/ RejectRefund(adm, o)
      PROVE  Next /\ Growth /\ \A p \in Procs : Keeps(held[p])
  <2>1. Next  BY <1>6 DEF Next, BuyerNext, AdminNext
  <2>2. UNCHANGED <<cart, addr, products, retired>> /\ o \in DOMAIN orders
    BY <1>6 DEF Confirm, RequestRefund, Ship, RejectRefund
  <2>3. orders[o] \in Order  BY <2>2 DEF TypeOK
  <2>4. /\ DOMAIN orders' = DOMAIN orders /\ \A r \in DOMAIN orders \ {o} : orders'[r] = orders[r]
    BY <1>6 DEF Confirm, RequestRefund, Ship, RejectRefund, TypeOK
  <2>5. /\ orders'[o].user = orders[o].user /\ orders'[o].token = orders[o].token
        /\ orders'[o].hash = orders[o].hash
    <3>1. CASE Confirm(o)
      BY <2>2, <2>3, <3>1 DEF Confirm, Order
    <3>2. CASE RequestRefund(o)
      BY <2>2, <2>3, <3>2 DEF RequestRefund, Order
    <3>3. ASSUME NEW adm \in Admins, Ship(adm, o)
          PROVE  /\ orders'[o].user = orders[o].user /\ orders'[o].token = orders[o].token
                 /\ orders'[o].hash = orders[o].hash
      BY <2>2, <2>3, <3>3 DEF Ship, Order
    <3>4. ASSUME NEW adm \in Admins, RejectRefund(adm, o)
          PROVE  /\ orders'[o].user = orders[o].user /\ orders'[o].token = orders[o].token
                 /\ orders'[o].hash = orders[o].hash
      BY <2>2, <2>3, <3>4 DEF RejectRefund, Order
    <3> QED  BY <1>6, <3>1, <3>2, <3>3, <3>4
  <2>6. Growth
    BY <2>2, <2>4, <2>5 DEF Growth, TypeOK
  <2> QED  BY <1>6, <2>1, <2>2, <2>4, <2>6 DEF Keeps, Unlocked
<1>7. ASSUME NEW adm \in Admins, NEW key \in AdjustKeys, NEW u \in Users, NEW d \in Deltas,
             AdjustPoints(adm, key, u, d)
      PROVE  Next /\ Growth /\ \A p \in Procs : Keeps(held[p])
  <2>1. Next  BY <1>7 DEF Next, AdminNext
  <2>2. UNCHANGED <<cart, addr, retired, products, orders>>  BY <1>7 DEF AdjustPoints
  <2> QED  BY <2>1, <2>2 DEF Growth, Keeps
<1>8. ASSUME NEW adm \in Admins, NEW q \in Products, NEW row \in Product,
             Unlocked(<<"product", q>>), UpdateProduct(adm, q, row)
      PROVE  Next /\ Growth /\ \A p \in Procs : Keeps(held[p])
  <2>1. Next  BY <1>8 DEF Next, AdminNext
  <2>2. UNCHANGED <<cart, addr, retired, orders>> /\ \A r \in Products \ {q} : products'[r] = products[r]
    BY <1>8 DEF UpdateProduct, TypeOK
  <2> QED  BY <1>8, <2>1, <2>2 DEF Growth, Keeps, Unlocked
<1> QED  BY <1>1, <1>2, <1>3, <1>4, <1>5, <1>6, <1>7, <1>8 DEF Around

LEMMA AroundOK == ASSUME CheckoutInv, Around, UNCHANGED txVars  PROVE CheckoutInv'
<1>1. Next /\ Growth /\ \A p \in Procs : Keeps(held[p])
  BY AroundKeeps
<1>2. TypeOK'  BY <1>1, TypeStep DEF CheckoutInv
<1>3. UNCHANGED <<pc, call, seen, held, answer>>  BY DEF txVars
<1>4. ASSUME NEW q \in Procs  PROVE ProcOK(pc[q], call[q], seen[q], held[q], answer[q])'
  <2>1. PICK w, c, s, h, a : w = pc[q] /\ c = call[q] /\ s = seen[q] /\ h = held[q] /\ a = answer[q]
    OBVIOUS
  <2>2. ProcOK(w, c, s, h, a) /\ Keeps(h)  BY <1>1, <2>1 DEF CheckoutInv
  <2>3. ProcOK(w, c, s, h, a)'  BY <1>1, <2>2, ProcKept
  <2> QED  BY <1>3, <2>1, <2>3
<1>5. ShapeInv'  BY <1>3 DEF ShapeInv, CheckoutInv
<1> QED  BY <1>2, <1>3, <1>4, <1>5 DEF CheckoutInv

-----------------------------------------------------------------------------
(* The invariant holds, and with it the properties *)

LEMMA CheckoutInvInit == CheckoutInit => CheckoutInv
<1> SUFFICES ASSUME CheckoutInit  PROVE CheckoutInv
  OBVIOUS
<1>1. TypeOK  BY TypeInit DEF CheckoutInit
<1>2. ShapeInv  BY DEF CheckoutInit, TxInit, ShapeInv
<1>3. ASSUME NEW p \in Procs
      PROVE  /\ pc[p] = "idle" /\ call[p] = NoCall /\ seen[p] = NoCall
             /\ held[p] = {} /\ answer[p] = "none"
  BY DEF CheckoutInit, TxInit
<1>4. ProcOK("idle", NoCall, NoCall, {}, "none")
  <2>1. NoCall.kind = "none"  BY DEF NoCall
  <2> QED  BY <2>1 DEF ProcOK, ProgramOK, LocksOK, ReadsOK, AnswerOK
<1> QED  BY <1>1, <1>2, <1>3, <1>4 DEF CheckoutInv

LEMMA CheckoutInvStep == CheckoutInv /\ [CheckoutNext]_checkoutVars => CheckoutInv'
<1> SUFFICES ASSUME CheckoutInv, [CheckoutNext]_checkoutVars  PROVE CheckoutInv'
  OBVIOUS
<1>1. CASE UNCHANGED checkoutVars
  <2>1. UNCHANGED <<vars, pc, call, seen, held, answer>>
    BY <1>1 DEF checkoutVars, txVars
  <2>2. UNCHANGED <<balance, ledger, products, cart, addr, retired, orders, audit, cameFrom, supply>>
    BY <2>1 DEF vars
  <2>3. TypeOK'  BY <2>1, TypeStep DEF CheckoutInv
  <2>4. ShapeInv'  BY <2>1 DEF ShapeInv, CheckoutInv
  <2>5. ASSUME NEW q \in Procs  PROVE ProcOK(pc[q], call[q], seen[q], held[q], answer[q])'
    <3>1. PICK w, c, s, h, a : w = pc[q] /\ c = call[q] /\ s = seen[q] /\ h = held[q] /\ a = answer[q]
      OBVIOUS
    <3>2. ProcOK(w, c, s, h, a)  BY <3>1 DEF CheckoutInv
    <3>3. ProcOK(w, c, s, h, a)'  BY <2>1, <3>2, SameGrowth, ProcKept
    <3> QED  BY <2>1, <3>1, <3>3
  <2> QED  BY <2>1, <2>3, <2>4, <2>5 DEF CheckoutInv
<1>2. ASSUME NEW p \in Procs, Begin(p) \/ Step(p) \/ Disconnect(p) \/ Retry(p)  PROVE CheckoutInv'
  BY <1>2, BeginOK, StepOK, DisconnectOK, RetryOK
<1>3. CASE Around /\ UNCHANGED txVars
  BY <1>3, AroundOK
<1> QED  BY <1>1, <1>2, <1>3 DEF CheckoutNext

\* Whatever the calls, the locks taken and the values noted stay true to the tables.
THEOREM CheckoutInvariant == CheckoutSpec => []CheckoutInv
BY CheckoutInvInit, CheckoutInvStep, PTL DEF CheckoutSpec

\* Every process keeps within its program and answers with what it may.
THEOREM TxTypeCorrect == CheckoutSpec => []TxTypeOK
<1>1. CheckoutInv => TxTypeOK
  <2> SUFFICES ASSUME CheckoutInv  PROVE TxTypeOK
    OBVIOUS
  <2>1. \A p \in Procs : ProgramOK(pc[p], call[p], seen[p]) /\ LocksOK(pc[p], call[p], seen[p], held[p])
                         /\ AnswerOK(pc[p], call[p], answer[p])
    BY Facts
  <2>2. ShapeInv  BY DEF CheckoutInv
  <2>3. \A p \in Procs :
          /\ pc[p] \in {"idle", "replay?", "replay", "user", "address", "cart", "shelf",
                        "commit", "unique violation", "order", "refused", "done"}
          /\ call[p] \in CreateCalls \cup ApproveCalls \cup {NoCall}
    BY <2>1 DEF ProgramOK, Calls
  <2>4. \A p \in Procs : answer[p] \in OrderIds \cup Refusals \cup {"none"}
    BY <2>1 DEF AnswerOK
  <2>5. \A p \in Procs : pc[p] \in {"idle", "done", "refused", "unique violation"} => held[p] = {}
    BY <2>1 DEF LocksOK
  <2>6. /\ pc \in [Procs -> {"idle", "replay?", "replay", "user", "address", "cart", "shelf",
                             "commit", "unique violation", "order", "refused", "done"}]
        /\ call \in [Procs -> CreateCalls \cup ApproveCalls \cup {NoCall}]
        /\ answer \in [Procs -> OrderIds \cup Refusals \cup {"none"}]
    BY <2>2, <2>3, <2>4 DEF ShapeInv
  <2> QED  BY <2>5, <2>6 DEF TxTypeOK
<1> QED  BY <1>1, CheckoutInvariant, PTL

\* An order number that a client is told is its order under its key, made of its rows.
THEOREM AnswersTrue == CheckoutSpec => []AnswersAreTrue
<1>1. CheckoutInv => AnswersAreTrue
  BY DEF CheckoutInv, ProcOK, AnswerOK, AnswersAreTrue
<1> QED  BY <1>1, CheckoutInvariant, PTL

LEMMA Levels ==
  \A x : /\ Level(<<"order", x>>) = 1 /\ Level(<<"user", x>>) = 2 /\ Level(<<"address", x>>) = 3
         /\ Level(<<"cart", x>>) = 4 /\ Level(<<"product", x>>) = 5
<1> TAKE x
<1>1. Level(<<"order", x>>) = 1  BY DEF Level
<1>2. Level(<<"user", x>>) = 2  BY DEF Level
<1>3. Level(<<"address", x>>) = 3  BY DEF Level
<1>4. Level(<<"cart", x>>) = 4  BY DEF Level
<1>5. Level(<<"product", x>>) = 5  BY DEF Level
<1> QED  BY <1>1, <1>2, <1>3, <1>4, <1>5

LEMMA AscendingLocks ==
  ASSUME CheckoutInv, NEW p \in Procs, NEW row \in held[p], NEW w \in Wants(p)
  PROVE  Above(row, w)
<1> DEFINE c == call[p]
           s == seen[p]
<1>0. /\ ProgramOK(pc[p], c, s) /\ LocksOK(pc[p], c, s, held[p]) /\ ReadsOK(pc[p], c, s)
  BY Facts
<1>1. pc[p] \in {"replay", "user", "address", "cart", "shelf"}
  <2>1. pc[p] \in {"idle", "done", "commit", "refused", "unique violation"} => Wants(p) = {}
    BY DEF Wants
  <2>2. pc[p] \in {"replay?", "order"} => held[p] = {}
    BY <1>0 DEF LocksOK
  <2> QED  BY <1>0, <2>1, <2>2 DEF ProgramOK
<1>2. CASE pc[p] = "replay"
  <2>1. w = <<"address", c.address>> /\ <<"address", c.address>> \notin held[p]
    BY <1>2 DEF Wants
  <2>2. \E o \in OrderIds : row = <<"order", o>>
    BY <1>0, <1>2, <2>1 DEF LocksOK
  <2> QED  BY <2>1, <2>2, Levels DEF Above
<1>3. CASE pc[p] = "user"
  <2>1. \E u : w = <<"user", u>>
    BY <1>3 DEF Wants
  <2>2. row = <<"order", c.order>>
    BY <1>0, <1>3 DEF LocksOK
  <2> QED  BY <2>1, <2>2, Levels DEF Above
<1>4. CASE pc[p] = "address"
  <2>1. w = <<"address", c.address>>
    BY <1>4 DEF Wants
  <2>2. row = <<"user", c.user>>
    BY <1>0, <1>4 DEF LocksOK
  <2> QED  BY <2>1, <2>2, Levels DEF Above
<1>5. CASE pc[p] = "cart"
  <2>1. CartWanted(p) # {} /\ w = <<"cart", Least(CartWanted(p))>>
    BY <1>5 DEF Wants
  <2>2. PICK x : x = Least(CartWanted(p))  OBVIOUS
  <2>3. x \in Sought(c, s)
    BY <1>5, <2>1, <2>2, CartFacts, LeastFacts
  <2>4. \/ row \in Front(c)
        \/ \E y \in DOMAIN s.items : row = <<"cart", y>>
    BY <1>0, <1>5 DEF LocksOK, CartLocks
  <2>5. \A y \in DOMAIN s.items : y < x
    BY <1>0, <1>5, <2>3 DEF ReadsOK
  <2>6. Level(w) = 4 /\ w[2] = x
    BY <2>1, <2>2, Levels
  <2>7. CASE row \in Front(c)
    BY <2>6, <2>7, Levels DEF Front, Above
  <2>8. ASSUME NEW y \in DOMAIN s.items, row = <<"cart", y>>  PROVE Above(row, w)
    BY <2>5, <2>6, <2>8, Levels DEF Above
  <2> QED  BY <2>4, <2>7, <2>8
<1>6. CASE pc[p] = "shelf"
  <2>1. ShelfWanted(p) # {} /\ w = <<"product", Least(ShelfWanted(p))>>
    BY <1>6 DEF Wants
  <2>2. PICK x : x = Least(ShelfWanted(p))  OBVIOUS
  <2>3. x \in Goods(c, s) \ DOMAIN s.shelf
    BY <1>6, <2>1, <2>2, ShelfFacts, LeastFacts
  <2>4. \/ row \in ShelfLocks(DOMAIN s.shelf)
        \/ row \in Front(c) \cup CartLocks(c.rows)
        \/ row \in {<<"order", c.order>>, <<"user", s.row.user>>}
    BY <1>0, <1>6 DEF LocksOK
  <2>5. \A y \in DOMAIN s.shelf : y < x
    BY <1>0, <1>6, <2>3 DEF ReadsOK
  <2>6. Level(w) = 5 /\ w[2] = x
    BY <2>1, <2>2, Levels
  <2>7. CASE row \in Front(c) \cup CartLocks(c.rows)
    BY <2>6, <2>7, Levels DEF Front, CartLocks, Above
  <2>8. CASE row \in {<<"order", c.order>>, <<"user", s.row.user>>}
    BY <2>6, <2>8, Levels DEF Above
  <2>9. ASSUME NEW y \in DOMAIN s.shelf, row = <<"product", y>>  PROVE Above(row, w)
    BY <2>5, <2>6, <2>9, Levels DEF Above
  <2> QED  BY <2>4, <2>7, <2>8, <2>9 DEF ShelfLocks
<1> QED  BY <1>1, <1>2, <1>3, <1>4, <1>5, <1>6

\* Locks are exclusive and taken in the documented order: no cycle of waiters.
THEOREM LockOrderKept == CheckoutSpec => []LockOrderRespected
<1>1. CheckoutInv => LockOrderRespected
  <2> SUFFICES ASSUME CheckoutInv, NEW p \in Procs
               PROVE  /\ \A row \in held[p] : Free(row, p)
                      /\ \A row \in held[p], w \in Wants(p) : Above(row, w)
    BY DEF LockOrderRespected
  <2>1. \A row \in held[p] : Free(row, p)
    BY Facts DEF Free
  <2> QED  BY <2>1, AscendingLocks
<1> QED  BY <1>1, CheckoutInvariant, PTL

\* A row that is both wanted and locked has a place in the order.
Placed(row) == Level(row) \in 1..5 /\ (Level(row) \in {4, 5} => row[2] \in Nat)

LEMMA WantsPlaced ==
  ASSUME CheckoutInv, NEW p \in Procs, NEW w \in Wants(p)
  PROVE  Placed(w)
<1>0. ProgramOK(pc[p], call[p], seen[p]) /\ ReadsOK(pc[p], call[p], seen[p])
  BY Facts
<1>1. pc[p] \in {"replay?", "replay", "user", "address", "cart", "shelf", "order"}
  BY <1>0 DEF Wants, ProgramOK
<1>2. CASE pc[p] = "replay?"
  <2>1. \E o : w = <<"order", o>>  BY <1>2 DEF Wants
  <2> QED  BY <2>1, Levels DEF Placed
<1>3. CASE pc[p] \in {"replay", "address"}
  <2>1. w = <<"address", call[p].address>>  BY <1>3 DEF Wants
  <2> QED  BY <2>1, Levels DEF Placed
<1>4. CASE pc[p] = "user"
  <2>1. \E u : w = <<"user", u>>  BY <1>4 DEF Wants
  <2> QED  BY <2>1, Levels DEF Placed
<1>5. CASE pc[p] = "order"
  <2>1. w = <<"order", call[p].order>>  BY <1>5 DEF Wants
  <2> QED  BY <2>1, Levels DEF Placed
<1>6. CASE pc[p] = "cart"
  <2>1. CartWanted(p) # {} /\ w = <<"cart", Least(CartWanted(p))>>
    BY <1>6 DEF Wants
  <2>2. PICK x : x = Least(CartWanted(p))  OBVIOUS
  <2>3. x \in Nat
    BY <1>6, <2>1, <2>2, CartFacts, LeastFacts
  <2>4. Level(w) = 4 /\ w[2] = x  BY <2>1, <2>2, Levels
  <2> QED  BY <2>3, <2>4 DEF Placed
<1>7. CASE pc[p] = "shelf"
  <2>1. ShelfWanted(p) # {} /\ w = <<"product", Least(ShelfWanted(p))>>
    BY <1>7 DEF Wants
  <2>2. PICK x : x = Least(ShelfWanted(p))  OBVIOUS
  <2>3. x \in Nat
    BY <1>7, <2>1, <2>2, ShelfFacts, LeastFacts
  <2>4. Level(w) = 5 /\ w[2] = x  BY <2>1, <2>2, Levels
  <2> QED  BY <2>3, <2>4 DEF Placed
<1> QED  BY <1>1, <1>2, <1>3, <1>4, <1>5, <1>6, <1>7

\* The order of the locks is strict.
LEMMA AboveStrict ==
  ASSUME NEW r, NEW s, NEW t, Placed(r), Placed(s), Placed(t)
  PROVE  ~Above(r, r) /\ (Above(r, s) /\ Above(s, t) => Above(r, t))
<1>1. Level(r) \in 1..5 /\ Level(s) \in 1..5 /\ Level(t) \in 1..5
  BY DEF Placed
<1>2. PICK i \in 1..5, j \in 1..5, k \in 1..5 : i = Level(r) /\ j = Level(s) /\ k = Level(t)
  BY <1>1
<1>3. ~Above(r, r)  BY <1>2 DEF Above, Placed
<1>4. ASSUME Above(r, s), Above(s, t)  PROVE Above(r, t)
  <2>1. CASE i < k  BY <1>2, <2>1 DEF Above
  <2>2. CASE ~(i < k)
    <3>1. i = j /\ j = k /\ i \in {4, 5} /\ r[2] < s[2] /\ s[2] < t[2]
      BY <1>2, <1>4, <2>2 DEF Above
    <3>2. r[2] \in Nat /\ s[2] \in Nat /\ t[2] \in Nat
      BY <1>2, <3>1 DEF Placed
    <3>3. r[2] < t[2]  BY <3>1, <3>2
    <3> QED  BY <1>2, <3>1, <3>3 DEF Above
  <2> QED  BY <2>1, <2>2
<1> QED  BY <1>3, <1>4

\* A finite set of rows, ordered so, has one with none after it.
LEMMA LastRow ==
  ASSUME NEW R, IsFiniteSet(R), R # {}, \A r \in R : Placed(r)
  PROVE  \E r \in R : \A s \in R : ~Above(r, s)
<1> SUFFICES ASSUME \A r \in R : \E s \in R : Above(r, s)  PROVE FALSE
  OBVIOUS
<1> DEFINE B == {T \in SUBSET R : T # {} /\ \A r \in T : \E s \in T : Above(r, s)}
<1>1. PICK T \in B : \A U \in B : ~(U \subseteq T /\ U # T)
  <2>1. B \in SUBSET (SUBSET R) /\ R \in B  OBVIOUS
  <2> HIDE DEF B
  <2> QED  BY <2>1, LeastSubset
<1>2. PICK t \in T : TRUE  OBVIOUS
<1> DEFINE U == {s \in T : Above(t, s)}
<1>3. T \in SUBSET R /\ \A r \in T : Placed(r) /\ \E s \in T : Above(r, s)
  OBVIOUS
<1>4. U \subseteq T /\ t \notin U
  BY <1>2, <1>3, AboveStrict
<1>5. ASSUME NEW r \in U  PROVE \E s \in U : Above(r, s)
  <2>1. PICK s \in T : Above(r, s)  BY <1>3
  <2>2. Above(t, s)  BY <1>2, <1>3, <2>1, AboveStrict
  <2> QED  BY <2>1, <2>2
<1>6. U \in B
  <2>1. U # {}  BY <1>2, <1>3
  <2> QED  BY <1>3, <1>5, <2>1
<1> HIDE DEF B, U
<1> QED  BY <1>1, <1>2, <1>4, <1>6

\* The one of a group whose wanted row comes last waits for nobody in it: what
\* another holds comes before what that one wants.  Orders, replays and
\* refund approvals that meet on any rows never deadlock.
THEOREM NoCycleOfWaiters == CheckoutSpec => []NoCyclicWait
<1>1. CheckoutInv => NoCyclicWait
  <2> SUFFICES ASSUME CheckoutInv, NEW group \in (SUBSET Procs) \ {{}},
                      \A p \in group : \E q \in group \ {p} : Wants(p) \cap held[q] # {}
               PROVE  FALSE
    BY DEF NoCyclicWait
  <2> DEFINE Blocks(p, w) == w \in Wants(p) /\ \E q \in group \ {p} : w \in held[q]
             Pick(p) == CHOOSE w : Blocks(p, w)
             wish == [p \in group |-> Pick(p)]
             R == {wish[p] : p \in group}
  <2>1. ASSUME NEW p \in group  PROVE Blocks(p, wish[p])
    <3>1. \E w : Blocks(p, w)  OBVIOUS
    <3> HIDE DEF Blocks
    <3> QED  BY <3>1
  <2>0. wish = [p \in group |-> wish[p]]
    <3> HIDE DEF Pick
    <3> QED  OBVIOUS
  <2> HIDE DEF wish
  <2>2. \A r \in R : Placed(r)  BY <2>1, WantsPlaced
  <2>3. IsFiniteSet(R) /\ R # {}
    <3>1. IsFiniteSet(group)  BY ProcsAssumption, FS_Subset
    <3>2. R # {}  OBVIOUS
    <3>3. wish \in Surjection(group, R)  BY <2>0 DEF Surjection
    <3> HIDE DEF R
    <3> QED  BY <3>1, <3>2, <3>3, FS_Surjection
  <2>4. PICK r \in R : \A s \in R : ~Above(r, s)
    <3> HIDE DEF R
    <3> QED  BY <2>2, <2>3, LastRow
  <2>5. PICK p \in group : r = wish[p]  OBVIOUS
  <2>6. PICK q \in group : r \in held[q]  BY <2>1, <2>5
  <2>7. Above(r, wish[q])  BY <2>1, <2>6, AscendingLocks
  <2> QED  BY <2>4, <2>7
<1> QED  BY <1>1, CheckoutInvariant, PTL

-----------------------------------------------------------------------------
(* Refinement: every commit is a use case of Mall *)

LEMMA AtomicTotal ==
  \A lines : /\ Total(lines) = Atomic!Total(lines) /\ LineTotal(lines) = Atomic!LineTotal(lines)
             /\ Priced(lines) = Atomic!Priced(lines)
<1>1. \A lines : Total(lines) = Atomic!Total(lines)
  BY DEF Total, Atomic!Total, SumFunction, Atomic!SumFunction, SumFunctionOnSet, Atomic!SumFunctionOnSet,
         FoldFunctionOnSet, Atomic!FoldFunctionOnSet, MapThenFoldSet, Atomic!MapThenFoldSet,
         LineTotal, Atomic!LineTotal, Wrap, Atomic!Wrap
<1>2. \A line : LineTotal(line) = Atomic!LineTotal(line)
  BY DEF LineTotal, Atomic!LineTotal, Wrap, Atomic!Wrap
<1>3. \A lines : Priced(lines) = Atomic!Priced(lines)
  BY <1>1, <1>2 DEF Priced, Atomic!Priced
<1> QED  BY <1>1, <1>2, <1>3

\* The abstract use cases are those of Mall, with the same tables.
LEMMA AtomicNext == Next => Atomic!Next
<1>1. \A u, b : Login(u, b) => Atomic!Login(u, b)
  BY DEF Login, Atomic!Login, HasEvent, Atomic!HasEvent
<1>2. \A u, p, n : AddToCart(u, p, n) => Atomic!AddToCart(u, p, n)
  BY DEF AddToCart, Atomic!AddToCart, With, Atomic!With
<1>3. \A c, n : SetCartQuantity(c, n) => Atomic!SetCartQuantity(c, n)
  BY DEF SetCartQuantity, Atomic!SetCartQuantity
<1>4. \A c : RemoveFromCart(c) => Atomic!RemoveFromCart(c)
  BY DEF RemoveFromCart, Atomic!RemoveFromCart, Without, Atomic!Without
<1>5. \A u, a : CreateAddress(u, a) => Atomic!CreateAddress(u, a)
  BY DEF CreateAddress, Atomic!CreateAddress, With, Atomic!With
<1>6. \A a : EditAddress(a) => Atomic!EditAddress(a)
  BY DEF EditAddress, Atomic!EditAddress
<1>7. \A a : DeleteAddress(a) => Atomic!DeleteAddress(a)
  BY DEF DeleteAddress, Atomic!DeleteAddress, Without, Atomic!Without
<1>8. \A o, u, tok, rows, a : CreateOrder(o, u, tok, rows, a) => Atomic!CreateOrder(o, u, tok, rows, a)
  <2>1. \A rows, items, shelf : Lines(rows, items, shelf) = Atomic!Lines(rows, items, shelf)
    BY DEF Lines, Atomic!Lines
  <2>2. \A lines, shelf : Purchasable(lines, shelf) = Atomic!Purchasable(lines, shelf)
    BY DEF Purchasable, Atomic!Purchasable
  <2>3. \A lines, sign : Restock(lines, sign) = Atomic!Restock(lines, sign)
    BY DEF Restock, Atomic!Restock
  <2>4. \A u, key, d, adm : PostPoints(u, key, d, adm) = Atomic!PostPoints(u, key, d, adm)
    BY DEF PostPoints, Atomic!PostPoints, HasEvent, Atomic!HasEvent
  <2>5. \A u, tok : HasToken(u, tok) = Atomic!HasToken(u, tok)
    BY DEF HasToken, Atomic!HasToken
  <2>6. \A t, k, r : With(t, k, r) = Atomic!With(t, k, r)
    BY DEF With, Atomic!With
  <2>7. \A t, S : Without(t, S) = Atomic!Without(t, S)
    BY DEF Without, Atomic!Without
  <2>8. \A rows, lines, a, v : RequestHash(rows, lines, a, v) = Atomic!RequestHash(rows, lines, a, v)
    BY DEF RequestHash, Atomic!RequestHash
  <2>9. \A o, u, tok, rows, a, v, lines :
          PlaceOrder(o, u, tok, rows, a, v, lines) => Atomic!PlaceOrder(o, u, tok, rows, a, v, lines)
    <3> SUFFICES ASSUME NEW o, NEW u, NEW tok, NEW rows, NEW a, NEW v, NEW lines,
                        PlaceOrder(o, u, tok, rows, a, v, lines)
                 PROVE  Atomic!PlaceOrder(o, u, tok, rows, a, v, lines)
      OBVIOUS
    <3>1. /\ Total(lines) = Atomic!Total(lines) /\ Priced(lines) = Atomic!Priced(lines)
          /\ Purchasable(lines, products) = Atomic!Purchasable(lines, products)
          /\ Restock(lines, -1) = Atomic!Restock(lines, -1)
          /\ HasToken(u, tok) = Atomic!HasToken(u, tok)
          /\ Without(cart, rows) = Atomic!Without(cart, rows)
          /\ RequestHash(rows, lines, a, v) = Atomic!RequestHash(rows, lines, a, v)
      BY <2>2, <2>3, <2>5, <2>7, <2>8, AtomicTotal
    <3>2. \A k, d : PostPoints(u, k, d, NoAdmin) = Atomic!PostPoints(u, k, d, NoAdmin)
      BY <2>4
    <3>3. \A r : With(orders, o, r) = Atomic!With(orders, o, r)
      BY <2>6
    <3> QED  BY <3>1, <3>2, <3>3 DEF PlaceOrder, Atomic!PlaceOrder
  <2> QED  BY <2>1, <2>9 DEF CreateOrder, Atomic!CreateOrder
<1>9. \A o : Confirm(o) => Atomic!Confirm(o)
  BY DEF Confirm, Atomic!Confirm
<1>10. \A o : RequestRefund(o) => Atomic!RequestRefund(o)
  BY DEF RequestRefund, Atomic!RequestRefund
<1>11. \A adm, o : Ship(adm, o) => Atomic!Ship(adm, o)
  BY DEF Ship, Atomic!Ship, Success, Atomic!Success
<1>12. \A adm, o : ApproveRefund(adm, o) => Atomic!ApproveRefund(adm, o)
  BY DEF ApproveRefund, Atomic!ApproveRefund, Refund, Atomic!Refund, RefundFits, Atomic!RefundFits, PostPoints, Atomic!PostPoints, HasEvent, Atomic!HasEvent, Restock, Atomic!Restock, Success, Atomic!Success
<1>13. \A adm, o : RejectRefund(adm, o) => Atomic!RejectRefund(adm, o)
  BY DEF RejectRefund, Atomic!RejectRefund, Success, Atomic!Success
<1>14. \A adm, key, u, d : AdjustPoints(adm, key, u, d) => Atomic!AdjustPoints(adm, key, u, d)
  BY DEF AdjustPoints, Atomic!AdjustPoints, PostPoints, Atomic!PostPoints, HasEvent, Atomic!HasEvent, Success, Atomic!Success
<1>15. \A adm, o : ShipRefused(adm, o) => Atomic!ShipRefused(adm, o)
  BY DEF ShipRefused, Atomic!ShipRefused, RecordFailure, Atomic!RecordFailure, Failure, Atomic!Failure
<1>16. \A adm, o : ReviewRefused(adm, o) => Atomic!ReviewRefused(adm, o)
  BY DEF ReviewRefused, Atomic!ReviewRefused, RecordFailure, Atomic!RecordFailure, Failure, Atomic!Failure
<1>17. \A adm, u : AdjustRefused(adm, u) => Atomic!AdjustRefused(adm, u)
  BY DEF AdjustRefused, Atomic!AdjustRefused, RecordFailure, Atomic!RecordFailure, Failure, Atomic!Failure
<1>18. \A adm, p, row : UpdateProduct(adm, p, row) => Atomic!UpdateProduct(adm, p, row)
  BY DEF UpdateProduct, Atomic!UpdateProduct, Success, Atomic!Success
<1>19. Product = Atomic!Product  BY DEF Product, Atomic!Product
<1>20. BuyerNext => Atomic!BuyerNext
  BY <1>1, <1>2, <1>3, <1>4, <1>5, <1>6, <1>7, <1>8, <1>9, <1>10 DEF BuyerNext, Atomic!BuyerNext
<1>21. AdminNext => Atomic!AdminNext
  BY <1>11, <1>12, <1>13, <1>14, <1>15, <1>16, <1>17, <1>18, <1>19 DEF AdminNext, Atomic!AdminNext
<1> QED  BY <1>20, <1>21 DEF Next, Atomic!Next

LEMMA StepIsNext == CheckoutInv /\ [CheckoutNext]_checkoutVars => [Next]_vars
<1> SUFFICES ASSUME CheckoutInv, [CheckoutNext]_checkoutVars  PROVE Next \/ UNCHANGED vars
  OBVIOUS
<1>1. CASE UNCHANGED checkoutVars
  BY <1>1 DEF checkoutVars
<1>2. ASSUME NEW p \in Procs, Begin(p) \/ Step(p) \/ Disconnect(p) \/ Retry(p)
      PROVE  Next \/ UNCHANGED vars
  <2>1. CASE Begin(p) \/ Disconnect(p) \/ Retry(p)
    BY <2>1 DEF Begin, Disconnect, Retry, Reply
  <2>2. CASE LockForReplay(p) \/ ResolveReplay(p) \/ LockUser(p) \/ LockAddress(p)
    BY <2>2 DEF LockForReplay, ResolveReplay, LockUser, LockAddress, Reply
  <2>3. CASE LockCart(p) \/ LockShelf(p) \/ ResolveAfterConflict(p) \/ LockOrder(p)
    BY <2>3 DEF LockCart, LockShelf, ResolveAfterConflict, LockOrder, Reply
  <2>4. CASE Commit(p)
    <3>1. pc[p] = "commit" /\ call[p].kind = "create"  BY <2>4 DEF Commit
    <3>2. \/ UNCHANGED vars
          \/ \E o \in OrderIds :
               /\ PlaceOrder(o, call[p].user, call[p].token, call[p].rows, call[p].address,
                             seen[p].version, Lines(call[p].rows, seen[p].items, seen[p].shelf))
               /\ UNCHANGED <<addr, audit, cameFrom, supply>>
      BY <2>4 DEF Commit, Reply
    <3> QED  BY <3>1, <3>2, CreatesNow
  <2>5. CASE RecordRefusal(p)
    BY <2>5, RecordsNow DEF RecordRefusal
  <2>6. CASE CommitRefund(p)
    BY <2>6, RefundsNow DEF CommitRefund, Reply
  <2> QED  BY <1>2, <2>1, <2>2, <2>3, <2>4, <2>5, <2>6 DEF Step
<1>3. CASE Around /\ UNCHANGED txVars
  BY <1>3, AroundKeeps
<1> QED  BY <1>1, <1>2, <1>3 DEF CheckoutNext

\* Interleaved with whatever locks and retries, the tables change as the atomic use cases do.
THEOREM RefinesMall == CheckoutSpec => ImplementsMall
<1>1. CheckoutInv /\ [CheckoutNext]_checkoutVars => [Atomic!Next]_vars
  BY StepIsNext, AtomicNext
<1>2. CheckoutSpec => [][Atomic!Next]_vars
  BY <1>1, CheckoutInvariant, PTL DEF CheckoutSpec
<1> QED  BY <1>2 DEF ImplementsMall

\* The initial tables are those of Mall: every behaviour is one of its specification.
THEOREM RefinesMallSpec == CheckoutSpec => Spec
<1>1. CheckoutInit => Init
  BY DEF CheckoutInit
<1> QED  BY <1>1, StepIsNext, CheckoutInvariant, PTL DEF CheckoutSpec, Spec
-----------------------------------------------------------------------------
(* Duplicates *)

\* Of a repeated request whose order exists with the same content.
Repeated(p) ==
  /\ call[p].kind = "create" /\ OwnAddress(call[p])
  /\ \E o \in SameToken(call[p]) : ReplayHash(call[p], o) = orders[o].hash

Welcome(p, a) == a \in SameToken(call[p]) \cup {"lost"}

\* Step by step: what a process that ends its repeated request answers.
LEMMA RepeatedFacts ==
  ASSUME CheckoutInv, KeysInv, NEW p \in Procs, pc[p] # "idle", Repeated(p)
  PROVE  /\ \A o \in SameToken(call[p]) : ReplayHash(call[p], o) = orders[o].hash
         /\ SameToken(call[p]) # {}
         /\ call[p].user \in DOMAIN balance
         /\ call[p].rows \subseteq retired /\ call[p].rows # {}
         /\ call[p].rows \cap DOMAIN cart = {}
<1>1. PICK o \in SameToken(call[p]) : ReplayHash(call[p], o) = orders[o].hash
  BY DEF Repeated
<1>2. o \in DOMAIN orders /\ orders[o].user = call[p].user /\ orders[o].token = call[p].token
  BY DEF SameToken
<1>3. \A r \in SameToken(call[p]) : r = o
  BY <1>2 DEF KeysInv, SameToken
<1>4. orders[o].hash.rows = call[p].rows
  BY <1>1 DEF ReplayHash
<1>5. call[p].user \in DOMAIN balance /\ call[p].rows \subseteq retired
  BY <1>2, <1>4 DEF KeysInv
<1>6. call[p].rows # {} /\ call[p].rows \subseteq CartRows
  BY Facts, CallFacts DEF ProgramOK, Repeated
<1>7. retired \cap DOMAIN cart = {}
  BY DEF CheckoutInv, TypeOK
<1> QED  BY <1>1, <1>3, <1>5, <1>6, <1>7

\* The statement that answers a repeated request answers with its order.
LEMMA RepeatedAnswer ==
  ASSUME CheckoutInv, KeysInv, NEW p \in Procs, Repeated(p), pc[p] \notin {"idle", "done"},
         NEW a, Finish(p, a), Step(p)
  PROVE  Welcome(p, a)
<1>1. /\ \A o \in SameToken(call[p]) : ReplayHash(call[p], o) = orders[o].hash
      /\ SameToken(call[p]) # {} /\ call[p].user \in DOMAIN balance
      /\ call[p].rows # {} /\ call[p].rows \cap DOMAIN cart = {}
      /\ OwnAddress(call[p]) /\ call[p].kind = "create"
  BY RepeatedFacts DEF Repeated
<1>2. /\ pc'[p] = "done" /\ answer'[p] = a
      /\ ReadsOK(pc[p], call[p], seen[p]) /\ ProgramOK(pc[p], call[p], seen[p])
  BY Facts DEF Finish, CheckoutInv, ShapeInv
<1>3. \A b : Reply(p, b) => b = a
  <2>1. ASSUME NEW b, Reply(p, b)  PROVE answer'[p] = b
    BY <2>1 DEF Reply, Finish, CheckoutInv, ShapeInv
  <2> QED  BY <1>2, <2>1
<1>4. \A w : Goto(p, w) => w = "done"
  <2>1. ASSUME NEW w, Goto(p, w)  PROVE pc'[p] = w
    BY <2>1 DEF Goto, CheckoutInv, ShapeInv
  <2> QED  BY <1>2, <2>1
<1>5. CASE LockForReplay(p)  BY <1>4, <1>5 DEF LockForReplay
<1>6. CASE ResolveReplay(p)
  <2>1. pc[p] = "replay"  BY <1>6 DEF ResolveReplay
  <2>2. PICK o : o = seen[p].order  OBVIOUS
  <2>3. o \in SameToken(call[p]) /\ ReplayHash(call[p], o) = orders[o].hash
    BY <1>1, <1>2, <2>1, <2>2 DEF ReadsOK
  <2>4. Reply(p, o)  BY <1>1, <1>6, <2>2, <2>3 DEF ResolveReplay
  <2> QED  BY <1>3, <2>3, <2>4 DEF Welcome
<1>7. CASE LockUser(p)
  BY <1>1, <1>4, <1>7 DEF LockUser
<1>8. CASE LockAddress(p)
  BY <1>1, <1>4, <1>8 DEF LockAddress
<1>9. CASE LockCart(p)
  <2>1. pc[p] = "cart"  BY <1>9 DEF LockCart
  <2>2. CASE UNCHANGED pc  BY <1>2, <2>1, <2>2
  <2>3. CASE Goto(p, "shelf") \/ Goto(p, "replay")  BY <1>4, <2>3
  <2> QED  BY <1>1, <1>9, <2>2, <2>3 DEF LockCart
<1>10. CASE LockShelf(p)
  <2>1. pc[p] = "shelf"  BY <1>10 DEF LockShelf
  <2>2. CASE UNCHANGED pc  BY <1>2, <2>1, <2>2
  <2> QED  BY <1>4, <1>10, <2>2 DEF LockShelf
<1>11. CASE Commit(p)
  <2>1. pc[p] = "commit" /\ call[p].kind = "create"  BY <1>11 DEF Commit
  <2>2. \A x \in call[p].rows : x \in DOMAIN cart  BY <2>1, LinesNow
  <2> QED  BY <1>1, <2>2
<1>12. CASE ResolveAfterConflict(p)
  <2>1. PICK o \in SameToken(call[p]) :
          Reply(p, IF OwnAddress(call[p]) /\ ReplayHash(call[p], o) = orders[o].hash
                   THEN o ELSE "error")
    BY <1>12 DEF ResolveAfterConflict
  <2>2. Reply(p, o)  BY <1>1, <2>1
  <2> QED  BY <1>3, <2>2 DEF Welcome
<1>13. CASE LockOrder(p) \/ RecordRefusal(p) \/ CommitRefund(p)
  BY <1>1, <1>2, <1>13 DEF LockOrder, RecordRefusal, CommitRefund, ProgramOK
<1> QED  BY <1>5, <1>6, <1>7, <1>8, <1>9, <1>10, <1>11, <1>12, <1>13 DEF Step

\* A statement waits, goes on to the next, or ends the call with an answer.
Moves(p) ==
  \/ UNCHANGED pc
  \/ \E w : w # "done" /\ Goto(p, w)
  \/ \E a : Finish(p, a)

LEMMA StepMoves == ASSUME NEW p \in Procs, Step(p)  PROVE Moves(p)
<1>1. CASE LockForReplay(p)  BY <1>1 DEF LockForReplay, Moves
<1>2. CASE ResolveReplay(p)
  <2>1. \E b : Reply(p, b)  BY <1>2 DEF ResolveReplay
  <2> QED  BY <2>1 DEF Reply, Moves
<1>3. CASE LockUser(p)
  <2>1. \/ Goto(p, IF call[p].kind = "create" THEN "address" ELSE "shelf")
        \/ Reply(p, "rejected")
    BY <1>3 DEF LockUser
  <2> QED  BY <2>1 DEF Reply, Moves
<1>4. CASE LockAddress(p)  BY <1>4 DEF LockAddress, Reply, Moves
<1>5. CASE LockCart(p)  BY <1>5 DEF LockCart, Reply, Moves
<1>6. CASE LockShelf(p)  BY <1>6 DEF LockShelf, Moves
<1>7. CASE Commit(p)
  <2>1. \/ \E a : Finish(p, a) \/ Reply(p, a)
        \/ Rollback(p, "unique violation")
    BY <1>7 DEF Commit
  <2> QED  BY <2>1 DEF Reply, Rollback, Moves
<1>8. CASE ResolveAfterConflict(p)
  <2>1. \E b : Reply(p, b)  BY <1>8 DEF ResolveAfterConflict
  <2> QED  BY <2>1 DEF Reply, Moves
<1>9. CASE LockOrder(p)  BY <1>9 DEF LockOrder, Reply, Moves
<1>10. CASE RecordRefusal(p)  BY <1>10 DEF RecordRefusal, Moves
<1>11. CASE CommitRefund(p)
  <2>1. \E a : Finish(p, a) \/ Reply(p, a)  BY <1>11 DEF CommitRefund
  <2> QED  BY <2>1 DEF Reply, Moves
<1> QED  BY <1>1, <1>2, <1>3, <1>4, <1>5, <1>6, <1>7, <1>8, <1>9, <1>10, <1>11 DEF Step

\* A call ends with an answer of one of its own statements, or with none.
LEMMA CallEnds ==
  ASSUME CheckoutInv, [CheckoutNext]_checkoutVars, NEW p \in Procs,
         pc[p] \notin {"idle", "done"}, pc'[p] = "done"
  PROVE  \E a : Finish(p, a) /\ (Step(p) \/ a = "lost")
<1>1. pc = [q \in Procs |-> pc[q]]  BY DEF CheckoutInv, ShapeInv
<1>2. ~UNCHANGED pc  OBVIOUS
<1>3. PICK q \in Procs : Begin(q) \/ Step(q) \/ Disconnect(q) \/ Retry(q)
  BY <1>2 DEF CheckoutNext, checkoutVars, txVars
<1>4. \/ Begin(q) \/ Retry(q)
      \/ Disconnect(q) /\ Finish(q, "lost")
      \/ Step(q) /\ \E a : Finish(q, a)
      \/ Step(q) /\ \E w : w # "done" /\ Goto(q, w)
  BY <1>2, <1>3, StepMoves DEF Disconnect, Reply, Moves
<1>5. q = p
  <2>1. \E w : pc' = [pc EXCEPT ![q] = w]
    BY <1>4 DEF Begin, Retry, Serve, SendAgain, Goto, Finish
  <2> QED  BY <1>1, <2>1
<1>6. ~Begin(p) /\ ~Retry(p)  BY DEF Begin, Serve, Retry, SendAgain
<1>7. \A w : Goto(p, w) => w = "done"
  BY <1>1 DEF Goto
<1> QED  BY <1>4, <1>5, <1>6, <1>7

\* However the calls interleave, a buyer who repeats an order request for which
\* the order exists is given that order or loses the answer; never is told
\* that the cart is empty, the stock gone, the points spent or the key taken.
THEOREM DuplicatesWelcome == CheckoutSpec => DuplicateNeverRefused
<1> DEFINE Answers ==
      \A p \in Procs :
        /\ pc[p] \notin {"idle", "done"} /\ pc'[p] = "done"
        /\ call[p].kind = "create" /\ OwnAddress(call[p])
        /\ \E o \in SameToken(call[p]) : ReplayHash(call[p], o) = orders[o].hash
        => answer'[p] \in SameToken(call[p]) \cup {"lost"}
<1>1. CheckoutInv /\ KeysInv /\ [CheckoutNext]_checkoutVars => [Answers]_checkoutVars
  <2> SUFFICES ASSUME CheckoutInv, KeysInv, [CheckoutNext]_checkoutVars, NEW p \in Procs,
                      pc[p] \notin {"idle", "done"}, pc'[p] = "done", Repeated(p)
               PROVE  Welcome(p, answer'[p])
    BY DEF Repeated, Welcome
  <2>1. PICK a : Finish(p, a) /\ (Step(p) \/ a = "lost")  BY CallEnds
  <2>2. answer'[p] = a  BY <2>1 DEF Finish, CheckoutInv, ShapeInv
  <2>3. Welcome(p, a)  BY <2>1, RepeatedAnswer DEF Welcome
  <2> QED  BY <2>2, <2>3
<1>2. CheckoutSpec => []KeysInv
  BY RefinesMallSpec, KeysNameOneOrder, PTL
<1>3. CheckoutSpec => [][Answers]_checkoutVars
  BY <1>1, <1>2, CheckoutInvariant, PTL DEF CheckoutSpec
<1> QED  BY <1>3 DEF DuplicateNeverRefused

-----------------------------------------------------------------------------
(* Interleaved transactions keep what the atomic use cases promise *)

\* Through the refinement, Mall's invariants hold however the statements of
\* checkouts and refund approvals, their aborts and their retries mix.
THEOREM PromisesKept ==
  CheckoutSpec => [](/\ LedgerReconciles /\ ChargedAndRefunded /\ PointsConserved
                     /\ StampsMatchStatus /\ StockConserved /\ AuditAgrees)
BY RefinesMallSpec, Reconciles, ChargesCorrect, PointsCorrect, StampsCorrect, StockCorrect,
   AuditCorrect, PTL
=============================================================================
