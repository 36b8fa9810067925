------------------------- MODULE AdminAccountProofs -------------------------
(* Theorems about AdminAccount, for every value of its constants. *)
EXTENDS AdminAccount, SumProofs

Kinds == {"login", "logout", "password", "enable", "disable"}

Call ==
  [kind : {"login"}, password : Passwords, ip : Ips]
    \cup [kind : {"logout"}, token : Token]
    \cup [kind : {"password"}, token : Token, old : Passwords, new : Passwords]
    \cup [kind : {"enable", "disable"}]

\* Whoever serves a call has read an account.
CallsInv ==
  \A p \in Procs :
    /\ pc[p] # "idle" => call[p] \in Call
    /\ pc[p] \notin {"idle", "forget"} => seen[p] \in Account

TablesInv ==
  /\ call \in [Procs -> Call \cup {NoCall}]
  /\ seen \in [Procs -> Account \cup {NoCall}]
  /\ held \in [Procs -> SUBSET {Row}]
  /\ CallsInv

AccountInv == AccountTypeOK /\ TablesInv

-----------------------------------------------------------------------------
(* Operators *)

\* An UPDATE leaves an account.
LEMMA UpdatedType ==
  ASSUME NEW r \in Account, NEW c \in Call, NEW s \in Account
  PROVE  Updated(r, c, s) \in Account
<1>1. c.kind \in Kinds  BY DEF Call, Kinds
<1>2. CASE c.kind = "enable"
  <2> PICK on \in BOOLEAN : on = TRUE  OBVIOUS
  <2>1. Updated(r, c, s) = [version |-> r.version, enabled |-> on, password |-> r.password]
    BY <1>2 DEF Updated, Account
  <2>2. r.version \in Nat /\ r.password \in Passwords  BY DEF Account
  <2> QED  BY <2>1, <2>2 DEF Account
<1>3. CASE c.kind = "disable"
  <2> PICK on \in BOOLEAN : on = FALSE  OBVIOUS
  <2>1. Updated(r, c, s) = [version |-> s.version + 1, enabled |-> on, password |-> r.password]
    BY <1>3 DEF Updated, Account
  <2>2. s.version + 1 \in Nat /\ r.password \in Passwords  BY DEF Account
  <2> QED  BY <2>1, <2>2 DEF Account
<1>4. CASE c.kind = "logout"  BY <1>4 DEF Updated, Account
<1>5. CASE c.kind = "password"
  <2>1. Updated(r, c, s) = [version |-> s.version + 1, enabled |-> r.enabled, password |-> c.new]
    BY <1>5 DEF Updated, Account
  <2>2. c.new \in Passwords /\ s.version + 1 \in Nat /\ r.enabled \in BOOLEAN
    BY <1>5 DEF Call, Account
  <2> QED  BY <2>1, <2>2 DEF Account
<1>6. CASE c.kind = "login"  BY <1>6 DEF Updated, Account
<1> QED  BY <1>1, <1>2, <1>3, <1>4, <1>5, <1>6 DEF Kinds

\* Only the calls that ask for it change whether the account is enabled.
LEMMA UpdatedEnabled ==
  ASSUME NEW r \in Account, NEW c \in Call, NEW s \in Account, Updated(r, c, s).enabled # r.enabled
  PROVE  c.kind = IF Updated(r, c, s).enabled THEN "enable" ELSE "disable"
<1>1. c.kind \in Kinds  BY DEF Call, Kinds
<1>2. CASE c.kind = "enable"  BY <1>2 DEF Updated, Account
<1>3. CASE c.kind = "disable"  BY <1>3 DEF Updated, Account
<1>4. CASE c.kind = "logout"  BY <1>4 DEF Updated, Account
<1>5. CASE c.kind = "password"  BY <1>5 DEF Updated, Account
<1>6. CASE c.kind = "login"  BY <1>6 DEF Updated, Account
<1> QED  BY <1>1, <1>2, <1>3, <1>4, <1>5, <1>6 DEF Kinds

\* A charged window began by now.
LEMMA ChargedType ==
  ASSUME clock \in Nat, NEW b \in [started : 0..clock, count : Nat]
  PROVE  Charged(b) \in [started : 0..clock, count : Nat]
BY DEF Charged

-----------------------------------------------------------------------------
(* The invariant *)

LEMMA InitInv == AccountInit => AccountInv
<1> SUFFICES ASSUME AccountInit  PROVE AccountInv  OBVIOUS
<1>1. overwritten \in BOOLEAN  BY Zenon DEF AccountInit
<1>2. AccountTypeOK
  BY <1>1, AccountAssumption
     DEF AccountInit, TxInit, AccountTypeOK, Account, Token, NoBucket
<1>3. TablesInv
  BY AccountAssumption DEF AccountInit, TxInit, TablesInv, CallsInv, Account
<1> QED  BY <1>2, <1>3 DEF AccountInv

\* The end of a call, with or without success.
LEMMA EndInv ==
  ASSUME AccountInv, NEW p \in Procs, End(p), UNCHANGED limiter,
         row' \in Account, issued' \subseteq Token, left' \subseteq Nat, overwritten' \in BOOLEAN
  PROVE  AccountInv'
<1>1. AccountTypeOK'
  BY DEF AccountInv, AccountTypeOK, TablesInv, End, Goto, limiter
<1>2. TablesInv'
  BY DEF AccountInv, AccountTypeOK, TablesInv, CallsInv, End, Goto
<1> QED  BY <1>1, <1>2 DEF AccountInv

\* A call that is served.
LEMMA ServeInv ==
  ASSUME AccountInv, NEW p \in Procs, NEW c \in Call, NEW first \in {"guard", "lookup"},
         Serve(p, c, first, row), UNCHANGED <<row, issued, left, overwritten, clock>>,
         buckets' \in [{"account"} \cup Ips -> [started : 0..clock, count : Nat]],
         guesses' \in [0..MaxClock -> Nat]
  PROVE  AccountInv'
<1>1. AccountTypeOK'
  BY DEF AccountInv, AccountTypeOK, TablesInv, Serve, Goto
<1>2. TablesInv'
  BY DEF AccountInv, AccountTypeOK, TablesInv, CallsInv, Serve, Goto
<1> QED  BY <1>1, <1>2 DEF AccountInv

LEMMA LoginInv ==
  ASSUME AccountInv, NEW p \in Procs, Login(p)
  PROVE  AccountInv'
<1>1. PICK password \in Passwords, ip \in Ips :
        /\ buckets' = [b \in DOMAIN buckets |->
                         IF b = "account" \/ (b = ip /\ HasRoom(buckets[ip], IpLimit))
                         THEN Charged(buckets[b]) ELSE buckets[b]]
        /\ \/ /\ Serve(p, [kind |-> "login", password |-> password, ip |-> ip], "lookup", row)
              /\ guesses' = [guesses EXCEPT ![clock] = @ + 1]
           \/ UNCHANGED <<guesses, txVars>>
        /\ UNCHANGED <<row, issued, left, overwritten, clock>>
  BY DEF Login
<1>2. /\ clock \in 0..MaxClock /\ clock \in Nat
      /\ buckets \in [{"account"} \cup Ips -> [started : 0..clock, count : Nat]]
      /\ guesses \in [0..MaxClock -> Nat]
  BY AccountAssumption DEF AccountInv, AccountTypeOK
<1>3. buckets' \in [{"account"} \cup Ips -> [started : 0..clock, count : Nat]]
  BY <1>1, <1>2, ChargedType
<1>4. CASE UNCHANGED <<guesses, txVars>>
  BY <1>1, <1>3, <1>4
     DEF AccountInv, AccountTypeOK, TablesInv, CallsInv, txVars
<1>5. CASE Serve(p, [kind |-> "login", password |-> password, ip |-> ip], "lookup", row)
           /\ guesses' = [guesses EXCEPT ![clock] = @ + 1]
  <2>1. [kind |-> "login", password |-> password, ip |-> ip] \in Call
    BY DEF Call
  <2>2. guesses' \in [0..MaxClock -> Nat]
    BY <1>2, <1>5
  <2> QED  BY <1>1, <1>3, <1>5, <2>1, <2>2, ServeInv
<1> QED  BY <1>1, <1>4, <1>5

LEMMA BeginInv ==
  ASSUME AccountInv, NEW p \in Procs, Begin(p)
  PROVE  AccountInv'
<1>1. PICK c \in Calls :
        /\ Serve(p, c, IF c.kind \in {"logout", "password"} THEN "guard" ELSE "lookup", row)
        /\ UNCHANGED <<row, issued, left, overwritten, limiter>>
  BY DEF Begin
<1>2. c \in Call
  BY DEF Calls, Call, AccountInv, AccountTypeOK
<1> QED
  BY <1>1, <1>2, ServeInv DEF limiter, AccountInv, AccountTypeOK

\* A statement in the middle of a call: it reads, or takes the row.
LEMMA MiddleInv ==
  ASSUME AccountInv, NEW p \in Procs, pc[p] # "idle", NEW next \in {"lookup", "write", "commit", "forget"},
         Goto(p, next), UNCHANGED <<call, answer, limiter>>,
         row' \in Account, issued' \subseteq Token, left' \subseteq Nat, overwritten' \in BOOLEAN,
         seen' \in [Procs -> Account \cup {NoCall}],
         \A q \in Procs \ {p} : seen'[q] = seen[q],
         next # "forget" => seen'[p] \in Account,
         held' \in [Procs -> SUBSET {Row}],
         \A q \in Procs \ {p} : held'[q] = held[q],
         next # "commit" => held'[p] = {}
  PROVE  AccountInv'
<1>1. AccountTypeOK'
  BY DEF AccountInv, AccountTypeOK, TablesInv, Goto, limiter
<1>2. TablesInv'
  BY DEF AccountInv, AccountTypeOK, TablesInv, CallsInv, Goto
<1> QED  BY <1>1, <1>2 DEF AccountInv

LEMMA GuardInv == ASSUME AccountInv, NEW p \in Procs, Guard(p)  PROVE AccountInv'
<1>1. CASE Goto(p, "lookup") /\ UNCHANGED <<row, issued, left, overwritten, limiter, call, seen, held, answer>>
  BY <1>1, MiddleInv DEF Guard, AccountInv, AccountTypeOK, TablesInv, CallsInv
<1>2. CASE Reply(p)
  BY <1>2, EndInv DEF Reply, AccountInv, AccountTypeOK
<1> QED  BY <1>1, <1>2 DEF Guard

LEMMA LookupInv == ASSUME AccountInv, NEW p \in Procs, Lookup(p)  PROVE AccountInv'
<1>1. CASE Refused(call[p]) /\ Reply(p)
  BY <1>1, EndInv DEF Reply, AccountInv, AccountTypeOK
<1>2. CASE /\ seen' = [seen EXCEPT ![p] = row]
           /\ \E next \in {"write", "commit"} : Goto(p, next)
           /\ UNCHANGED <<row, issued, left, overwritten, limiter, call, held, answer>>
  BY <1>2, MiddleInv DEF Lookup, AccountInv, AccountTypeOK, TablesInv, CallsInv
<1> QED  BY <1>1, <1>2 DEF Lookup

LEMMA LockRowInv == ASSUME AccountInv, NEW p \in Procs, LockRow(p)  PROVE AccountInv'
BY MiddleInv DEF LockRow, Lock, AccountInv, AccountTypeOK, TablesInv, CallsInv

LEMMA CommitInv == ASSUME AccountInv, NEW p \in Procs, Commit(p)  PROVE AccountInv'
<1>1. pc[p] = "commit" /\ call[p] \in Call /\ seen[p] \in Account /\ row \in Account
  BY DEF Commit, AccountInv, AccountTypeOK, TablesInv, CallsInv
<1>2. row' \in Account
  BY <1>1, UpdatedType DEF Commit
<1>3. left' \subseteq Nat
  BY <1>1 DEF Commit, Account, AccountInv, AccountTypeOK
<1>4. issued' \subseteq Token
  <2>1. ASSUME call[p].kind = "login"
        PROVE  [version |-> seen[p].version, password |-> call[p].password] \in Token
    BY <1>1, <2>1 DEF Call, Account, Token
  <2> QED  BY <2>1 DEF Commit, AccountInv, AccountTypeOK
<1>5. CASE End(p)
  BY <1>2, <1>3, <1>4, <1>5, EndInv DEF Commit
<1>6. CASE Rollback(p, "forget")
  BY <1>1, <1>2, <1>3, <1>4, <1>6, MiddleInv
     DEF Commit, Rollback, AccountInv, AccountTypeOK, TablesInv
<1> QED  BY <1>5, <1>6 DEF Commit

LEMMA ForgetInv == ASSUME AccountInv, NEW p \in Procs, Forget(p)  PROVE AccountInv'
<1>1. AccountTypeOK'
  BY AccountAssumption
     DEF Forget, End, Goto, AccountInv, AccountTypeOK, TablesInv, NoBucket
<1>2. TablesInv'
  BY DEF Forget, End, Goto, AccountInv, AccountTypeOK, TablesInv, CallsInv
<1> QED  BY <1>1, <1>2 DEF AccountInv

LEMMA TickInv == ASSUME AccountInv, Tick  PROVE AccountInv'
<1>1. clock \in Nat /\ MaxClock \in Nat /\ clock' = clock + 1 /\ clock' \in 0..MaxClock
  BY AccountAssumption DEF Tick, AccountInv, AccountTypeOK
<1>2. buckets' \in [{"account"} \cup Ips -> [started : 0..clock', count : Nat]]
  BY <1>1 DEF Tick, AccountInv, AccountTypeOK
<1>3. AccountTypeOK'
  BY <1>1, <1>2 DEF Tick, AccountInv, AccountTypeOK, txVars
<1>4. TablesInv'
  BY DEF Tick, AccountInv, TablesInv, CallsInv, txVars
<1> QED  BY <1>3, <1>4 DEF AccountInv

LEMMA StepInv == ASSUME AccountInv, [AccountNext]_accountVars  PROVE AccountInv'
<1>1. ASSUME NEW p \in Procs, Disconnect(p)  PROVE AccountInv'
  BY <1>1, EndInv DEF Disconnect, Reply, AccountInv, AccountTypeOK
<1>2. ASSUME UNCHANGED accountVars  PROVE AccountInv'
  BY <1>2 DEF accountVars, txVars, AccountInv, AccountTypeOK, TablesInv, CallsInv
<1> QED
  BY <1>1, <1>2, LoginInv, BeginInv, GuardInv, LookupInv, LockRowInv, CommitInv, ForgetInv, TickInv
     DEF AccountNext

LEMMA AccountCorrect == AccountSpec => []AccountInv
BY InitInv, StepInv, PTL DEF AccountSpec

-----------------------------------------------------------------------------
(* Theorems *)

\* Every process keeps within its program, and every lock is given back.
THEOREM AccountTypeCorrect == AccountSpec => []AccountTypeOK
<1>1. AccountInv => AccountTypeOK  BY DEF AccountInv
<1> QED  BY <1>1, AccountCorrect, PTL

\* The account is only closed or reopened by a call that asked for it.
THEOREM EnabledByRequest == AccountSpec => EnabledOnPurpose
<1> DEFINE OnPurpose ==
      row'.enabled # row.enabled =>
        \E p \in Procs :
          /\ pc[p] = "commit" /\ pc'[p] = "idle"
          /\ call[p].kind = (IF row'.enabled THEN "enable" ELSE "disable")
<1>1. ASSUME AccountInv, [AccountNext]_accountVars  PROVE [OnPurpose]_accountVars
  <2> SUFFICES ASSUME AccountNext, row'.enabled # row.enabled  PROVE OnPurpose
    BY <1>1
  <2>1. PICK p \in Procs : Commit(p)
    BY DEF AccountNext, Login, Begin, Guard, Reply, Lookup, LockRow, Forget, Tick, Disconnect
  <2>2. /\ pc[p] = "commit" /\ call[p] \in Call /\ seen[p] \in Account /\ row \in Account
        /\ pc \in [Procs -> {"idle", "guard", "lookup", "write", "commit", "forget"}]
    BY <1>1, <2>1 DEF Commit, AccountInv, AccountTypeOK, TablesInv, CallsInv
  <2>3. row' = Updated(row, call[p], seen[p])
    BY <2>1 DEF Commit
  <2>4. call[p].kind = IF row'.enabled THEN "enable" ELSE "disable"
    BY <2>2, <2>3, UpdatedEnabled
  <2>5. End(p)
    BY <2>1, <2>4 DEF Commit
  <2> QED  BY <2>2, <2>4, <2>5 DEF End, Goto
<1> QED  BY <1>1, AccountCorrect, PTL DEF AccountSpec, EnabledOnPurpose

-----------------------------------------------------------------------------
(* Sessions: what no lost update breaks *)

Busy(p) == pc[p] \in {"write", "commit"}

\* The versions that the row has or had.
Used == left \cup {row.version}

\* A busy process read a version that the row had, and a login knew its
\* password.
ReadInv(p) ==
  Busy(p) =>
    /\ seen[p].version \in Used
    /\ call[p].kind = "login" => call[p].password = seen[p].password

\* Whoever read the version of now read the password of now.
CurrentInv(p) ==
  Busy(p) /\ seen[p].version = row.version => seen[p].password = row.password

\* As long as nothing is overwritten, the versions left are older than the
\* row's, and the password goes with the version.
OrderedInv ==
  /\ \A v \in left : v < row.version
  /\ \A p \in Procs : CurrentInv(p)
  /\ \A t \in issued : t.version = row.version => t.password = row.password

SessionInv ==
  /\ \A p \in Procs : ReadInv(p)
  /\ \A t \in issued : t.version \in Used
  /\ ~overwritten => OrderedInv

LEMMA SessionInit == AccountInit => SessionInv
BY DEF AccountInit, TxInit, SessionInv, ReadInv, CurrentInv, OrderedInv, Busy

\* A statement that leaves the tables and the reads of the others alone.
LEMMA QuietSession ==
  ASSUME AccountInv, SessionInv, NEW p \in Procs, UNCHANGED <<row, issued, left, overwritten>>,
         \A q \in Procs \ {p} : pc'[q] = pc[q] /\ call'[q] = call[q] /\ seen'[q] = seen[q],
         Busy(p)' => \/ Busy(p) /\ call'[p] = call[p] /\ seen'[p] = seen[p]
                     \/ seen'[p] = row /\ (call'[p].kind = "login" => call'[p].password = row.password)
  PROVE  SessionInv'
<1>1. ASSUME NEW q \in Procs  PROVE ReadInv(q)' /\ (CurrentInv(q) => CurrentInv(q)')
  <2>1. CASE q # p  BY <2>1 DEF SessionInv, ReadInv, CurrentInv, Busy, Used
  <2>2. CASE q = p  BY <2>2 DEF SessionInv, ReadInv, CurrentInv, Busy, Used
  <2> QED  BY <2>1, <2>2
<1>2. OrderedInv => OrderedInv'  BY <1>1 DEF OrderedInv
<1>3. \A t \in issued' : t.version \in Used'  BY DEF SessionInv, Used
<1>4. ~overwritten' => ~overwritten  OBVIOUS
<1> QED  BY <1>1, <1>2, <1>3, <1>4 DEF SessionInv

\* Only an overwriting commit, or one that goes on from overwritten versions to
\* one that was used before, leaves a mark.
LEMMA NothingLost ==
  ASSUME NEW p \in Procs, Commit(p), ~overwritten'
  PROVE  /\ ~Overwrites(p)
         /\ ~overwritten \/ \A v \in Used : ~(row'.version <= v)
<1>1. overwritten' = \/ Overwrites(p)
                     \/ overwritten /\ \E v \in left \cup {row.version} : row'.version <= v
  BY DEF Commit
<1> QED  BY <1>1, Zenon DEF Used

\* A commit moves the version on from the one that it read, or leaves both the
\* version and the password.
LEMMA CommitMoves ==
  ASSUME AccountInv, NEW p \in Procs, Commit(p)
  PROVE  \/ row'.version = row.version /\ row'.password = row.password
         \/ /\ Row \in held[p] /\ call[p].kind \in {"logout", "password", "disable"}
            /\ row'.version = seen[p].version + 1 /\ issued' = issued
<1>1. call[p] \in Call /\ seen[p] \in Account /\ row \in Account
  BY DEF Commit, AccountInv, AccountTypeOK, TablesInv, CallsInv
<1>2. CASE Row \notin held[p]  BY <1>2 DEF Commit
<1>3. CASE Row \in held[p]
  <2>1. row' = Updated(row, call[p], seen[p])  BY <1>3 DEF Commit
  <2>2. call[p].kind \in Kinds  BY <1>1 DEF Call, Kinds
  <2>3. CASE call[p].kind = "enable"  BY <1>1, <2>1, <2>3 DEF Updated, Account
  <2>4. CASE call[p].kind = "login"  BY <1>1, <2>1, <2>4 DEF Updated
  <2>5. CASE call[p].kind = "disable"  BY <1>1, <1>3, <2>1, <2>5 DEF Updated, Account, Commit
  <2>6. CASE call[p].kind = "logout"  BY <1>1, <1>3, <2>1, <2>6 DEF Updated, Account, Commit
  <2>7. CASE call[p].kind = "password"  BY <1>1, <1>3, <2>1, <2>7 DEF Updated, Account, Commit
  <2> QED  BY <2>2, <2>3, <2>4, <2>5, <2>6, <2>7 DEF Kinds
<1> QED  BY <1>2, <1>3

\* The commit of any call, whatever overlaps with it.
LEMMA CommitSession ==
  ASSUME AccountInv, SessionInv, NEW p \in Procs, Commit(p)
  PROVE  SessionInv'
<1>1. /\ pc[p] = "commit" /\ call[p] \in Call /\ seen[p] \in Account /\ row \in Account
      /\ pc \in [Procs -> {"idle", "guard", "lookup", "write", "commit", "forget"}]
      /\ issued \subseteq Token /\ left \subseteq Nat
  BY DEF Commit, AccountInv, AccountTypeOK, TablesInv, CallsInv
<1>2. \A q \in Procs \ {p} : pc'[q] = pc[q] /\ call'[q] = call[q] /\ seen'[q] = seen[q]
  <2>1. CASE End(p)  BY <1>1, <2>1 DEF End, Goto, AccountInv, TablesInv
  <2>2. CASE Rollback(p, "forget")  BY <1>1, <2>2 DEF Rollback, Goto, AccountInv, TablesInv
  <2> QED  BY <2>1, <2>2 DEF Commit
<1>3. ~Busy(p)'
  BY <1>1 DEF Commit, Rollback, End, Goto, Busy
<1>4. row.version \in Nat /\ seen[p].version \in Nat /\ row' \in Account /\ row'.version \in Nat
  BY <1>1, UpdatedType DEF Account, Commit
<1>5. ReadInv(p)  BY DEF SessionInv
<1>6. Used \subseteq Used' /\ left' \subseteq Used  BY DEF Commit, Used
<1>7. \A q \in Procs : ReadInv(q)'
  BY <1>2, <1>3, <1>6 DEF SessionInv, ReadInv, Busy
<1>8. \A t \in issued' : t \in issued \/ (/\ call[p].kind = "login"
                                           /\ t.version = seen[p].version /\ t.password = seen[p].password)
  BY <1>1, <1>5 DEF Commit, ReadInv, Busy
<1>9. \A t \in issued' : t.version \in Used'
  BY <1>1, <1>5, <1>6, <1>8 DEF SessionInv, ReadInv, Busy
<1>10. ASSUME ~overwritten'  PROVE OrderedInv'
  <2>1. /\ ~Overwrites(p)
        /\ ~overwritten \/ \A v \in Used : ~(row'.version <= v)
    BY <1>10, NothingLost
  <2>2. CASE row'.version = row.version /\ row'.password = row.password
    <3>1. ~overwritten
      <4>1. row.version \in Used /\ row'.version <= row.version  BY <1>4, <2>2 DEF Used
      <4> QED  BY <2>1, <4>1
    <3>2. OrderedInv  BY <3>1 DEF SessionInv
    <3>3. left' = left  BY <2>2 DEF Commit
    <3>4. \A q \in Procs : CurrentInv(q)'
      BY <1>2, <1>3, <2>2, <3>2 DEF OrderedInv, CurrentInv, Busy
    <3>5. \A t \in issued' : t.version = row.version => t.password = row.password
      BY <1>1, <1>8, <3>2 DEF OrderedInv, CurrentInv, Busy
    <3> QED  BY <2>2, <3>2, <3>3, <3>4, <3>5 DEF OrderedInv
  <2>3. CASE /\ Row \in held[p] /\ call[p].kind \in {"logout", "password", "disable"}
             /\ row'.version = seen[p].version + 1 /\ issued' = issued
    <3>1. row'.version = row.version + 1
      BY <2>1, <2>3 DEF Overwrites
    <3>2. \A v \in Used : v < row'.version
      <4>1. CASE ~overwritten
        BY <1>1, <1>4, <3>1, <4>1 DEF SessionInv, OrderedInv, Used
      <4>2. CASE \A v \in Used : ~(row'.version <= v)
        BY <1>1, <1>4, <4>2 DEF Used
      <4> QED  BY <2>1, <4>1, <4>2
    <3>3. \A v \in Used : v # row'.version
      BY <1>1, <1>4, <3>2 DEF Used
    <3>4. \A q \in Procs : CurrentInv(q)'
      BY <1>2, <1>3, <3>3 DEF SessionInv, ReadInv, CurrentInv, Busy
    <3>5. \A t \in issued' : t.version # row'.version
      BY <2>3, <3>3 DEF SessionInv
    <3>6. \A v \in left' : v < row'.version
      BY <1>6, <3>2
    <3> QED  BY <3>4, <3>5, <3>6 DEF OrderedInv
  <2> QED  BY <2>2, <2>3, CommitMoves
<1> QED  BY <1>7, <1>9, <1>10 DEF SessionInv

\* The call of p is over.
LEMMA EndSession ==
  ASSUME AccountInv, SessionInv, NEW p \in Procs, End(p), UNCHANGED <<row, issued, left, overwritten>>
  PROVE  SessionInv'
<1>1. /\ pc \in [Procs -> {"idle", "guard", "lookup", "write", "commit", "forget"}]
      /\ call \in [Procs -> Call \cup {NoCall}] /\ seen \in [Procs -> Account \cup {NoCall}]
  BY DEF AccountInv, AccountTypeOK, TablesInv
<1>2. \A q \in Procs \ {p} : pc'[q] = pc[q] /\ call'[q] = call[q] /\ seen'[q] = seen[q]
  BY <1>1 DEF End, Goto
<1>3. ~Busy(p)'  BY <1>1 DEF End, Goto, Busy
<1> QED  BY <1>2, <1>3, QuietSession

\* A step that moves p outside of its transaction.
LEMMA OutsideSession ==
  ASSUME AccountInv, SessionInv, NEW p \in Procs, UNCHANGED <<row, issued, left, overwritten>>,
         NEW c, NEW s, NEW w \in {"guard", "lookup"},
         pc' = [pc EXCEPT ![p] = w], call' = [call EXCEPT ![p] = c], seen' = [seen EXCEPT ![p] = s]
  PROVE  SessionInv'
<1>1. /\ pc \in [Procs -> {"idle", "guard", "lookup", "write", "commit", "forget"}]
      /\ call \in [Procs -> Call \cup {NoCall}] /\ seen \in [Procs -> Account \cup {NoCall}]
  BY DEF AccountInv, AccountTypeOK, TablesInv
<1>2. \A q \in Procs \ {p} : pc'[q] = pc[q] /\ call'[q] = call[q] /\ seen'[q] = seen[q]
  BY <1>1
<1>3. ~Busy(p)'  BY <1>1 DEF Busy
<1> QED  BY <1>2, <1>3, QuietSession

LEMMA SessionStep ==
  ASSUME AccountInv, SessionInv, [AccountNext]_accountVars  PROVE SessionInv'
<1>1. /\ pc \in [Procs -> {"idle", "guard", "lookup", "write", "commit", "forget"}]
      /\ call \in [Procs -> Call \cup {NoCall}] /\ seen \in [Procs -> Account \cup {NoCall}]
  BY DEF AccountInv, AccountTypeOK, TablesInv
<1>2. ASSUME UNCHANGED <<row, issued, left, overwritten, txVars>>  PROVE SessionInv'
  BY <1>2 DEF txVars, SessionInv, ReadInv, CurrentInv, OrderedInv, Busy, Used
<1>3. ASSUME NEW p \in Procs, Login(p)  PROVE SessionInv'
  <2>1. PICK password \in Passwords, ip \in Ips :
          /\ UNCHANGED <<row, issued, left, overwritten>>
          /\ \/ Serve(p, [kind |-> "login", password |-> password, ip |-> ip], "lookup", row)
             \/ UNCHANGED txVars
    BY <1>3 DEF Login
  <2>2. CASE Serve(p, [kind |-> "login", password |-> password, ip |-> ip], "lookup", row)
    BY <2>1, <2>2, OutsideSession DEF Serve, Goto
  <2> QED  BY <1>2, <2>1, <2>2
<1>4. ASSUME NEW p \in Procs, Begin(p)  PROVE SessionInv'
  <2>1. PICK c \in Calls :
          Serve(p, c, IF c.kind \in {"logout", "password"} THEN "guard" ELSE "lookup", row)
    BY <1>4 DEF Begin
  <2>2. UNCHANGED <<row, issued, left, overwritten>>  BY <1>4 DEF Begin
  <2>3. PICK w \in {"guard", "lookup"} :
          w = IF c.kind \in {"logout", "password"} THEN "guard" ELSE "lookup"
    OBVIOUS
  <2>4. /\ pc' = [pc EXCEPT ![p] = w] /\ call' = [call EXCEPT ![p] = c]
        /\ seen' = [seen EXCEPT ![p] = row]
    BY <2>1, <2>3 DEF Serve, Goto
  <2> QED  BY <2>2, <2>4, OutsideSession
<1>5. ASSUME NEW p \in Procs, Reply(p)  PROVE SessionInv'
  BY <1>5, EndSession DEF Reply
<1>6. ASSUME NEW p \in Procs, Guard(p)  PROVE SessionInv'
  <2>1. CASE Goto(p, "lookup") /\ UNCHANGED <<row, issued, left, overwritten, limiter, call, seen, held, answer>>
    <3>1. call' = [call EXCEPT ![p] = call[p]] /\ seen' = [seen EXCEPT ![p] = seen[p]]
      BY <1>1, <2>1
    <3> QED  BY <2>1, <3>1, OutsideSession DEF Goto
  <2> QED  BY <1>5, <1>6, <2>1 DEF Guard
<1>7. ASSUME NEW p \in Procs, Lookup(p)  PROVE SessionInv'
  <2>1. CASE ~Refused(call[p])
    <3>1. /\ UNCHANGED <<row, issued, left, overwritten, call>>
          /\ seen' = [seen EXCEPT ![p] = row] /\ pc[p] = "lookup"
          /\ \E w \in {"commit", "write"} : pc' = [pc EXCEPT ![p] = w]
      BY <1>7, <2>1 DEF Lookup, Goto
    <3>2. \A q \in Procs \ {p} : pc'[q] = pc[q] /\ call'[q] = call[q] /\ seen'[q] = seen[q]
      BY <1>1, <3>1
    <3>3. seen'[p] = row /\ (call'[p].kind = "login" => call'[p].password = row.password)
      BY <1>1, <2>1, <3>1 DEF Refused
    <3> QED  BY <3>1, <3>2, <3>3, QuietSession
  <2> QED  BY <1>5, <1>7, <2>1 DEF Lookup
<1>8. ASSUME NEW p \in Procs, LockRow(p)  PROVE SessionInv'
  <2>1. \A q \in Procs \ {p} : pc'[q] = pc[q] /\ call'[q] = call[q] /\ seen'[q] = seen[q]
    BY <1>1, <1>8 DEF LockRow, Goto
  <2>2. Busy(p) /\ UNCHANGED <<row, issued, left, overwritten, call, seen>>  BY <1>8 DEF LockRow, Busy
  <2> QED  BY <2>1, <2>2, QuietSession
<1>9. ASSUME NEW p \in Procs, Commit(p)  PROVE SessionInv'
  BY <1>9, CommitSession
<1>10. ASSUME NEW p \in Procs, Forget(p)  PROVE SessionInv'
  BY <1>10, EndSession DEF Forget
<1>11. ASSUME Tick  PROVE SessionInv'
  BY <1>2, <1>11 DEF Tick
<1> QED
  BY <1>2, <1>3, <1>4, <1>5, <1>6, <1>7, <1>8, <1>9, <1>10, <1>11 DEF AccountNext, Disconnect, accountVars

LEMMA SessionsCorrect == AccountSpec => [](AccountInv /\ SessionInv)
BY InitInv, StepInv, SessionInit, SessionStep, PTL DEF AccountSpec

\* A token that a password change, a logout or a deactivation made invalid is
\* only accepted again after a version was computed from an old read and
\* written over a newer one, and not after the next version that is new:
\* however logouts, password changes, deactivations and logins overlap.
THEOREM RevokedForGood == AccountSpec => []SessionsEndForGood
<1>1. AccountInv /\ SessionInv => SessionsEndForGood
  <2> SUFFICES ASSUME AccountInv, SessionInv, ~overwritten  PROVE row.version \notin left
    BY DEF SessionsEndForGood
  <2>1. \A v \in left : v < row.version  BY DEF SessionInv, OrderedInv
  <2>2. row.version \in Nat  BY DEF AccountInv, AccountTypeOK, Account
  <2> QED  BY <2>1, <2>2
<1> QED  BY <1>1, SessionsCorrect, PTL

\* Likewise, somebody who did not know the password of now is only let in
\* after a version was written over a newer one.
THEOREM PasswordKnown == AccountSpec => []TokensKnowPassword
<1>1. SessionInv => TokensKnowPassword
  BY DEF SessionInv, OrderedInv, TokensKnowPassword, Accepted
<1> QED  BY <1>1, SessionsCorrect, PTL

-----------------------------------------------------------------------------
(* Guesses between two successes *)

Histories == [0..MaxClock -> Nat]

\* The attempts of history g at the times in S.
Attempts(g, S) == SumFunctionOnSet(g, S)

SpansBounded(g) == \A t \in 0..MaxClock : Attempts(g, Span(t)) < 2 * AccountLimit

\* The account's window b counts every attempt since it started, and its first
\* one is not among those after its start; the window before it started at
\* least a window's length earlier, so a span that reaches into both windows
\* leaves out the first attempt of the earlier one.
WindowInv(g, b) ==
  /\ \A u \in 0..MaxClock : u >= b.started + Window => g[u] = 0
  /\ b.count <= AccountLimit
  /\ Attempts(g, b.started..MaxClock) <= b.count
  /\ Attempts(g, (b.started + 1)..MaxClock) < b.count
  /\ \A t \in 0..MaxClock :
       t < b.started /\ b.started < t + Window => Attempts(g, t..(b.started - 1)) < AccountLimit

LimiterInv ==
  /\ \A u \in 0..MaxClock : u > clock => guesses[u] = 0
  /\ buckets["account"].count = 0 => \A u \in 0..MaxClock : guesses[u] = 0
  /\ buckets["account"].count > 0 => WindowInv(guesses, buckets["account"])
  /\ SpansBounded(guesses)

\* Sets of times are finite, and their attempts are counted.
LEMMA AttemptsCounted ==
  ASSUME NEW g \in Histories, NEW S \in SUBSET (0..MaxClock)
  PROVE  /\ IsFiniteSet(S) /\ Attempts(g, S) \in Nat
         /\ \A T \in SUBSET S : Attempts(g, T) \in Nat /\ Attempts(g, T) <= Attempts(g, S)
         /\ (\A u \in S : g[u] = 0) => Attempts(g, S) = 0
<1>1. IsFiniteSet(0..MaxClock)  BY AccountAssumption, FS_Interval
<1>2. \A T \in SUBSET (0..MaxClock) : IsFiniteSet(T)  BY <1>1, FS_Subset
<1>3. \A u \in 0..MaxClock : g[u] \in Nat  BY DEF Histories
<1>4. \A T \in SUBSET (0..MaxClock) : Attempts(g, T) \in Nat
  BY <1>2, <1>3, SumNonNegative DEF Attempts
<1>5. \A T \in SUBSET S : Attempts(g, T) <= Attempts(g, S)
  BY <1>2, <1>3, SumOfPart DEF Attempts
<1>6. (\A u \in S : g[u] = 0) => Attempts(g, S) = 0
  BY <1>2, SumZero DEF Attempts
<1> QED  BY <1>2, <1>4, <1>5, <1>6

\* A span that reaches into two windows has a part in each.
LEMMA AttemptsSplit ==
  ASSUME NEW g \in Histories,
         NEW S \in SUBSET (0..MaxClock), NEW T \in SUBSET (0..MaxClock), S \cap T = {}
  PROVE  Attempts(g, S \cup T) = Attempts(g, S) + Attempts(g, T)
<1>1. IsFiniteSet(S) /\ IsFiniteSet(T)  BY AttemptsCounted
<1>2. \A u \in S \cup T : g[u] \in Int  BY DEF Histories
<1> QED  BY <1>1, <1>2, SumUnion DEF Attempts

\* One attempt at time c, or none, adds at most one to the sets that hold c.
LEMMA AttemptMade ==
  ASSUME NEW g \in Histories, NEW c \in 0..MaxClock, NEW h,
         h = g \/ h = [g EXCEPT ![c] = @ + 1],
         NEW S \in SUBSET (0..MaxClock)
  PROVE  /\ Attempts(h, S) \in Nat /\ Attempts(h, S) <= Attempts(g, S) + 1
         /\ c \notin S => Attempts(h, S) = Attempts(g, S)
<1>1. h \in Histories /\ Attempts(h, S) \in Nat
  <2>1. h \in Histories  BY DEF Histories
  <2> QED  BY <2>1, AttemptsCounted
<1>2. IsFiniteSet(S) /\ Attempts(g, S) \in Nat /\ \A u \in S : g[u] \in Int
  BY AttemptsCounted DEF Histories
<1>3. CASE h = g  BY <1>2, <1>3
<1>4. CASE h = [g EXCEPT ![c] = @ + 1]
  <2>1. h[c] = g[c] + 1 /\ h[c] \in Int /\ g[c] \in Int /\ \A u \in S \ {c} : h[u] = g[u]
    BY <1>4 DEF Histories
  <2>2. CASE c \in S
    <3>1. SumFunctionOnSet(h, S) = SumFunctionOnSet(g, S) + (h[c] - g[c])
      BY ONLY <1>2, <2>1, <2>2, SumMoved
    <3>2. h[c] - g[c] = 1  BY <2>1
    <3> QED  BY <1>1, <1>2, <2>2, <3>1, <3>2 DEF Attempts
  <2>3. CASE c \notin S
    <3>1. \A u \in S : g[u] = h[u]  BY <2>1, <2>3
    <3>2. SumFunctionOnSet(g, S) = SumFunctionOnSet(h, S)
      BY <1>2, <3>1, SumSame
    <3> QED  BY <1>1, <1>2, <2>3, <3>2 DEF Attempts
  <2> QED  BY <2>2, <2>3
<1> QED  BY <1>1, <1>3, <1>4

\* The limiter's window goes on with one attempt more.
LEMMA WindowGoesOn ==
  ASSUME NEW g \in Histories, NEW c \in 0..MaxClock, NEW h,
         h = g \/ h = [g EXCEPT ![c] = @ + 1],
         NEW b \in [started : 0..c, count : Nat], WindowInv(g, b),
         c < b.started + Window, b.count < AccountLimit
  PROVE  WindowInv(h, [b EXCEPT !.count = @ + 1])
<1> PICK s \in 0..c, n \in Nat : b = [started |-> s, count |-> n]  OBVIOUS
<1> DEFINE after == [started |-> s, count |-> n + 1]
<1>1. /\ AccountLimit \in Nat /\ Window \in Nat \ {0} /\ MaxClock \in Nat /\ s \in Nat /\ c \in Nat
      /\ c <= MaxClock /\ s <= c /\ n < AccountLimit /\ c < s + Window
  BY AccountAssumption
<1>2. \A u \in 0..MaxClock : u >= s + Window => h[u] = 0
  BY <1>1 DEF WindowInv, Histories
<1>3. \A S \in SUBSET (0..MaxClock) :
        /\ Attempts(g, S) \in Nat /\ Attempts(h, S) \in Nat
        /\ Attempts(h, S) <= Attempts(g, S) + 1
        /\ c \notin S => Attempts(h, S) = Attempts(g, S)
  BY AttemptsCounted, AttemptMade
<1>4. /\ Attempts(g, s..MaxClock) <= n
      /\ Attempts(g, (s + 1)..MaxClock) < n
      /\ \A t \in 0..MaxClock : t < s /\ s < t + Window => Attempts(g, t..(s - 1)) < AccountLimit
  BY DEF WindowInv
<1>5. Attempts(h, s..MaxClock) <= n + 1 /\ Attempts(h, (s + 1)..MaxClock) < n + 1
  <2>1. s..MaxClock \in SUBSET (0..MaxClock) /\ (s + 1)..MaxClock \in SUBSET (0..MaxClock)
    BY <1>1
  <2>2. PICK x \in Nat, y \in Nat, v \in Nat, w \in Nat :
          /\ x = Attempts(h, s..MaxClock) /\ y = Attempts(h, (s + 1)..MaxClock)
          /\ v = Attempts(g, s..MaxClock) /\ w = Attempts(g, (s + 1)..MaxClock)
          /\ x <= v + 1 /\ y <= w + 1
    BY <1>3, <2>1
  <2>3. v <= n /\ w < n  BY <1>4, <2>2
  <2> QED  BY <2>2, <2>3
<1>6. ASSUME NEW t \in 0..MaxClock, t < s, s < t + Window
      PROVE  Attempts(h, t..(s - 1)) < AccountLimit
  <2>1. t..(s - 1) \in SUBSET (0..MaxClock) /\ c \notin t..(s - 1)  BY <1>1
  <2>2. Attempts(h, t..(s - 1)) = Attempts(g, t..(s - 1))  BY <1>3, <2>1
  <2> QED  BY <1>4, <1>6, <2>2
<1>7. WindowInv(h, after)  BY <1>1, <1>2, <1>5, <1>6 DEF WindowInv
<1> QED  BY <1>7

\* No attempts, no excess.
LEMMA NoAttempts ==
  ASSUME NEW g \in Histories, \A u \in 0..MaxClock : g[u] = 0
  PROVE  SpansBounded(g)
<1>1. ASSUME NEW t \in 0..MaxClock  PROVE Attempts(g, Span(t)) = 0
  <2>1. Span(t) \in SUBSET (0..MaxClock)  BY AccountAssumption DEF Span
  <2> QED  BY <2>1, AttemptsCounted
<1> QED  BY <1>1, AccountAssumption DEF SpansBounded

\* What an expired window, or one that was forgotten, leaves behind.
Expired(g, c, b) ==
  \/ \A u \in 0..MaxClock : g[u] = 0
  \/ WindowInv(g, b) /\ b.started + Window <= c

\* A new window begins now, with one attempt or with none let through.
LEMMA WindowBegins ==
  ASSUME NEW g \in Histories, NEW c \in 0..MaxClock, NEW h,
         h = g \/ h = [g EXCEPT ![c] = @ + 1],
         \A u \in 0..MaxClock : u > c => g[u] = 0,
         NEW b \in [started : 0..c, count : Nat], Expired(g, c, b)
  PROVE  WindowInv(h, [started |-> c, count |-> 1])
<1>1. /\ AccountLimit \in Nat \ {0} /\ Window \in Nat \ {0} /\ MaxClock \in Nat /\ c \in Nat
      /\ c <= MaxClock /\ b.started \in Nat /\ b.started <= c /\ b.count \in Nat
  BY AccountAssumption
<1>2. \A S \in SUBSET (0..MaxClock) :
        /\ Attempts(g, S) \in Nat /\ Attempts(h, S) \in Nat
        /\ Attempts(h, S) <= Attempts(g, S) + 1
        /\ c \notin S => Attempts(h, S) = Attempts(g, S)
        /\ (\A u \in S : g[u] = 0) => Attempts(g, S) = 0
  BY AttemptsCounted, AttemptMade
<1>3. \A u \in c..MaxClock : g[u] = 0
  BY <1>1 DEF Expired, WindowInv
<1>4. \A u \in 0..MaxClock : u >= c + Window => h[u] = 0
  BY <1>1, <1>3 DEF Histories
<1>5. Attempts(h, c..MaxClock) <= 1 /\ Attempts(h, (c + 1)..MaxClock) < 1
  <2>1. /\ c..MaxClock \in SUBSET (0..MaxClock) /\ (c + 1)..MaxClock \in SUBSET (0..MaxClock)
        /\ c \notin (c + 1)..MaxClock /\ \A u \in (c + 1)..MaxClock : g[u] = 0
    BY <1>1, <1>3
  <2>2. Attempts(g, c..MaxClock) = 0 /\ Attempts(g, (c + 1)..MaxClock) = 0
    BY <1>2, <1>3, <2>1
  <2>3. PICK x \in Nat, y \in Nat :
          /\ x = Attempts(h, c..MaxClock) /\ y = Attempts(h, (c + 1)..MaxClock)
          /\ x <= 0 + 1 /\ y = 0
    BY <1>2, <2>1, <2>2
  <2> QED  BY <2>3
<1>6. ASSUME NEW t \in 0..MaxClock, t < c, c < t + Window
      PROVE  Attempts(h, t..(c - 1)) < AccountLimit
  <2>1. t..(c - 1) \in SUBSET (0..MaxClock) /\ c \notin t..(c - 1)  BY <1>1
  <2>2. Attempts(h, t..(c - 1)) = Attempts(g, t..(c - 1))  BY <1>2, <2>1
  <2>3. CASE \A u \in 0..MaxClock : g[u] = 0
    <3>1. Attempts(g, t..(c - 1)) = 0  BY <1>2, <2>1, <2>3
    <3> QED  BY <1>1, <2>2, <3>1
  <2>4. CASE WindowInv(g, b) /\ b.started + Window <= c
    <3> DEFINE later == (b.started + 1)..MaxClock
    <3>1. Attempts(g, later) < b.count /\ b.count <= AccountLimit  BY <2>4 DEF WindowInv
    <3>2. later \in SUBSET (0..MaxClock) /\ t..(c - 1) \in SUBSET later
      BY <1>1, <1>6, <2>4
    <3> HIDE DEF later
    <3>3. /\ Attempts(g, t..(c - 1)) \in Nat /\ Attempts(g, later) \in Nat
          /\ Attempts(g, t..(c - 1)) <= Attempts(g, later)
      BY <3>2, AttemptsCounted
    <3> QED  BY <1>1, <2>2, <3>1, <3>3
  <2> QED  BY <2>3, <2>4 DEF Expired
<1>7. 1 <= AccountLimit  BY <1>1
<1> DEFINE begun == [started |-> c, count |-> 1]
<1>8. begun.started = c /\ begun.count = 1  OBVIOUS
<1> HIDE DEF begun
<1>9. WindowInv(h, begun)  BY <1>4, <1>5, <1>6, <1>7, <1>8 DEF WindowInv
<1> QED  BY <1>9 DEF begun

\* The spans that hold the present lie in the present window, or in it and the
\* part of the one before that a full window's length leaves; the others are
\* as they were.
LEMMA SpansKept ==
  ASSUME NEW g \in Histories, NEW c \in 0..MaxClock, NEW h \in Histories,
         h = g \/ h = [g EXCEPT ![c] = @ + 1],
         SpansBounded(g), NEW b \in [started : 0..c, count : Nat], WindowInv(h, b)
  PROVE  SpansBounded(h)
<1>1. /\ AccountLimit \in Nat \ {0} /\ Window \in Nat \ {0} /\ MaxClock \in Nat /\ c \in Nat
      /\ c <= MaxClock /\ b.started \in Nat /\ b.started <= c /\ b.count \in Nat
  BY AccountAssumption
<1> SUFFICES ASSUME NEW t \in 0..MaxClock  PROVE Attempts(h, Span(t)) < 2 * AccountLimit
  BY DEF SpansBounded
<1>2. Span(t) \in SUBSET (0..MaxClock)  BY <1>1 DEF Span
<1>3. CASE c \notin Span(t)
  <2>1. Attempts(h, Span(t)) = Attempts(g, Span(t))  BY <1>2, <1>3, AttemptMade
  <2> QED  BY <2>1 DEF SpansBounded
<1>4. CASE c \in Span(t)
  <2> DEFINE now == b.started..MaxClock
  <2>1. /\ Attempts(h, now) <= b.count /\ b.count <= AccountLimit
        /\ now \in SUBSET (0..MaxClock)
    BY <1>1 DEF WindowInv
  <2>2. Attempts(h, now) \in Nat  BY <2>1, AttemptsCounted
  <2>3. CASE b.started <= t
    <3>1. Span(t) \in SUBSET now  BY <1>1, <2>3 DEF Span
    <3> HIDE DEF now
    <3>2. Attempts(h, Span(t)) \in Nat /\ Attempts(h, Span(t)) <= Attempts(h, now)
      BY <2>1, <3>1, AttemptsCounted
    <3> QED  BY <1>1, <2>1, <2>2, <3>2
  <2>4. CASE t < b.started
    <3> DEFINE before == t..(b.started - 1)
               rest == Span(t) \cap now
    <3>1. t < b.started /\ b.started < t + Window  BY <1>1, <1>4, <2>4 DEF Span
    <3>2. Attempts(h, before) < AccountLimit  BY <3>1 DEF WindowInv
    <3>3. /\ before \in SUBSET (0..MaxClock) /\ rest \in SUBSET now
          /\ rest \in SUBSET (0..MaxClock) /\ before \cap rest = {}
      BY <1>1, <1>2
    <3>4. Span(t) = before \cup rest  BY <1>1, <3>1 DEF Span
    <3> HIDE DEF before, rest, now
    <3>5. /\ Attempts(h, before) \in Nat
          /\ Attempts(h, rest) \in Nat /\ Attempts(h, rest) <= Attempts(h, now)
      BY <2>1, <3>3, AttemptsCounted
    <3>6. Attempts(h, Span(t)) = Attempts(h, before) + Attempts(h, rest)
      BY <3>3, <3>4, AttemptsSplit
    <3> QED  BY <1>1, <2>1, <2>2, <3>2, <3>5, <3>6
  <2> QED  BY <1>1, <2>3, <2>4
<1> QED  BY <1>3, <1>4

LEMMA LimiterInit == AccountInit => LimiterInv
<1> SUFFICES ASSUME AccountInit  PROVE LimiterInv  OBVIOUS
<1>1. /\ guesses \in Histories /\ \A u \in 0..MaxClock : guesses[u] = 0
      /\ buckets["account"].count = 0
  BY DEF AccountInit, Histories, NoBucket
<1>2. SpansBounded(guesses)  BY <1>1, NoAttempts
<1> QED  BY <1>1, <1>2 DEF LimiterInv

LEMMA LoginLimiter ==
  ASSUME AccountInv, LimiterInv, NEW p \in Procs, Login(p)
  PROVE  LimiterInv'
<1>1. PICK c \in 0..MaxClock, g \in Histories, b \in [started : 0..clock, count : Nat] :
        c = clock /\ g = guesses /\ b = buckets["account"]
  BY DEF AccountInv, AccountTypeOK, Histories
<1>2. PICK h : h = guesses'  OBVIOUS
<1>3. /\ h = g \/ h = [g EXCEPT ![c] = @ + 1]
      /\ HasRoom(b, AccountLimit) /\ clock' = c
      /\ buckets'["account"] = Charged(b)
  BY <1>1, <1>2 DEF Login, AccountInv, AccountTypeOK
<1>4. h \in Histories  BY <1>3 DEF Histories
<1>5. /\ \A u \in 0..MaxClock : u > c => g[u] = 0
      /\ b.count = 0 => \A u \in 0..MaxClock : g[u] = 0
      /\ b.count > 0 => WindowInv(g, b)
      /\ SpansBounded(g)
  BY <1>1 DEF LimiterInv
<1>6. \A u \in 0..MaxClock : u > c => h[u] = 0
  <2>1. \A u \in 0..MaxClock : u > c => u # c /\ g[u] = 0  BY <1>5
  <2>2. \A u \in 0..MaxClock : u # c => h[u] = g[u]  BY <1>3 DEF Histories
  <2> QED  BY <2>1, <2>2
<1>7. ASSUME NEW a \in [started : 0..c, count : Nat \ {0}],
             buckets'["account"] = a, WindowInv(h, a)
      PROVE  LimiterInv'
  <2>1. SpansBounded(h)  BY <1>3, <1>4, <1>5, <1>7, SpansKept
  <2>2. a.count # 0  OBVIOUS
  <2> QED  BY <1>2, <1>3, <1>6, <1>7, <2>1, <2>2 DEF LimiterInv
<1>8. /\ Window \in Nat /\ c \in Nat /\ b.started \in Nat /\ b.count \in Nat
      /\ AccountLimit \in Nat /\ b \in [started : 0..c, count : Nat]
  BY <1>1, AccountAssumption
<1>9. CASE InWindow(b)
  <2> DEFINE a == [b EXCEPT !.count = @ + 1]
  <2>1. Charged(b) = a /\ a \in [started : 0..c, count : Nat \ {0}]
    BY <1>1, <1>9 DEF Charged
  <2>2. b.count > 0 /\ c < b.started + Window /\ b.count < AccountLimit
    BY <1>1, <1>3, <1>8, <1>9 DEF InWindow, HasRoom
  <2>3. WindowInv(h, a)  BY <1>3, <1>5, <1>8, <2>2, WindowGoesOn
  <2> HIDE DEF a
  <2> QED  BY <1>3, <1>7, <2>1, <2>3
<1>10. CASE ~InWindow(b)
  <2> DEFINE a == [started |-> c, count |-> 1]
  <2>1. Charged(b) = a /\ a \in [started : 0..c, count : Nat \ {0}]
    BY <1>1, <1>8, <1>10 DEF Charged
  <2>2. Expired(g, c, b)
    BY <1>1, <1>5, <1>8, <1>10 DEF InWindow, Expired
  <2>3. WindowInv(h, a)  BY <1>3, <1>5, <1>8, <2>2, WindowBegins
  <2> HIDE DEF a
  <2> QED  BY <1>3, <1>7, <2>1, <2>3
<1> QED  BY <1>9, <1>10

\* Calls other than a login leave the limiter alone, and time goes on.
LEMMA QuietLimiter ==
  ASSUME AccountInv, LimiterInv, UNCHANGED <<buckets, guesses>>,
         clock' \in Nat, clock' >= clock
  PROVE  LimiterInv'
<1>1. clock \in Nat /\ MaxClock \in Nat
  BY AccountAssumption DEF AccountInv, AccountTypeOK
<1>2. \A u \in 0..MaxClock : u > clock' => guesses'[u] = 0
  BY <1>1 DEF LimiterInv
<1> QED  BY <1>2 DEF LimiterInv

LEMMA ForgetLimiter ==
  ASSUME AccountInv, LimiterInv, NEW p \in Procs, Forget(p)
  PROVE  LimiterInv'
<1>1. PICK h : h = guesses'  OBVIOUS
<1>2. h \in Histories /\ \A u \in 0..MaxClock : h[u] = 0
  BY <1>1 DEF Forget, Histories
<1>3. buckets'["account"].count = 0
  BY DEF Forget, AccountInv, AccountTypeOK, NoBucket
<1>4. SpansBounded(h)  BY <1>2, NoAttempts
<1> QED  BY <1>1, <1>2, <1>3, <1>4 DEF LimiterInv

LEMMA LimiterStep ==
  ASSUME AccountInv, LimiterInv, [AccountNext]_accountVars
  PROVE  LimiterInv'
<1>1. clock \in Nat  BY DEF AccountInv, AccountTypeOK
<1>2. ASSUME UNCHANGED limiter  PROVE LimiterInv'
  BY <1>1, <1>2, QuietLimiter DEF limiter
<1>3. ASSUME NEW p \in Procs,
             Begin(p) \/ Guard(p) \/ Lookup(p) \/ LockRow(p) \/ Commit(p) \/ Disconnect(p)
      PROVE  UNCHANGED limiter
  BY <1>3 DEF Begin, Guard, Reply, Lookup, LockRow, Commit, Disconnect
<1>4. ASSUME Tick  PROVE LimiterInv'
  BY <1>1, <1>4, QuietLimiter DEF Tick
<1>5. ASSUME UNCHANGED accountVars  PROVE UNCHANGED limiter
  BY <1>5 DEF accountVars, limiter
<1> QED
  BY <1>2, <1>3, <1>4, <1>5, LoginLimiter, ForgetLimiter DEF AccountNext

\* Without a success between them, fewer than two budgets of attempts get
\* through within any window's length, although the limiter only counts in
\* windows that start with an attempt: from however many addresses they come
\* and however the logins overlap.
THEOREM GuessesStayBounded == AccountSpec => []GuessesBounded
<1>1. LimiterInv => GuessesBounded
  BY DEF LimiterInv, SpansBounded, GuessesBounded, Attempts
<1>2. AccountInv /\ LimiterInv /\ [AccountNext]_accountVars => LimiterInv'
  BY LimiterStep
<1> QED  BY <1>1, <1>2, LimiterInit, AccountCorrect, PTL DEF AccountSpec
=============================================================================
