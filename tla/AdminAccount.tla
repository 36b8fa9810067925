---------------------------- MODULE AdminAccount ----------------------------
(***************************************************************************)
(* One administrator's account: logins issue tokens that carry the row's    *)
(* token_version, and logouts, password changes and deactivations move the  *)
(* version on, so that the middleware refuses the tokens issued before.     *)
(* Every call reads the row without a lock, and writes it later from what   *)
(* it read; the lock of the UPDATE is held until the commit.  Logins pass    *)
(* the limiter first, which counts attempts in fixed windows, for the        *)
(* account and for each address, and forgets both after a success.           *)
(***************************************************************************)
EXTENDS Integers, FiniteSets, Functions, Transactions

CONSTANTS
  Passwords,  \* passwords that the administrator may have
  First,      \* the one it starts with
  Ips,        \* addresses that logins come from
  AccountLimit, IpLimit, Window,   \* the limiter's budgets
  MaxClock,   \* bound on the clock
  MaxVersion  \* bound on the version at which calls that move it on begin

ASSUME AccountAssumption ==
  /\ First \in Passwords /\ "account" \notin Ips
  /\ {AccountLimit, IpLimit, Window} \subseteq Nat \ {0} /\ {MaxClock, MaxVersion} \subseteq Nat

VARIABLES
  row,      \* admin_users: version, enabled, password
  issued,   \* history: the tokens that logins have issued
  left,     \* history: the versions that the row has left
  overwritten,  \* history: a version was moved on from an older one than the row's,
                \* and no version that was never used has been reached since
  clock,
  buckets,  \* LoginRateLimiter: the account's window and each address's
  guesses   \* history: the attempts let through at each time, since a success

accountVars == <<row, issued, left, overwritten, clock, buckets, guesses, txVars>>
limiter == <<clock, buckets, guesses>>

Account == [version : Nat, enabled : BOOLEAN, password : Passwords]

Token == [version : Nat, password : Passwords]

Row == <<"admin">>

\* AdminAuth: the row decides, on every request.
Accepted(t) == row.enabled /\ t.version = row.version

Reply(p) == End(p) /\ UNCHANGED <<row, issued, left, overwritten, limiter>>

NoBucket == [started |-> 0, count |-> 0]

InWindow(b) == b.count > 0 /\ clock - b.started < Window

\* Mutant of HasRoom: one attempt more.
HasRoomForOneMore(b, limit) == ~InWindow(b) \/ b.count <= limit

\* allowIntoBucket: a new window, or an attempt left in this one.
HasRoom(b, limit) == ~InWindow(b) \/ b.count < limit

Charged(b) == IF InWindow(b) THEN [b EXCEPT !.count = @ + 1] ELSE [started |-> clock, count |-> 1]

\* Allow charges the account before it asks for the address.
Login(p) ==
  \E password \in Passwords, ip \in Ips :
    LET open == HasRoom(buckets[ip], IpLimit)
    IN  /\ HasRoom(buckets["account"], AccountLimit)
        /\ buckets' = [b \in DOMAIN buckets |->
                         IF b = "account" \/ (b = ip /\ open) THEN Charged(buckets[b]) ELSE buckets[b]]
        /\ \/ /\ open
              /\ Serve(p, [kind |-> "login", password |-> password, ip |-> ip], "lookup", row)
              /\ guesses' = [guesses EXCEPT ![clock] = @ + 1]
           \/ ~open /\ UNCHANGED <<guesses, txVars>>
        /\ UNCHANGED <<row, issued, left, overwritten, clock>>

Calls ==
  [kind : {"logout"}, token : issued]
    \cup [kind : {"password"}, token : issued, old : Passwords, new : Passwords]
    \cup [kind : {"enable", "disable"}]

Begin(p) ==
  /\ \E c \in Calls :
       /\ c.kind # "enable" => row.version < MaxVersion
       /\ Serve(p, c, IF c.kind \in {"logout", "password"} THEN "guard" ELSE "lookup", row)
  /\ UNCHANGED <<row, issued, left, overwritten, limiter>>

\* AdminAuthWithClock
Guard(p) ==
  /\ pc[p] = "guard"
  /\ IF Accepted(call[p].token)
     THEN Goto(p, "lookup") /\ UNCHANGED <<row, issued, left, overwritten, limiter, call, seen, held, answer>>
     ELSE Reply(p)

Refused(c) ==
  \/ c.kind = "login" /\ ~(row.enabled /\ c.password = row.password)
  \/ c.kind = "password" /\ ~(row.enabled /\ c.old = row.password)

\* The read at the start of each transaction, and the checks on it.
Lookup(p) ==
  /\ pc[p] = "lookup"
  /\ IF Refused(call[p]) THEN Reply(p)
     ELSE /\ seen' = [seen EXCEPT ![p] = row]
          /\ Goto(p, IF call[p].kind = (IF row.enabled THEN "enable" ELSE "disable")
                     THEN "commit" ELSE "write")
          /\ UNCHANGED <<row, issued, left, overwritten, limiter, call, held, answer>>

\* The UPDATE waits for the row.
LockRow(p) ==
  /\ pc[p] = "write"
  /\ Lock(p, Row)
  /\ Goto(p, "commit")
  /\ UNCHANGED <<row, issued, left, overwritten, limiter, call, seen, answer>>

\* Mutants of Updated: enabling writes the version that it read, a password
\* change leaves it, or a login saves more of the row than the time.
UpdatedWithVersion(r, c, s) ==
  CASE c.kind = "enable" -> [r EXCEPT !.enabled = TRUE, !.version = s.version]
    [] c.kind = "disable" -> [r EXCEPT !.enabled = FALSE, !.version = s.version + 1]
    [] c.kind = "logout" -> [r EXCEPT !.version = s.version + 1]
    [] c.kind = "password" -> [r EXCEPT !.password = c.new, !.version = s.version + 1]
    [] OTHER -> r

UpdatedQuietly(r, c, s) ==
  CASE c.kind = "enable" -> [r EXCEPT !.enabled = TRUE]
    [] c.kind = "disable" -> [r EXCEPT !.enabled = FALSE, !.version = s.version + 1]
    [] c.kind = "logout" -> [r EXCEPT !.version = s.version + 1]
    [] c.kind = "password" -> [r EXCEPT !.password = c.new]
    [] OTHER -> r

UpdatedTooMuch(r, c, s) ==
  CASE c.kind = "enable" -> [r EXCEPT !.enabled = TRUE]
    [] c.kind = "disable" -> [r EXCEPT !.enabled = FALSE, !.version = s.version + 1]
    [] c.kind = "logout" -> [r EXCEPT !.version = s.version + 1]
    [] c.kind = "password" -> [r EXCEPT !.password = c.new, !.version = s.version + 1]
    [] c.kind = "login" -> [r EXCEPT !.enabled = s.enabled]

\* Row r after the UPDATE of call c, which read s: the columns it names are
\* written absolutely, the others stay.
Updated(r, c, s) ==
  CASE c.kind = "enable" -> [r EXCEPT !.enabled = TRUE]
    [] c.kind = "disable" -> [r EXCEPT !.enabled = FALSE, !.version = s.version + 1]
    [] c.kind = "logout" -> [r EXCEPT !.version = s.version + 1]
    [] c.kind = "password" -> [r EXCEPT !.password = c.new, !.version = s.version + 1]
    [] c.kind = "login" -> r

\* The version that p writes replaces one that it has not read.
Overwrites(p) ==
  /\ Row \in held[p] /\ call[p].kind \in {"logout", "password", "disable"}
  /\ seen[p].version # row.version

\* The commit; a login then signs a token with the version that it read.
Commit(p) ==
  /\ pc[p] = "commit"
  /\ row' = IF Row \in held[p] THEN Updated(row, call[p], seen[p]) ELSE row
  /\ left' = IF row'.version # row.version THEN left \cup {row.version} ELSE left
  /\ overwritten' = \/ Overwrites(p)
                    \/ overwritten /\ \E v \in left \cup {row.version} : row'.version <= v
  /\ issued' = IF call[p].kind = "login"
               THEN issued \cup {[version |-> seen[p].version, password |-> call[p].password]}
               ELSE issued
  /\ IF call[p].kind = "login"
     THEN Rollback(p, "forget")
     ELSE End(p)
  /\ UNCHANGED limiter

\* Reset: the limiter forgets the account and the address that got in.
Forget(p) ==
  /\ pc[p] = "forget"
  /\ buckets' = [b \in DOMAIN buckets |-> IF b \in {"account", call[p].ip} THEN NoBucket ELSE buckets[b]]
  /\ guesses' = [t \in 0..MaxClock |-> 0]
  /\ End(p)
  /\ UNCHANGED <<row, issued, left, overwritten, clock>>

Tick ==
  /\ clock < MaxClock
  /\ clock' = clock + 1
  /\ UNCHANGED <<row, issued, left, overwritten, buckets, guesses, txVars>>

Disconnect(p) == pc[p] # "idle" /\ Reply(p)

AccountInit ==
  /\ row = [version |-> 1, enabled |-> TRUE, password |-> First]
  /\ issued = {}
  /\ left = {}
  /\ overwritten = FALSE
  /\ clock = 0
  /\ buckets = [b \in {"account"} \cup Ips |-> NoBucket]
  /\ guesses = [t \in 0..MaxClock |-> 0]
  /\ TxInit

AccountNext ==
  \/ \E p \in Procs :
       Login(p) \/ Begin(p) \/ Guard(p) \/ Lookup(p) \/ LockRow(p) \/ Commit(p) \/ Forget(p)
         \/ Disconnect(p)
  \/ Tick

AccountSpec == AccountInit /\ [][AccountNext]_accountVars

-----------------------------------------------------------------------------
(* Properties *)

\* Every process keeps within its program, and locks are given back.
AccountTypeOK ==
  /\ row \in Account /\ issued \subseteq Token /\ left \subseteq Nat
  /\ overwritten \in BOOLEAN
  /\ pc \in [Procs -> {"idle", "guard", "lookup", "write", "commit", "forget"}]
  /\ \A p \in Procs : pc[p] # "commit" => held[p] = {}
  /\ clock \in 0..MaxClock /\ guesses \in [0..MaxClock -> Nat]
  /\ buckets \in [{"account"} \cup Ips -> [started : 0..clock, count : Nat]]

\* specs/admin-authz: after a password change, a logout or a deactivation the
\* older tokens are invalid from the next request on.  Whoever is let in holds
\* a token whose version was never left, and knew the password of now.
SessionsEnd ==
  \A t \in issued : Accepted(t) => t.version \notin left /\ t.password = row.password

\* The same where no update was lost: however logouts, password changes,
\* deactivations and logins overlap, a version that was left only comes back
\* when a version computed from an old read was written over a newer one ...
SessionsEndForGood == ~overwritten => row.version \notin left

\* ... and only then somebody is let in who did not know the password of now.
\* Either is over as soon as a version is reached that was never used.
TokensKnowPassword ==
  ~overwritten => \A t \in issued : Accepted(t) => t.password = row.password

\* The account is only closed or reopened by a call that asked for it, however
\* logins, logouts and password changes overlap with it.
EnabledOnPurpose ==
  [][row'.enabled # row.enabled =>
       \E p \in Procs :
         /\ pc[p] = "commit" /\ pc'[p] = "idle"
         /\ call[p].kind = (IF row'.enabled THEN "enable" ELSE "disable")]_accountVars

\* The times of a span of one window's length.
Span(t) == {u \in t..MaxClock : u < t + Window}

\* Within any span of one window's length fewer than two budgets of attempts
\* get through to the password check, from however many addresses they come
\* and however they overlap, unless one of them succeeded.
GuessesBounded ==
  \A t \in 0..MaxClock : SumFunctionOnSet(guesses, Span(t)) < 2 * AccountLimit
=============================================================================
