# shop-mall in TLA+

A specification of the backend of shop-mall, a points mall: buyers log in with
WeChat, fill a cart and pay orders with points; administrators ship, review
refunds, adjust points and edit the catalogue. The modules here describe what
the use cases of `src/backend/internal` do to the PostgreSQL tables, and to the
files beside them, first each as one atomic step and then, where concurrency is
the difficulty, statement by statement with the locks the code takes. TLC checks
small instances; TLAPS proves the main theorems for every value of the
constants.

## 1. The system

The backend is one Go service (several processes may run) over one PostgreSQL
database. Durable state is in the tables and on the image volume; the login
limiter and the connection pool live in memory. All concurrency is goroutines
that serve HTTP calls in transactions at READ COMMITTED, and one background loop
that sweeps the image volume. Calls between components are Go function calls
that share the caller's transaction (`tx *gorm.DB`); there are no queues and no
callbacks besides the retry loop of `database.RunTransaction`.

| Component | State | Operations | What makes it correct |
|---|---|---|---|
| Order creation (`application/order/create.go`, `order/repository.go`) | `orders`, `order_items` | `CreateOrderUsecase.Execute`: replay lookup, locks, pricing, commit, conflict resolution | one order per key; price, stock, funds and address read under locks; retries get the first order |
| Fulfillment (`application/order/fulfillment.go`) | order status and stamps | `Ship`, `Confirm`, failure audit | stamps agree with the status |
| Refunds (`application/refund/refund.go`) | status, stamps, points, stock | `Request`, `Approve`, `Reject`, failure audit | points and goods come back once; a rejection restores the status |
| Points adjustment (`application/points/adjust.go`) | balance, ledger, audit | `Execute` with replay, conflict and refusal | one posting per key, the first result on replay |
| Payment and ledger (`payment/`) | `users.points_balance`, `points_ledger` | `LockUser`, `AdjustBalance`, `LockByEventKey`, insert | the ledger reconciles with the balance; no negative balance |
| Buyer accounts and login (`user/service.go`, `application/auth/login.go`) | `users` | `UpsertByOpenID`, profile | one row and one signup bonus per buyer |
| Addresses (`user/address_service.go`) | `user_addresses` | `Create`, `Update`, `Delete`, `LockForOrder` | one default; a version per edit |
| Cart (`cart/`) | `cart_items` | `Add`, `Update`, `Delete`, lock and delete by orders | one row per buyer and product |
| Products (`product/`) | `products`, images of a product | `Create`, `Update`, conditional decrement and increment | nothing oversold, nothing lost |
| Audit log (`platform/audit`) | `audit_logs` | `Write` | one story with the orders |
| Transaction runner (`platform/database/database.go`) | none | `RunTransaction`: retry of deadlock and serialization victims | a retry starts from nothing |
| Administrators (`admin/service.go`, `application/access`) | `admin_users`, `roles`, `role_permissions` | `Authenticate`, `Logout`, `ChangePassword`, `UpdateAdmin`, `AssignRole`, `CreateRole`, `UpdateRole` | revoked sessions stay revoked; permissions are read live |
| Middleware (`middleware/auth.go`, `permission.go`) | none | token check against the row, permission gate | decides on the live row |
| Login limiter (`admin/rate_limit.go`) | in-memory fixed windows | `Allow`, `Reset` | fewer than two budgets of attempts in a window's length |
| Coupon templates (`coupon/`) | `coupon_templates` | create, status switch | only who holds `coupon:write` now, and a denial leaves an audit row |
| Image storage (`storage/`, `product/service.go`, `user/avatar_handler.go`) | files on a volume, galleries, avatars | put, touch, stat, delete, `Cleanup` sweep | no referenced image is deleted, capacity kept, orphans go |
| Connection pool (`platform/database`, every query) | connections lent out | query, transaction | no request waits for a connection while it keeps one from others |
| HTTP handlers, CSRF, request limits | none durable | error to status mapping | – |
| Configuration, logging, metrics, WeChat client, servers, front ends, deployment | – | – | – |

How they interact: an order locks, in this order, an order of the same key (if
there is one), the buyer's row, the address, the cart rows and the products;
a refund approval locks the order, the buyer and the products; adjustments lock
the buyer. Logins and address edits take no explicit lock and rely on unique
indexes. Every administrator use case writes its audit row in the same
transaction when it succeeds, and in a transaction of its own when it is
refused. Every administrator request is preceded by reads of the account, its
role and the role's codes, each on a connection of its own. An edit of a product
touches the files that it drops; the sweep asks the products whether a file is
referenced, and nobody locks anything across the two.

What is hard here: two requests under one Idempotency-Key in flight at once;
answers that are lost after the commit, and the retry meeting a cart that the
first attempt emptied; reads without a lock whose result is written later
(signup bonus, `token_version`, `is_default`); refusals audited after the
rollback; lock orders of several paths; deadlock victims that are run again;
fixed-width sums of prices; a role renamed between its look-up by id and the one
by name; two replacements of one role's codes; a file referenced between the
sweep's question and its deletion; a crash between a file and its row; a query
on a second connection inside a transaction. `PROJECT.json` lists each at its line, with the
properties that watch it.

## 2. Modules

    OrderTotal ── Mall ─┬─ Checkout ─────┬─ MCCheckout
                        │                └─ CheckoutProofs (with MallProofs)
                        ├─ PointsAccount ┬─ MCPointsAccount
                        │                └─ PointsAccountProofs
                        └─ MallProofs
    Transactions ───────┼─ (Checkout, PointsAccount)
                        ├─ AddressBook ──┬─ MCAddressBook
                        │                └─ AddressBookProofs
                        ├─ AdminAccount ─┬─ MCAdminAccount
                        │                └─ AdminAccountProofs
                        ├─ Backoffice ───┬─ MCBackoffice
                        │                └─ BackofficeProofs
                        ├─ ImageVolume ──┬─ MCImageVolume
                        │                └─ ImageVolumeProofs
                        └─ ConnectionPool ─ MCConnectionPool
    DefaultAddress ──────── AddressBook
    SumProofs ───────────── MallProofs, AdminAccountProofs

**OrderTotal.** The arithmetic of `buildAndCommit`: an `int64` line product that
wraps and a running sum that is guarded. `MaxInt` is the width; `Priced(lines)`
says that the loop returned no error.

**Mall.** What the shop promises: one action per use case that changes a table,
atomically. Variables are tables (`balance`, `ledger`, `products`, `cart`,
`addr`, `orders`, `audit`; functions from the ids present), the ids already used
up (`retired`: UUIDs are not reused) and two histories that only properties
read: `cameFrom` (the status an order had when its refund was requested, which
the code does not store) and `supply` (what administrators put on the shelves).
Calls that fail or replay change nothing; the failure audits do, and are the
actions `ShipRefused`, `ReviewRefused` and `AdjustRefused`, whose guards say
what the refused call may have seen, as the row is written later. Unique and
CHECK constraints appear as guards (`HasToken`, event keys in `PostPoints`) or
as properties (`StampsMatchStatus`). Names, texts, prices of snapshots and
timestamps are left out; `completed_at` and `refunded_at` are kept as "set or
not", SHA-256 is injective.

**Transactions.** A process serves one client call in one READ COMMITTED
transaction: `pc` is its next statement, `seen` what it has read, `held` the
rows it has locked, `answer` what its client was told. A statement that wants a
held lock is disabled until the lock is released. `Finish` ends the transaction
and answers, `Rollback` goes on without it, `SendAgain` is a client's retry.
Uncommitted writes are invisible to others, so a transaction's writes all take
effect in its commit action.

**Checkout.** `CreateOrderUsecase.Execute` and `RefundUsecase.Approve` statement
by statement: `LockForReplay`, `ResolveReplay`, `LockUser`, `LockAddress`,
`LockCart` (row by row, ascending, with the second look for a replay when a row
is missing), `LockShelf`, `Commit`, `ResolveAfterConflict`; `LockOrder`,
`RecordRefusal`, `CommitRefund`. Around them run the single-row use cases of
`Mall` (edits of cart, address and product, ship, confirm, request, reject,
adjust) whenever their row is not locked. `Disconnect` ends a transaction at any
point; `Retry` sends the same key again after a lost answer or an internal
error. The module INSTANCEs `Mall` and `ImplementsMall` states the refinement:
each step of the tables is one `Mall` step or none. No variable is renamed, as
`Checkout` extends the tables of `Mall` with its processes.

**PointsAccount.** `UpsertByOpenID` with `awardSignupBonus`, and
`AdjustPointsUsecase.Execute`, statement by statement. An INSERT that meets an
uncommitted row with the same unique key waits for its transaction: that is the
lock on `<<"openid", u>>` or `<<"event", key>>`. The bonus is read without a
lock and written absolutely, as in the code. `PointsImplementMall` is the
refinement.

**DefaultAddress, AddressBook.** The promise of one buyer's address book and its
statements. The partial unique index `uq_default_address` is a lock `<<"slot">>`
that a transaction holds while it changes an entry; the foreign key on the
buyer's row is `<<"share">>`. The rows of `clearDefaultAddress` are found in the
snapshot of the statement and looked at again once their lock is there. Waits
may form a cycle (a new default address against an order, for one); `Victim` is
the database's choice and `RunTransaction`'s next attempt, or its last error.
`ImplementsBook` is the refinement.

**AdminAccount.** One administrator's row (`version`, `enabled`, `password`), and
logins, logouts, password changes, activation and deactivation, each reading the
row at its start and writing the columns it names at its commit, plus the token
check of `AdminAuthWithClock` in front of the calls that need a session. Logins
pass `LoginRateLimiter` first: `buckets` are its fixed windows for the account
and for each address, `Charged` and `HasRoom` are `allowIntoBucket`, `Forget` is
`Reset` after a success. The account is charged before the address is asked, as
in `Allow`. Two histories that only properties read: `left`, the versions the row
has left, and `overwritten`, true from the commit of a call that writes a version
computed from a read that is not the row's any more (a lost update) until a commit
reaches a version that was never used. Tokens do not expire in the model, which is the worst case for the
properties about them; the pruning of stale buckets frees memory only.

**Backoffice.** `CreateRole`, `UpdateRole` with `replaceRolePermissions`,
`UpdateAdminUser`'s two transactions (`Enable`, then `ByName` and `AssignRole`,
after the look-up by id of `Resolve`), the bootstrap command, and the gated coupon
writes. `Begin` and `Gate` are `PermissionsForAdmin`'s two reads, the account's
role (`service.go:714`) and the role's codes. `Begin` takes the read of the token
check before it (`service.go:1234`) into the same step: what is lost is a request
whose account is switched off between the two, and which then runs with a role that
was given to the account after that. `Enable` takes the unlocked read of `UpdateAdmin`
and its UPDATE into one step: that the flag is left out because it seemed to be set
already is only in `AdminAccount`, and no property of `Backoffice` reads the flag. The DELETE of a role's codes finds its rows in the
statement's snapshot (`Snapshot`) and deletes those that are left when it gets
their locks (`Delete`); the INSERT (`Plant`) waits for rows of the same key that
come or go and fails on one that is there. Unique names and rows are locks, as in
`PointsAccount`; the foreign key's `FOR KEY SHARE` on the role is `<<"share", r>>`.
A deadlock's victim starts over, up to `Attempts` times. `past` is a history that
only properties read: what happened while each call was in flight. Audit rows are
left out.

**ImageVolume.** The volume (`files`: the modification time of each), the galleries
and avatars that refer to it, uploads, product forms and profile edits, and
`Cleanup` step by step: list, ask whether the key is referenced, stat, delete.
`Touch` gives a dropped file the time of its replacement, before the edit
commits. `Put` holds the volume's mutex while it writes a temporary file; `Crash`
stops the server at any moment, rolls back what was open and leaves temporary
files (`litter`), which count against the capacity for ever. The clock counts in
units longer than a request: `Pause` lets the requests in flight end before
`Tick`, while a sweep may last for many units. A form may name images that were
uploaded up to `Patience` ago, and `Patience < Grace` is assumed: nothing in the
code ties the two, an administrator who leaves a form open for longer than the
grace period does lose its uploads. Errors of the disk are not modelled (`Touch`
passes over them silently).

**ConnectionPool.** Which connections a request of an administrator holds while it
asks for another: the middleware's look-ups give theirs back, a transaction keeps
its own to the end, and the failure audit of a denied coupon write or a refused
image asks for the actor's role by a query outside its transaction. `TimeOut` is
the server's `ReadTimeout`, which cancels the request's context; it only matters
when all connections are held by requests that wait for another.

**SumProofs, MallProofs, CheckoutProofs, PointsAccountProofs, AddressBookProofs,
AdminAccountProofs, BackofficeProofs, ImageVolumeProofs.** The theorems (section 5);
`SumProofs` has the lemmas about sums over finite sets that the others cite.

`PROJECT.json` maps each definition to the lines it stands for. Operators named
as mutants in their comment (`ShipAgain`, `LockCartOnce`, ...) are not part of any
specification: each is a plausible bug, and substituting it for the definition
it follows makes a run fail.

## 3. Runs

| Run | Question | Instance |
|---|---|---|
| lifecycle | Do points, goods, stamps and audit rows stay consistent with each other through any sequence of use cases? | one buyer, product, cart row and order, two administrators, one adjustment key, one edit of the address and one unit of extra supply; failure audit rows are checked when they appear and not followed further |
| replay | Are double submits, retries and edits in between atomic, free of cycles of waiting transactions (`NoCyclicWait`), never refused once the order exists, and all answered? | two processes, three requests over two cart rows and two keys, quantities 1..2, one address edit |
| crossing | Do orders over crossing rows, different requests under one key, and refund reviews stay atomic, in lock order, with true answers? | two processes (each serves any of three orders or a refund approval, and retries), one unit of each product |
| onekey (violated) | Two different requests under one key in flight | as above, two requests |
| points_steady | Are logins and adjustments atomic and answered while the bonus is constant? | three processes, a debit and a credit under one key, a credit under another |
| address_book | Is the book atomic through index waits, deadlocks and retries, and does every call get an answer? | three processes, two addresses and a new one, two attempts |
| admin_sessions | Do revoked sessions stay revoked, is the account closed only on purpose, and are guesses bounded while windows open and close? | two calls, two passwords, two addresses, revocations begun at the first two versions (`MaxVersion`), three points of time with windows of two; the clock only moves while the version is the first (`LimiterApart`) |
| admin_overlap (violated) | ... whatever is written over what? | two calls, two passwords, one point of time |
| backoffice | Do replacements, renames, creations, assignments, the bootstrap and gated writes take effect as asked, and do they all end? | two processes, two roles and a new one, three names, two codes, seven requests, two attempts |
| images | Is every referenced image served, is the grace kept and the capacity, and do orphans go? | two requests, two keys, one product, room for one file, three points of time, one crash |
| images_avatar (violated) | ... and every avatar? | the same |
| pool (violated) | Is every denial answered and recorded? | three requests, two connections |

The bounds: one buyer is enough where every row and lock of a call belongs to one
buyer; orders of different buyers only meet at products, which the second
process covers because it may hold any subset of the locks of its call. Two
processes are enough for every pair of statements to interleave, and each
process may retry without limit, so a run sees a third and fourth attempt; the
points and address runs have three, because there a third call can change what
the other two disagree about. `MaxInt` is 3 or 7, so that balances do reach the
top of their column. `Bounded` in the MC modules stops only the growth of
failure audits and of supply. Runs with liveness use no symmetry. In `backoffice`
processes are reused, so two of them serve any number of requests in turn; the
seven requests are chosen so that two of them meet on every lock (a name that is
created and left, codes that are deleted and inserted, a role that is renamed and
assigned). In `images` a volume with room for one file makes uploads compete, and
three points of time are enough for a file to be stored, replaced and expired;
`MaxClock`, `MaxCrashes` and `MaxVersion` bound the counters of the models. Two
connections and three requests are enough for a full pool: the third is the one
that has to wait behind it. In `admin_sessions` calls overlap in every order, the ones that
revoke tokens included; two calls and `MaxVersion = 3` are enough for a version to be
written twice, to be left and to come back, and for a new one after that. Its
constraint `LimiterApart` keeps the two halves of the module apart: the limiter
reads the clock and never the row, so that its windows are explored at the first
version and the revocations at one point of time.
`CHECK_DEADLOCK FALSE` nearly throughout: ids are used up and clocks end, and then
the system rightly stops (`backoffice`, where nothing is used up for ever, does
check deadlock); that no *transaction* gets stuck is what `EveryCallAnswered` and
`EveryRequestEnds` check.

Fairness is strong fairness of each process's next statement. The Go scheduler
runs every goroutine whose statement can proceed; PostgreSQL's row lock queues
are first come, first served, so a statement whose lock is free again and again
gets it, which is what strong, not weak, fairness says. Disconnections, retries
and new calls are never fair: nobody has to make them. Deadlocks are broken by
the database (`Victim` is part of the fair step); in `Checkout` and
`PointsAccount` there are none, and no victim either. `VolumeFairness` adds what
`main` runs: the ticker starts a sweep whenever none is running, a sweep goes on
to its end, time passes, and a question about a key that is asked in sweep after
sweep is answered in the end rather than failing each time.

## 4. What the runs show

They agree with the code's intentions in nearly everything: the locks that order
creation, replay and refund approval take make them atomic, in one lock order,
through lost answers and retries; the ledger reconciles; stock and points are
conserved;
the success rows of the audit log name whom the orders name; permissions are decided on the rows as
they are; no gallery shows a picture that is gone.

Four statements do not hold, each a run that TLC violates:

- `SameKeyReplaysOrConflicts`: after the unique violation on `(user_id,
  client_token)`, `Execute` drops the conflict that `resolveAfterConflict` finds
  and answers 500 (`create.go:297`).
- `SessionsEnd` in `admin_overlap`: logouts, password changes and deactivations each
  write the version they read without a lock plus one (`admin/service.go:405`, `:482`,
  `:569`), so overlapping ones lose updates. The run shows a password change that
  has read version 1 and is busy with Argon2id while a logout writes version 2; a
  login with the old password gets a token of version 2; the password change
  writes version 2 again, with the new hash, and the session of the old password
  goes on. With a single password TLC finds the other sequence: the slower of the
  calls moves the row back to a version that was left, and revoked tokens are
  accepted again. `SessionsEndForGood` and `TokensKnowPassword` in `admin_sessions` say
  that this is the only way, and that either is over with the next new version.
- `AvatarsServed`: avatars are files of the same volume, and the sweep asks only the
  products whether a file is referenced: every avatar goes when its grace period
  is over (`product/service.go:364`).
- `DenialsRecorded`: the audit of a denied coupon write looks the actor up on a
  second connection while its transaction holds one; as many of them as there
  are connections wait for each other until they time out
  (`coupon/permission_audit.go:43`).

Where the documents and the code disagree and one request is enough to see it, no
run is spent:

- Refunds of shipped orders. `src/specs/refund/spec.md:14` and `:26` let buyers ask for
  paid orders only and answer 409 for shipped ones, `:69` and `:74` and
  `src/docs/tech-specs/flows.md:104`, `:114` and `:135` send a rejected request back to
  paid, `src/docs/prd.md` (US-407, FR-21, FR-37) agrees with them, and the CHECK that
  `src/docs/architecture/05-database.md:164` prints forbids a shipper outside `shipped`
  and `completed`. The code takes requests from shipped as well
  (`refund.go:101`, `:124`), rejects those back to shipped (`refund.go:269`, and the
  comment there), its tests want both (`refund_test.go:245`, `:435`), and the CHECK of
  `migrations/0001_init.up.sql:124` allows it. `Mall` follows the code, and
  `RejectRestores` is the promise of the code's comment and test, not of the
  documents; `RejectToPaid`, which `StampsMatchStatus` excludes, is what they describe.
- Nothing keeps the last super administrator from being switched off or given
  another role, although `src/specs/admin-authz/spec.md:142` and
  `src/docs/architecture/03-admin.md:61` ask for it (the box in `contract.md:28` is
  unchecked): `UpdateAdmin` has no such check (`admin/service.go:565`), and neither
  has `Enable`.

Facts that the models show and that nobody promises otherwise, or that hold only
under a condition of the specification:

- A second copy of a debit that is in flight may be refused and audited for lack
  of points although the first copy was posted (`adjust.go:144`).
- `points_steady` keeps the signup bonus constant. When a deployment raises it from
  zero, a login may overwrite an adjustment that was committed after the login
  had read a zero balance (`user/service.go:257`); `PointsImplementMall` then
  fails.
- An edit of an address that sets `is_default` leaves the flag out when the row it
  read unlocked had it already; if another promotion commits in between, the call
  succeeds and the address is not the default (`address_service.go:204`). The book
  stays consistent, which is what `ImplementsBook` says.
- Two overlapping replacements of one role's codes may leave the union of both:
  each deletes the rows of its own snapshot. `ReplacementTakes` states exactly how
  far this goes.
- `UpdateAdminUser` commits the new state before the role is assigned, and a
  failure of the second transaction leaves the first (`handler.go:548`).
- `GraceAfterReplacement` has a slack of `Patience`: an update that overlapped the
  one that brought an image in may drop it without having seen it, hence without
  touching it.
- The audit row of a coupon template's switch may name a status that another
  switch has replaced meanwhile (`coupon/service.go:251`).

## 5. Proofs

For any sets of users, products, orders, keys, administrators, processes, images
and roles. The assumptions are those of the modules: `MaxIntAssumption` and
`MallAssumption` (the widths are naturals, prices are positive, null is no
administrator), `CheckoutAssumption` (calls are well-formed, answers and order
numbers differ, ids are ordered), `ProcsAssumption` of `Checkout` (finitely many requests are
in flight), `PointsAssumption` (calls are records of ids),
`BookAssumption` (likewise; finitely many processes, at least one attempt), `AccountAssumption`, `VolumeAssumption` (`Patience < Grace`, finitely
many processes), and `OfficeAssumption` (the tables at first are consistent).

| Theorem | Statement | Argument |
|---|---|---|
| `TypeCorrect` | `Spec => []TypeOK` | `TypeOK` is inductive: one lemma per group of actions; what order creation takes from the shelf is bounded by `Purchasable`, what a refund returns by `RefundFits`, what is posted by the guard of `PostPoints` |
| `Reconciles` | `Spec => []LedgerReconciles` | inductive together with `TypeOK`: each append continues the chain (`AppendReconciles`); a login's absolute write is sound because it happens at balance 0, which the invariant equates with the last `after` |
| `StampsCorrect` | `Spec => []StampsMatchStatus` | not inductive alone: a rejection decides by `shippedBy` where to go back. `LifeInv` adds `OriginRecorded`: while a refund is requested, `shippedBy` is null exactly when the request came from `paid` |
| `RejectionRestores` | `Spec => RejectRestores` | from `LifeInv` |
| `AuditCorrect` | `Spec => []AuditAgrees` | inductive with `LifeInv`: `Ship` needs `paid`, where no shipper is recorded |
| `ChargesCorrect` | `Spec => []ChargedAndRefunded` | inductive with `TypeOK`: event keys are unique (guard of `PostPoints`), ledgers only grow, and a refund key is only posted when the status becomes `refunded` |
| `StockCorrect` | `Spec => []StockConserved` | `StockInv` adds `LinesInv`, that the lines of one order name different products (because the rows of one cart do), and that the lines summed over are finitely many. An order takes from each shelf what its one line about the product adds to the sum, an approval gives it back; a product update moves `supply` along. Each step adds one line to the set summed over, or takes it away (`SumWithNew`) |
| `PointsCorrect` | `Spec => []PointsConserved` | `PurseInv`: the property, and that the orders are finitely many, without which the sums mean nothing. An order spends what it posts, an approval posts and unspends the same total, a login or an adjustment grants; the status is what keeps a total from being returned twice |
| `KeysNameOneOrder` | `Spec => []KeysInv` | of two orders of a buyer no two have one client token, and the cart rows of an order stay deleted (ids are not reused), so a key once used cannot come back with another meaning |
| `BalanceIsLedgerSum` | `Spec => []`(balance = sum of the buyer's ledger deltas) | from `Reconciles`: the chain of `after` adds up (`ChainSum`) |
| `PricedInAnyOrder`, `TotalIsExact`, `HighestPriceWraps` | about `OrderTotal` | an accepted total is accepted in whatever order the loop visits the lines (no partial sum overflows); where every product of price and quantity fits `int64` the total is the sum of those products; and that condition is needed, since the product itself is not guarded (`create.go:368`): three units at the highest price come to less than one |
| `TxTypeCorrect`, `AnswersTrue`, `LockOrderKept` | `CheckoutSpec => []TxTypeOK`, `[]AnswersAreTrue`, `[]LockOrderRespected` | `CheckoutInv` says of each process what its statement implies: which rows it has locked (`LocksOK`), and that what it noted of them is still in the tables, in ascending order (`ReadsOK`). The steps of others keep that (`ProcKept`) because orders never lose their key and hash (`Growth`) and locked rows do not change (`Keeps`); locks are exclusive |
| `RefinesMall`, `RefinesMallSpec` | `CheckoutSpec => ImplementsMall`, `CheckoutSpec => Spec` | at the commit the lines noted under the locks are the lines of the tables (`LinesNow`), so the commit is `CreateOrder` or `ApproveRefund` of `Mall`; every other statement leaves the tables alone. The theorems about `Spec` thus hold of the interleaved transactions |
| `PromisesKept` | `CheckoutSpec => []`(the ledger, charges, points, stamps, stock and audit invariants) | `RefinesMallSpec` and the theorems about `Spec` |
| `NoCycleOfWaiters` | `CheckoutSpec => []NoCyclicWait` | by contradiction: were everybody in a group waiting for a row that another of the group holds, take the highest row waited for. Its holder waits for a row above all it holds (`LockOrderKept`), hence above the highest. The rows waited for are finitely many (`ProcsAssumption`), so the highest exists (`LastRow`) |
| `DuplicatesWelcome` | `CheckoutSpec => DuplicateNeverRefused` | `CheckoutInv` and `KeysInv`: the order a key has made keeps its hash (`Moves`); a call for the same request finds it in the first look, or in the second one after a cart row is gone, or in the third one after the unique violation, so it ends with that order or without an answer |
| `PointsTypeCorrect`, `AnswersMatch` | `PointsSpec => []PointsTypeOK`, `PointsSpec => []AnswersMatchCall` | parts of `PointsInv`, which is inductive (`PointsInvariant`): success is answered at the commit that posts or after the comparison with the entry that was found, and entries stay (`Growth`) |
| `SteadyBonusIsAtomic`, `SteadyBonusRefines` | `OneBonus => (PointsSpec => PointsImplementMall)`, `OneBonus => (PointsSpec => Spec)` | a login that awards has read balance 0 without a lock. With one bonus for all every buyer in the table has the entry already (`BooksOpen`: insert and award commit together), so only a login that inserts the buyer awards; it has that buyer locked until its commit, so the absolute write is `Login` of `Mall` |
| `SteadyBonusConserves` | `OneBonus => (PointsSpec => [](LedgerReconciles /\ PointsConserved))` | from `SteadyBonusRefines` |
| `WaitsGoForward` | in `PointsSpec` whoever waits for a lock is at an earlier stage of its transaction than its holder | `HeldInv`: the lock of `openid` is held from the upsert on, the buyer's row from the posting on and an event key at the commit only. Hence no cycle, although logins and adjustments ask for the two in different orders |
| `BookTypeCorrect` | `BookSpec => []BookTypeOK` | from `BookInv` (`BookInvariant`): what a process is about to write it has locked and it is as it found it (`LocksOK`), and who changes the index entry has locked the default (`SlotOK`); a row's version is bounded by the calls that have ended, which needs cardinalities |
| `BookIsAtomic`, `DefaultOutlives` | `BookSpec => ImplementsBook`, `BookSpec => DefaultSurvives` | at the commit the rows that were cleared are all the defaults but the call's own (`Rivals` was empty, and the index entry has been held since), so the write is `Insert`, `Promote`, `Touch`, `Demote` or `Remove` (`CreateOK`, `EditOK`, `DeleteOK`) |
| `AccountTypeCorrect`, `EnabledByRequest` | `AccountSpec => []AccountTypeOK`, `AccountSpec => EnabledOnPurpose` | `AccountInv` adds to the types what each call in flight carries and that only a process at its commit holds the row; `enabled` is then written only by the call that names it |
| `RevokedForGood`, `PasswordKnown` | `AccountSpec => []SessionsEndForGood`, `AccountSpec => []TokensKnowPassword` | however revocations overlap: `SessionInv` says that whoever is at work read a version the row had, that tokens carry such versions, and that while nothing is overwritten those left are below the row's and whoever read the row's version, or holds a token of it, read its password (`OrderedInv`). A commit that leaves `overwritten` false either moves nothing or reaches a version above all used ones (`NothingLost`, `CommitMoves`), which nobody has read and no token carries |
| `GuessesStayBounded` | `AccountSpec => []GuessesBounded` | `LimiterInv`: the account's window counts every attempt since it started, its first one is not among those after its start, and a span that reaches back into the window before leaves out the first attempt of that one (`WindowInv`): two budgets, less one |
| `VolumeTypeCorrect` | `VolumeSpec => []VolumeTypeOK` | `TypeInv` is inductive |
| `GalleriesAlwaysServed`, `GraceKept` | `VolumeSpec => []GalleriesServed`, `VolumeSpec => GraceAfterReplacement` | `UseInv`: what a form in flight names is on the volume and younger than the grace period or in its gallery (`FormInv`); what the sweep is about to delete has been out of every gallery and form for long enough (`SweepInv`); a key that left a gallery has a file touched no earlier than `Patience` before (`LeftInv`) |
| `CapacityNeverExceeded` | `VolumeSpec => []CapacityKept` | `RoomInv`: the volume's mutex lets one process write, so the look under it is still true at the rename; needs cardinalities of the process sets |
| `OfficeTypeCorrect` | `OfficeSpec => []OfficeTypeOK` | `OfficeInv`: each process keeps within its program (`ProgramOK`), holds the locks of the names it gives and leaves (`NamesOK`), and no two hold the same name or role row (`Apart`), hence a name that was free under its lock is free at the commit |
| `GateLive`, `ReplacementsTake`, `RoleAsRequested` | `OfficeSpec => GateDecidesLive`, `ReplacementTakes`, `AssignsRequestedRole` | `PastOK` in the same invariant relates what a process has read to what others committed since (`RolesStep` and `WitnessOf` are the two lemmas about commits of roles) |

Sums over sets (`SumFunctionOnSet` of the community modules) are folds, which the
provers cannot induct over. `SumProofs` derives what is needed from the one fact
that the fold picks an element and goes on without it: of the subsets of a finite
set on which a claimed law fails there is a smallest one (`LeastSubset`), and one
unfolding contradicts it. So sums of parts, unions, changed values and bounds are
ordinary lemmas.

Every invariant and every action property of the passing runs is a theorem. Only
model-checked are the properties that need fairness: `EveryCallAnswered` of
`Checkout`, `PointsAccount` and `AddressBook`, `EveryRequestEnds` of `Backoffice`
and `OrphansGo` of `ImageVolume`.

## 6. Not modelled, and the plan

Not modelled: HTTP parsing and rendering, CSRF and request limits (stateless or
library code), configuration, logs, metrics, the WeChat call (outside every
transaction), the front ends' rendering and the deployment scripts. Read-only
use cases (lists, searches) change nothing and promise nothing across calls.
Crashes of the service are `Disconnect` where the state is in the database, as a
transaction that does not commit leaves nothing, and `Crash` in `ImageVolume`,
where files are left behind; a crash also empties the login limiter, which only
lets more attempts through and is left out of `AdminAccount`. Also left out: the
audit rows of roles and coupon templates, the expiry of tokens, the rules of a
coupon template (frozen when it is created), errors of the disk.

What could come next:

1. **Mini program**: token refresh and the life of a checkout session's
   Idempotency-Key, as the client of `Checkout`.
2. **Composition** of `AdminAccount` with `Backoffice` for several administrators, with
   the audit rows of both.
