# The betting pool, in TLA+

A verification project for the NestJS/PostgreSQL backend under `src/src`: users
bet on numbers with a credit balance, operators top balances up, withdraw from
them, declare the winning number of a game and, within a day, correct it.

The modules model the code. TLC checks them on small instances, and TLAPS proves
the theorems about them for every value of the constants.

## 1. Inventory

| Component | State | Operations |
|---|---|---|
| Wallets and credit ledger (`wallet.service.ts`) | `UserWalletTbl.Balance` (32-bit, one row per user by a unique index); `CreditTransactionTbl` (TOPUP, CREDIT, BET_DEBIT, WITHDRAW; soft-deleted rows) | `topUp`, `credit`, `debit`, `reverseCredit`, `createWalletForUser`, `updateCreditReference`; listings and summaries |
| Withdrawals (`withdraw-request.service.ts`) | `WithdrawRequestTbl` | `create` (debits at once), `listAll` |
| Bets (`game.service.ts`) | `GameBetTbl` (its `ResultId` is null while the bet is pending), `GameBetNumberTbl` | `placeBet`, `resolveSelections`; listings |
| Results (`game-result.service.ts`) | `GameResultTbl` (number, settled bets, winners) | `declareResult`, `updateResult`, `listResults` |
| Game sub types (`game-sub-type.service.ts`) | `GameSubTypeTbl` (name, closing time IST, active) | `assertBettingOpen`, `updateSubType`, `getResultsBoard` |
| User administration (`users.service.ts`) | `UserIdentityTbl` (password hash, active, locked) | `createUser`, `setLockStatus`, `resetPassword`, `listUsers` |
| Authentication (`auth.service.ts`) | `UserIdentityTbl.LastLoginAt`, `RefreshTokenTbl` | `signUp`, `signIn`, `refreshToken`, `changePassword`, `logout` |
| Roles, presets | `UserRoleTbl`, `BetAmountPresetTbl` | `assignRole`; `addAmount`, `deleteAmount`, `seedDefaultsForUser` |
| Database connections | the pg pool, 10 connections by default, shared by all requests | a transaction keeps one, a statement outside a transaction borrows one |
| Reporting (in the services above) | none | `listBets`, `listResults`, transaction and withdrawal listings, `getTransactionsSummary`, `listUsers` |
| HTTP plumbing | none | validation pipe, guards, filters, interceptors, Swagger, logging |

**How they interact.** Everything meets in the database: one Node process (or
several) serves requests concurrently, and every `await` of a query lets the
others run. `placeBet`, `topUp`, `create` (withdrawal), `declareResult` and
`updateResult` each open one transaction at PostgreSQL's default level, READ
COMMITTED. `placeBet` first reads the account and the sub type outside its
transaction. Both settlements call `WalletService.credit` once per winner, and
corrections call `reverseCredit` once per old winner, so a settlement holds the
wallet rows of several users at a time. The account services use no transaction:
each `save` commits alone.

**What is hard.** Two settlements of one game that overlap. Payouts taken back
from a balance that has been spent meanwhile. A failure in the middle of a
settlement. The first two top-ups of a user without a wallet. Wallet locks
taken in different orders by settlements of different games, and a pool of
connections all of them share. Corrections at
the end of the 24 hours, and corrections of corrections. The range of the
integer column. Splitting and merging stakes. Outside the money: accounts
created in four commits, stale entities written back by `save`, rotation
of refresh tokens, access that hangs on an email, listings read page by page while
transactions commit in another order than they began, and a results board that spans
midnight. `PROJECT.json` lists each of these at its line.

**What makes each component correct.**
Ledger: balances equal the live rows, and the rows are explained by the
business records. Spends: never below zero. Bets: on record exactly if paid for,
at the price and odds the body asked for. Results: winners stored, paid and
scored are the same, once. Window: frozen when it is over. Requests: end.
Accounts: names and emails are held once, an answered creation is complete, and
a lock or reset is not undone by a concurrent save, and an admin reaches the accounts he
created and no others. Sessions: a refresh token that
was exchanged is of no use any more. Board: every result under its sub type and its
Indian day. Listings: no row missed, and the summaries add up to the balances.

## 2. Modules

| Module | What it is |
|---|---|
| `PrizeRules` | what a slip costs and wins (`totalAmount`, `getWinners`) |
| `PoolLedger` | the core: all requests that move money, statement by statement |
| `HouseBook` | the abstract specification: each operation at once, no requests, locks or failures |
| `PoolLedgerProps` | the properties of `PoolLedger` and the refinement (`Book == INSTANCE HouseBook WITH ...`) |
| `PooledLedger` | `PoolLedger` on the pool of database connections; liveness |
| `BetSelections` | `PlaceBetDto` and `resolveSelections`: from a body to rows |
| `Accounts` | identities, roles, wallet rows, presets and refresh tokens, one statement per step; who may open whose wallet |
| `AccountsProps` | the properties of `Accounts` |
| `SubTypes` | edits of sub types and the results board, one query per step, with its properties |
| `Reports` | the listings, page by page, and the transaction summary, over `HouseBook` |
| `ReportsProps` | the properties of `Reports` |
| `MCPoolLedger`, `MCPooledLedger`, `MCBetSelections`, `MCAccounts`, `MCSubTypes`, `MCReports` | small instances for TLC |
| `Sums` | lemmas about sums over finite sets, on which the proofs about money rest |
| `PoolLedger_proofs`, `PoolLedgerMoney_proofs`, `PooledLedger_proofs` | theorems and proofs about the ledger, each on top of the one before |
| `Accounts_proofs`, `SubTypes_proofs`, `BetSelections_proofs`, `Reports_proofs` | theorems and proofs about those modules |

`PoolLedger` extends `PrizeRules`, and so do `Reports` and `BetSelections`,
whose resolved rows are the slips of `PoolLedger`. `HouseBook` takes what a slip
costs and wins as parameters; `PoolLedgerProps` and `Reports` instantiate it with
the rules of `PrizeRules`. `PooledLedger` extends
`PoolLedgerProps`: its steps are those of `PoolLedger` for which a connection is
free. In `Reports` a transfer or a bet commits as one operation of `HouseBook`: what those
do to the committed rows does not depend on what they have read before. A settlement
does depend on it, and is a find and, at its commit, the writes that follow from what it
found. `Accounts` stands alone: the
two meet in the lock flags of an account, which `PoolLedger` reads when a bet
arrives, and in the wallet row, which `Accounts` creates empty. `SubTypes` has the
results only as far as the board shows them.

### PoolLedger and the code

The committed tables are `wallets`, `balance`, `net` (what the live ledger rows
of a user add up to), `bets`, `results` and `payouts` (the live CREDIT rows). A request
inserts at most one bet or result, so the request is that row's id. What a request has
not committed is in `tx` (values it has read or will write), `delta` and `dnet`
(its changes to a balance and to the ledger), with `lock` naming the holder of a
wallet row. `pc[r]` is the next statement.

| Code | Actions |
|---|---|
| `topUp` | `TopUp` (looks for the wallet), `InsertWallet`, `RaiseBalance`, `CommitTransfer` |
| withdrawal `create` | `Withdraw`, `Debit`, `CommitTransfer` |
| `placeBet` | `PlaceBet` (account), `AssertBettingOpen`, `Debit`, `CommitBet` |
| `declareResult` | `Declare` (find), `LinkBets` (insert, link, score), `CreditWinner` per winner, `CommitDeclare` |
| `updateResult` | `UpdateResult` (checks), `FindCredits`, `ReverseCredit` per payout, `Rescore`, `SaveResult`, `CreditWinner` per winner, `CommitCorrection` |
| `setLockStatus`, `updateSubType` | one action each, as far as bets see them: the account flags; activity and closing time of the sub type |
| rollback, crash, timeout | `Abort` in the error branches, `Fail`, `DeadlockVictim` |

How PostgreSQL is modelled:

- A read sees what is committed at that statement (READ COMMITTED) and the
  request's own writes.
- An UPDATE takes the row's lock, waits while another transaction holds it, and
  then works on the newly committed row. `debit`'s condition is evaluated on the
  committed row first: a row that does not match is not waited for, and a row that
  does is checked again after the wait.
- A commit publishes all of a transaction, and a rollback or crash none of it.
- The unique index on `UserId` makes an insert wait for an uncommitted one and
  fail after a committed one.
- The deadlock detector aborts a member of a cycle of waits.
- `save` of a loaded entity reloads the row and writes the columns that differ
  (`loaded`, `Saved`). A correction's `save` is taken to find at least one (`updatedBy`,
  which the model leaves out, if nothing else), and so to lock the result (`LockedResult`).
  One that finds none sends no UPDATE and would not wait there.
- A value outside the integer column, or beyond the `::int` cast of
  `getWinners`, fails the statement and so the transaction.

What is one step. A step holds the statements between two points another
transaction can tell apart. Statements that touch only rows the request has
locked or has just inserted join the step before them: the read of the new
balance and the ledger row after `increment`; the insert of the result, the link
UPDATE, `getWinners` and the second `save` after the link's locks are
taken; and, in a correction, `getWinners` and the SELECT of `save` in `Rescore`.
The link UPDATE takes the locks of all its bets in one step. `credit`'s
`createWalletForUser` always finds the wallet, because a winner has had a bet
debited from it.

Abstractions. Amounts are small integers; names, remarks, `balanceAfter` and
`updatedBy` are left out. `Standing` are bets already on record when a run
starts, `Opening` the balances. A winner's entry is his amount and winning bets;
a user who is no winner has an empty entry. Winners with equal amounts are paid
in any order, as `ORDER BY "winningAmount" DESC` leaves it. Locks on accounts,
activity and closing time of sub types and the clock are the environment of bets and
corrections; an edit of a sub type is one step here, since a bet reads the row once
(`SubTypes` has its find, reload and write apart). `CloseAt` are the closing times at first.

`OneSettlementPerGame` is not in the code. When TRUE, an operator starts no
settlement of a game while another is under way. The properties that need
it are checked and proved with it; `DoubleDeclare` and `DoubleCorrection` show
what the code does without it, and `Funding`, in which it is FALSE, what it still
guarantees.

### PooledLedger and the code

`Connected` are the requests that hold a connection: those in a transaction.
`placeBet` reads the account and the sub type outside its transaction and only borrows
one each time, so it is not among them before `assertBettingOpen`. `PooledArrive`
and `PooledProceed` are the steps of `PoolLedger`, enabled only with a free
connection if the statement needs one (`NeedsConnection`). That is the case of every
first statement, and of the last step of a settlement: `declareResult` and
`updateResult` call `toResponse` inside their transaction, and `toResponse` reads the
sub type through the repository of the service, which does not know the transaction
and takes another connection (`SecondConnection`). The data source sets neither the
size of the pool nor a timeout for waiting on it, so those are the defaults of `pg`,
10 and none.

### BetSelections and the code

A body is received, validated (`Validate`: the ranges of `PlaceBetDto`) and
resolved (`resolveSelections`: merge direct picks, merge groups by digit and
position, split a group over its ten numbers, tag the rows). Rejected bodies have
no rows. Selections stay sequences, since the code folds over them in order.

### Accounts and the code

No account request opens a transaction, so every statement commits by itself and
`Fail` may end the request after any of them. The tables are `users`, `roles`,
`wallets` (who has a row), `presets` and `tokens`; a request inserts at most one
account and one token, so it is the id of both. `tx` holds what it has read.

| Code | Actions |
|---|---|
| `signUp`, `createUser` | `SignUp` / `CreateUser` (looks for the email and name), `InsertUser`, `AssignRole`, `FindWallet`, `InsertWallet`, then `IssueToken` or `SeedDefaults` |
| `updateCreditReference` | `UpdateCreditReference`, `FindWallet`, `InsertWallet` |
| `signIn` | `SignIn` (find, check), `LoadIdentity`, `SaveIdentity`, `IssueToken` |
| `changePassword`, `resetPassword`, `setLockStatus` | one action each (find, check, edit), `LoadIdentity`, `SaveIdentity` |
| `refreshToken` | `RefreshToken` (find, check), `CheckOwner`, `RevokeToken`, `IssueToken` |
| `logout` | `Logout`, `RevokeToken` |
| `addAmount`, `deleteAmount` | `AddAmount`, `AddPreset`; `DeleteAmount`, `DropPreset` |

`save` of an entity that was read earlier is two statements, as TypeORM runs them:
`LoadIdentity` reads the row and `SaveIdentity` writes the columns in which the
entity differs from it (`Written`). `save` of new rows is one INSERT, and of several rows one
transaction. An INSERT that a unique index or a foreign key refuses is not enabled, and
`Fail` ends its request. `save` of a token writes `RevokedAt` alone, so its own
reload is left out. `IssueToken` is the read of the roles and the INSERT of the
token nobody knows yet. Passwords are compared as they are; phone numbers
and `updatedBy` are left out, and `lastLoginAt` is whether there was one.

An account keeps `createdBy`, an email, as `by`. `CanAccess` is
`assertCanAccessUser`, `AccessibleUsers` is `buildAccessibleUsersWhere`, and
`ResolveAccessible` is `resolveAccessibleUserIds`, which takes one or the other. They are
read-only, so they are operators on the tables and not actions. `HasRole` is what
`RolesGuard` requires of the actor, with the roles he has now; those in his token
were read when it was issued, and no operation takes a role away.

### SubTypes and the code

| Code | Actions |
|---|---|
| `updateSubType` | `UpdateSubType` (read and merge), `LoadRow`, `SaveRow` |
| `getResultsBoard` | `GetResultsBoard` (active sub types), `GetIstDayBoundaries` (the clock), `ReadResults` (results and board) |
| `declareResult` | `DeclareResult` (start of the transaction, which dates the row), `CommitResult` |
| `updateResult` | `UpdateResult`, at its commit |

Time counts from a midnight UTC in ticks, and an Indian day begins `Offset` ticks
earlier. `Merged` writes the columns the body sets over those read; `save` writes
the columns in which the entity differs from the row it reads again. The board is an
entry per display name; of two results with the same date either may come
first. A result whose sub type's name is empty is dropped, as the code's test of
`displayName` does.

### Reports and the code

A writing request begins (`Start`, which dates its rows) and commits (`Commit`); many may
be between the two, so rows appear in another order than their dates.

| Code | Actions |
|---|---|
| `topUp`, withdrawal `create`, `placeBet` | `Start`, `Commit` (`CommitTopUp`, `CommitWithdraw`, `CommitBet`: an operation of `HouseBook` and its ledger row) |
| `declareResult` | `Start`, `FindBets` (the pending bets), `Commit` (`CommitDeclare`: link the bets found, score and credit them) |
| `updateResult` | `Start` (checks), `FindCredits` (the live payouts), `Rescore` (new winners, and the row `save` loads), `Commit` (`CommitCorrect`: take back and soft-delete what was found, save, credit) |
| rollback of a settlement | `Fail`; a transfer or bet that fails is one that never commits |

`tx` is what a settlement has found. Its commit applies that whatever has been
committed since, as the code does: a second declaration links bets by their ids
again, and a second correction takes a credit back that is already deleted. `Reports`
has the races of `DoubleDeclare` and `DoubleCorrection` in it, therefore, unless
`OneSettlementPerGame`, the discipline of operators described above, excludes them. The
row locks a settlement takes between its find and its commit only delay requests;
without them `Reports` has every order of commits the code has, and more. A correction
may also come at any age of its result.

A reader asks for a listing (`Ask`), and
for each page runs `ReadPage`, `Count` (the second query of `findAndCount`, which
TypeORM leaves out when the page tells the total), `ReadNumbers` for bets
(`getWinningNumberByResult`), and takes the page (`Show`).

`Selected` is what the WHERE of each listing selects, and `Windows` every page
PostgreSQL may answer for ORDER BY, OFFSET and LIMIT: rows with equal dates come
in any order. A date is a day, or a day with a time (`iso`), which
`buildDateRangeFilter` turns into an Invalid Date (`Parsed`, `Reject`). The last tick
of a day stands for the microseconds after its 23:59:59.999. Names, display
names and slips, joined to the rows of a page for display, are left out.

## 3. Runs

| Run | Shows | Distinct states |
|---|---|---|
| `Round` | two bets, settlement, correction, second correction or declaration, withdrawal, around the end of the windows: `BalanceMatchesLedger`, `PaidAsScored`, `CountMatchesLinks`, `SettledOnce`, `OnlyCorrectionsOverdraw`, `FrozenAfterWindow`, and `ImplementsBook` (refinement) | 278,510 |
| `Funding` | two first top-ups, spends, lock or a new closing time, two settlements of one game at once, a correction, a column of -6..5: `TypeOK`, `LedgerExplained`, `OnlyCorrectionsOverdraw` | 743,536 |
| `CrossGames` | two games with the same two winners, a correction, a bet, top-up or withdrawal, three connections: `OnlySettlementsDeadlock`, `EndsUnlessWedged` | 4,433 |
| `Selections` | bodies of up to two direct and two group picks: `StakeIsDebited`, `PaysAsAdvertised`, `RowsTellTheirGroup`, `OrderIrrelevant` | 29,673 |
| `Accounts` | sign-ups racing for a name, edits of an account on record, sessions, presets, accounts created by a new admin: `RowsUnique`, `FlagsAgree`, `AnsweredComplete`, `SuccessorRetires`, `ListsWhatOpens`, `AdminsSeeTheirOwn` | 168,507 |
| `Board` | a board, two edits, two declarations, a correction, over two Indian midnights: `BoardTellsDays`, `UnaskedOnlyUndoes` | 706,905 |
| `Reports` | two bets, a declaration, its correction, a correction of that, a second declaration or a withdrawal, and a client that pages through a listing or a top-up, over two days, one settlement of a game at a time: `PagesReach`, `SummariesAddUp`, `NumberStays` | 1,617,709 |
| `StaleSave` | violates `PasswordsStand` | |
| `DoubleDeclare` | violates `PaidAsScored` | |
| `DoubleCorrection` | violates `BalanceMatchesLedger` | |
| `PoolStuck` | violates `WithdrawalsEnd` | |
| `DateRange` | violates `DatesAccepted` | |

**Bounds.** Every request runs once, so the requests of a run (`Calls`) bound it:
each run has the fewest requests that bring its question about. `Round` has a
winner of both numbers, a winner of one and a loser, so a correction can move,
raise and remove payouts, and a spender that makes a reversal overdraw. A
settlement of one game is a matter of at most two concurrent requests, and a deadlock of
two winners and two settlements; a third would wait for one of them. `MaxInt` is
20 where overflow is not the question and 5 in `Funding`, where a top-up, a
payout and a credit can each exceed it. `Multiplier` is 3: large enough that a
payout differs from every stake. `MaxClock`, `DayLength` and `EditWindow` let the
clock pass the window and the closing time. `PoolSize` is 3 where the code has 10:
with it, two settlements and a third request fill the pool, in every mix of
lock waits and waits for a connection. The numbers of `Selections` are
the edges: "00", a pair covered by both groups of a digit, 100, and 101 out of
range. `Accounts` has one account on record and four requests, each with its
choice of calls: two sign-ups that collide, and two requests that edit the accounts,
presets and tokens these make. `Board` has days of two ticks that begin one tick
before those of UTC, so a day UTC and an Indian day always differ, and a
clock that passes two Indian midnights, so a result can be of today, of yesterday and
too old. `Reports` has days of three ticks, the last of them the fraction after
23:59:59.999, two corrections of one result, the second of which may find the credits of
the first, and one row per page, the limit at which most can commit between two
pages; a reader changes nothing, so one is enough. Runs set `CHECK_DEADLOCK FALSE` because a state in which every request has
ended is a proper end.

**Fairness** (`PooledFairSpec`, for `EndsUnlessWedged` and `WithdrawalsEnd`). Weak fairness of each
request's next statement: the server runs a started request, PostgreSQL
grants a row lock when it is free, and the pool serves whoever waits for a connection, first
come first served. Weak fairness of the deadlock detector, which
PostgreSQL runs after `deadlock_timeout`. None on clients, crashes or the
clock. Requests run once, so waiting for a lock or a connection cannot go on for ever
because of new ones. `WithdrawalsEnd` fails under the same fairness: once the pool
is wedged no step of any request is enabled any more, so no fairness would help.

## 4. Findings

1. `declareResult` links the bets it found by id alone. Two overlapping
   declarations of a game both pay them (`DoubleDeclare`).
2. `updateResult` reverses the payouts it found without locking the result or
   re-reading them. Two overlapping corrections take a payout back twice for one
   deleted ledger row (`DoubleCorrection`).
3. `signIn` saves an entity it read earlier. If a password reset commits before
   `save` reads the row again, the old password is written back (`StaleSave`). The
   same save writes back a lock or an unlock; `FlagsAgree` is what
   remains true then.
4. `toResponse` takes a second connection inside the transaction of a settlement. If the
   other connections are held by requests that wait for the settlement's wallets, all
   of them wait for ever; PostgreSQL sees no cycle, because part of it is in the
   pool of the server (`PoolStuck`). `EndsUnlessWedged` says that this is the only way to
   hang.
5. `buildDateRangeFilter` is said to take "date-only (or ISO) strings", and the queries
   accept both, but a date with a time becomes an Invalid Date (`DateRange`).

Two more disagreements are single lines, and no run is spent on them: a bet on 100 is
accepted (`place-bet.dto.ts:22`), though "Pairs run 00-99" (`ander-bahar.util.ts:7`), and
Ander/Bahar groups, said to be "Jodi only" (`place-bet.dto.ts:81`), are accepted
whatever the game type (`game.service.ts:136`). `BetSelections` models both as the code has
them.

Known limits the properties state rather than hide: a client that pages through
credits can miss a row (`PagesReach` leaves them out, since the credits of one settlement
bear one date and corrections take rows away); two edits of one sub type can
undo each other (`UnaskedOnlyUndoes`); sub types with one display name share an
entry of the board (`Named`); and a day's summary misses the rows of the last
fraction of its last millisecond (`Edge`).

## 5. Proofs

All theorems hold for any users, games, numbers, calls and bounds that satisfy
the assumption of their module: `PoolLedgerAssumption`, `AccountsAssumption`,
`SubTypesAssumption`, `BetSelectionsAssumption` or `ReportsAssumption`. Every
invariant and action property the passing runs check is a theorem, except those
listed at the end of this section.

`ReportsAssumption` says what the code grants: amounts and totals are positive
(`@Min(1)` of the DTOs, and `placeBet` refuses a body without picks), no wallet
opens below zero, the book is empty when a run starts (`Standing`), so that every
row has a date of the run, and a day has at least two ticks. Requests are finitely
many, as those of any run are; how many rows, pages and days there are is open.

`Sums` says what `SumFunctionOnSet` and `MapThenSumSet` return: nothing for the
empty set, one element more for one more element, the sum of both parts for a
disjoint union, the sum of the sums over the values of a key. The folds of the
community modules recurse on sets, and the induction theorems of the library take
an operator nobody can give them here, so each lemma is proved from a smallest
counterexample: the strict subsets of a finite set are well-founded
(`SmallestSet`), a nonempty set of counterexamples would have a least one, and taking
an element out of that leaves a set for which the lemma holds.

`PoolLedger_proofs`: `Invariance` and `Typing`. `TypeOK` alone is not inductive:
a commit must find the values it publishes in range. `IInv` adds `StageOK` (the
stages a call of each kind can be at, and what its `tx` holds there), `RowsOK` (a
row is locked only by a request in flight, an unlocked row has no uncommitted
change, and a locked one a change that fits the column) and `ReadOK` (the
bets and results a transaction refers to exist). One lemma per action shows that it
keeps `IInv`; `ReleaseRows`, `MoveRows`, `AbortStep`, `PublishStep` and the `Tx...`
lemmas carry what the actions share.

`NoOverdraft` (`OnlyCorrectionsOverdraw`) is there too, with no assumption on
operators. Its invariant is `Solvent`: a request that is no correction holds a
wallet only with a change that is positive or covered.

`PoolLedgerMoney_proofs`:

- `MoneyInvariance`, `LedgerAgrees` (`BalanceMatchesLedger`) and `NeverResettled`
  (`SettledOnce`), assuming `OneSettlementPerGame`. `Even` says balance and
  ledger agree, committed and not. It is kept by a reversal only if the row taken
  back is still live, which `FoundOK` says; that holds because no other
  settlement of the same game is in flight (`Serial`), rows of other games are other rows,
  and the ids a settlement inserts are its own (`InsertedOK`). `PendingOK` says the
  same of the bets a declaration has found.
- `ExplainedInvariance` and `LedgerIsExplained` (`LedgerExplained`), with no
  assumption on operators: even two settlements of one game, which may pay bets
  twice, leave no ledger row that the records do not account for. The
  invariant is on what is not committed yet: `Own` says that the change a
  request has made to a user's ledger is what it has written (`Written`), that
  is its own new CREDIT rows less the rows it has soft deleted and that are
  still live. A row that two corrections both reverse counts once, because the second
  finds it dead when it gets the lock (`OwnOK`, `LiveOK`). A commit then adds
  to both sides the same sum of rows.

`PooledLedger_proofs` has what rests on the money invariant, in four parts.

*Results*, assuming `OneSettlementPerGame`: `ResultsInvariance`, and
from it `CountAgrees` (`CountMatchesLinks`), `WinnersPaid` (`PaidAsScored`) and
`WindowCloses` (`FrozenAfterWindow`). `ResultsOK` says that a result's winners, count
and payouts are those of the bets linked to it, the payouts inserted by one request.
It is kept by a commit only if what the settlement has read and computed is
still what it would find now, which `ScoredOK` says. That no other request
disturbs it is `Untouched` (a step that does not commit a settlement of a
result leaves its bets and payouts alone) and `CorrectedAlone` (nobody else settles the
game of a result under correction).

*The refinement*, under the same assumption: `Implementation`, the refinement
`ImplementsBook`. Its invariant `BookInv` adds `PartsOK`: what a request has
written to the wallets and not committed is exactly the part of its operation that
it has done. The wallet updates of a settlement come in any order, but each user has at most
one row among those to reverse and one among those to credit, so a user's part
is his prize or nothing (`Paid`, `Taken`) and no sum is needed. At the commit nothing is
left to do, and the part is the operation: `TransferCommits`, `BetCommits`,
`DeclareCommits` and `CorrectionCommits` map it to the operation of `HouseBook`, and every
other step leaves the tables as they are. `PayeesOK` gives a correction
the wallets it takes back from.

*Waits*: `TransfersNeverDeadlock` (`OnlySettlementsDeadlock`), with no
assumption on operators. Every request of a smallest cycle is waited for by another of it, and
a bet, a withdrawal or a top-up that waits for a wallet holds no other
(`WaitingTransfer`, from `HoldsOwn`), so nobody waits for it.

*The pool*: `PoolOnlyWaits` says the pooled server, of any pool
size, implements `PoolLedger`, so that every theorem about `Spec` carries over;
`PooledLedgerAgrees` and `PooledImplementation` are that for `BalanceMatchesLedger`
and `ImplementsBook`. `VictimsAreConnected` says that breaking a deadlock always
frees a connection.

`Accounts_proofs`: `AccountsInvariance`, and from it each of the six invariants of
`AccountsProps`: `NoTwins` (`RowsUnique`), `FlagsTogether` (`FlagsAgree`),
`CreationsComplete` (`AnsweredComplete`), `TokensExchanged` (`SuccessorRetires`),
`OwnAccountsOnly` (`AdminsSeeTheirOwn`) and `RulesAgree` (`ListsWhatOpens`). None is
inductive by itself, for every statement commits alone: the invariant says of each stage which
rows the request has left behind (`RecordOK`, `ProgressOK`), who may be the
creator of a row (`CreatorOK`) and what an entity in memory may differ in
from the row it was read from. The access theorems need one assumption
about the data, which the migration of the first superadmin justifies: accounts on record
were created by "system", which is nobody's email.

`SubTypes_proofs`: `SubTypesInvariance`, `EditsOnlyUndo` (`UnaskedOnlyUndoes`) and
`BoardRight` (`BoardTellsDays`). `EditOK` says a column in which the row an edit has read
differs from the table has been set by an edit that was answered; a write that undoes
keeps this too, since an answer stays an answer (`Writes`, `AnswersStay`).
`BoardOK` says the three midnights of a board belong to one moment of its request.
The rest is arithmetic of days: an Indian day is an interval of ticks (`DayOf`,
`MidnightsFacts`), and the query's BETWEEN, which takes in the next midnight, shows
today's field as it is at that midnight or before it (`TodayRight`).

`BetSelections_proofs`: `StakeIsDebitedAlways`, `PaysAsAdvertisedAlways`,
`RowsTellTheirGroupAlways` and `OrderIrrelevantAlways`, for bodies of any length and
any amounts the validation lets through. A `Map` of `resolveSelections` is a fold
over the picks in order; `TallyFolds` says that it ends up holding, under each key, the sum of
the amounts picked with that key, whatever the order. `RowsAre` gives the rows from
that, `RowSum` sums the rows on any set of numbers (all of them for the stake, one of them for
the payout), and `TensAndUnits` and `TenPairs` are the arithmetic of digits.
A group's amount is a multiple of ten, so its split loses nothing.

`Reports_proofs`, on `Typed` (the calls, the book, the ledger rows and what settlements
have found in their types, and two commits never share a start). The first two hold
with overlapping settlements too, which the run leaves out; the third needs
`OneSettlementPerGame`:

- `NumberStaysAlways` (`NumberStays`). `Held` relates what a client holds to the book: a
  number it has been shown is that of a settled bet, and a bet it has read as
  settled has a result that exists. Bets stay settled, results stay on record.
- `PagesReachAlways` (`PagesReach`). `Reached` counts the rows that are listed
  before a row (`Ahead`): each row of the first moment that the client has
  not been shown has at least as many rows ahead of it as the next page skips.
  New rows can only raise that number (`SelectedGrows`, `AheadMore`), and a page
  that does not show the row is full and lies ahead of it (`WindowReach`). As
  long as such a row exists, the count says there is a next page.
- `SummariesAddUpAlways` (`OneSettlementPerGame /\ RSpec => []SummariesAddUp`).
  `Undisturbed` says what the condition is for: two settlements under way are about
  two games, so the credits a correction has found are still the live ones of its result,
  and the row it has loaded is the stored one. Without it the theorem is false, as
  `DoubleCorrection` shows of the balance. `MoneyOK` says that a balance is
  the opening and the worth of the live rows, and that the winners stored in a result
  are its live CREDIT rows; a correction takes from the balance what is stored and
  from the ledger what is live, so it needs both. `DayRows` and `DaysAddUp` part
  the live rows by the day they bear, the last ticks apart, and `NetIsWorth`
  turns a summary by type into the worth of its rows.

Only model-checked: `EndsUnlessWedged`, which is liveness under fairness, out of
reach of the prover, and the five runs that show a violation. What `Winners` of
`PrizeRules` computes enters the proofs about the ledger only by its type, as it does
`HouseBook`, which has it as a parameter.

## 6. Not modelled

- The value of the credit reference: a note on the wallet that no balance depends on.
- `getBetById`, `listUsers`, `listSubTypes`, `listForUser`, `getWallet`: single reads, or a
  listing of the form `Reports` has without a rule of its own. Response formatting and
  the joins that decorate rows with names.
- The access token and the refresh cookie, which carry what `Accounts` has in `tokens`.
- Hashing, JWT, logging, Swagger, migrations as programs.

## 7. Plan

1. Core: `PrizeRules`, `PoolLedger`, `HouseBook`, `PoolLedgerProps`,
   `BetSelections`, their runs, `PoolLedger_proofs`, `PoolLedgerMoney_proofs`. Done.
2. `Accounts`, `AccountsProps` and their runs, with the access rules, and
   `Accounts_proofs`. Done.
3. `SubTypes` with its run and `SubTypes_proofs`, and `Reports` with its runs and
   `Reports_proofs`. Done.
4. `PooledLedger`, its runs and `PooledLedger_proofs`. Done.
5. Proofs of `CountMatchesLinks`, `PaidAsScored`, `FrozenAfterWindow`,
   `OnlySettlementsDeadlock` and of the refinement `ImplementsBook`. Done.
6. `Sums`, the proof of `LedgerExplained` and `BetSelections_proofs`. Done.
7. Left: that the writing requests and commits of `Reports` are those of `PoolLedger`,
   as a refinement; so far `Implementation` and the text of section 2 connect them.
