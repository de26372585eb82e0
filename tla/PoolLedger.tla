----------------------------- MODULE PoolLedger -----------------------------
(***************************************************************************)
(* The money of the betting pool: user wallets, the credit ledger, bets    *)
(* and results, and the HTTP requests that move money concurrently.        *)
(*                                                                         *)
(* Every request runs one PostgreSQL transaction (READ COMMITTED).  The    *)
(* model takes one step per statement another transaction can tell apart:  *)
(* each step reads the committed tables, an UPDATE takes the row's lock    *)
(* and waits while another request holds it, and what a request has        *)
(* written stays in `delta`, `dnet` and `tx` until its commit publishes    *)
(* it.  Statements between two such points (a read of a row the request    *)
(* itself has locked, the insert of a fresh row) belong to the step.       *)
(***************************************************************************)
EXTENDS PrizeRules

CONSTANTS
  Req,            \* requests; also the ids of the bets and results they insert
  Game,           \* (game type, game sub type) pairs
  Amount,         \* amounts a topUp or a withdrawal may carry
  Slip,           \* bet slips: the selections resolveSelections returns
  Calls,          \* Calls[r]: what request r may ask for
  Opening,        \* Opening[u]: balance u starts from, None without a wallet
  Standing,       \* Standing[r]: pending bet already on record, or None
  MaxInt,         \* largest value of a PostgreSQL integer column
  CloseAt,        \* CloseAt[g]: tick of the day g's betting closes at first
  DayLength,      \* ticks of a day
  EditWindow,     \* RESULT_EDIT_WINDOW_MS, in ticks
  MaxClock,       \* bound on the clock
  OneSettlementPerGame, \* operators never settle a game twice at a time
  None

CallSet ==
       [op : {"topUp", "withdraw"}, user : User, amount : Amount]
  \cup [op : {"bet"}, user : User, game : Game, slip : Slip]
  \cup [op : {"declare"}, game : Game, number : Number]
  \cup [op : {"correct"}, ref : Req, number : Number]
  \cup [op : {"lockUser"}, user : User, on : BOOLEAN]
  \cup [op : {"editSubType"}, game : Game, closeTime : Nat \cup {None}, isActive : BOOLEAN \cup {None}]

Int32 == (-MaxInt - 1)..MaxInt

\* Rows of GameBetTbl and GameResultTbl.
Entry  == [amount : Nat, bets : SUBSET Req]
Bet    == [user : User, game : Game, slip : Slip, result : Req \cup {None}]
Result == [game : Game, number : Number, count : Nat, winners : [User -> Entry], at : Nat]
PendingBet == [user : User, game : Game, slip : Slip, result : {None}]

ASSUME PoolLedgerAssumption ==
  /\ IsFiniteSet(Req) /\ None \notin Req \cup Bet \cup Result
  /\ Amount \subseteq Nat \ {0}
  /\ Slip \subseteq [Number -> Nat]
  /\ \A s \in Slip : Total(s) \in Nat \ {0}
  /\ Calls \in [Req -> SUBSET CallSet]
  /\ MaxInt \in Nat
  /\ Opening \in [User -> 0..MaxInt \cup {None}]
  /\ Standing \in [Req -> PendingBet \cup {None}]
  /\ \A r \in Req : Standing[r] # None => Opening[Standing[r].user] # None
  /\ CloseAt \in [Game -> Nat] /\ DayLength \in Nat \ {0}
  /\ EditWindow \in Nat /\ MaxClock \in Nat
  /\ OneSettlementPerGame \in BOOLEAN

VARIABLES
  wallets,  \* users with a committed UserWalletTbl row
  balance,  \* UserWalletTbl.Balance, committed
  net,      \* per user, what the live CreditTransactionTbl rows add up to
  bets,     \* GameBetTbl: the bet request r inserted, or None
  results,  \* GameResultTbl: the result request r inserted, or None
  payouts,  \* live CREDIT rows of CreditTransactionTbl
  active,   \* users whose account is active and not locked
  subTypes, \* the sub type of each game: closing time, and whether it is active
  clock,    \* time
  pc,       \* the next statement of each request
  call,     \* what each request asks for
  tx,       \* what the request has read or inserted so far
  lock,     \* holder of the row lock on the user's wallet
  delta,    \* what the holder has added to the balance, uncommitted
  dnet      \* what the holder has added to the ledger, uncommitted

db   == <<wallets, balance, net, bets, results, payouts>>
env  == <<active, subTypes, clock>>
rows == <<lock, delta, dnet>>
vars == <<db, env, pc, call, tx, rows>>

\* The columns of GameSubTypeTbl that admit bets.
SubType == [closeTime : Nat, isActive : BOOLEAN]

Payout == [by : Req, user : User, ref : Req, amount : Nat]
Tx     == [pending : SUBSET Req,             \* ids declareResult's find returned
           found : SUBSET Payout,            \* rows reversePreviousWinners' find returned
           due : SUBSET Payout,              \* rows still to reverse, or to credit
           won : [User -> Entry],            \* getWinners' rows
           loaded : Result \cup {None},      \* row save() loaded to compute its diff
           began : Nat]                      \* now() of the transaction
NoTx   == [pending |-> {}, found |-> {}, due |-> {}, won |-> NoWinners,
           loaded |-> None, began |-> 0]

Stages == {"insert", "raise", "hours", "debit", "link", "credits", "reverse",
           "rescore", "save", "credit", "commit"}

InFlight(r) == pc[r] \in Stages
Op(r)       == call[r].op

-----------------------------------------------------------------------------
(* Bets, results and winners as a transaction reads them *)

\* Mutant of Pending: forgets resultId IS NULL.
Pending_Settled(g) == {b \in Req : bets[b] # None /\ bets[b].game = g}

Pending(g) == {b \in Req : bets[b] # None /\ bets[b].game = g /\ bets[b].result = None}
Linked(x)  == {b \in Req : bets[b] # None /\ bets[b].result = x}
Stakes(B)  == {[id |-> b, user |-> bets[b].user, slip |-> bets[b].slip] : b \in B}

\* The result a settlement is about.
Ref(r) == IF Op(r) = "declare" THEN r ELSE call[r].ref

\* The CREDIT rows a settlement inserts: winners with a positive amount.
NewCredits(r, won) ==
  {[by |-> r, user |-> u, ref |-> Ref(r), amount |-> won[u].amount] :
     u \in {v \in User : won[v].amount > 0}}

\* The ::int cast of getWinners fails beyond the integer range.
CastOK(won) == \A u \in User : won[u].amount \in 0..MaxInt

BettingOpen(g) == subTypes[g].isActive /\ clock % DayLength < subTypes[g].closeTime

-----------------------------------------------------------------------------
(* Rows, locks, commit and rollback *)

\* Mutant of Free: read and write without the row lock.
Free_Unlocked(r, u) == TRUE

\* No other transaction holds u's wallet row.
Free(r, u) == lock[u] \in {None, r}

\* Mutant of Fits: the column takes any value.
Fits_Unbounded(u, d) == TRUE

\* The 32-bit column takes u's balance after d.
Fits(u, d) == balance[u] + delta[u] + d \in Int32

\* r updates u's wallet by d and writes ledger rows worth n, uncommitted.
Move(r, u, d, n) ==
  /\ lock'  = [lock EXCEPT ![u] = r]
  /\ delta' = [delta EXCEPT ![u] = @ + d]
  /\ dnet'  = [dnet EXCEPT ![u] = @ + n]

\* r changes u's balance by a and inserts the ledger row that says so.
Post(r, u, a) == Move(r, u, a, a)

\* The end of a transaction frees its rows and drops its uncommitted values.
\* Mutant of Release: what was written before a failure stays.
Release_KeepsWrites(r) ==
  /\ lock' = [u \in User |-> IF lock[u] = r THEN None ELSE lock[u]]
  /\ UNCHANGED <<delta, dnet>>

Release(r) ==
  /\ lock'  = [u \in User |-> IF lock[u] = r THEN None ELSE lock[u]]
  /\ delta' = [u \in User |-> IF lock[u] = r THEN 0 ELSE delta[u]]
  /\ dnet'  = [u \in User |-> IF lock[u] = r THEN 0 ELSE dnet[u]]

Goto(r, s) == pc' = [pc EXCEPT ![r] = s]

Begin(r, c, s) ==
  /\ pc[r] = "idle" /\ c \in Calls[r]
  /\ call' = [call EXCEPT ![r] = c]
  /\ Goto(r, s)

\* The transaction ends without effect.
Abort(r) ==
  /\ Goto(r, "failed")
  /\ tx' = [tx EXCEPT ![r] = NoTx]
  /\ Release(r)
  /\ UNCHANGED <<db, env, call>>

\* The part every commit shares: the wallets and ledger rows r wrote.
Publish(r) ==
  /\ wallets' = wallets \cup {u \in User : lock[u] = r}
  /\ balance' = [u \in User |-> IF lock[u] = r THEN balance[u] + delta[u] ELSE balance[u]]
  /\ net'     = [u \in User |-> IF lock[u] = r THEN net[u] + dnet[u] ELSE net[u]]
  /\ Goto(r, "done")
  /\ tx' = [tx EXCEPT ![r] = NoTx]
  /\ Release(r)
  /\ UNCHANGED <<env, call>>

-----------------------------------------------------------------------------
(* WalletService.topUp *)

\* Mutant of TopUp: takes another user's wallet first, as a transfer would.
TopUp_FromOther(r) ==
  /\ \E c \in Calls[r] :
       /\ c.op = "topUp" /\ Begin(r, c, "raise")
       /\ \E u \in User \ {c.user} : Free(r, u) /\ Move(r, u, 0, 0)
  /\ UNCHANGED <<db, env, tx>>

\* createWalletForUser looks for the user's wallet.
TopUp(r) ==
  /\ \E c \in Calls[r] :
       /\ c.op = "topUp"
       /\ Begin(r, c, IF c.user \in wallets THEN "raise" ELSE "insert")
  /\ UNCHANGED <<db, env, tx, rows>>

\* It found none and inserts one.  The unique index on UserId makes the
\* insert wait for another uncommitted one and fail after a committed one.
InsertWallet(r) ==
  /\ pc[r] = "insert"
  /\ LET u == call[r].user IN
       \/ u \in wallets /\ Abort(r)
       \/ /\ u \notin wallets /\ lock[u] = None
          /\ Move(r, u, 0, 0)
          /\ Goto(r, "raise")
          /\ UNCHANGED <<db, env, call, tx>>

\* increment(), the read of the new balance and the TOPUP row.
RaiseBalance(r) ==
  /\ pc[r] = "raise"
  /\ LET u == call[r].user  a == call[r].amount IN
       /\ Free(r, u)
       /\ \/ ~Fits(u, a) /\ Abort(r)
          \/ /\ Fits(u, a)
             /\ Post(r, u, a)
             /\ Goto(r, "commit")
             /\ UNCHANGED <<db, env, call, tx>>

-----------------------------------------------------------------------------
(* WithdrawRequestService.create and GameService.placeBet *)

Withdraw(r) ==
  /\ \E c \in Calls[r] : c.op = "withdraw" /\ Begin(r, c, "debit")
  /\ UNCHANGED <<db, env, tx, rows>>

\* placeBet's account check, before its transaction.
PlaceBet(r) ==
  /\ \E c \in Calls[r] :
       /\ c.op = "bet"
       /\ Begin(r, c, IF c.user \in active THEN "hours" ELSE "failed")
  /\ UNCHANGED <<db, env, tx, rows>>

\* assertBettingOpen, also before the transaction.
AssertBettingOpen(r) ==
  /\ pc[r] = "hours"
  /\ Goto(r, IF BettingOpen(call[r].game) THEN "debit" ELSE "failed")
  /\ UNCHANGED <<db, env, call, tx, rows>>

Debited(c) == IF c.op = "bet" THEN Total(c.slip) ELSE c.amount

\* Mutant of Covered: no balance check.
Covered_Always(u, a) == u \in wallets

\* The committed row matches WHERE "UserId" = $2 AND "Balance" >= $1.
Covered(u, a) == u \in wallets /\ balance[u] >= a

\* debit: UPDATE ... WHERE "Balance" >= $1.  A row whose committed balance is
\* too small does not match and the request is refused at once; a row that
\* matches is waited for and its condition evaluated again.
Debit(r) ==
  /\ pc[r] = "debit"
  /\ LET u == call[r].user  a == Debited(call[r]) IN
       \/ ~Covered(u, a) /\ Abort(r)
       \/ /\ Covered(u, a) /\ Free(r, u)
          /\ Post(r, u, -a)
          /\ Goto(r, "commit")
          /\ UNCHANGED <<db, env, call, tx>>

CommitTransfer(r) ==
  /\ pc[r] = "commit" /\ Op(r) \in {"topUp", "withdraw"}
  /\ Publish(r)
  /\ UNCHANGED <<bets, results, payouts>>

CommitBet(r) ==
  /\ pc[r] = "commit" /\ Op(r) = "bet"
  /\ Publish(r)
  /\ bets' = [bets EXCEPT ![r] = [user |-> call[r].user, game |-> call[r].game,
                                  slip |-> call[r].slip, result |-> None]]
  /\ UNCHANGED <<results, payouts>>

-----------------------------------------------------------------------------
(* GameResultService.declareResult and updateResult *)

Settling(q, g) ==
  /\ InFlight(q)
  /\ \/ Op(q) = "declare" /\ call[q].game = g
     \/ Op(q) = "correct" /\ results[call[q].ref].game = g

\* The operators' discipline the code itself does not enforce.
MaySettle(g) == OneSettlementPerGame => \A q \in Req : ~Settling(q, g)

\* Mutant of CreditStage: commits without paying anyone.
CreditStage_Unpaid(due) == "commit"

\* Stage after the last wallet update of a settlement.
CreditStage(due) == IF due = {} THEN "commit" ELSE "credit"

\* declareResult starts its transaction and finds the pending bets.
Declare(r) ==
  \E c \in Calls[r] :
    /\ c.op = "declare" /\ MaySettle(c.game)
    /\ Begin(r, c, "link")
    /\ tx' = [tx EXCEPT ![r].pending = Pending(c.game), ![r].began = clock]
    /\ UNCHANGED <<db, env, rows>>

\* Bet rows a declaration has linked and not committed.
LockedBets(q) ==
  IF Op(q) = "declare" /\ pc[q] \in {"credit", "commit"} THEN tx[q].pending ELSE {}

BetsFree(r) == \A q \in Req \ {r} : InFlight(q) => LockedBets(q) \cap tx[r].pending = {}

\* Insert the result, set ResultId on the bets found (by id alone), read the
\* winners back and store them in the result.
LinkBets(r) ==
  /\ pc[r] = "link" /\ BetsFree(r)
  /\ LET won == Winners(Stakes(tx[r].pending), call[r].number)
         new == NewCredits(r, won) IN
       \/ ~CastOK(won) /\ Abort(r)
       \/ /\ CastOK(won)
          /\ tx' = [tx EXCEPT ![r].won = won, ![r].due = new]
          /\ Goto(r, CreditStage(new))
          /\ UNCHANGED <<db, env, call, rows>>

\* Winners are credited from the largest amount down; ties in any order.
NextDue(r) == {p \in tx[r].due : \A o \in tx[r].due : o.amount <= p.amount}

\* credit: the winner has a wallet (a bet was debited from it), so
\* createWalletForUser finds it; increment() and the CREDIT row follow.
CreditWinner(r) ==
  /\ pc[r] = "credit"
  /\ \E p \in NextDue(r) :
       /\ p.user \in wallets /\ Free(r, p.user)
       /\ \/ ~Fits(p.user, p.amount) /\ Abort(r)
          \/ /\ Fits(p.user, p.amount)
             /\ Post(r, p.user, p.amount)
             /\ tx' = [tx EXCEPT ![r].due = @ \ {p}]
             /\ Goto(r, CreditStage(tx[r].due \ {p}))
             /\ UNCHANGED <<db, env, call>>

CommitDeclare(r) ==
  /\ pc[r] = "commit" /\ Op(r) = "declare"
  /\ Publish(r)
  /\ results' = [results EXCEPT ![r] =
       [game |-> call[r].game, number |-> call[r].number,
        count |-> Cardinality(tx[r].pending), winners |-> tx[r].won, at |-> tx[r].began]]
  /\ bets' = [b \in Req |-> IF b \in tx[r].pending
                            THEN [bets[b] EXCEPT !.result = r] ELSE bets[b]]
  /\ payouts' = payouts \cup NewCredits(r, tx[r].won)

\* Mutant of Editable: no 24-hour window.
Editable_AnyTime(x, n) == x # None /\ x.number # n

\* updateResult's checks: the result exists, is at most 24 hours old, and
\* the new number differs from its number.
Editable(x, n) == x # None /\ clock - x.at <= EditWindow /\ x.number # n

UpdateResult(r) ==
  /\ \E c \in Calls[r] :
       /\ c.op = "correct"
       /\ LET x == results[c.ref] IN
            \/ ~Editable(x, c.number) /\ Begin(r, c, "failed")
            \/ Editable(x, c.number) /\ MaySettle(x.game) /\ Begin(r, c, "credits")
  /\ UNCHANGED <<db, env, tx, rows>>

\* reversePreviousWinners finds the live CREDIT rows of the result.
FindCredits(r) ==
  /\ pc[r] = "credits"
  /\ LET found == {p \in payouts : p.ref = Ref(r)} IN
       /\ tx' = [tx EXCEPT ![r].found = found, ![r].due = found]
       /\ Goto(r, IF found = {} THEN "rescore" ELSE "reverse")
  /\ UNCHANGED <<db, env, call, rows>>

\* Mutant of SoftDeleted: the row stays live.
SoftDeleted_Kept(p) == 0

\* What the soft delete of p takes off the ledger: nothing if p, found live
\* before, is no longer live.
SoftDeleted(p) == IF p \in payouts THEN p.amount ELSE 0

\* reverseCredit takes the amount back without a balance check, then the
\* row is soft deleted.
ReverseCredit(r) ==
  /\ pc[r] = "reverse"
  /\ \E p \in tx[r].due :
       /\ Free(r, p.user)
       /\ \/ ~Fits(p.user, -p.amount) /\ Abort(r)
          \/ /\ Fits(p.user, -p.amount)
             /\ Move(r, p.user, -p.amount, -SoftDeleted(p))
             /\ tx' = [tx EXCEPT ![r].due = @ \ {p}]
             /\ Goto(r, IF tx[r].due = {p} THEN "rescore" ELSE "reverse")
             /\ UNCHANGED <<db, env, call>>

\* getWinners for the new number, and the row save() loads to see what changed.
Rescore(r) ==
  /\ pc[r] = "rescore"
  /\ LET won == Winners(Stakes(Linked(Ref(r))), call[r].number) IN
       \/ ~CastOK(won) /\ Abort(r)
       \/ /\ CastOK(won)
          /\ tx' = [tx EXCEPT ![r].won = won, ![r].loaded = results[Ref(r)]]
          /\ Goto(r, "save")
          /\ UNCHANGED <<db, env, call, rows>>

\* A correction that has saved its result holds that row until it ends.  save()
\* is taken to find a column that differs, UpdatedBy at least.
LockedResult(q, x) ==
  InFlight(q) /\ Op(q) = "correct" /\ pc[q] \in {"credit", "commit"} /\ call[q].ref = x

SaveResult(r) ==
  /\ pc[r] = "save"
  /\ \A q \in Req \ {r} : ~LockedResult(q, Ref(r))
  /\ LET new == NewCredits(r, tx[r].won) IN
       /\ tx' = [tx EXCEPT ![r].due = new]
       /\ Goto(r, CreditStage(new))
  /\ UNCHANGED <<db, env, call, rows>>

\* Mutant of Saved: the winners of the old number stay.
Saved_OldWinners(r) == [results[Ref(r)] EXCEPT !.number = call[r].number]

\* save() writes the columns that differ from the row it loaded.
Saved(r) ==
  LET x == Ref(r)  old == tx[r].loaded  n == call[r].number  won == tx[r].won IN
    [results[x] EXCEPT !.number  = IF old.number = n THEN @ ELSE n,
                       !.winners = IF old.winners = won THEN @ ELSE won]

CommitCorrection(r) ==
  /\ pc[r] = "commit" /\ Op(r) = "correct"
  /\ Publish(r)
  /\ results' = [results EXCEPT ![Ref(r)] = Saved(r)]
  /\ payouts' = (payouts \ tx[r].found) \cup NewCredits(r, tx[r].won)
  /\ UNCHANGED bets

-----------------------------------------------------------------------------
(* Failures and deadlocks *)

\* The process crashes, the connection drops or a statement times out.
Fail(r) == InFlight(r) /\ Abort(r)

\* Wallet rows r's next statement may have to wait for.
Wants(r) ==
  CASE pc[r] \in {"insert", "raise", "debit"} -> {call[r].user}
    [] pc[r] = "credit"  -> {p.user : p \in NextDue(r)}
    [] pc[r] = "reverse" -> {p.user : p \in tx[r].due}
    [] OTHER -> {}

WaitsFor(r, q) ==
  /\ q # r
  /\ \/ \E u \in Wants(r) : lock[u] = q
     \/ pc[r] = "link" /\ InFlight(q) /\ LockedBets(q) \cap tx[r].pending # {}
     \/ pc[r] = "save" /\ LockedResult(q, Ref(r))

Waiting == {r \in Req : InFlight(r) /\ \E q \in Req : WaitsFor(r, q)}

\* Every member of S waits for a member of S.
Deadlocked(S) == S # {} /\ \A r \in S : \E q \in S : WaitsFor(r, q)

\* PostgreSQL's deadlock detector aborts one of them.
DeadlockVictim(r) == (\E S \in SUBSET Waiting : r \in S /\ Deadlocked(S)) /\ Abort(r)

-----------------------------------------------------------------------------
(* What bets are admitted against: setLockStatus, updateSubType, the clock *)

SetLockStatus(r) ==
  /\ \E c \in Calls[r] :
       /\ c.op = "lockUser"
       /\ Begin(r, c, "done")
       /\ active' = IF c.on THEN active \ {c.user} ELSE active \cup {c.user}
  /\ UNCHANGED <<db, subTypes, clock, tx, rows>>

\* An edit leaves alone what it does not name.
Edited(field, old) == IF field = None THEN old ELSE field

UpdateSubType(r) ==
  /\ \E c \in Calls[r] :
       /\ c.op = "editSubType"
       /\ Begin(r, c, "done")
       /\ subTypes' = [subTypes EXCEPT ![c.game] =
            [closeTime |-> Edited(c.closeTime, @.closeTime),
             isActive  |-> Edited(c.isActive, @.isActive)]]
  /\ UNCHANGED <<db, active, clock, tx, rows>>

Tick ==
  /\ clock < MaxClock
  /\ clock' = clock + 1
  /\ UNCHANGED <<db, active, subTypes, pc, call, tx, rows>>

-----------------------------------------------------------------------------
\* The request that placed a standing bet has ended.
BetCall(b) == [op |-> "bet", user |-> b.user, game |-> b.game, slip |-> b.slip]

Init ==
  /\ wallets = {u \in User : Opening[u] # None}
  /\ balance = [u \in User |-> IF Opening[u] = None THEN 0 ELSE Opening[u]]
  /\ net = balance
  /\ bets = Standing
  /\ results = [r \in Req |-> None]
  /\ payouts = {}
  /\ active = User /\ clock = 0
  /\ subTypes = [g \in Game |-> [closeTime |-> CloseAt[g], isActive |-> TRUE]]
  /\ pc = [r \in Req |-> IF Standing[r] = None THEN "idle" ELSE "done"]
  /\ call = [r \in Req |-> IF Standing[r] = None THEN None ELSE BetCall(Standing[r])]
  /\ tx = [r \in Req |-> NoTx]
  /\ lock = [u \in User |-> None]
  /\ delta = [u \in User |-> 0]
  /\ dnet = [u \in User |-> 0]

\* A client sends a request.
Arrive(r) ==
  \/ TopUp(r) \/ Withdraw(r) \/ PlaceBet(r) \/ Declare(r) \/ UpdateResult(r)
  \/ SetLockStatus(r) \/ UpdateSubType(r)

\* The server goes on with a request it has started.
Proceed(r) ==
  \/ InsertWallet(r) \/ RaiseBalance(r)
  \/ AssertBettingOpen(r) \/ Debit(r) \/ CommitTransfer(r) \/ CommitBet(r)
  \/ LinkBets(r) \/ CreditWinner(r) \/ CommitDeclare(r)
  \/ FindCredits(r) \/ ReverseCredit(r) \/ Rescore(r) \/ SaveResult(r)
  \/ CommitCorrection(r)

Next == Tick \/ \E r \in Req : Arrive(r) \/ Proceed(r) \/ Fail(r) \/ DeadlockVictim(r)

Spec == Init /\ [][Next]_vars
=============================================================================
