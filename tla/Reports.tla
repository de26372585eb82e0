------------------------------ MODULE Reports ------------------------------
(***************************************************************************)
(* The listings of the pool's records (transactions, bets, results and     *)
(* withdrawals), read page by page while the book goes on, and the         *)
(* transaction summary.  A writing request takes effect at its commit, and *)
(* its rows bear the time it began.  A settlement applies what it has      *)
(* found before, whatever has been committed since; the row locks it takes *)
(* meanwhile only make requests wait, and are left to PoolLedger.          *)
(***************************************************************************)
EXTENDS PrizeRules

CONSTANTS
  Req, Game, Amount, Slip, Opening, Standing, None,  \* as in HouseBook
  OneSettlementPerGame,  \* operators never settle a game twice at a time
  Calls,     \* Calls[r]: what request r may ask for
  DayLength  \* ticks of a day UTC; the last one is the end of its last millisecond

Type   == {"topup", "credit", "bet_debit", "withdraw"}
\* A date the validation accepts: `iso` if it carries a time of day.
Date   == [day : Nat, iso : BOOLEAN]
Period == [from : Date \cup {None}, to : Date \cup {None}]
Limit  == 1..100

\* The queries of the listings.  `users` are those a listing is about (who may
\* see whom is in Accounts), `search` those whose name or email matches, both
\* all of them if the field is left out.
Search == {None} \cup SUBSET User
TransactionsQuery ==
  [op : {"list"}, list : {"transactions"}, users : SUBSET User, search : Search,
   type : Type \cup {None}, period : Period, limit : Limit]
BetsQuery ==
  [op : {"list"}, list : {"bets"}, users : SUBSET User, search : Search,
   game : Game \cup {None}, period : Period, limit : Limit]
ResultsQuery ==
  [op : {"list"}, list : {"results"}, search : Search,
   game : Game \cup {None}, period : Period, limit : Limit]
WithdrawalsQuery ==
  [op : {"list"}, list : {"withdrawals"}, users : SUBSET User, search : Search,
   period : Period, limit : Limit]

CallSet ==
       [op : {"topUp", "withdraw"}, user : User, amount : Amount]
  \cup [op : {"bet"}, user : User, game : Game, slip : Slip]
  \cup [op : {"declare"}, game : Game, number : Number]
  \cup [op : {"correct"}, ref : Req, number : Number]
  \cup TransactionsQuery \cup BetsQuery \cup ResultsQuery \cup WithdrawalsQuery

\* The rows of GameBetTbl with their slips, and of GameResultTbl.
Bet    == [user : User, game : Game, slip : Slip, result : Req \cup {None}]
Result == [game : Game, number : Number, count : Nat,
           winners : [User -> [amount : Nat, bets : SUBSET Req]], at : Nat]

ASSUME ReportsAssumption ==
  /\ IsFiniteSet(Req) /\ None \notin Req \cup Number \cup Bet \cup Result \cup Date
  /\ Amount \subseteq Nat \ {0} /\ Multiplier \in Nat
  /\ Slip \subseteq [Number -> Nat] /\ \A s \in Slip : Total(s) \in Nat \ {0}
  /\ \A u \in User : Opening[u] = None \/ Opening[u] \in Nat
  /\ Standing \in [Req -> {None}]
  /\ \A r \in Req : \A c \in Calls[r] : c \in CallSet
  /\ DayLength \in Nat \ {0, 1} /\ OneSettlementPerGame \in BOOLEAN

VARIABLES wallets, balance, bets, results, payouts  \* the book

store == <<wallets, balance, bets, results, payouts>>

INSTANCE HouseBook WITH Size <- Cardinality

VARIABLES
  ledger,  \* CreditTransactionTbl: at most one row per request and user
  clock,   \* time: no two transactions begin in the same microsecond
  began,   \* when the transaction of a request began
  pc,      \* the next step of each request
  call,    \* what each request asks for
  tx,      \* what a settlement has read
  view     \* what a client that pages through a listing holds

vars == <<store, ledger, clock, began, pc, call, tx, view>>

NoTx == [pending |-> {},        \* the bets to settle
         found |-> {},          \* the credits to reverse
         won |-> NoWinners,     \* the new winners
         loaded |-> None]       \* the row save() compares with

Goto(r, s) == pc' = [pc EXCEPT ![r] = s]

-----------------------------------------------------------------------------
(* Writing requests *)

Settlement(c) == c.op \in {"declare", "correct"}
InFlight(r)   == pc[r] \in {"bets", "credits", "rescore", "commit"}

Settling(r, g) ==
  /\ InFlight(r)
  /\ \/ call[r].op = "declare" /\ call[r].game = g
     \/ call[r].op = "correct" /\ results[call[r].ref].game = g

MaySettle(g) == OneSettlementPerGame => \A r \in Req : ~Settling(r, g)

\* updateResult's checks, but for the age of the result.
Editable(x, n) == results[x] # None /\ results[x].number # n

FirstStep(c) ==
  CASE c.op = "declare" -> "bets" [] c.op = "correct" -> "credits" [] OTHER -> "commit"

Start(r) ==
  /\ pc[r] = "idle"
  /\ \E c \in Calls[r] :
       /\ c.op # "list"
       /\ c.op = "declare" => MaySettle(c.game)
       /\ c.op = "correct" => Editable(c.ref, c.number) /\ MaySettle(results[c.ref].game)
       /\ call' = [call EXCEPT ![r] = c]
       /\ Goto(r, FirstStep(c))
  /\ began' = [began EXCEPT ![r] = clock] /\ clock' = clock + 1
  /\ UNCHANGED <<store, ledger, tx, view>>

\* declareResult finds the bets without a result.
FindBets(r) ==
  /\ pc[r] = "bets"
  /\ tx' = [tx EXCEPT ![r].pending = Pending(call[r].game)]
  /\ Goto(r, "commit")
  /\ UNCHANGED <<store, ledger, clock, began, call, view>>

\* reversePreviousWinners finds the live credits of the result.
FindCredits(r) ==
  /\ pc[r] = "credits"
  /\ tx' = [tx EXCEPT ![r].found =
       {t \in ledger : t.type = "credit" /\ t.ref = call[r].ref /\ ~t.deleted}]
  /\ Goto(r, "rescore")
  /\ UNCHANGED <<store, ledger, clock, began, call, view>>

\* getWinners for the new number, and the row save() loads.
Rescore(r) ==
  /\ pc[r] = "rescore"
  /\ LET x == call[r].ref IN
       tx' = [tx EXCEPT ![r].won = Winners(Stakes(Linked(x)), call[r].number),
                        ![r].loaded = results[x]]
  /\ Goto(r, "commit")
  /\ UNCHANGED <<store, ledger, clock, began, call, view>>

Row(r, u, type, amount) ==
  [by |-> r, user |-> u, type |-> type, amount |-> amount, ref |-> r, deleted |-> FALSE]

\* The live CREDIT rows of result x that request r has inserted.
CreditRows(r, x, won) ==
  {[Row(r, p.user, "credit", p.amount) EXCEPT !.ref = x] : p \in PaidBy(r, x, won)}

CommitTopUp(r, c) ==
  /\ c.op = "topUp" /\ TopUp(c.user, c.amount)
  /\ ledger' = ledger \cup {Row(r, c.user, "topup", c.amount)}

CommitWithdraw(r, c) ==
  /\ c.op = "withdraw" /\ Withdraw(c.user, c.amount)
  /\ ledger' = ledger \cup {Row(r, c.user, "withdraw", c.amount)}

CommitBet(r, c) ==
  /\ c.op = "bet" /\ PlaceBet(r, c.user, c.game, c.slip)
  /\ ledger' = ledger \cup {Row(r, c.user, "bet_debit", Total(c.slip))}

\* The bets found are linked by their ids alone.
CommitDeclare(r, c) ==
  /\ c.op = "declare"
  /\ LET B == tx[r].pending  won == Winners(Stakes(B), c.number) IN
       /\ results' = [results EXCEPT ![r] =
            [game |-> c.game, number |-> c.number, count |-> Cardinality(B),
             winners |-> won, at |-> began[r]]]
       /\ bets' = [b \in Req |-> IF b \in B THEN [bets[b] EXCEPT !.result = r] ELSE bets[b]]
       /\ balance' = [u \in User |-> balance[u] + won[u].amount]
       /\ ledger' = ledger \cup CreditRows(r, r, won)
       /\ payouts' = payouts \cup PaidBy(r, r, won)
  /\ UNCHANGED wallets

\* What reverseCredit takes back from a user.
Reversed(r, u) == MapThenSumSet(LAMBDA t : t.amount, {t \in tx[r].found : t.user = u})

\* The ledger when the rows found, those still live, are soft-deleted.
SoftDeleted(r) == {[t EXCEPT !.deleted = @ \/ t \in tx[r].found] : t \in ledger}

\* save() writes the columns that differ from the row it loaded.
Saved(r) ==
  LET x == call[r].ref  n == call[r].number  won == tx[r].won  old == tx[r].loaded IN
    [results[x] EXCEPT !.number  = IF old.number = n THEN @ ELSE n,
                       !.winners = IF old.winners = won THEN @ ELSE won]

CommitCorrect(r, c) ==
  /\ c.op = "correct"
  /\ results' = [results EXCEPT ![c.ref] = Saved(r)]
  /\ balance' = [u \in User |-> balance[u] - Reversed(r, u) + tx[r].won[u].amount]
  /\ ledger' = SoftDeleted(r) \cup CreditRows(r, c.ref, tx[r].won)
  /\ payouts' = {p \in payouts : ~\E t \in tx[r].found : t.by = p.by /\ t.user = p.user}
                 \cup PaidBy(r, c.ref, tx[r].won)
  /\ UNCHANGED <<wallets, bets>>

Commit(r) ==
  /\ pc[r] = "commit"
  /\ LET c == call[r] IN
       \/ CommitTopUp(r, c) \/ CommitWithdraw(r, c) \/ CommitBet(r, c)
       \/ CommitDeclare(r, c) \/ CommitCorrect(r, c)
  /\ tx' = [tx EXCEPT ![r] = NoTx]
  /\ Goto(r, "done")
  /\ UNCHANGED <<clock, began, call, view>>

\* A settlement fails, and may be tried again; any other request that fails
\* is one that never commits.
Fail(r) ==
  /\ InFlight(r) /\ Settlement(call[r])
  /\ tx' = [tx EXCEPT ![r] = NoTx]
  /\ Goto(r, "failed")
  /\ UNCHANGED <<store, ledger, clock, began, call, view>>

-----------------------------------------------------------------------------
(* What a query selects *)

\* resolveUserIdsForSearch and its likes.
Searched(c) == IF c.search = None THEN c.users ELSE c.users \cap c.search

\* `${date}T00:00:00.000Z` is a date only if `date` carries no time.
Parsed(c) == \A d \in {c.period.from, c.period.to} \ {None} : ~d.iso

\* A search that matches nobody is answered without a query.
Sent(c) == c.list = "results" \/ Searched(c) # {}

StartOfDay(d) == d.day * DayLength
\* 23:59:59.999, before the last tick of the day.
EndOfDay(d) == (d.day + 1) * DayLength - 2

\* The row request r has inserted is in the period.
InPeriod(c, r) ==
  /\ c.period.from # None => began[r] >= StartOfDay(c.period.from)
  /\ c.period.to # None => began[r] <= EndOfDay(c.period.to)

\* Mutant of Live: rows a correction has replaced are counted too.
Live_All(t) == TRUE
Live(t) == ~t.deleted

\* The rows of queryTransactions and of getTransactionsSummary.
Transactions(c) ==
  {t \in ledger : /\ Live(t) /\ t.user \in Searched(c) /\ c.type \in {None, t.type}
                  /\ InPeriod(c, t.by)}

\* getTransactionsSummary: SUM(Amount) by type, 0 for a type without rows.
Summary(c) ==
  [type \in Type |->
     MapThenSumSet(LAMBDA t : t.amount, {t \in Transactions(c) : t.type = type})]

Bets(c) ==
  {b \in Req : /\ bets[b] # None /\ bets[b].user \in Searched(c)
               /\ c.game \in {None, bets[b].game} /\ InPeriod(c, b)}

\* A search looks into the stored winners of a result.
Results(c) ==
  {x \in Req : /\ results[x] # None /\ c.game \in {None, results[x].game} /\ InPeriod(c, x)
               /\ c.search # None => \E u \in c.search : results[x].winners[u].amount > 0}

\* A WithdrawRequestTbl row commits with its ledger row.
Withdrawals(c) ==
  {t \in ledger : t.type = "withdraw" /\ t.user \in Searched(c) /\ InPeriod(c, t.by)}

\* The ids of what a listing selects.
Id(r, u) == [by |-> r, user |-> u]
Selected(c) ==
  CASE c.list = "transactions" -> {Id(t.by, t.user) : t \in Transactions(c)}
    [] c.list = "bets"         -> {Id(b, bets[b].user) : b \in Bets(c)}
    [] c.list = "results"      -> {Id(x, None) : x \in Results(c)}
    [] c.list = "withdrawals"  -> {Id(t.by, t.user) : t \in Withdrawals(c)}

\* Every row of A is listed before those of B: latest first, ties either way.
Before(A, B) == \A a \in A, b \in B : began[a.by] >= began[b.by]
AtMost(n, S) == IF Cardinality(S) < n THEN Cardinality(S) ELSE n

\* The windows SQL may answer for OFFSET skip LIMIT take.
Windows(S, skip, take) ==
  {I \in SUBSET S : \E P \in SUBSET (S \ I) :
     /\ Cardinality(P) = AtMost(skip, S) /\ Cardinality(I) = AtMost(take, S \ P)
     /\ Before(P, S \ P) /\ Before(I, S \ (P \cup I))}

-----------------------------------------------------------------------------
(* A client that reads a listing page by page *)

\* Mutant of Skip: pages counted from 0.
Skip_FromZero(page, limit) == page * limit
Skip(page, limit) == (page - 1) * limit

\* `first` is for the properties: what a listing without pages would show.
Ask(q) ==
  /\ pc[q] = "idle"
  /\ \E c \in Calls[q] :
       /\ c.op = "list" /\ call' = [call EXCEPT ![q] = c]
       /\ view' = [view EXCEPT ![q] =
            [page |-> 1, items |-> {}, links |-> {}, total |-> 0, seen |-> {},
             first |-> IF Parsed(c) \/ ~Sent(c) THEN Selected(c) ELSE {},
             numbers |-> [b \in Req |-> None]]]
  /\ Goto(q, "page")
  /\ UNCHANGED <<store, ledger, clock, began, tx>>

\* The query is sent with an Invalid Date, and fails.
Reject(q) ==
  /\ pc[q] = "page" /\ ~Parsed(call[q]) /\ Sent(call[q])
  /\ Goto(q, "failed")
  /\ UNCHANGED <<store, ledger, clock, began, call, tx, view>>

\* What follows the count: the winning numbers of bets, the page is shown else.
AfterCount(q) == IF call[q].list = "bets" THEN "numbers" ELSE "show"

\* The rows of the page; findAndCount counts in a second query if they do not
\* tell the total.
ReadPage(q) ==
  /\ pc[q] = "page" /\ (Parsed(call[q]) \/ ~Sent(call[q]))
  /\ LET limit == call[q].limit  skip == Skip(view[q].page, limit) IN
       \E I \in Windows(Selected(call[q]), skip, limit) :
         /\ view' = [view EXCEPT ![q].items = I, ![q].total = skip + Cardinality(I),
                                 ![q].links = {[bet |-> i.by, result |-> bets[i.by].result] : i \in
                                                 {i \in I : call[q].list = "bets"}}]
         /\ Goto(q, IF Cardinality(I) = limit \/ (I = {} /\ skip > 0) THEN "count" ELSE AfterCount(q))
  /\ UNCHANGED <<store, ledger, clock, began, call, tx>>

Count(q) ==
  /\ pc[q] = "count"
  /\ view' = [view EXCEPT ![q].total = Cardinality(Selected(call[q]))]
  /\ Goto(q, AfterCount(q))
  /\ UNCHANGED <<store, ledger, clock, began, call, tx>>

\* Mutant of WinningNumber: found through the winners of the result.
WinningNumber_OfWinners(x) ==
  IF \E u \in User : results[x].winners[u].amount > 0 THEN results[x].number ELSE None
WinningNumber(x) == results[x].number

ReadNumbers(q) ==
  /\ pc[q] = "numbers"
  /\ view' = [view EXCEPT ![q].numbers = [b \in Req |->
       IF \E l \in view[q].links : l.bet = b
         THEN LET l == CHOOSE l \in view[q].links : l.bet = b IN
                IF l.result = None THEN None ELSE WinningNumber(l.result)
         ELSE @[b]]]
  /\ Goto(q, "show")
  /\ UNCHANGED <<store, ledger, clock, began, call, tx>>

\* The client takes the page, and asks for the next one if there is any.
Show(q) ==
  /\ pc[q] = "show"
  /\ view' = [view EXCEPT ![q].seen = @ \cup view[q].items, ![q].page = @ + 1, ![q].items = {},
                          ![q].links = {}, ![q].total = 0]
  /\ Goto(q, IF view[q].page * call[q].limit < view[q].total THEN "page" ELSE "done")
  /\ UNCHANGED <<store, ledger, clock, began, call, tx>>

-----------------------------------------------------------------------------
RInit ==
  /\ Init
  /\ ledger = {} /\ clock = 0
  /\ began = [r \in Req |-> None]
  /\ pc = [r \in Req |-> "idle"]
  /\ call = [r \in Req |-> None]
  /\ tx = [r \in Req |-> NoTx]
  /\ view = [r \in Req |-> None]

RNext ==
  \E r \in Req : \/ Start(r) \/ FindBets(r) \/ FindCredits(r) \/ Rescore(r)
                 \/ Commit(r) \/ Fail(r)
                 \/ Ask(r) \/ Reject(r) \/ ReadPage(r) \/ Count(r) \/ ReadNumbers(r) \/ Show(r)

RSpec == RInit /\ [][RNext]_vars
=============================================================================
