------------------------- MODULE PooledLedger_proofs -------------------------
(***************************************************************************)
(* Proofs from the money invariant.  As long as a game is settled by one   *)
(* request at a time: a result's winners, its count of bets and its payouts*)
(* are those of the bets it settled, through declarations and corrections, *)
(* and nothing of it moves once its window is over; and the concurrent     *)
(* requests implement HouseBook, as what a request has written to the      *)
(* wallets, at any point, is exactly the part of its operation it has done.*)
(* With any number of settlements at a time: who waits for whom.  Last, the*)
(* pool of connections only ever makes requests wait, so all that is proved*)
(* of the ledger holds on the server.                                      *)
(***************************************************************************)
EXTENDS PooledLedger, PoolLedgerMoney_proofs

-----------------------------------------------------------------------------
(* Results and their payouts *)

\* A settled bet's result, and a payout's, is on record.
RefsOK ==
  /\ \A b \in Req : bets[b] # None /\ bets[b].result # None => results[bets[b].result] # None
  /\ \A p \in payouts : results[p.ref] # None

PaidOf(x) == {p \in payouts : p.ref = x}

\* What settlement r has computed is still what it would compute.
Scored(r) ==
  /\ Op(r) = "declare" /\ pc[r] \in {"credit", "commit"} =>
       tx[r].won = Winners(Stakes(tx[r].pending), call[r].number)
  /\ Op(r) = "correct" /\ pc[r] \in {"reverse", "rescore", "save", "credit", "commit"} =>
       tx[r].found = PaidOf(call[r].ref)
  /\ Op(r) = "correct" /\ pc[r] \in {"save", "credit", "commit"} =>
       /\ tx[r].won = Winners(Stakes(Linked(call[r].ref)), call[r].number)
       /\ tx[r].loaded = results[call[r].ref]

ScoredOK == \A r \in Req : Scored(r)

\* The rows request q inserts to pay the winners of result x.
PaidRows(q, x, won) ==
  {[by |-> q, user |-> u, ref |-> x, amount |-> won[u].amount] :
     u \in {v \in User : won[v].amount > 0}}

\* A result is what its bets make it, and has been paid for by one request.
ResultOK(x) ==
  /\ results[x].winners = Winners(Stakes(Linked(x)), results[x].number)
  /\ results[x].count = Cardinality(Linked(x))
  /\ \E q \in Req : PaidOf(x) = PaidRows(q, x, results[x].winners)

ResultsOK == \A x \in Req : results[x] # None => ResultOK(x)

ResultsInv == MoneyInv /\ RefsOK /\ ScoredOK /\ ResultsOK

-----------------------------------------------------------------------------
(* What a step leaves alone *)

\* The commit of a settlement has the lock-step facts of its kind.
LEMMA CommitFacts ==
  ASSUME MoneyInv, NEW r \in Req
  PROVE  /\ CommitBet(r) \/ CommitDeclare(r) => bets[r] = None /\ results[r] = None
         /\ CommitDeclare(r) => /\ Op(r) = "declare" /\ Ref(r) = r
                                /\ tx[r].pending \subseteq Pending(call[r].game)
         /\ CommitCorrection(r) => /\ Op(r) = "correct" /\ Ref(r) = call[r].ref /\ Ref(r) \in Req
                                   /\ results[Ref(r)] # None
                                   /\ \A p \in tx[r].found : p.ref = Ref(r)
<1>1. CASE CommitBet(r)
  BY <1>1 DEF CommitBet, CommitDeclare, CommitCorrection, MoneyInv, InsertedOK
<1>2. CASE CommitDeclare(r)
  BY <1>2 DEF CommitDeclare, CommitBet, CommitCorrection, MoneyInv, InsertedOK, PendingOK, InFlight, Stages, Ref
<1>3. CASE CommitCorrection(r)
  <2>1. pc[r] = "commit" /\ Op(r) = "correct" /\ InFlight(r)
    BY <1>3 DEF CommitCorrection, InFlight, Stages
  <2>2. call[r].ref \in Req
    BY <2>1, RefType DEF MoneyInv, Ref
  <2> QED BY <2>1, <2>2 DEF CommitBet, CommitDeclare, MoneyInv, FoundOK, IInv, ReadOK, Ref
<1> QED BY <1>1, <1>2, <1>3

\* A declaration's commit inserts the result with what it has computed.
LEMMA CommitDeclareResult ==
  ASSUME MoneyInv, NEW r \in Req, CommitDeclare(r)
  PROVE  /\ results'[r] # None
         /\ results'[r].number = call[r].number /\ results'[r].winners = tx[r].won
         /\ results'[r].count = Cardinality(tx[r].pending)
<1> DEFINE row == [game |-> call[r].game, number |-> call[r].number,
                   count |-> Cardinality(tx[r].pending), winners |-> tx[r].won,
                   at |-> tx[r].began]
<1>1. call[r].game \in Game /\ call[r].number \in Number
  BY CallTypes DEF CommitDeclare, MoneyInv, IInv, StageOK, InFlight, Stages, Op
<1>2. Cardinality(tx[r].pending) \in Nat /\ tx[r].won \in [User -> Entry] /\ tx[r].began \in Nat
  BY TxFields, PoolLedgerAssumption, FS_Subset, FS_CardinalityType DEF MoneyInv
<1>3. row \in Result /\ row # None
  BY <1>1, <1>2, PoolLedgerAssumption DEF Result
<1>4. results'[r] = row
  BY DEF CommitDeclare, MoneyInv, IInv, TypeOK
<1> QED BY <1>3, <1>4

\* Bets keep their user and their slip.
LEMMA StakesStay ==
  ASSUME MoneyInv, NEW r \in Req, Works(r), NEW B \in SUBSET Req, \A b \in B : bets[b] # None
  PROVE  Stakes(B)' = Stakes(B)
<1>1. ASSUME NEW b \in B PROVE bets'[b].user = bets[b].user /\ bets'[b].slip = bets[b].slip
  <2>0. bets[b] \in Bet /\ b \in Req
    BY DEF MoneyInv, IInv, TypeOK
  <2>1. CASE UNCHANGED db \/ CommitTransfer(r) \/ CommitCorrection(r)
    BY <2>1 DEF db, CommitTransfer, CommitCorrection
  <2>2. CASE CommitBet(r)
    BY <2>0, <2>2, CommitFacts DEF CommitBet, MoneyInv, IInv, TypeOK
  <2>3. CASE CommitDeclare(r)
    <3>1. bets'[b] = bets[b] \/ bets'[b] = [bets[b] EXCEPT !.result = r]
      BY <2>0, <2>3 DEF CommitDeclare
    <3> QED BY <2>0, <3>1 DEF Bet
  <2> QED BY <2>1, <2>2, <2>3, ProceedStep DEF Works, MoneyInv
<1> QED BY <1>1 DEF Stakes

\* Only its own correction moves a result on record, its bets or its payouts.
LEMMA Untouched ==
  ASSUME MoneyInv, NEW r \in Req, Works(r), NEW x \in Req, results[x] # None,
         ~(CommitCorrection(r) /\ Ref(r) = x)
  PROVE  /\ results'[x] = results[x] /\ Linked(x)' = Linked(x)
         /\ PaidOf(x)' = PaidOf(x) /\ Stakes(Linked(x))' = Stakes(Linked(x))
<1>0. x # None
  BY PoolLedgerAssumption
<1>1. results'[x] = results[x] /\ Linked(x)' = Linked(x) /\ PaidOf(x)' = PaidOf(x)
  <2>1. CASE UNCHANGED db \/ CommitTransfer(r)
    BY <2>1 DEF db, CommitTransfer, Linked, PaidOf
  <2>2. CASE CommitBet(r)
    <3>1. bets[r] = None /\ results' = results /\ payouts' = payouts
      BY <2>2, CommitFacts DEF CommitBet
    <3>2. bets'[r].result = None /\ \A b \in Req : b # r => bets'[b] = bets[b]
      BY <2>2 DEF CommitBet, MoneyInv, IInv, TypeOK
    <3> QED BY <1>0, <3>1, <3>2 DEF Linked, PaidOf
  <2>3. CASE CommitDeclare(r)
    <3>1. results[r] = None /\ Ref(r) = r /\ tx[r].pending \subseteq Pending(call[r].game)
      BY <2>3, CommitFacts
    <3>2. results'[x] = results[x]
      BY <2>3, <3>1 DEF CommitDeclare, MoneyInv, IInv, TypeOK
    <3>3. ASSUME NEW b \in Req PROVE b \in Linked(x)' <=> b \in Linked(x)
      <4>1. CASE b \in tx[r].pending
        <5>1. bets[b] # None /\ bets[b].result = None /\ bets[b] \in Bet
          BY <3>1, <4>1 DEF Pending, MoneyInv, IInv, TypeOK
        <5>2. bets'[b].result = r
          BY <2>3, <4>1, <5>1 DEF CommitDeclare, Bet
        <5> QED BY <1>0, <3>1, <5>1, <5>2 DEF Linked
      <4>2. CASE b \notin tx[r].pending
        BY <2>3, <4>2 DEF CommitDeclare, Linked
      <4> QED BY <4>1, <4>2
    <3>4. Linked(x)' = Linked(x)
      BY <3>3 DEF Linked
    <3>5. \A p \in NewCredits(r, tx[r].won) : p.ref # x
      BY <3>1 DEF NewCredits
    <3>6. PaidOf(x)' = PaidOf(x)
      BY <2>3, <3>5 DEF CommitDeclare, PaidOf
    <3> QED BY <3>2, <3>4, <3>6
  <2>4. CASE CommitCorrection(r)
    <3>1. Ref(r) # x /\ \A p \in tx[r].found : p.ref # x
      BY <2>4, CommitFacts
    <3>2. results'[x] = results[x] /\ bets' = bets
      BY <2>4, <3>1 DEF CommitCorrection, MoneyInv, IInv, TypeOK
    <3>3. \A p \in NewCredits(r, tx[r].won) : p.ref # x
      BY <3>1 DEF NewCredits
    <3>4. PaidOf(x)' = PaidOf(x)
      BY <2>4, <3>1, <3>3 DEF CommitCorrection, PaidOf
    <3> QED BY <3>2, <3>4 DEF Linked
  <2> QED BY <2>1, <2>2, <2>3, <2>4, ProceedStep DEF Works, MoneyInv
<1>2. Linked(x) \in SUBSET Req /\ \A b \in Linked(x) : bets[b] # None
  BY DEF Linked
<1> QED BY <1>1, <1>2, StakesStay DEF Stakes

-----------------------------------------------------------------------------
(* References *)

\* Every step keeps the references of bets and payouts.
LEMMA RefsNext ==
  ASSUME MoneyInv, RefsOK, [Next]_vars
  PROVE  RefsOK'
<1>1. ASSUME NEW r \in Req, Arrive(r) PROVE RefsOK'
  BY <1>1, ArriveStep DEF MoneyInv, RefsOK, db
<1>2. ASSUME NEW r \in Req, Works(r) PROVE RefsOK'
  <2>1. \A x \in Req : results[x] # None => results'[x] # None
    BY <1>2, RecordStays DEF MoneyInv
  <2>2. ASSUME NEW b \in Req, bets'[b] # None, bets'[b].result # None
        PROVE  results'[bets'[b].result] # None
    <3>1. CASE bets'[b] = bets[b]
      <4>1. bets[b].result \in Req
        BY <2>2, <3>1 DEF MoneyInv, IInv, TypeOK, Bet
      <4> QED BY <2>1, <2>2, <3>1, <4>1 DEF RefsOK
    <3>2. CASE CommitBet(r) /\ bets'[b] # bets[b]
      <4>1. b = r
        BY <3>2 DEF CommitBet, MoneyInv, IInv, TypeOK
      <4>2. bets'[r].result = None
        BY <3>2 DEF CommitBet, MoneyInv, IInv, TypeOK
      <4> QED BY <2>2, <4>1, <4>2
    <3>3. CASE CommitDeclare(r) /\ bets'[b] # bets[b]
      <4>1. b \in tx[r].pending /\ bets'[b] = [bets[b] EXCEPT !.result = r]
        BY <3>3 DEF CommitDeclare
      <4>2. bets[b] \in Bet
        BY <4>1, <3>3, CommitFacts DEF Pending, MoneyInv, IInv, TypeOK
      <4>3. bets'[b].result = r
        BY <4>1, <4>2 DEF Bet
      <4>4. results'[r] # None
        BY <3>3, CommitDeclareResult
      <4> QED BY <4>3, <4>4
    <3> QED BY <1>2, <3>1, <3>2, <3>3, ProceedStep
         DEF Works, MoneyInv, db, CommitTransfer, CommitCorrection
  <2>3. ASSUME NEW p \in payouts' PROVE results'[p.ref] # None
    <3>1. CASE p \in payouts
      <4>1. p.ref \in Req
        BY <3>1 DEF MoneyInv, IInv, TypeOK, Payout
      <4> QED BY <2>1, <3>1, <4>1 DEF RefsOK
    <3>2. CASE p \notin payouts
      <4>1. /\ CommitDeclare(r) \/ CommitCorrection(r)
            /\ p \in NewCredits(r, tx[r].won)
        BY <1>2, <2>3, <3>2, ProceedStep
           DEF Works, MoneyInv, db, CommitTransfer, CommitBet, CommitDeclare, CommitCorrection
      <4>2. p.ref = Ref(r)
        BY <4>1 DEF NewCredits
      <4>3. CASE CommitDeclare(r)
        BY <4>2, <4>3, CommitFacts, CommitDeclareResult
      <4>4. CASE CommitCorrection(r)
        BY <2>1, <4>2, <4>4, CommitFacts
      <4> QED BY <4>1, <4>3, <4>4
    <3> QED BY <3>1, <3>2
  <2> QED BY <2>2, <2>3 DEF RefsOK
<1>3. CASE Tick \/ UNCHANGED vars
  BY <1>3 DEF Tick, RefsOK, vars, db
<1> QED BY <1>1, <1>2, <1>3 DEF Next, Works

-----------------------------------------------------------------------------
(* What a settlement has computed *)

\* A request that starts has computed nothing.
LEMMA ArriveStage ==
  ASSUME NEW r \in Req, Arrive(r), pc \in [Req -> Stages \cup {"idle", "done", "failed"}]
  PROVE  pc'[r] \notin {"reverse", "rescore", "save", "credit", "commit"} \/ Op(r)' \notin {"declare", "correct"}
BY DEF Arrive, TopUp, Withdraw, PlaceBet, Declare, UpdateResult, SetLockStatus, UpdateSubType,
       Begin, Goto, Op

\* No other request moves the result a correction is about.
LEMMA CorrectedAlone ==
  ASSUME MoneyInv, NEW q \in Req, NEW r \in Req, q # r, Works(r),
         InFlight(q), Op(q) = "correct"
  PROVE  /\ call[q].ref \in Req /\ results'[call[q].ref] = results[call[q].ref]
         /\ PaidOf(call[q].ref)' = PaidOf(call[q].ref)
         /\ Stakes(Linked(call[q].ref))' = Stakes(Linked(call[q].ref))
<1>1. call'[q] = call[q] /\ InFlight(r)
  BY ProceedStep DEF Works, MoneyInv
<1>2. call[q].ref \in Req /\ results[call[q].ref] # None
  BY CallTypes DEF MoneyInv, IInv, StageOK, ReadOK, Op
<1>3. ~(CommitCorrection(r) /\ Ref(r) = call[q].ref)
  <2> SUFFICES ASSUME CommitCorrection(r), Ref(r) = call[q].ref PROVE FALSE
    OBVIOUS
  <2>1. Op(r) = "correct" /\ call[r].ref = call[q].ref
    BY CommitFacts
  <2>2. PICK g \in Game : results[call[q].ref].game = g
    BY <1>2 DEF MoneyInv, IInv, TypeOK, Result
  <2>3. Settling(q, g) /\ Settling(r, g)
    BY <1>1, <1>2, <2>1, <2>2 DEF Settling
  <2> QED BY <2>3, OtherGame DEF MoneyInv
<1>4. PICK x \in Req : x = call[q].ref
  BY <1>2
<1>5. results'[x] = results[x] /\ PaidOf(x)' = PaidOf(x) /\ Stakes(Linked(x))' = Stakes(Linked(x))
  BY <1>2, <1>3, <1>4, Untouched
<1> QED BY <1>1, <1>2, <1>4, <1>5 DEF Linked, PaidOf, Stakes

\* A step of another request leaves it true.
LEMMA ScoredOther ==
  ASSUME MoneyInv, NEW q \in Req, NEW r \in Req, q # r, Works(r), Scored(q)
  PROVE  Scored(q)'
<1>1. call'[q] = call[q] /\ pc'[q] = pc[q] /\ tx'[q] = tx[q] /\ InFlight(r)
  BY ProceedStep DEF Works, MoneyInv
<1>2. CASE Op(q) = "declare" /\ pc[q] \in {"credit", "commit"}
  <2>1. tx[q].pending \in SUBSET Req /\ \A b \in tx[q].pending : bets[b] # None
    BY TxFields DEF MoneyInv, IInv, ReadOK
  <2>2. Stakes(tx[q].pending)' = Stakes(tx[q].pending)
    BY <1>1, <2>1, StakesStay DEF Stakes
  <2>3. tx[q].won = Winners(Stakes(tx[q].pending), call[q].number)
    BY <1>2 DEF Scored
  <2>4. Winners(Stakes(tx[q].pending), call[q].number)' = Winners(Stakes(tx[q].pending), call[q].number)
    BY <1>1, <2>2
  <2>5. (tx[q].won = Winners(Stakes(tx[q].pending), call[q].number))'
    BY <1>1, <2>3, <2>4
  <2>6. Op(q)' = "declare"
    BY <1>1, <1>2 DEF Op
  <2> QED BY <2>5, <2>6 DEF Scored
<1>3. CASE Op(q) = "correct" /\ pc[q] \in {"reverse", "rescore", "save", "credit", "commit"}
  <2>3. /\ results'[call[q].ref] = results[call[q].ref]
        /\ PaidOf(call[q].ref)' = PaidOf(call[q].ref)
        /\ Stakes(Linked(call[q].ref))' = Stakes(Linked(call[q].ref))
    BY <1>3, CorrectedAlone DEF InFlight, Stages
  <2>4. Winners(Stakes(Linked(call[q].ref)), call[q].number)'
          = Winners(Stakes(Linked(call[q].ref)), call[q].number)
    BY <1>1, <2>3
  <2>5. Op(q)' = "correct"
    BY <1>1, <1>3 DEF Op
  <2>6. (tx[q].found = PaidOf(call[q].ref))'
    BY <1>1, <1>3, <2>3 DEF Scored
  <2>7. pc[q] \in {"save", "credit", "commit"} =>
          (/\ tx[q].won = Winners(Stakes(Linked(call[q].ref)), call[q].number)
           /\ tx[q].loaded = results[call[q].ref])'
    BY <1>1, <1>3, <2>3, <2>4 DEF Scored
  <2> QED BY <1>1, <2>5, <2>6, <2>7 DEF Scored
<1> QED BY <1>1, <1>2, <1>3 DEF Scored, Op

\* A step that writes none of the rows leaves it true.
LEMMA ScoredSame ==
  ASSUME NEW q \in Req, Scored(q), UNCHANGED <<bets, results, payouts>>,
         pc'[q] = pc[q], call'[q] = call[q], tx'[q] = tx[q]
  PROVE  Scored(q)'
<1>1. /\ PaidOf(call[q].ref)' = PaidOf(call[q].ref)
      /\ Stakes(Linked(call[q].ref))' = Stakes(Linked(call[q].ref))
      /\ Stakes(tx[q].pending)' = Stakes(tx[q].pending)
      /\ call'[q].number = call[q].number /\ Op(q)' = Op(q)
  BY DEF PaidOf, Stakes, Linked, Op
<1>2. /\ Winners(Stakes(tx[q].pending), call[q].number)'
           = Winners(Stakes(tx[q].pending), call[q].number)
      /\ Winners(Stakes(Linked(call[q].ref)), call[q].number)'
           = Winners(Stakes(Linked(call[q].ref)), call[q].number)
  BY <1>1
<1> QED BY <1>1, <1>2 DEF Scored

\* A declaration's own step leaves it true: LinkBets computes the winners.
LEMMA ScoredDeclare ==
  ASSUME MoneyInv, NEW r \in Req, Works(r), Scored(r), Op(r) = "declare"
  PROVE  Scored(r)'
<1> SUFFICES ASSUME pc'[r] \in {"credit", "commit"}
             PROVE  (tx[r].won = Winners(Stakes(tx[r].pending), call[r].number))'
  <2>1. Op(r)' = "declare"
    BY ProceedStep DEF Works, MoneyInv, Op
  <2> QED BY <2>1 DEF Scored
<1>0. /\ tx \in [Req -> Tx] /\ pc \in [Req -> Stages \cup {"idle", "done", "failed"}]
      /\ call' = call /\ tx[r].pending \subseteq Req /\ ~Abort(r) /\ ~Publish(r)
  BY ProceedStep, TxFields DEF Works, MoneyInv, IInv, TypeOK, Abort, Publish, Goto
<1>1. LinkBets(r) \/ CreditWinner(r)
  BY <1>0 DEF Works, Fail, DeadlockVictim, Proceed, InsertWallet, RaiseBalance,
       AssertBettingOpen, Debit, CommitTransfer, CommitBet, CommitDeclare, FindCredits,
       ReverseCredit, Rescore, SaveResult, CommitCorrection, MoneyInv, IInv, StageOK, InFlight,
       Stages
<1>2. UNCHANGED <<bets, results, payouts>>
  BY <1>0, <1>1 DEF LinkBets, CreditWinner, db
<1>3. tx'[r].pending = tx[r].pending /\ tx'[r].won = Winners(Stakes(tx[r].pending), call[r].number)
  <2>1. CASE LinkBets(r)
    <3> DEFINE won == Winners(Stakes(tx[r].pending), call[r].number)
               new == NewCredits(r, won)
    <3>1. CastOK(won) /\ tx' = [tx EXCEPT ![r].won = won, ![r].due = new]
      BY <1>0, <2>1 DEF LinkBets
    <3>2. Ref(r) \in Req /\ call[r].number \in Number
      BY <2>1, RefType DEF LinkBets, MoneyInv, InFlight, Stages
    <3>3. won \in [User -> Entry] /\ new \in SUBSET Payout
      BY <1>0, <3>1, <3>2, WinnersType, CreditsType
    <3> HIDE DEF won, new
    <3>4. tx'[r].pending = tx[r].pending /\ tx'[r].won = won
      BY <1>0, <3>1, <3>3, TxWon
    <3> QED BY <3>4 DEF won
  <2>2. CASE CreditWinner(r)
    <3>1. PICK p : tx' = [tx EXCEPT ![r].due = tx[r].due \ {p}] /\ pc[r] = "credit"
      BY <1>0, <2>2 DEF CreditWinner
    <3>2. tx[r].due \ {p} \in SUBSET Payout
      BY TxFields DEF MoneyInv
    <3>3. tx'[r].pending = tx[r].pending /\ tx'[r].won = tx[r].won
      BY <1>0, <3>1, <3>2, TxDue
    <3> QED BY <3>1, <3>3 DEF Scored
  <2> QED BY <1>1, <2>1, <2>2
<1>4. Stakes(tx[r].pending)' = Stakes(tx[r].pending)
  BY <1>2, <1>3 DEF Stakes
<1> QED BY <1>0, <1>3, <1>4

\* A correction's own step leaves it true: FindCredits reads the payouts of the
\* result, Rescore computes its winners and loads its row.
LEMMA ScoredCorrection ==
  ASSUME MoneyInv, NEW r \in Req, Works(r), Scored(r), Op(r) = "correct"
  PROVE  Scored(r)'
<1> SUFFICES ASSUME pc'[r] \in {"reverse", "rescore", "save", "credit", "commit"}
             PROVE  /\ (tx[r].found = PaidOf(call[r].ref))'
                    /\ pc'[r] \in {"save", "credit", "commit"} =>
                         (/\ tx[r].won = Winners(Stakes(Linked(call[r].ref)), call[r].number)
                          /\ tx[r].loaded = results[call[r].ref])'
  <2>1. Op(r)' = "correct"
    BY ProceedStep DEF Works, MoneyInv, Op
  <2> QED BY <2>1 DEF Scored
<1>0. /\ tx \in [Req -> Tx] /\ pc \in [Req -> Stages \cup {"idle", "done", "failed"}]
      /\ call' = call /\ ~Abort(r) /\ ~Publish(r) /\ InFlight(r) /\ InFlight(r)'
  BY ProceedStep DEF Works, MoneyInv, IInv, TypeOK, Abort, Publish, Goto, InFlight, Stages
<1>1. /\ Ref(r) = call[r].ref /\ Ref(r) \in Req /\ call[r].number \in Number
  BY <1>0, RefType DEF MoneyInv, Ref
<1>2. FindCredits(r) \/ ReverseCredit(r) \/ Rescore(r) \/ SaveResult(r) \/ CreditWinner(r)
  BY <1>0 DEF Works, Fail, DeadlockVictim, Proceed, InsertWallet, RaiseBalance,
       AssertBettingOpen, Debit, CommitTransfer, CommitBet, CommitDeclare, LinkBets,
       CommitCorrection, MoneyInv, IInv, StageOK, InFlight, Stages
<1>3. UNCHANGED <<bets, results, payouts>>
  BY <1>0, <1>2 DEF FindCredits, ReverseCredit, Rescore, SaveResult, CreditWinner, db
<1>4. /\ PaidOf(call[r].ref)' = PaidOf(call[r].ref)
      /\ Stakes(Linked(call[r].ref))' = Stakes(Linked(call[r].ref))
      /\ results'[call'[r].ref] = results[call[r].ref]
  BY <1>0, <1>3 DEF PaidOf, Stakes, Linked
<1>5. tx'[r].found = PaidOf(call[r].ref)
  <2>1. CASE pc[r] = "credits"
    <3> DEFINE found == PaidOf(call[r].ref)
    <3>1. tx' = [tx EXCEPT ![r].found = found, ![r].due = found] /\ found \in SUBSET Payout
      BY <1>1, <1>2, <2>1 DEF FindCredits, ReverseCredit, Rescore, SaveResult, CreditWinner,
           PaidOf, MoneyInv, IInv, TypeOK
    <3> HIDE DEF found
    <3>2. tx'[r].found = found
      BY <1>0, <3>1, TxFound
    <3> QED BY <3>2 DEF found
  <2>2. CASE pc[r] # "credits"
    <3>1. tx'[r].found = tx[r].found
      BY <1>0, <2>2, ProceedStep DEF Works, MoneyInv
    <3>2. pc[r] \in {"reverse", "rescore", "save", "credit"}
      BY <1>2, <2>2 DEF FindCredits, ReverseCredit, Rescore, SaveResult, CreditWinner
    <3> QED BY <3>1, <3>2 DEF Scored
  <2> QED BY <2>1, <2>2
<1>6. ASSUME pc'[r] \in {"save", "credit", "commit"}
      PROVE  /\ tx'[r].won = Winners(Stakes(Linked(call[r].ref)), call[r].number)
             /\ tx'[r].loaded = results[call[r].ref]
  <2>1. Rescore(r) \/ SaveResult(r) \/ CreditWinner(r)
    BY <1>0, <1>2, <1>6 DEF FindCredits, ReverseCredit, Goto
  <2>2. CASE Rescore(r)
    <3> DEFINE won == Winners(Stakes(Linked(call[r].ref)), call[r].number)
               row == results[call[r].ref]
    <3>0. CastOK(won) /\ tx' = [tx EXCEPT ![r].won = won, ![r].loaded = row]
      BY <1>0, <1>1, <2>2 DEF Rescore
    <3>1. tx' = [tx EXCEPT ![r].won = won, ![r].loaded = row]
      BY <3>0
    <3>2. Linked(call[r].ref) \in SUBSET Req
      BY DEF Linked
    <3>3. won \in [User -> Entry]
      BY <1>1, <3>0, <3>2, WinnersType
    <3>5. row \in Result \cup {None}
      BY <1>1 DEF MoneyInv, IInv, TypeOK
    <3> HIDE DEF won, row
    <3>6. tx \in [Req -> Tx]
      BY <1>0
    <3>7. ASSUME NEW w \in [User -> Entry], NEW x \in Result \cup {None},
                 tx' = [tx EXCEPT ![r].won = w, ![r].loaded = x]
          PROVE  tx'[r].won = w /\ tx'[r].loaded = x
      <4>1. tx[r] \in Tx
        BY <3>6
      <4>2. tx'[r] = [tx[r] EXCEPT !.won = w, !.loaded = x]
        BY <3>6, <3>7
      <4> QED BY <4>1, <4>2 DEF Tx
    <3>4. tx'[r].won = won /\ tx'[r].loaded = row
      BY <3>1, <3>3, <3>5, <3>7
    <3> QED BY <3>4 DEF won, row
  <2>3. CASE SaveResult(r) \/ CreditWinner(r)
    <3>1. PICK D \in SUBSET Payout : tx' = [tx EXCEPT ![r].due = D]
      <4>1. CASE SaveResult(r)
        <5>1. tx' = [tx EXCEPT ![r].due = NewCredits(r, tx[r].won)]
          BY <4>1 DEF SaveResult
        <5>2. NewCredits(r, tx[r].won) \in SUBSET Payout
          BY <1>1, TxFields, CreditsType DEF MoneyInv
        <5> QED BY <5>1, <5>2
      <4>2. CASE CreditWinner(r)
        <5>1. PICK p : tx' = [tx EXCEPT ![r].due = tx[r].due \ {p}]
          BY <1>0, <4>2 DEF CreditWinner
        <5>2. tx[r].due \ {p} \in SUBSET Payout
          BY TxFields DEF MoneyInv
        <5> QED BY <5>1, <5>2
      <4> QED BY <2>3, <4>1, <4>2
    <3>2. tx'[r].won = tx[r].won /\ tx'[r].loaded = tx[r].loaded
      BY <1>0, <3>1, TxDue
    <3>3. pc[r] \in {"save", "credit"}
      BY <2>3 DEF SaveResult, CreditWinner
    <3> QED BY <3>2, <3>3 DEF Scored
  <2> QED BY <2>1, <2>2, <2>3
<1>7. Winners(Stakes(Linked(call[r].ref)), call[r].number)'
        = Winners(Stakes(Linked(call[r].ref)), call[r].number)
  BY <1>0, <1>4
<1>8. (tx[r].found = PaidOf(call[r].ref))'
  BY <1>4, <1>5
<1>9. pc'[r] \in {"save", "credit", "commit"} =>
        (/\ tx[r].won = Winners(Stakes(Linked(call[r].ref)), call[r].number)
         /\ tx[r].loaded = results[call[r].ref])'
  BY <1>4, <1>6, <1>7
<1> QED BY <1>8, <1>9

\* Every step keeps what the settlements in flight have computed.
LEMMA ScoredNext ==
  ASSUME MoneyInv, ScoredOK, [Next]_vars
  PROVE  ScoredOK'
<1>1. ASSUME NEW r \in Req, Arrive(r), NEW q \in Req PROVE Scored(q)'
  <2>1. PICK c \in Calls[r], s \in Stages \cup {"done", "failed"} :
          /\ Begin(r, c, s) /\ UNCHANGED <<db, rows>>
          /\ \A o \in Req : o # r => tx'[o] = tx[o]
    BY <1>1, ArriveStep DEF MoneyInv
  <2>2. CASE q = r
    <3>1. pc'[r] \notin {"reverse", "rescore", "save", "credit", "commit"} \/ Op(r)' \notin {"declare", "correct"}
      BY <1>1, ArriveStage DEF MoneyInv, IInv, TypeOK
    <3> QED BY <2>2, <3>1 DEF Scored
  <2>3. CASE q # r
    <3>1. /\ pc'[q] = pc[q] /\ call'[q] = call[q] /\ tx'[q] = tx[q]
          /\ UNCHANGED <<bets, results, payouts>>
      BY <2>1, <2>3, BeginStep DEF MoneyInv, db
    <3>2. Scored(q)
      BY DEF ScoredOK
    <3> QED BY <3>1, <3>2, ScoredSame
  <2> QED BY <2>2, <2>3
<1>2. ASSUME NEW r \in Req, Works(r), NEW q \in Req PROVE Scored(q)'
  <2>1. Scored(q) /\ call' = call
    BY <1>2, ProceedStep DEF ScoredOK, Works, MoneyInv
  <2>2. CASE q # r
    BY <1>2, <2>1, <2>2, ScoredOther
  <2>3. CASE q = r /\ Op(r) \in {"declare", "correct"}
    BY <1>2, <2>1, <2>3, ScoredDeclare, ScoredCorrection
  <2>4. CASE q = r /\ Op(r) \notin {"declare", "correct"}
    BY <2>1, <2>4 DEF Scored, Op
  <2> QED BY <2>2, <2>3, <2>4
<1>3. ASSUME Tick \/ UNCHANGED vars, NEW q \in Req PROVE Scored(q)'
  <2>1. /\ pc'[q] = pc[q] /\ call'[q] = call[q] /\ tx'[q] = tx[q]
        /\ UNCHANGED <<bets, results, payouts>>
    BY <1>3 DEF Tick, vars, db
  <2>2. Scored(q)
    BY DEF ScoredOK
  <2> QED BY <2>1, <2>2, ScoredSame
<1> QED BY <1>1, <1>2, <1>3 DEF Next, Works, ScoredOK

-----------------------------------------------------------------------------
(* Results *)

\* A step that leaves a result, its bets and its payouts alone keeps it right.
LEMMA ResultSame ==
  ASSUME NEW x \in Req, ResultOK(x), results'[x] = results[x], Linked(x)' = Linked(x),
         PaidOf(x)' = PaidOf(x), Stakes(Linked(x))' = Stakes(Linked(x))
  PROVE  ResultOK(x)'
<1>1. Winners(Stakes(Linked(x)), results[x].number)' = Winners(Stakes(Linked(x)), results[x].number)
  OBVIOUS
<1>2. Cardinality(Linked(x))' = Cardinality(Linked(x))
  OBVIOUS
<1>3. PICK q \in Req : PaidOf(x) = PaidRows(q, x, results[x].winners)
  BY DEF ResultOK
<1>4. PaidRows(q, x, results[x].winners)' = PaidRows(q, x, results[x].winners)
  OBVIOUS
<1> QED BY <1>1, <1>2, <1>3, <1>4 DEF ResultOK

\* The rows a settlement inserts are those of the result it is about.
LEMMA CreditRows ==
  ASSUME NEW r \in Req, NEW x, NEW won, Ref(r) = x
  PROVE  NewCredits(r, won) = PaidRows(r, x, won)
BY DEF NewCredits, PaidRows

\* A declaration's commit makes its result right: no bet and no payout had it
\* as its result before.
LEMMA DeclaredRight ==
  ASSUME MoneyInv, RefsOK, NEW r \in Req, Scored(r), Works(r), CommitDeclare(r)
  PROVE  ResultOK(r)'
<1>1. /\ results[r] = None /\ Op(r) = "declare" /\ Ref(r) = r
      /\ tx[r].pending \subseteq Pending(call[r].game) /\ r # None
      /\ tx[r].pending \subseteq Req
  BY CommitFacts, PoolLedgerAssumption, TxFields DEF MoneyInv
<1>2. /\ results'[r].number = call[r].number /\ results'[r].winners = tx[r].won
      /\ results'[r].count = Cardinality(tx[r].pending)
  BY CommitDeclareResult
<1>3. Linked(r)' = tx[r].pending
  <2>1. ASSUME NEW b \in tx[r].pending PROVE bets'[b] # None /\ bets'[b].result = r
    <3>1. bets[b] \in Bet /\ bets[b] # None
      BY <1>1 DEF Pending, MoneyInv, IInv, TypeOK
    <3>2. bets'[b].result = r
      BY <1>1, <3>1 DEF CommitDeclare, Bet
    <3>3. bets'[b] # None
      BY <1>1, <3>1, RecordStays DEF MoneyInv
    <3> QED BY <3>2, <3>3
  <2>2. ASSUME NEW b \in Req \ tx[r].pending PROVE ~(bets'[b] # None /\ bets'[b].result = r)
    BY <1>1 DEF CommitDeclare, RefsOK
  <2> QED BY <1>1, <2>1, <2>2 DEF Linked
<1>4. Stakes(tx[r].pending)' = Stakes(tx[r].pending)' /\ Stakes(Linked(r))' = Stakes(tx[r].pending)
  <2>1. \A b \in tx[r].pending : bets[b] # None
    BY <1>1 DEF Pending
  <2>2. PICK B \in SUBSET Req : B = tx[r].pending
    BY <1>1
  <2>3. Stakes(B)' = Stakes(B)
    BY <2>1, <2>2, StakesStay
  <2>4. Linked(r)' = B
    BY <1>3, <2>2
  <2> QED BY <2>2, <2>3, <2>4 DEF Stakes
<1>5. tx[r].won = Winners(Stakes(tx[r].pending), call[r].number)
  BY <1>1 DEF Scored, CommitDeclare
<1>6. (results[r].winners = Winners(Stakes(Linked(r)), results[r].number))'
  BY <1>2, <1>4, <1>5
<1>7. (results[r].count = Cardinality(Linked(r)))'
  BY <1>2, <1>3
<1>8. PaidOf(r)' = NewCredits(r, tx[r].won)
  BY <1>1 DEF CommitDeclare, PaidOf, RefsOK, NewCredits
<1>9. PaidOf(r)' = PaidRows(r, r, results'[r].winners)
  BY <1>1, <1>2, <1>8, CreditRows
<1> QED BY <1>6, <1>7, <1>9 DEF ResultOK

\* A correction's commit makes its result right for the new number: it takes
\* off all the payouts there are and pays the new winners.
LEMMA CorrectedRight ==
  ASSUME MoneyInv, NEW r \in Req, Scored(r), NEW x \in Req, ResultOK(x),
         CommitCorrection(r), Ref(r) = x
  PROVE  ResultOK(x)'
<1>1. /\ Op(r) = "correct" /\ call[r].ref = x /\ results[x] # None /\ results[x] \in Result
      /\ call[r].number \in Number
  BY CommitFacts, RefType DEF MoneyInv, IInv, TypeOK, CommitCorrection, InFlight, Stages
<1>2. /\ tx[r].found = PaidOf(x) /\ tx[r].loaded = results[x]
      /\ tx[r].won = Winners(Stakes(Linked(x)), call[r].number)
  BY <1>1 DEF Scored, CommitCorrection
<1>3. results'[x] = Saved(r)
  BY <1>1 DEF CommitCorrection, MoneyInv, IInv, TypeOK
<1>4. /\ results'[x].number = call[r].number /\ results'[x].winners = tx[r].won
      /\ results'[x].count = results[x].count
  BY <1>1, <1>2, <1>3 DEF Saved, Result
<1>5. bets' = bets
  BY DEF CommitCorrection
<1>6. Linked(x)' = Linked(x) /\ Stakes(Linked(x))' = Stakes(Linked(x))
  BY <1>5 DEF Linked, Stakes
<1>7. PaidOf(x)' = NewCredits(r, tx[r].won)
  BY <1>2 DEF CommitCorrection, PaidOf, NewCredits
<1>8. PaidOf(x)' = PaidRows(r, x, results'[x].winners)
  BY <1>4, <1>7, CreditRows
<1>9. (results[x].winners = Winners(Stakes(Linked(x)), results[x].number))'
  BY <1>2, <1>4, <1>6
<1>10. (results[x].count = Cardinality(Linked(x)))'
  BY <1>4, <1>6 DEF ResultOK
<1> QED BY <1>8, <1>9, <1>10 DEF ResultOK

\* Every step keeps every result on record right.
LEMMA ResultsNext ==
  ASSUME ResultsInv, [Next]_vars
  PROVE  ResultsOK'
<1> SUFFICES ASSUME NEW x \in Req, results'[x] # None PROVE ResultOK(x)'
  BY DEF ResultsOK
<1>1. CASE UNCHANGED <<bets, results, payouts>>
  <2>1. /\ results'[x] = results[x] /\ Linked(x)' = Linked(x) /\ PaidOf(x)' = PaidOf(x)
        /\ Stakes(Linked(x))' = Stakes(Linked(x))
    BY <1>1 DEF Linked, PaidOf, Stakes
  <2> QED BY <2>1, ResultSame DEF ResultsInv, ResultsOK
<1>2. ASSUME NEW r \in Req, Works(r) PROVE ResultOK(x)'
  <2>1. CASE results[x] # None /\ ~(CommitCorrection(r) /\ Ref(r) = x)
    <3>1. /\ results'[x] = results[x] /\ Linked(x)' = Linked(x) /\ PaidOf(x)' = PaidOf(x)
          /\ Stakes(Linked(x))' = Stakes(Linked(x))
      BY <1>2, <2>1, Untouched DEF ResultsInv
    <3> QED BY <2>1, <3>1, ResultSame DEF ResultsInv, ResultsOK
  <2>2. CASE results[x] # None /\ CommitCorrection(r) /\ Ref(r) = x
    BY <2>2, CorrectedRight DEF ResultsInv, ResultsOK, ScoredOK
  <2>3. CASE results[x] = None
    <3>1. x = r /\ results'[r] # results[r]
      BY <1>2, <2>3, RecordStays DEF ResultsInv, MoneyInv
    <3>2. CommitDeclare(r) \/ CommitCorrection(r)
      BY <1>2, <3>1, ProceedStep DEF ResultsInv, MoneyInv, Works, db, CommitTransfer, CommitBet
    <3>3. ~CommitCorrection(r)
      BY <2>3, <3>1, CommitFacts DEF ResultsInv, MoneyInv, IInv, TypeOK, CommitCorrection
    <3> QED BY <1>2, <3>1, <3>2, <3>3, DeclaredRight DEF ResultsInv, ScoredOK
  <2> QED BY <2>1, <2>2, <2>3
<1>3. ASSUME NEW r \in Req, Arrive(r) PROVE ResultOK(x)'
  BY <1>1, <1>3, ArriveStep DEF ResultsInv, MoneyInv, db
<1>4. CASE Tick \/ UNCHANGED vars
  BY <1>1, <1>4 DEF Tick, vars, db
<1> QED BY <1>2, <1>3, <1>4 DEF Next, Works

\* No result is on record yet when the pool opens.
LEMMA ResultsInit ==
  ASSUME Init, OneSettlementPerGame
  PROVE  ResultsInv
<1>1. RefsOK
  BY PoolLedgerAssumption DEF Init, RefsOK, PendingBet
<1>2. ScoredOK /\ ResultsOK
  BY DEF Init, ScoredOK, Scored, ResultsOK
<1> QED BY <1>1, <1>2, MoneyInit DEF ResultsInv

\* With one settlement of a game at a time, what settlements in flight have
\* computed stays true until they commit, and every result is right.
THEOREM ResultsInvariance == OneSettlementPerGame /\ Spec => []ResultsInv
<1>1. Init /\ OneSettlementPerGame => ResultsInv
  BY ResultsInit
<1>2. ResultsInv /\ [Next]_vars => ResultsInv'
  BY MoneyNext, RefsNext, ScoredNext, ResultsNext DEF ResultsInv
<1> QED BY <1>1, <1>2, PTL DEF Spec

\* Under the same discipline a result shows the number of bets linked to it.
THEOREM CountAgrees == OneSettlementPerGame /\ Spec => []CountMatchesLinks
<1>1. ResultsInv => CountMatchesLinks
  BY DEF ResultsInv, ResultsOK, ResultOK, CountMatchesLinks
<1> QED BY <1>1, ResultsInvariance, PTL

\* Under the same discipline declareResult and updateResult record the winners
\* of the number drawn and leave exactly one live CREDIT row for each of them.
THEOREM WinnersPaid == OneSettlementPerGame /\ Spec => []PaidAsScored
<1>1. ASSUME ResultsInv, NEW x \in Req, results[x] # None,
             NEW won, won = Winners(Stakes(Linked(x)), results[x].number),
             NEW paid, paid = {p \in payouts : p.ref = x}
      PROVE  /\ results[x].winners = won
             /\ \A p \in paid : won[p.user].amount > 0 /\ p.amount = won[p.user].amount
             /\ \A u \in User : won[u].amount > 0 => \E p \in paid : p.user = u
             /\ \A p, o \in paid : p.user = o.user => p = o
  <2>1. results[x].winners = won
    BY <1>1 DEF ResultsInv, ResultsOK, ResultOK
  <2>2. PICK q \in Req : paid = PaidRows(q, x, won)
    BY <1>1, <2>1 DEF ResultsInv, ResultsOK, ResultOK, PaidOf
  <2>3. ASSUME NEW p \in paid
        PROVE  /\ p.user \in User /\ won[p.user].amount > 0
               /\ p = [by |-> q, user |-> p.user, ref |-> x, amount |-> won[p.user].amount]
    BY <2>2 DEF PaidRows
  <2>4. ASSUME NEW u \in User, won[u].amount > 0 PROVE \E p \in paid : p.user = u
    <3> DEFINE p == [by |-> q, user |-> u, ref |-> x, amount |-> won[u].amount]
    <3>1. p \in paid /\ p.user = u
      BY <2>2, <2>4 DEF PaidRows
    <3> QED BY <3>1
  <2>5. ASSUME NEW p \in paid, NEW o \in paid, p.user = o.user PROVE p = o
    BY <2>3, <2>5
  <2>6. ASSUME NEW p \in paid PROVE won[p.user].amount > 0 /\ p.amount = won[p.user].amount
    BY <2>3
  <2> QED BY <2>1, <2>4, <2>5, <2>6
<1>2. ResultsInv => PaidAsScored
  BY <1>1 DEF PaidAsScored
<1> QED BY <1>2, ResultsInvariance, PTL

-----------------------------------------------------------------------------
(* The edit window *)

\* A correction starts on no result whose window is over.
LEMMA StartsInWindow ==
  ASSUME MoneyInv, NEW r \in Req, Arrive(r), NEW x \in Req, Frozen(x)
  PROVE  Frozen(x)' /\ UNCHANGED <<bets, results, payouts>>
<1>1. UNCHANGED <<bets, results, payouts, clock>>
  BY DEF Arrive, TopUp, Withdraw, PlaceBet, Declare, UpdateResult, SetLockStatus, UpdateSubType,
         db, env
<1>2. \A q \in Req : q # r => pc'[q] = pc[q] /\ call'[q] = call[q]
  BY ArriveStep, BeginStep DEF MoneyInv
<1>3. ~(InFlight(r)' /\ Op(r)' = "correct" /\ call'[r].ref = x)
  <2>1. CASE UpdateResult(r)
    <3>1. PICK c \in Calls[r] : /\ c.op = "correct"
            /\ \/ Begin(r, c, "failed")
               \/ Editable(results[c.ref], c.number) /\ Begin(r, c, "credits")
      BY <2>1 DEF UpdateResult
    <3>2. CASE Begin(r, c, "failed")
      BY <3>2, BeginStep DEF MoneyInv, InFlight, Stages
    <3>3. CASE Editable(results[c.ref], c.number) /\ Begin(r, c, "credits")
      <4>1. call'[r] = c
        BY <3>3, BeginStep DEF MoneyInv
      <4>2. results[x] \in Result /\ clock \in Nat
        BY DEF Frozen, MoneyInv, IInv, TypeOK
      <4>3. results[x].at \in Nat /\ EditWindow \in Nat
        BY <4>2, PoolLedgerAssumption DEF Result
      <4> QED BY <3>3, <4>1, <4>2, <4>3 DEF Editable, Frozen
    <3> QED BY <3>1, <3>2, <3>3
  <2>2. CASE ~UpdateResult(r)
    <3>1. PICK c \in Calls[r] : (\E s : Begin(r, c, s)) /\ c.op # "correct"
      BY <2>2 DEF Arrive, TopUp, Withdraw, PlaceBet, Declare, SetLockStatus, UpdateSubType
    <3>2. call'[r] = c
      BY <3>1, BeginStep DEF MoneyInv
    <3> QED BY <3>1, <3>2 DEF Op
  <2> QED BY <2>1, <2>2
<1> QED BY <1>1, <1>2, <1>3 DEF Frozen, InFlight, Op

\* Under the same discipline a result, its bets and its payouts stay as they are
\* once its edit window is over and the corrections let in before have ended.
THEOREM WindowCloses == OneSettlementPerGame /\ Spec => FrozenAfterWindow
<1>1. ASSUME MoneyInv, [Next]_vars, NEW x \in Req, Frozen(x)
      PROVE  /\ Frozen(x)' /\ results'[x] = results[x] /\ Linked(x)' = Linked(x)
             /\ {p \in payouts' : p.ref = x} = {p \in payouts : p.ref = x}
  <2>1. CASE Frozen(x)' /\ UNCHANGED <<bets, results, payouts>>
    BY <2>1 DEF Linked
  <2>2. ASSUME NEW r \in Req, Arrive(r)
        PROVE  Frozen(x)' /\ UNCHANGED <<bets, results, payouts>>
    BY <1>1, <2>2, StartsInWindow
  <2>3. ASSUME NEW r \in Req, Works(r)
        PROVE  /\ Frozen(x)' /\ results'[x] = results[x] /\ Linked(x)' = Linked(x)
               /\ PaidOf(x)' = PaidOf(x)
    <3>1. /\ InFlight(r) /\ call' = call /\ \A q \in Req : q # r => pc'[q] = pc[q]
      BY <1>1, <2>3, ProceedStep DEF MoneyInv, Works
    <3>2. ~(CommitCorrection(r) /\ Ref(r) = x)
      BY <1>1, <3>1, CommitFacts DEF Frozen
    <3>3. results'[x] = results[x] /\ Linked(x)' = Linked(x) /\ PaidOf(x)' = PaidOf(x)
      BY <1>1, <2>3, <3>2, Untouched DEF Frozen
    <3>4. clock' = clock
      BY <2>3 DEF Works, Fail, DeadlockVictim, Proceed, InsertWallet, RaiseBalance,
           AssertBettingOpen, Debit, CommitTransfer, CommitBet, LinkBets, CreditWinner,
           CommitDeclare, FindCredits, ReverseCredit, Rescore, SaveResult, CommitCorrection,
           Abort, Publish, env
    <3> QED BY <1>1, <3>1, <3>3, <3>4 DEF Frozen, InFlight, Op
  <2>4. CASE Tick
    <3>1. results[x].at \in Nat /\ clock \in Nat /\ EditWindow \in Nat
      BY <1>1, PoolLedgerAssumption DEF Frozen, MoneyInv, IInv, TypeOK, Result
    <3>2. Frozen(x)'
      BY <1>1, <2>4, <3>1 DEF Tick, Frozen, InFlight, Op, db
    <3> QED BY <2>1, <2>4, <3>2 DEF Tick, db
  <2>5. CASE UNCHANGED vars
    BY <1>1, <2>1, <2>5 DEF Frozen, InFlight, Op, vars, db, env
  <2>6. CASE \E r \in Req : Works(r)
    BY <2>3, <2>6 DEF PaidOf
  <2>7. CASE \E r \in Req : Arrive(r)
    BY <2>1, <2>2, <2>7
  <2> QED BY <1>1, <2>4, <2>5, <2>6, <2>7 DEF Next, Works
<1>2. MoneyInv /\ [Next]_vars => StaysFrozen
  BY <1>1 DEF StaysFrozen
<1>3. OneSettlementPerGame /\ Spec => [][StaysFrozen]_vars
  BY <1>2, MoneyInvariance, PTL DEF Spec
<1> QED BY <1>3 DEF FrozenAfterWindow

-----------------------------------------------------------------------------
(* The ledger implements the book *)

Transfers == {"topUp", "withdraw", "bet"}
Settlements == {"declare", "correct"}

\* What r has added to u's balance.
Part(r, u) == IF lock[u] = r THEN delta[u] ELSE 0

\* u has a row among those r still has to reverse, or to credit.
Owed(r, u) == \E p \in tx[r].due : p.user = u

\* What the result under correction had paid u, and the part taken back.
Prior(r, u) == results[call[r].ref].winners[u].amount
Taken(r, u) == IF Owed(r, u) THEN 0 ELSE Prior(r, u)

\* What r has paid u so far.
Paid(r, u) == IF Owed(r, u) THEN 0 ELSE tx[r].won[u].amount

\* What a transfer does to its user's balance.
Change(c) == IF c.op = "topUp" THEN c.amount ELSE -Debited(c)

TransferOK(r) ==
  /\ \A u \in User : lock[u] = r => u = call[r].user /\ (pc[r] = "raise" => delta[u] = 0)
  /\ pc[r] = "commit" => lock[call[r].user] = r /\ delta[call[r].user] = Change(call[r])

DeclareOK(r) ==
  pc[r] \in {"credit", "commit"} => \A u \in User : Part(r, u) = Paid(r, u)

CorrectOK(r) ==
  /\ results[call[r].ref].number # call[r].number
  /\ pc[r] = "reverse" => \A u \in User : Part(r, u) = -Taken(r, u)
  /\ pc[r] \in {"rescore", "save"} => \A u \in User : Part(r, u) = -Prior(r, u)
  /\ pc[r] \in {"credit", "commit"} => \A u \in User : Part(r, u) = Paid(r, u) - Prior(r, u)

DueOK(r) ==
  /\ pc[r] = "credit" => tx[r].due \subseteq NewCredits(r, tx[r].won)
  /\ pc[r] = "commit" => tx[r].due = {}

\* A request has done a part of its operation, and no more.
PartOK(r) ==
  InFlight(r) =>
    /\ Op(r) # "topUp" => \A u \in User : lock[u] = r => u \in wallets
    /\ Op(r) \in Transfers => TransferOK(r)
    /\ Op(r) = "declare" => DeclareOK(r)
    /\ Op(r) = "correct" => CorrectOK(r)
    /\ Op(r) \in Settlements => DueOK(r)

PartsOK == \A r \in Req : PartOK(r)

\* Who has been paid has a wallet.
PayeesOK == \A p \in payouts : p.user \in wallets

BookInv == ResultsInv /\ Solvent /\ PartsOK /\ PayeesOK

-----------------------------------------------------------------------------
(* The parts steps are made of *)

\* A request that works leaves the rows of the others as they are.
LEMMA OthersRows ==
  ASSUME IInv, NEW q \in Req, NEW r \in Req, q # r, Works(r), NEW u \in User
  PROVE  /\ lock'[u] = q <=> lock[u] = q
         /\ lock[u] = q => delta'[u] = delta[u]
<1> DEFINE Kept == (lock'[u] = q <=> lock[u] = q) /\ (lock[u] = q => delta'[u] = delta[u])
<1>0. q # None /\ lock \in [User -> Req \cup {None}] /\ delta \in [User -> Int]
  BY PoolLedgerAssumption DEF IInv, TypeOK
<1>1. UNCHANGED rows => Kept
  BY DEF rows
<1>2. Abort(r) \/ Publish(r) => Kept
  BY <1>0, ReleaseRows DEF Abort, Publish
<1>3. ASSUME NEW v \in User, NEW d, NEW n, Free(r, v), Move(r, v, d, n) PROVE Kept
  BY <1>0, <1>3 DEF Free, Move
<1> HIDE DEF Kept
<1>4. ASSUME InsertWallet(r) \/ RaiseBalance(r) \/ Debit(r) PROVE Kept
  <2>1. call[r].user \in User
    <3>1. InFlight(r) /\ Op(r) \in Transfers
      BY <1>4 DEF InsertWallet, RaiseBalance, Debit, IInv, StageOK, InFlight, Stages, Transfers
    <3> QED BY <3>1, CallTypes DEF IInv, StageOK, Transfers, Op
  <2>2. CASE InsertWallet(r)
    BY <1>2, <1>3, <2>1, <2>2 DEF InsertWallet, Free
  <2>3. CASE RaiseBalance(r)
    BY <1>2, <1>3, <2>1, <2>3 DEF RaiseBalance, Post
  <2>4. CASE Debit(r)
    BY <1>2, <1>3, <2>1, <2>4 DEF Debit, Post
  <2> QED BY <1>4, <2>2, <2>3, <2>4
<1>5. ASSUME CreditWinner(r) \/ ReverseCredit(r) PROVE Kept
  <2>1. \A p \in tx[r].due : p.user \in User
    BY TxFields DEF Payout
  <2>2. CASE CreditWinner(r)
    <3>1. PICK p \in tx[r].due : Abort(r) \/ (Free(r, p.user) /\ Post(r, p.user, p.amount))
      BY <2>2 DEF CreditWinner, NextDue
    <3> QED BY <1>2, <1>3, <2>1, <3>1 DEF Post
  <2>3. CASE ReverseCredit(r)
    <3>1. PICK p \in tx[r].due :
            Abort(r) \/ (Free(r, p.user) /\ Move(r, p.user, -p.amount, -SoftDeleted(p)))
      BY <2>3 DEF ReverseCredit
    <3> QED BY <1>2, <1>3, <2>1, <3>1
  <2> QED BY <1>5, <2>2, <2>3
<1>6. Kept
  BY <1>1, <1>2, <1>4, <1>5 DEF Works, Fail, DeadlockVictim, Proceed, AssertBettingOpen,
     CommitTransfer, CommitBet, CommitDeclare, LinkBets, FindCredits, Rescore, SaveResult,
     CommitCorrection
<1> QED BY <1>6 DEF Kept

\* No wallet disappears.
LEMMA WalletsStay ==
  ASSUME NEW r \in Req, Works(r)
  PROVE  wallets \subseteq wallets'
BY DEF Works, Fail, DeadlockVictim, Proceed, InsertWallet, RaiseBalance, AssertBettingOpen, Debit,
       CommitTransfer, CommitBet, LinkBets, CreditWinner, CommitDeclare, FindCredits, ReverseCredit,
       Rescore, SaveResult, CommitCorrection, Abort, Publish, db

\* A step that leaves all a request has read and written alone keeps it true.
LEMMA PartSame ==
  ASSUME IInv, NEW q \in Req, PartOK(q), pc'[q] = pc[q], call'[q] = call[q], tx'[q] = tx[q],
         \A u \in User : /\ lock'[u] = q <=> lock[u] = q
                         /\ lock[u] = q => delta'[u] = delta[u],
         wallets \subseteq wallets',
         InFlight(q) /\ Op(q) = "correct" => results'[call[q].ref] = results[call[q].ref]
  PROVE  PartOK(q)'
<1> SUFFICES ASSUME InFlight(q)' PROVE PartOK(q)'
  BY DEF PartOK
<1>1. InFlight(q) /\ Op(q)' = Op(q)
  BY DEF InFlight, Op
<1>2. ASSUME NEW u \in User PROVE Part(q, u)' = Part(q, u) /\ Owed(q, u)' = Owed(q, u)
  BY DEF Part, Owed
<1>3. Op(q) # "topUp" => \A u \in User : lock'[u] = q => u \in wallets'
  BY <1>1 DEF PartOK
<1>4. CASE Op(q) \in Transfers
  <2>0. call[q].user \in User
    BY <1>1, <1>4, CallTypes DEF IInv, StageOK, Transfers, Op
  <2>1. Change(call[q])' = Change(call[q])
    OBVIOUS
  <2>2. TransferOK(q)'
    BY <1>1, <1>4, <2>0, <2>1 DEF PartOK, TransferOK
  <2> QED BY <1>1, <1>3, <1>4, <2>2 DEF PartOK, Transfers, Settlements
<1>5. CASE Op(q) \in Settlements
  <2>0. \A u \in User : Paid(q, u)' = Paid(q, u)
    BY <1>2 DEF Paid
  <2>1. DueOK(q)'
    BY <1>1, <1>5 DEF PartOK, DueOK, NewCredits, Ref, Op
  <2>2. CASE Op(q) = "declare"
    <3>1. DeclareOK(q)'
      BY <1>1, <1>2, <2>0, <2>2 DEF PartOK, DeclareOK
    <3> QED BY <1>1, <1>3, <2>1, <2>2, <3>1 DEF PartOK, Transfers
  <2>3. CASE Op(q) = "correct"
    <3>1. \A u \in User : Prior(q, u)' = Prior(q, u)
      BY <1>1, <2>3 DEF Prior
    <3>2. \A u \in User : Taken(q, u)' = Taken(q, u)
      BY <1>2, <3>1 DEF Taken
    <3>3. CorrectOK(q)'
      BY <1>1, <1>2, <2>0, <2>3, <3>1, <3>2 DEF PartOK, CorrectOK
    <3> QED BY <1>1, <1>3, <2>1, <2>3, <3>3 DEF PartOK, Transfers
  <2> QED BY <1>5, <2>2, <2>3 DEF Settlements
<1>6. CASE Op(q) \notin Transfers \cup Settlements
  BY <1>1, <1>3, <1>6 DEF PartOK, Transfers, Settlements
<1> QED BY <1>4, <1>5, <1>6

\* So does a step of another request.
LEMMA PartOther ==
  ASSUME MoneyInv, NEW q \in Req, NEW r \in Req, q # r, Works(r), PartOK(q)
  PROVE  PartOK(q)'
<1>1. pc'[q] = pc[q] /\ call'[q] = call[q] /\ tx'[q] = tx[q]
  BY ProceedStep DEF Works, MoneyInv
<1>2. \A u \in User : /\ lock'[u] = q <=> lock[u] = q
                      /\ lock[u] = q => delta'[u] = delta[u]
  BY OthersRows DEF MoneyInv
<1>3. InFlight(q) /\ Op(q) = "correct" => results'[call[q].ref] = results[call[q].ref]
  BY CorrectedAlone
<1>4. wallets \subseteq wallets' /\ IInv
  BY WalletsStay DEF MoneyInv
<1> QED BY <1>1, <1>2, <1>3, <1>4, PartSame

\* What a wallet update adds to what its request has written.
LEMMA MovePart ==
  ASSUME IInv, NEW r \in Req, NEW u \in User, NEW d \in Int, NEW n \in Int,
         Free(r, u), Move(r, u, d, n)
  PROVE  /\ Part(r, u)' = Part(r, u) + d
         /\ lock'[u] = r /\ delta'[u] = Part(r, u) + d
         /\ \A v \in User : v # u => /\ Part(r, v)' = Part(r, v) /\ lock'[v] = lock[v]
                                     /\ delta'[v] = delta[v]
<1>1. lock \in [User -> Req \cup {None}] /\ delta \in [User -> Int]
  BY DEF IInv, TypeOK
<1>2. lock'[u] = r /\ delta'[u] = delta[u] + d
      /\ \A v \in User : v # u => lock'[v] = lock[v] /\ delta'[v] = delta[v]
  BY <1>1 DEF Move
<1>3. delta[u] = Part(r, u)
  BY PoolLedgerAssumption DEF Part, Free, IInv, RowsOK
<1> QED BY <1>2, <1>3 DEF Part

\* A request that holds no row has written nothing.
LEMMA NoPart ==
  ASSUME IInv, NEW r \in Req, pc[r] \notin Holding, NEW u \in User
  PROVE  lock[u] # r /\ Part(r, u) = 0
BY PoolLedgerAssumption DEF IInv, RowsOK, Part

-----------------------------------------------------------------------------
(* topUp, create and placeBet *)

\* The change a transfer makes is an amount.
LEMMA TransferTypes ==
  ASSUME IInv, NEW r \in Req, InFlight(r), Op(r) \in Transfers
  PROVE  /\ call[r].user \in User /\ Change(call[r]) \in Int /\ Change(call[r]) # 0
<1>1. call[r] \in CallSet
  BY DEF IInv, StageOK
<1>2. CASE Op(r) = "topUp"
  <2>1. call[r].user \in User /\ call[r].amount \in Nat \ {0}
    BY <1>1, <1>2, CallTypes, PoolLedgerAssumption DEF Op
  <2> QED BY <1>2, <2>1 DEF Change, Op
<1>3. CASE Op(r) = "withdraw"
  <2>1. call[r].user \in User /\ call[r].amount \in Nat \ {0}
    BY <1>1, <1>3, CallTypes, PoolLedgerAssumption DEF Op
  <2> QED BY <1>3, <2>1 DEF Change, Debited, Op
<1>4. CASE Op(r) = "bet"
  <2>1. call[r].user \in User /\ Total(call[r].slip) \in Nat \ {0}
    BY <1>1, <1>4, CallTypes, PoolLedgerAssumption DEF Op
  <2> QED BY <1>4, <2>1 DEF Change, Debited, Op
<1> QED BY <1>2, <1>3, <1>4 DEF Transfers

\* Their steps write nothing, or the whole change.
LEMMA TransferSelf ==
  ASSUME IInv, NEW r \in Req, Works(r), PartOK(r), Op(r) \in Transfers
  PROVE  PartOK(r)'
<1> SUFFICES ASSUME InFlight(r)' PROVE PartOK(r)'
  BY DEF PartOK
<1>0. /\ call' = call /\ InFlight(r) /\ Op(r)' = Op(r) /\ ~Abort(r) /\ ~Publish(r)
      /\ wallets \subseteq wallets'
      /\ pc \in [Req -> Stages \cup {"idle", "done", "failed"}]
  BY ProceedStep, WalletsStay DEF Works, Op, Abort, Publish, Goto, IInv, TypeOK, InFlight, Stages
<1>1. InsertWallet(r) \/ RaiseBalance(r) \/ AssertBettingOpen(r) \/ Debit(r)
  BY <1>0 DEF Works, Fail, DeadlockVictim, Proceed, CommitTransfer, CommitBet, LinkBets,
       CreditWinner, CommitDeclare, FindCredits, ReverseCredit, Rescore, SaveResult,
       CommitCorrection, IInv, StageOK, Transfers
<1>2. call[r].user \in User /\ Change(call[r]) \in Int
  BY <1>0, TransferTypes
<1>3. SUFFICES /\ Op(r) # "topUp" => \A u \in User : lock'[u] = r => u \in wallets'
               /\ TransferOK(r)'
  BY <1>0 DEF PartOK, Transfers, Settlements
<1>4. CASE InsertWallet(r)
  <2>1. /\ Free(r, call[r].user) /\ Move(r, call[r].user, 0, 0) /\ pc'[r] = "raise"
        /\ Op(r) = "topUp" /\ pc[r] = "insert"
    BY <1>0, <1>4 DEF InsertWallet, Goto, Free, IInv, StageOK
  <2>2. \A u \in User : lock[u] # r /\ Part(r, u) = 0
    BY <2>1, NoPart DEF Holding
  <2> QED BY <1>0, <1>2, <2>1, <2>2, MovePart DEF TransferOK
<1>5. CASE RaiseBalance(r)
  <2>1. /\ Free(r, call[r].user) /\ Op(r) = "topUp" /\ pc'[r] = "commit" /\ pc[r] = "raise"
        /\ Move(r, call[r].user, Change(call[r]), Change(call[r]))
    BY <1>0, <1>5 DEF RaiseBalance, Post, Goto, IInv, StageOK, Change, Op
  <2>2. Part(r, call[r].user) = 0 /\ \A u \in User : lock[u] = r => u = call[r].user
    BY <1>0, <1>2, <2>1 DEF Part, PartOK, TransferOK
  <2> QED BY <1>0, <1>2, <2>1, <2>2, MovePart DEF TransferOK
<1>6. CASE AssertBettingOpen(r)
  <2>1. pc'[r] = "debit" /\ lock' = lock /\ pc[r] = "hours"
    BY <1>0, <1>6 DEF AssertBettingOpen, Goto, rows, InFlight, Stages
  <2>2. \A u \in User : lock[u] # r
    BY <2>1, NoPart DEF Holding
  <2> QED BY <2>1, <2>2 DEF TransferOK
<1>7. CASE Debit(r)
  <2>1. /\ Free(r, call[r].user) /\ Op(r) # "topUp" /\ pc'[r] = "commit" /\ pc[r] = "debit"
        /\ Move(r, call[r].user, Change(call[r]), Change(call[r]))
        /\ call[r].user \in wallets
    BY <1>0, <1>7 DEF Debit, Post, Goto, IInv, StageOK, Change, Op, Covered
  <2>2. \A u \in User : lock[u] # r /\ Part(r, u) = 0
    BY <2>1, NoPart DEF Holding
  <2>3. \A u \in User : lock'[u] = r => u = call[r].user
    BY <1>2, <2>1, <2>2, MovePart
  <2> QED BY <1>0, <1>2, <2>1, <2>2, <2>3, MovePart DEF TransferOK
<1> QED BY <1>1, <1>4, <1>5, <1>6, <1>7

-----------------------------------------------------------------------------
(* declareResult and updateResult *)

\* A result's payout rows: one for each user who won something.
LEMMA PaidRowsFacts ==
  ASSUME NEW q, NEW x, NEW won \in [User -> Entry]
  PROVE  /\ \A p \in PaidRows(q, x, won) : p.user \in User /\ p.amount = won[p.user].amount
         /\ \A u \in User : won[u].amount \in Nat
         /\ \A u \in User : (\E p \in PaidRows(q, x, won) : p.user = u) <=> won[u].amount # 0
         /\ \A p, o \in PaidRows(q, x, won) : p.user = o.user => p = o
<1>1. \A u \in User : won[u].amount \in Nat
  BY DEF Entry
<1>2. ASSUME NEW p \in PaidRows(q, x, won)
      PROVE  /\ p.user \in User /\ p.amount = won[p.user].amount /\ won[p.user].amount > 0
             /\ p = [by |-> q, user |-> p.user, ref |-> x, amount |-> won[p.user].amount]
  BY DEF PaidRows
<1>3. ASSUME NEW u \in User, won[u].amount # 0 PROVE \E p \in PaidRows(q, x, won) : p.user = u
  <2> DEFINE p == [by |-> q, user |-> u, ref |-> x, amount |-> won[u].amount]
  <2>1. p \in PaidRows(q, x, won) /\ p.user = u
    BY <1>1, <1>3 DEF PaidRows
  <2> QED BY <2>1
<1>4. ASSUME NEW p \in PaidRows(q, x, won), NEW o \in PaidRows(q, x, won), p.user = o.user
      PROVE  p = o
  BY <1>2, <1>4
<1>5. ASSUME NEW u \in User, NEW p \in PaidRows(q, x, won), p.user = u PROVE won[u].amount # 0
  BY <1>1, <1>2, <1>5
<1> QED BY <1>1, <1>2, <1>3, <1>4, <1>5

\* As soon as its credits are due, a settlement has paid nobody yet.
LEMMA NothingPaid ==
  ASSUME NEW r \in Req, tx'[r].due = NewCredits(r, tx'[r].won), tx'[r].won \in [User -> Entry],
         pc'[r] = CreditStage(tx'[r].due), Ref(r)' = Ref(r)
  PROVE  /\ \A u \in User : Paid(r, u)' = 0
         /\ DueOK(r)'
<1>1. tx'[r].due = PaidRows(r, Ref(r), tx'[r].won)
  BY CreditRows
<1>2. ASSUME NEW u \in User PROVE Paid(r, u)' = 0
  BY <1>1, PaidRowsFacts DEF Paid, Owed
<1>3. NewCredits(r, tx[r].won)' = tx'[r].due
  BY DEF NewCredits
<1> QED BY <1>2, <1>3 DEF DueOK, CreditStage

\* Crediting one winner pays what is due to it, and no one else.
LEMMA CreditPart ==
  ASSUME IInv, NEW r \in Req, CreditWinner(r), ~Abort(r), PartOK(r), Op(r) \in Settlements
  PROVE  /\ \A u \in User : /\ Part(r, u)' - Part(r, u) = Paid(r, u)' - Paid(r, u)
                            /\ Paid(r, u) \in Int /\ Paid(r, u)' \in Int
                            /\ lock'[u] = r => u \in wallets
         /\ DueOK(r)' /\ pc'[r] \in {"credit", "commit"}
         /\ tx'[r].won = tx[r].won
<1>0. /\ pc[r] = "credit" /\ InFlight(r) /\ tx \in [Req -> Tx]
      /\ pc \in [Req -> Stages \cup {"idle", "done", "failed"}]
  BY DEF CreditWinner, InFlight, Stages, IInv, TypeOK
<1>1. PICK p \in tx[r].due :
        /\ p.user \in wallets /\ Free(r, p.user) /\ Move(r, p.user, p.amount, p.amount)
        /\ tx' = [tx EXCEPT ![r].due = tx[r].due \ {p}]
        /\ pc' = [pc EXCEPT ![r] = CreditStage(tx[r].due \ {p})]
        /\ call' = call
  BY DEF CreditWinner, NextDue, Post, Goto
<1>2. tx[r].due \subseteq PaidRows(r, Ref(r), tx[r].won) /\ tx[r].won \in [User -> Entry]
  BY <1>0, CreditRows, TxFields DEF PartOK, DueOK
<1>3. tx[r].due \ {p} \in SUBSET Payout /\ p \in Payout
  BY TxFields
<1>4. tx'[r].due = tx[r].due \ {p} /\ tx'[r].won = tx[r].won
  BY <1>0, <1>1, <1>3, TxDue
<1>5. /\ p.user \in User /\ p.amount = tx[r].won[p.user].amount /\ p.amount \in Int
      /\ \A u \in User : tx[r].won[u].amount \in Nat
      /\ \A o \in tx[r].due : o.user = p.user => o = p
  BY <1>2, <1>3, PaidRowsFacts DEF Payout
<1>6. /\ Owed(r, p.user) /\ ~Owed(r, p.user)'
      /\ \A u \in User : u # p.user => (Owed(r, u)' <=> Owed(r, u))
  BY <1>4, <1>5 DEF Owed
<1>7. /\ Part(r, p.user)' = Part(r, p.user) + p.amount
      /\ lock'[p.user] = r
      /\ \A v \in User : v # p.user => Part(r, v)' = Part(r, v) /\ lock'[v] = lock[v]
  BY <1>1, <1>5, MovePart
<1>8. \A u \in User : Part(r, u) \in Int
  BY DEF Part, IInv, TypeOK
<1>9. ASSUME NEW u \in User
      PROVE  /\ Part(r, u)' - Part(r, u) = Paid(r, u)' - Paid(r, u)
             /\ Paid(r, u) \in Int /\ Paid(r, u)' \in Int
  <2>1. CASE u = p.user
    BY <1>4, <1>5, <1>6, <1>7, <1>8, <2>1 DEF Paid
  <2>2. CASE u # p.user
    BY <1>4, <1>5, <1>6, <1>7, <1>8, <2>2 DEF Paid
  <2> QED BY <2>1, <2>2
<1>10. \A u \in User : lock'[u] = r => u \in wallets
  <2>1. Op(r) # "topUp"
    BY DEF Settlements
  <2> QED BY <1>0, <1>1, <1>7, <2>1 DEF PartOK
<1>11. pc'[r] = CreditStage(tx'[r].due)
  BY <1>0, <1>1, <1>4
<1>12. NewCredits(r, tx[r].won)' = NewCredits(r, tx[r].won)
  BY <1>1, <1>4 DEF NewCredits, Ref, Op
<1>13. DueOK(r)'
  BY <1>0, <1>4, <1>11, <1>12 DEF DueOK, CreditStage, PartOK
<1> QED BY <1>4, <1>9, <1>10, <1>11, <1>13 DEF CreditStage

\* The steps of a declaration pay winners, each once.
LEMMA DeclareSelf ==
  ASSUME IInv, NEW r \in Req, Works(r), PartOK(r), Op(r) = "declare"
  PROVE  PartOK(r)'
<1> SUFFICES ASSUME InFlight(r)' PROVE PartOK(r)'
  BY DEF PartOK
<1>0. /\ call' = call /\ InFlight(r) /\ Op(r)' = Op(r) /\ Ref(r)' = Ref(r)
      /\ ~Abort(r) /\ ~Publish(r) /\ wallets \subseteq wallets'
      /\ tx \in [Req -> Tx] /\ pc \in [Req -> Stages \cup {"idle", "done", "failed"}]
  BY ProceedStep, WalletsStay
     DEF Works, Op, Ref, Abort, Publish, Goto, IInv, TypeOK, InFlight, Stages
<1>1. LinkBets(r) \/ CreditWinner(r)
  BY <1>0 DEF Works, Fail, DeadlockVictim, Proceed, InsertWallet, RaiseBalance,
       AssertBettingOpen, Debit, CommitTransfer, CommitBet, CommitDeclare, FindCredits,
       ReverseCredit, Rescore, SaveResult, CommitCorrection, IInv, StageOK
<1>2. SUFFICES /\ \A u \in User : lock'[u] = r => u \in wallets'
               /\ DeclareOK(r)' /\ DueOK(r)'
  BY <1>0 DEF PartOK, Transfers
<1>3. CASE LinkBets(r)
  <2> DEFINE won == Winners(Stakes(tx[r].pending), call[r].number)
             new == NewCredits(r, won)
  <2>1. /\ CastOK(won) /\ tx' = [tx EXCEPT ![r].won = won, ![r].due = new]
        /\ pc' = [pc EXCEPT ![r] = CreditStage(new)] /\ UNCHANGED rows /\ pc[r] = "link"
    BY <1>0, <1>3 DEF LinkBets, Goto
  <2>2. Ref(r) \in Req /\ call[r].number \in Number
    BY <1>0, RefType
  <2>3. won \in [User -> Entry] /\ new \in SUBSET Payout
    BY <2>1, <2>2, WinnersType, CreditsType, TxFields
  <2>4. \A u \in User : lock'[u] # r /\ Part(r, u)' = 0
    BY <2>1, NoPart DEF rows, Part, Holding
  <2> HIDE DEF won
  <2>5. tx'[r].won = won /\ tx'[r].due = new
    <3> HIDE DEF new
    <3>1. tx[r] \in Tx
      BY <1>0
    <3>2. tx'[r] = [tx[r] EXCEPT !.won = won, !.due = new]
      BY <1>0, <2>1
    <3> QED BY <3>1, <3>2 DEF Tx
  <2>6. pc'[r] = CreditStage(tx'[r].due)
    BY <1>0, <2>1, <2>5
  <2>7. DueOK(r)' /\ \A u \in User : Paid(r, u)' = 0
    BY <1>0, <2>3, <2>5, <2>6, NothingPaid
  <2> QED BY <2>4, <2>7 DEF DeclareOK
<1>4. CASE CreditWinner(r)
  <2>1. /\ DueOK(r)'
        /\ \A u \in User : /\ Part(r, u)' - Part(r, u) = Paid(r, u)' - Paid(r, u)
                           /\ Paid(r, u) \in Int /\ Paid(r, u)' \in Int
                           /\ lock'[u] = r => u \in wallets
    BY <1>0, <1>4, CreditPart DEF Settlements
  <2>2. \A u \in User : Part(r, u) = Paid(r, u)
    BY <1>0, <1>4 DEF PartOK, DeclareOK, CreditWinner
  <2>3. \A u \in User : Part(r, u)' \in Int
    BY <1>0, CreditWinnerStep, <1>4 DEF Part, IInv, TypeOK
  <2>4. \A u \in User : Part(r, u)' = Paid(r, u)'
    BY <2>1, <2>2, <2>3
  <2> QED BY <1>0, <2>1, <2>4 DEF DeclareOK
<1> QED BY <1>1, <1>3, <1>4

\* The steps of a correction take back what the result had paid, all of it
\* before the new winners are paid.
LEMMA CorrectSelf ==
  ASSUME MoneyInv, ResultsOK, PayeesOK, NEW r \in Req, Scored(r), Works(r), PartOK(r),
         Op(r) = "correct"
  PROVE  PartOK(r)'
<1> SUFFICES ASSUME InFlight(r)' PROVE PartOK(r)'
  BY DEF PartOK
<1> DEFINE x == call[r].ref
<1>0. /\ call' = call /\ InFlight(r) /\ Op(r)' = Op(r) /\ Ref(r)' = Ref(r) /\ IInv
      /\ ~Abort(r) /\ ~Publish(r) /\ wallets \subseteq wallets'
      /\ tx \in [Req -> Tx] /\ pc \in [Req -> Stages \cup {"idle", "done", "failed"}]
  BY ProceedStep, WalletsStay
     DEF Works, Op, Ref, Abort, Publish, Goto, MoneyInv, IInv, TypeOK, InFlight, Stages
<1>1. FindCredits(r) \/ ReverseCredit(r) \/ Rescore(r) \/ SaveResult(r) \/ CreditWinner(r)
  BY <1>0 DEF Works, Fail, DeadlockVictim, Proceed, InsertWallet, RaiseBalance,
       AssertBettingOpen, Debit, CommitTransfer, CommitBet, CommitDeclare, LinkBets,
       CommitCorrection, IInv, StageOK
<1>2. /\ Ref(r) = x /\ x \in Req /\ call[r].number \in Number
      /\ results[x] # None /\ results[x] \in Result
  BY <1>0, RefType DEF Ref, IInv, ReadOK, TypeOK
<1>3. UNCHANGED <<wallets, bets, results, payouts>>
  BY <1>0, <1>1 DEF FindCredits, ReverseCredit, Rescore, SaveResult, CreditWinner, db
<1>4. \A u \in User : Prior(r, u)' = Prior(r, u)
  BY <1>0, <1>3 DEF Prior
<1>5. results'[call'[r].ref].number # call'[r].number
  BY <1>0, <1>3 DEF PartOK, CorrectOK
<1>6. PICK q \in Req : PaidOf(x) = PaidRows(q, x, results[x].winners)
  BY <1>2 DEF ResultsOK, ResultOK
<1>7. results[x].winners \in [User -> Entry]
  BY <1>2 DEF Result
<1>8. /\ \A p \in PaidOf(x) : p.user \in User /\ p.amount = Prior(r, p.user)
      /\ \A u \in User : Prior(r, u) \in Nat
      /\ \A u \in User : (\E p \in PaidOf(x) : p.user = u) <=> Prior(r, u) # 0
      /\ \A p, o \in PaidOf(x) : p.user = o.user => p = o
  BY <1>6, <1>7, PaidRowsFacts DEF Prior
<1> HIDE DEF x
<1>9. SUFFICES /\ \A u \in User : lock'[u] = r => u \in wallets'
               /\ CorrectOK(r)' /\ DueOK(r)'
  BY <1>0 DEF PartOK, Transfers
<1>10. \A u \in User : Part(r, u) \in Int /\ (lock[u] = r => u \in wallets)
  BY <1>0 DEF Part, IInv, TypeOK, PartOK
<1>11. CASE FindCredits(r)
  <2> DEFINE found == PaidOf(x)
  <2>1. /\ tx' = [tx EXCEPT ![r].found = found, ![r].due = found] /\ UNCHANGED rows
        /\ pc'[r] = IF found = {} THEN "rescore" ELSE "reverse"
        /\ found \in SUBSET Payout /\ pc[r] = "credits"
    BY <1>0, <1>2, <1>11 DEF FindCredits, PaidOf, Goto, IInv, TypeOK
  <2>2. \A u \in User : lock'[u] # r /\ Part(r, u)' = 0
    BY <1>0, <2>1, NoPart DEF rows, Part, Holding
  <2>3. tx'[r].due = found
    <3> HIDE DEF found
    <3> QED BY <1>0, <2>1, TxFound
  <2>4. \A u \in User : Owed(r, u)' <=> Prior(r, u) # 0
    BY <1>8, <2>3 DEF Owed
  <2>5. \A u \in User : Taken(r, u)' = 0
    BY <1>4, <2>4 DEF Taken
  <2>6. pc'[r] = "rescore" => \A u \in User : Prior(r, u)' = 0
    BY <1>4, <1>8, <2>1
  <2>7. CorrectOK(r)'
    BY <1>5, <2>1, <2>2, <2>5, <2>6 DEF CorrectOK
  <2> QED BY <2>1, <2>2, <2>7 DEF DueOK
<1>12. CASE ReverseCredit(r)
  <2>1. PICK p \in tx[r].due :
          /\ Free(r, p.user) /\ Move(r, p.user, -p.amount, -SoftDeleted(p))
          /\ tx' = [tx EXCEPT ![r].due = tx[r].due \ {p}]
          /\ pc'[r] = IF tx[r].due = {p} THEN "rescore" ELSE "reverse"
          /\ pc[r] = "reverse"
    BY <1>0, <1>12 DEF ReverseCredit, Goto
  <2>2. tx[r].due \subseteq PaidOf(x)
    BY <1>0, <2>1 DEF MoneyInv, FoundOK, Scored, x
  <2>3. tx[r].due \ {p} \in SUBSET Payout /\ p \in Payout
    BY <1>0, TxFields
  <2>4. tx'[r].due = tx[r].due \ {p}
    BY <1>0, <2>1, <2>3, TxDue
  <2>5. /\ p.user \in User /\ p.amount = Prior(r, p.user) /\ p.amount \in Nat
        /\ p.user \in wallets /\ \A o \in tx[r].due : o.user = p.user => o = p
    BY <1>8, <2>2 DEF PayeesOK, PaidOf
  <2>6. -SoftDeleted(p) \in Int /\ -p.amount \in Int
    BY <2>5 DEF SoftDeleted
  <2>7. /\ Owed(r, p.user) /\ ~Owed(r, p.user)'
        /\ \A u \in User : u # p.user => (Owed(r, u)' <=> Owed(r, u))
    BY <2>4, <2>5 DEF Owed
  <2>8. /\ Part(r, p.user)' = Part(r, p.user) + (-p.amount)
        /\ lock'[p.user] = r
        /\ \A v \in User : v # p.user => Part(r, v)' = Part(r, v) /\ lock'[v] = lock[v]
    BY <1>0, <2>1, <2>5, <2>6, MovePart
  <2>9. \A u \in User : Part(r, u) = -Taken(r, u)
    BY <1>0, <2>1 DEF PartOK, CorrectOK
  <2>10. \A u \in User : Part(r, u)' = -(Taken(r, u)')
    <3>1. Part(r, p.user)' = -(Taken(r, p.user)')
      BY <1>4, <2>5, <2>7, <2>8, <2>9 DEF Taken
    <3>2. ASSUME NEW u \in User, u # p.user PROVE Part(r, u)' = -(Taken(r, u)')
      BY <1>4, <2>7, <2>8, <2>9, <3>2 DEF Taken
    <3> QED BY <3>1, <3>2
  <2>11. pc'[r] = "rescore" => \A u \in User : Taken(r, u)' = Prior(r, u)'
    BY <2>1, <2>4 DEF Taken, Owed
  <2>12. CorrectOK(r)'
    BY <1>5, <2>1, <2>10, <2>11 DEF CorrectOK
  <2> QED BY <1>3, <1>10, <2>1, <2>5, <2>8, <2>12 DEF DueOK
<1>13. CASE Rescore(r)
  <2>1. pc[r] = "rescore" /\ pc'[r] = "save" /\ UNCHANGED rows
    BY <1>0, <1>13 DEF Rescore, Goto
  <2>2. \A u \in User : Part(r, u)' = Part(r, u)
    BY <2>1 DEF Part, rows
  <2>3. \A u \in User : Part(r, u) = -Prior(r, u)
    BY <1>0, <2>1 DEF PartOK, CorrectOK
  <2>4. CorrectOK(r)'
    BY <1>4, <1>5, <2>1, <2>2, <2>3 DEF CorrectOK
  <2> QED BY <1>3, <1>10, <2>1, <2>4 DEF DueOK, rows
<1>14. CASE SaveResult(r)
  <2> DEFINE new == NewCredits(r, tx[r].won)
  <2>1. /\ pc[r] = "save" /\ pc'[r] = CreditStage(new) /\ UNCHANGED rows
        /\ tx' = [tx EXCEPT ![r].due = new]
    BY <1>0, <1>14 DEF SaveResult, Goto
  <2>2. new \in SUBSET Payout /\ tx[r].won \in [User -> Entry]
    BY <1>0, <1>2, TxFields, CreditsType
  <2>3. tx'[r].due = new /\ tx'[r].won = tx[r].won
    <3> HIDE DEF new
    <3> QED BY <1>0, <2>1, <2>2, TxDue
  <2>4. DueOK(r)' /\ \A u \in User : Paid(r, u)' = 0
    BY <1>0, <2>1, <2>2, <2>3, NothingPaid
  <2>5. \A u \in User : Part(r, u)' = 0 - Prior(r, u)
    BY <1>0, <1>8, <2>1 DEF PartOK, CorrectOK, Part, rows
  <2>6. CorrectOK(r)'
    BY <1>4, <1>5, <2>1, <2>4, <2>5 DEF CorrectOK, CreditStage
  <2> QED BY <1>3, <1>10, <2>1, <2>4, <2>6 DEF rows
<1>15. CASE CreditWinner(r)
  <2>1. /\ DueOK(r)' /\ pc'[r] \in {"credit", "commit"}
        /\ \A u \in User : /\ Part(r, u)' - Part(r, u) = Paid(r, u)' - Paid(r, u)
                           /\ Paid(r, u) \in Int /\ Paid(r, u)' \in Int
                           /\ lock'[u] = r => u \in wallets
    BY <1>0, <1>15, CreditPart DEF Settlements
  <2>2. \A u \in User : Part(r, u) = Paid(r, u) - Prior(r, u)
    BY <1>0, <1>15 DEF PartOK, CorrectOK, CreditWinner
  <2>3. \A u \in User : Part(r, u)' \in Int
    BY <1>0, <1>15, CreditWinnerStep DEF Part, IInv, TypeOK
  <2>4. ASSUME NEW u \in User PROVE Part(r, u)' = Paid(r, u)' - Prior(r, u)'
    BY <1>4, <1>8, <1>10, <2>1, <2>2, <2>3
  <2>5. CorrectOK(r)'
    BY <1>5, <2>1, <2>4 DEF CorrectOK
  <2> QED BY <1>3, <2>1, <2>5
<1> QED BY <1>1, <1>11, <1>12, <1>13, <1>14, <1>15

-----------------------------------------------------------------------------
(* All requests *)

\* A correction that starts changes the number of its result.
LEMMA StartsAnew ==
  ASSUME MoneyInv, NEW r \in Req, Arrive(r)
  PROVE  InFlight(r)' /\ Op(r)' = "correct" => results'[call'[r].ref].number # call'[r].number
<1>1. results' = results
  BY DEF Arrive, TopUp, Withdraw, PlaceBet, Declare, UpdateResult, SetLockStatus, UpdateSubType, db
<1>2. CASE UpdateResult(r)
  <2>1. PICK c \in Calls[r] :
          \/ Begin(r, c, "failed")
          \/ Editable(results[c.ref], c.number) /\ Begin(r, c, "credits")
    BY <1>2 DEF UpdateResult
  <2> QED BY <1>1, <2>1, BeginStep DEF MoneyInv, Editable, InFlight, Stages
<1>3. CASE ~UpdateResult(r)
  <2>1. PICK c \in Calls[r] : (\E s : Begin(r, c, s)) /\ c.op # "correct"
    BY <1>3 DEF Arrive, TopUp, Withdraw, PlaceBet, Declare, SetLockStatus, UpdateSubType
  <2>2. call'[r] = c
    BY <2>1, BeginStep DEF MoneyInv
  <2> QED BY <2>1, <2>2 DEF Op
<1> QED BY <1>2, <1>3

\* A request that starts has written nothing.
LEMMA PartArrive ==
  ASSUME MoneyInv, PartsOK, NEW r \in Req, Arrive(r), NEW q \in Req
  PROVE  PartOK(q)'
<1>1. PICK c \in Calls[r], s \in Stages \cup {"done", "failed"} :
        /\ Begin(r, c, s) /\ UNCHANGED <<db, rows>>
        /\ \A o \in Req : o # r => tx'[o] = tx[o]
  BY ArriveStep DEF MoneyInv
<1>2. CASE q # r
  <2>1. /\ pc'[q] = pc[q] /\ call'[q] = call[q] /\ tx'[q] = tx[q] /\ IInv /\ PartOK(q)
        /\ UNCHANGED <<wallets, results, rows>>
    BY <1>1, <1>2, BeginStep DEF MoneyInv, db, PartsOK
  <2> QED BY <2>1, PartSame DEF rows
<1>3. CASE q = r
  <2>1. \A u \in User : lock'[u] # r
    BY <1>1, BeginStep DEF MoneyInv, rows
  <2>2. pc'[r] \notin {"reverse", "rescore", "save", "credit", "commit"}
    BY <1>1, BeginStep DEF Arrive, TopUp, Withdraw, PlaceBet, Declare, UpdateResult, SetLockStatus,
         UpdateSubType, MoneyInv, Begin, Goto, IInv, TypeOK
  <2>3. InFlight(r)' /\ Op(r)' = "correct" => results'[call'[r].ref].number # call'[r].number
    BY StartsAnew
  <2> QED BY <1>3, <2>1, <2>2, <2>3 DEF PartOK, TransferOK, DeclareOK, CorrectOK, DueOK
<1> QED BY <1>2, <1>3

\* Every step keeps what the requests in flight have written a part of their
\* operation.
LEMMA PartsNext ==
  ASSUME BookInv, [Next]_vars
  PROVE  PartsOK'
<1> SUFFICES ASSUME NEW q \in Req PROVE PartOK(q)'
  BY DEF PartsOK
<1>0. PartOK(q) /\ MoneyInv /\ IInv /\ ResultsOK /\ PayeesOK /\ Scored(q) /\ PartsOK
  BY DEF BookInv, ResultsInv, MoneyInv, PartsOK, ScoredOK
<1>1. ASSUME NEW r \in Req, Arrive(r) PROVE PartOK(q)'
  BY <1>0, <1>1, PartArrive
<1>2. ASSUME NEW r \in Req, Works(r) PROVE PartOK(q)'
  <2>1. CASE q # r
    BY <1>0, <1>2, <2>1, PartOther
  <2>2. CASE q = r /\ Op(r) \in Transfers
    BY <1>0, <1>2, <2>2, TransferSelf
  <2>3. CASE q = r /\ Op(r) = "declare"
    BY <1>0, <1>2, <2>3, DeclareSelf
  <2>4. CASE q = r /\ Op(r) = "correct"
    BY <1>0, <1>2, <2>4, CorrectSelf
  <2>5. InFlight(r) /\ Op(r) \in Transfers \cup {"declare", "correct"}
    <3>1. InFlight(r)
      BY <1>0, <1>2, ProceedStep DEF Works
    <3> QED BY <1>0, <3>1 DEF IInv, StageOK, InFlight, Stages, Transfers
  <2> QED BY <2>1, <2>2, <2>3, <2>4, <2>5
<1>3. ASSUME Tick \/ UNCHANGED vars PROVE PartOK(q)'
  <2>1. /\ pc'[q] = pc[q] /\ call'[q] = call[q] /\ tx'[q] = tx[q]
        /\ UNCHANGED <<wallets, results, rows>>
    BY <1>3 DEF Tick, vars, db
  <2> QED BY <1>0, <2>1, PartSame DEF rows
<1> QED BY <1>1, <1>2, <1>3 DEF Next, Works

-----------------------------------------------------------------------------
(* Commits *)

\* A commit publishes what its request has written.
LEMMA Publishes ==
  ASSUME IInv, NEW r \in Req, Publish(r), PartOK(r), pc[r] = "commit"
  PROVE  /\ balance' = [u \in User |-> balance[u] + Part(r, u)]
         /\ \A u \in User : balance[u] \in Int /\ Part(r, u) \in Int
         /\ Op(r) # "topUp" => wallets' = wallets
<1>1. \A u \in User : balance[u] \in Int /\ Part(r, u) \in Int
  BY PoolLedgerAssumption DEF Part, IInv, TypeOK, Int32
<1>2. balance' = [u \in User |-> balance[u] + Part(r, u)]
  BY <1>1 DEF Publish, Part
<1>3. Op(r) # "topUp" => wallets' = wallets
  BY DEF Publish, PartOK, InFlight, Stages
<1> QED BY <1>1, <1>2, <1>3

\* At its commit a settlement has paid everybody, and a correction has taken
\* back all that had been paid.
LEMMA SettledParts ==
  ASSUME IInv, NEW r \in Req, PartOK(r), pc[r] = "commit"
  PROVE  /\ Op(r) = "declare" => \A u \in User : Part(r, u) = tx[r].won[u].amount
         /\ Op(r) = "correct" => \A u \in User : Part(r, u) = tx[r].won[u].amount - Prior(r, u)
         /\ \A u \in User : tx[r].won[u].amount \in Nat
<1>1. InFlight(r) /\ \A u \in User : tx[r].won[u].amount \in Nat
  BY TxFields DEF InFlight, Stages, Entry
<1>2. Op(r) \in Settlements => \A u \in User : Paid(r, u) = tx[r].won[u].amount
  BY <1>1 DEF PartOK, DueOK, Paid, Owed
<1> QED BY <1>1, <1>2 DEF PartOK, DeclareOK, CorrectOK, Settlements

\* The winners a result on record has paid have a row.
LEMMA PaidHaveRows ==
  ASSUME BookInv, NEW x \in Req, results[x] # None, NEW u \in User,
         results[x].winners[u].amount # 0
  PROVE  u \in wallets
<1>1. PICK q \in Req : PaidOf(x) = PaidRows(q, x, results[x].winners)
  BY DEF BookInv, ResultsInv, ResultsOK, ResultOK
<1>2. results[x].winners \in [User -> Entry]
  BY DEF BookInv, ResultsInv, MoneyInv, IInv, TypeOK, Result
<1>3. PICK p \in PaidOf(x) : p.user = u
  BY <1>1, <1>2, PaidRowsFacts
<1> QED BY <1>3 DEF BookInv, PayeesOK, PaidOf

\* Every step keeps that who has been paid has a wallet.
LEMMA PayeesNext ==
  ASSUME BookInv, [Next]_vars
  PROVE  PayeesOK'
<1>0. MoneyInv /\ IInv /\ PayeesOK /\ PartsOK
  BY DEF BookInv, ResultsInv, MoneyInv
<1>1. CASE UNCHANGED <<wallets, payouts>>
  BY <1>0, <1>1 DEF PayeesOK
<1>2. ASSUME NEW r \in Req, Works(r) PROVE PayeesOK'
  <2>1. wallets \subseteq wallets'
    BY <1>2, WalletsStay
  <2>2. CASE payouts' = payouts
    BY <1>0, <2>1, <2>2 DEF PayeesOK
  <2>3. CASE CommitDeclare(r) \/ CommitCorrection(r)
    <3>1. pc[r] = "commit" /\ Op(r) \in Settlements /\ PartOK(r) /\ InFlight(r)
      BY <1>0, <2>3 DEF CommitDeclare, CommitCorrection, Settlements, PartsOK, InFlight, Stages
    <3>2. payouts' \subseteq payouts \cup NewCredits(r, tx[r].won)
      BY <2>3 DEF CommitDeclare, CommitCorrection
    <3>3. ASSUME NEW p \in NewCredits(r, tx[r].won) PROVE p.user \in wallets
      <4>1. p.user \in User /\ tx[r].won[p.user].amount # 0
        BY <3>3, <1>0, <3>1, SettledParts DEF NewCredits
      <4>2. CASE Part(r, p.user) # 0
        BY <3>1, <4>1, <4>2 DEF Part, PartOK, Settlements
      <4>3. CASE Part(r, p.user) = 0
        <5>1. /\ Op(r) = "correct" /\ call[r].ref \in Req /\ results[call[r].ref] # None
              /\ results[call[r].ref] \in Result
          BY <1>0, <3>1, <4>1, <4>3, SettledParts, CallTypes
             DEF Settlements, IInv, StageOK, ReadOK, Op, TypeOK
        <5>2. Prior(r, p.user) \in Nat
          BY <4>1, <5>1 DEF Prior, Result, Entry
        <5>3. Prior(r, p.user) # 0
          BY <1>0, <3>1, <4>1, <4>3, <5>1, <5>2, SettledParts
        <5> QED BY <4>1, <5>1, <5>3, PaidHaveRows DEF Prior
      <4> QED BY <4>2, <4>3
    <3> QED BY <1>0, <2>1, <3>2, <3>3 DEF PayeesOK
  <2> QED BY <1>0, <1>2, <2>2, <2>3, ProceedStep DEF Works, db, CommitTransfer, CommitBet
<1>3. ASSUME NEW r \in Req, Arrive(r) PROVE PayeesOK'
  BY <1>0, <1>1, <1>3, ArriveStep DEF db
<1>4. CASE Tick \/ UNCHANGED vars
  BY <1>1, <1>4 DEF Tick, vars, db
<1> QED BY <1>2, <1>3, <1>4 DEF Next, Works

\* When the pool opens nothing is in flight.
LEMMA BookInit ==
  ASSUME Init, OneSettlementPerGame
  PROVE  BookInv
<1>1. Solvent /\ PayeesOK
  BY DEF Init, Solvent, PayeesOK
<1>2. PartsOK
  BY DEF Init, PartsOK, PartOK, InFlight, Stages
<1> QED BY <1>1, <1>2, ResultsInit DEF BookInv

\* With one settlement of a game at a time, what a request has written at any
\* point is the part of its operation it has done.
THEOREM BookInvariance == OneSettlementPerGame /\ Spec => []BookInv
<1>1. Init /\ OneSettlementPerGame => BookInv
  BY BookInit
<1>2. ASSUME BookInv, [Next]_vars PROVE BookInv'
  <2>1. ResultsInv'
    BY <1>2, MoneyNext, RefsNext, ScoredNext, ResultsNext DEF BookInv, ResultsInv
  <2>2. Solvent'
    BY <1>2, SolventNext DEF BookInv, ResultsInv, MoneyInv
  <2> QED BY <1>2, <2>1, <2>2, PartsNext, PayeesNext DEF BookInv
<1> QED BY <1>1, <1>2, PTL DEF Spec

-----------------------------------------------------------------------------
(* The refinement *)

\* What a commit that has written one row makes of the balances.
LEMMA OneRowMoves ==
  ASSUME balance \in [User -> Int], NEW r \in Req, NEW u \in User, NEW d \in Int,
         Part(r, u) = d, \A v \in User : v # u => Part(r, v) = 0,
         balance' = [v \in User |-> balance[v] + Part(r, v)]
  PROVE  balance' = [balance EXCEPT ![u] = @ + d]
<1>1. ASSUME NEW v \in User PROVE balance'[v] = [balance EXCEPT ![u] = @ + d][v]
  BY <1>1
<1>2. balance' = [v \in User |-> balance'[v]]
  OBVIOUS
<1> QED BY <1>1, <1>2

\* The commit of a topUp or a withdrawal is one operation on the book.
LEMMA TransferCommits ==
  ASSUME BookInv, NEW r \in Req, CommitTransfer(r)
  PROVE  \E u \in User, a \in Amount : Book!TopUp(u, a) \/ Book!Withdraw(u, a)
<1> DEFINE u == call[r].user
           a == call[r].amount
<1>0. /\ IInv /\ Solvent /\ PartOK(r) /\ Publish(r) /\ pc[r] = "commit" /\ InFlight(r)
      /\ Op(r) \in {"topUp", "withdraw"} /\ UNCHANGED <<bets, results, payouts>>
  BY DEF CommitTransfer, BookInv, ResultsInv, MoneyInv, PartsOK, InFlight, Stages
<1>1. u \in User /\ a \in Amount /\ a \in Nat \ {0}
  BY <1>0, CallTypes, PoolLedgerAssumption DEF IInv, StageOK, Op
<1>2. /\ lock[u] = r /\ delta[u] = Change(call[r])
      /\ \A v \in User : lock[v] = r => v = u
  BY <1>0 DEF PartOK, TransferOK, Transfers
<1>3. /\ Part(r, u) = Change(call[r]) /\ \A v \in User : v # u => Part(r, v) = 0
  BY <1>2 DEF Part
<1>4. /\ balance' = [v \in User |-> balance[v] + Part(r, v)]
      /\ \A v \in User : balance[v] \in Int
      /\ Op(r) # "topUp" => wallets' = wallets
  BY <1>0, Publishes
<1>5. balance \in [User -> Int]
  BY <1>0, <1>4 DEF IInv, TypeOK
<1>6. CASE Op(r) = "topUp"
  <2>1. Change(call[r]) = a
    BY <1>6 DEF Change, Op
  <2>2. wallets' = wallets \cup {u}
    BY <1>0, <1>1, <1>2 DEF Publish
  <2>3. balance' = [balance EXCEPT ![u] = @ + a]
    <3>1. a \in Int
      BY <1>1
    <3> QED BY <1>1, <1>3, <1>4, <1>5, <2>1, <3>1, OneRowMoves
  <2>4. Book!TopUp(u, a)
    BY <1>0, <2>2, <2>3 DEF Book!TopUp
  <2> QED BY <1>1, <2>4
<1>7. CASE Op(r) = "withdraw"
  <2>1. Change(call[r]) = -a
    BY <1>7 DEF Change, Debited, Op
  <2>2. u \in wallets /\ wallets' = wallets
    BY <1>0, <1>1, <1>2, <1>4, <1>7 DEF PartOK
  <2>3. balance' = [balance EXCEPT ![u] = @ - a] /\ balance[u] >= a
    <3>1. delta[u] >= 0 \/ balance[u] + delta[u] >= 0
      BY <1>0, <1>1, <1>2, <1>7, PoolLedgerAssumption DEF Solvent
    <3>2. balance[u] >= a
      <4> HIDE DEF u, a
      <4> QED BY <1>1, <1>2, <1>4, <2>1, <3>1
    <3>3. -a \in Int /\ balance[u] + (-a) = balance[u] - a
      <4> HIDE DEF u, a
      <4> QED BY <1>1, <1>4
    <3>4. balance' = [balance EXCEPT ![u] = @ + (-a)]
      BY <1>1, <1>3, <1>4, <1>5, <2>1, <3>3, OneRowMoves
    <3> QED BY <3>2, <3>3, <3>4
  <2>4. Book!Withdraw(u, a)
    BY <1>0, <2>2, <2>3 DEF Book!Withdraw
  <2> QED BY <1>1, <2>4
<1> QED BY <1>0, <1>6, <1>7

\* The commit of a bet is one operation: the bet, and its debit.
LEMMA BetCommits ==
  ASSUME BookInv, NEW r \in Req, CommitBet(r)
  PROVE  \E u \in User, g \in Game, s \in Slip : Book!PlaceBet(r, u, g, s)
<1> DEFINE u == call[r].user
           s == call[r].slip
<1>0. /\ IInv /\ Solvent /\ PartOK(r) /\ Publish(r) /\ pc[r] = "commit" /\ InFlight(r)
      /\ Op(r) = "bet" /\ UNCHANGED <<results, payouts>> /\ bets[r] = None
      /\ bets' = [bets EXCEPT ![r] = [user |-> u, game |-> call[r].game, slip |-> s,
                                      result |-> None]]
  BY CommitFacts DEF CommitBet, BookInv, ResultsInv, MoneyInv, PartsOK, InFlight, Stages
<1>1. u \in User /\ call[r].game \in Game /\ s \in Slip /\ Total(s) \in Nat \ {0}
  BY <1>0, CallTypes, PoolLedgerAssumption DEF IInv, StageOK, Op
<1>2. /\ lock[u] = r /\ delta[u] = Change(call[r])
      /\ \A v \in User : lock[v] = r => v = u
  BY <1>0 DEF PartOK, TransferOK, Transfers
<1>3. /\ Part(r, u) = Change(call[r]) /\ \A v \in User : v # u => Part(r, v) = 0
  BY <1>2 DEF Part
<1>4. /\ balance' = [v \in User |-> balance[v] + Part(r, v)]
      /\ \A v \in User : balance[v] \in Int
      /\ wallets' = wallets
  BY <1>0, Publishes
<1>5. balance \in [User -> Int]
  BY <1>0, <1>4 DEF IInv, TypeOK
<1>6. Change(call[r]) = -Total(s)
  BY <1>0 DEF Change, Debited, Op
<1>7. u \in wallets
  BY <1>0, <1>1, <1>2 DEF PartOK
<1>8. delta[u] >= 0 \/ balance[u] + delta[u] >= 0
  BY <1>0, <1>1, <1>2, PoolLedgerAssumption DEF Solvent
<1> HIDE DEF u, s
<1>9. /\ balance[u] >= Total(s) /\ -Total(s) \in Int
      /\ balance[u] + (-Total(s)) = balance[u] - Total(s)
  BY <1>1, <1>2, <1>4, <1>6, <1>8
<1>10. balance' = [balance EXCEPT ![u] = @ + (-Total(s))]
  BY <1>1, <1>3, <1>4, <1>5, <1>6, <1>9, OneRowMoves
<1>11. Book!PlaceBet(r, u, call[r].game, s)
  BY <1>0, <1>4, <1>7, <1>9, <1>10 DEF Book!PlaceBet
<1> QED BY <1>1, <1>11

\* The commit of a declaration is one operation: the result, the bets it
\* settles and all the payouts.
LEMMA DeclareCommits ==
  ASSUME BookInv, NEW r \in Req, CommitDeclare(r)
  PROVE  \E g \in Game, n \in Number : \E B \in SUBSET Book!Pending(g) : Book!Declare(r, g, n, B)
<1> DEFINE B == tx[r].pending
           won == Winners(Stakes(B), call[r].number)
<1>0. /\ MoneyInv /\ IInv /\ PartOK(r) /\ Scored(r) /\ Publish(r) /\ pc[r] = "commit"
      /\ InFlight(r) /\ Op(r) = "declare" /\ Ref(r) = r /\ results[r] = None
      /\ B \subseteq Pending(call[r].game)
  BY CommitFacts
     DEF CommitDeclare, BookInv, ResultsInv, MoneyInv, PartsOK, InFlight, Stages, ScoredOK
<1>1. call[r].game \in Game /\ call[r].number \in Number
  BY <1>0, CallTypes DEF IInv, StageOK, Op
<1>2. tx[r].won = won
  BY <1>0 DEF Scored
<1>3. Pending(call[r].game) = Book!Pending(call[r].game) /\ Stakes(B) = Book!Stakes(B)
  BY DEF Pending, Book!Pending, Stakes, Book!Stakes
<1>4. /\ balance' = [u \in User |-> balance[u] + won[u].amount]
      /\ wallets' = wallets
  BY <1>0, <1>2, Publishes, SettledParts
<1>5. payouts' = payouts \cup Book!PaidBy(r, r, won)
  BY <1>0, <1>2 DEF CommitDeclare, NewCredits, Book!PaidBy
<1>6. /\ bets' = [b \in Req |-> IF b \in B THEN [bets[b] EXCEPT !.result = r] ELSE bets[b]]
      /\ results' = [results EXCEPT ![r] =
           [game |-> call[r].game, number |-> call[r].number, count |-> Cardinality(B),
            winners |-> won, at |-> tx[r].began]]
  BY <1>2 DEF CommitDeclare
<1>7. /\ results'[r] = [game |-> call[r].game, number |-> call[r].number,
                        count |-> Cardinality(B), winners |-> won, at |-> tx[r].began]
      /\ results' = [results EXCEPT ![r] = results'[r]] /\ tx[r].began \in Nat
  BY <1>0, <1>6, TxFields DEF IInv, TypeOK
<1>8. results'[r] \in [game : {call[r].game}, number : {call[r].number},
                       count : {Cardinality(B)}, winners : {won}, at : Nat]
  BY <1>7
<1>9. Book!Declare(r, call[r].game, call[r].number, B)
  BY <1>0, <1>3, <1>4, <1>5, <1>6, <1>7, <1>8 DEF Book!Declare
<1> QED BY <1>0, <1>1, <1>3, <1>9

\* The commit of a correction is one operation: the old payouts taken back,
\* the new ones paid, and the result that says so.
LEMMA CorrectionCommits ==
  ASSUME BookInv, NEW r \in Req, CommitCorrection(r)
  PROVE  \E x \in Req, n \in Number : Book!Correct(r, x, n)
<1> DEFINE x == call[r].ref
           n == call[r].number
           won == Winners(Stakes(Linked(x)), n)
<1>0. /\ MoneyInv /\ IInv /\ PartOK(r) /\ Scored(r) /\ Publish(r) /\ pc[r] = "commit"
      /\ InFlight(r) /\ Op(r) = "correct" /\ Ref(r) = x /\ x \in Req
      /\ results[x] # None /\ results[x] \in Result /\ n \in Number
  BY CommitFacts, RefType
     DEF CommitCorrection, BookInv, ResultsInv, MoneyInv, IInv, TypeOK, PartsOK, InFlight, Stages,
         ScoredOK
<1>1. tx[r].won = won /\ tx[r].found = PaidOf(x) /\ tx[r].loaded = results[x]
  BY <1>0 DEF Scored
<1>2. results[x].number # n
  BY <1>0 DEF PartOK, CorrectOK
<1>3. Stakes(Linked(x)) = Book!Stakes(Book!Linked(x))
  BY DEF Stakes, Linked, Book!Stakes, Book!Linked
<1>4. /\ balance' = [u \in User |-> balance[u] + Part(r, u)] /\ wallets' = wallets
      /\ \A u \in User : balance[u] \in Int
  BY <1>0, Publishes
<1>5. \A u \in User : /\ Part(r, u) = won[u].amount - results[x].winners[u].amount
                      /\ won[u].amount \in Nat /\ results[x].winners[u].amount \in Nat
  BY <1>0, <1>1, SettledParts DEF Prior, Result, Entry
<1>6. balance' = [u \in User |-> balance[u] - results[x].winners[u].amount + won[u].amount]
  <2> HIDE DEF x, won
  <2> QED BY <1>4, <1>5
<1>7. payouts' = {p \in payouts : p.ref # x} \cup Book!PaidBy(r, x, won)
  BY <1>0, <1>1 DEF CommitCorrection, PaidOf, NewCredits, Book!PaidBy
<1>8. /\ results' = [results EXCEPT ![x] = Saved(r)] /\ bets' = bets
  BY <1>0 DEF CommitCorrection
<1>9. Saved(r) = [results[x] EXCEPT !.number = n, !.winners = won]
  BY <1>0, <1>1 DEF Saved, Result
<1>10. results' = [results EXCEPT ![x].number = n, ![x].winners = won]
  BY <1>0, <1>8, <1>9 DEF IInv, TypeOK
<1>11. Book!Correct(r, x, n)
  BY <1>0, <1>2, <1>3, <1>4, <1>6, <1>7, <1>8, <1>10 DEF Book!Correct
<1> QED BY <1>0, <1>11

\* The concurrent requests implement the book: with one settlement of a game at
\* a time, every commit of topUp, create, placeBet, declareResult and
\* updateResult is one operation of HouseBook, and nothing else shows.
THEOREM Implementation == OneSettlementPerGame /\ Spec => ImplementsBook
<1>1. Init => Book!Init
  BY DEF Init, Book!Init
<1>2. ASSUME BookInv, [Next]_vars PROVE [Book!Next]_(Book!book)
  <2>1. CASE UNCHANGED db
    BY <2>1 DEF db, Book!book
  <2>2. ASSUME NEW r \in Req, Works(r) PROVE [Book!Next]_(Book!book)
    <3>1. CASE CommitTransfer(r)
      BY <1>2, <3>1, TransferCommits DEF Book!Next
    <3>2. CASE CommitBet(r)
      BY <1>2, <3>2, BetCommits DEF Book!Next
    <3>3. CASE CommitDeclare(r)
      BY <1>2, <3>3, DeclareCommits DEF Book!Next
    <3>4. CASE CommitCorrection(r)
      BY <1>2, <3>4, CorrectionCommits DEF Book!Next
    <3> QED BY <1>2, <2>1, <2>2, <3>1, <3>2, <3>3, <3>4, ProceedStep
         DEF Works, BookInv, ResultsInv, MoneyInv
  <2>3. ASSUME NEW r \in Req, Arrive(r) PROVE UNCHANGED db
    BY <1>2, <2>3, ArriveStep DEF BookInv, ResultsInv, MoneyInv
  <2>4. CASE Tick \/ UNCHANGED vars
    BY <2>1, <2>4 DEF Tick, vars
  <2> QED BY <1>2, <2>1, <2>2, <2>3, <2>4 DEF Next, Works
<1> QED BY <1>1, <1>2, BookInvariance, PTL DEF Spec, ImplementsBook, Book!Spec

-----------------------------------------------------------------------------
(* Who waits for whom *)

\* A top-up that has inserted its user's wallet holds no other row.
HoldsOwn ==
  \A r \in Req, u \in User : pc[r] = "raise" /\ lock[u] = r => u = call[r].user

\* Every step keeps it: only InsertWallet leads to "raise" with a row held.
LEMMA HoldsOwnNext ==
  ASSUME IInv, HoldsOwn, [Next]_vars
  PROVE  HoldsOwn'
<1> SUFFICES ASSUME NEW q \in Req, NEW u \in User, pc'[q] = "raise", lock'[u] = q
             PROVE  u = call'[q].user
  BY DEF HoldsOwn
<1>1. ASSUME NEW r \in Req, Arrive(r) PROVE u = call'[q].user
  <2>1. PICK c \in Calls[r], s \in Stages \cup {"done", "failed"} :
          Begin(r, c, s) /\ UNCHANGED rows
    BY <1>1, ArriveStep
  <2>2. q # r
    BY <2>1, BeginStep DEF rows
  <2> QED BY <2>1, <2>2, BeginStep DEF HoldsOwn, rows
<1>2. ASSUME NEW r \in Req, Works(r) PROVE u = call'[q].user
  <2>1. call' = call /\ (q # r => pc'[q] = pc[q])
    BY <1>2, ProceedStep DEF Works
  <2>2. CASE q # r
    BY <1>2, <2>1, <2>2, OthersRows DEF HoldsOwn
  <2>3. CASE q = r
    <3>1. pc \in [Req -> Stages \cup {"idle", "done", "failed"}] /\ ~Abort(r) /\ ~Publish(r)
      BY <2>3 DEF IInv, TypeOK, Abort, Publish, Goto
    <3>2. InsertWallet(r)
      BY <1>2, <2>3, <3>1 DEF Works, Fail, DeadlockVictim, Proceed, RaiseBalance,
           AssertBettingOpen, Debit, CommitTransfer, CommitBet, LinkBets, CreditWinner,
           CommitDeclare, FindCredits, ReverseCredit, Rescore, SaveResult, CommitCorrection, Goto,
           CreditStage
    <3>3. Move(r, call[r].user, 0, 0) /\ pc[r] = "insert"
      BY <3>1, <3>2 DEF InsertWallet
    <3>4. lock[u] # r
      BY <3>3, NoPart DEF Holding
    <3> QED BY <2>1, <2>3, <3>3, <3>4 DEF Move, IInv, TypeOK
  <2> QED BY <2>2, <2>3
<1>3. CASE Tick \/ UNCHANGED vars
  BY <1>3 DEF Tick, vars, rows, HoldsOwn
<1> QED BY <1>1, <1>2, <1>3 DEF Next, Works

\* Nobody waits for a bet, a withdrawal or a top-up that waits itself.
LEMMA WaitingTransfer ==
  ASSUME IInv, HoldsOwn, NEW r \in Waiting, Op(r) \notin Settlements, NEW q \in Req
  PROVE  ~WaitsFor(q, r)
<1>1. r \in Req /\ InFlight(r) /\ Op(r) \in Transfers
  BY DEF Waiting, IInv, StageOK, InFlight, Stages, Settlements, Transfers
<1>2. PICK o \in Req : WaitsFor(r, o)
  BY DEF Waiting
<1>3. pc[r] \in {"insert", "raise", "debit"}
  BY <1>1, <1>2 DEF WaitsFor, Wants, InFlight, Stages, IInv, StageOK, Transfers
<1>4. ASSUME NEW u \in User PROVE lock[u] # r
  <2>1. CASE pc[r] = "raise"
    <3>1. lock[call[r].user] # r
      BY <1>2, <2>1 DEF WaitsFor, Wants
    <3> QED BY <1>1, <2>1, <3>1 DEF HoldsOwn
  <2>2. CASE pc[r] # "raise"
    BY <1>1, <1>3, <2>2, NoPart DEF Holding
  <2> QED BY <2>1, <2>2
<1>5. ASSUME NEW u \in Wants(q), InFlight(q) PROVE u \in User
  <2>1. CASE pc[q] \in {"insert", "raise", "debit"}
    <3>1. Op(q) \in Transfers
      BY <2>1 DEF IInv, StageOK, Transfers
    <3> QED BY <1>5, <2>1, <3>1, TransferTypes DEF Wants
  <2>2. CASE pc[q] \in {"credit", "reverse"}
    <3>1. \A p \in tx[q].due : p.user \in User
      BY TxFields DEF Payout
    <3> QED BY <1>5, <2>2, <3>1 DEF Wants, NextDue
  <2> QED BY <1>5, <2>1, <2>2 DEF Wants
<1>6. LockedBets(r) = {} /\ ~LockedResult(r, Ref(q))
  BY <1>1 DEF LockedBets, LockedResult, Transfers
<1>7. WaitsFor(q, r) => \/ \E u \in Wants(q) : lock[u] = r /\ InFlight(q)
                        \/ LockedBets(r) \cap tx[q].pending # {} \/ LockedResult(r, Ref(q))
  BY DEF WaitsFor, Wants, InFlight, Stages
<1> QED BY <1>4, <1>5, <1>6, <1>7

\* PostgreSQL never has to choose a bet, a withdrawal or a top-up as a deadlock
\* victim, however many settlements run: a smallest cycle has none of them.
THEOREM TransfersNeverDeadlock == Spec => []OnlySettlementsDeadlock
<1>1. Init => IInv /\ HoldsOwn
  BY InitInv, PoolLedgerAssumption DEF Init, HoldsOwn
<1>2. IInv /\ HoldsOwn /\ [Next]_vars => IInv' /\ HoldsOwn'
  BY NextInv, HoldsOwnNext
<1>3. ASSUME IInv, HoldsOwn PROVE OnlySettlementsDeadlock
  <2> SUFFICES ASSUME NEW S \in SUBSET Waiting, Deadlocked(S),
                      \A T \in SUBSET S : Deadlocked(T) => T = S,
                      NEW r \in S, Op(r) \notin Settlements
               PROVE  FALSE
    BY DEF OnlySettlementsDeadlock, Settlements
  <2>1. \A q \in S : q \in Req /\ ~WaitsFor(q, r)
    BY <1>3, WaitingTransfer DEF Waiting
  <2>2. \A t \in S \ {r} : \E q \in S \ {r} : WaitsFor(t, q)
    BY <2>1 DEF Deadlocked
  <2>3. S \ {r} # {}
    BY DEF Deadlocked, WaitsFor
  <2>4. Deadlocked(S \ {r})
    BY <2>2, <2>3 DEF Deadlocked
  <2> QED BY <2>4
<1> QED BY <1>1, <1>2, <1>3, PTL DEF Spec

-----------------------------------------------------------------------------
(* The pool of connections *)

\* A step of the pooled server is a step of the ledger.
LEMMA PooledStep == PooledNext => Next
BY DEF PooledNext, PooledArrive, PooledProceed, Next

\* The pooled server implements the ledger, whatever the size of the pool.
THEOREM PoolOnlyWaits == PooledSpec => Spec
<1>1. [PooledNext]_vars => [Next]_vars
  BY PooledStep
<1> QED BY <1>1, PTL DEF PooledSpec, Spec

\* On the pooled server too, the live ledger rows of getTransactionsSummary
\* add up to the balances, also when the pool is wedged.
THEOREM PooledLedgerAgrees ==
  OneSettlementPerGame /\ PooledSpec => []BalanceMatchesLedger
BY PoolOnlyWaits, LedgerAgrees, PTL

\* The pooled server implements the book: what its clients see of the tables
\* is a sequence of whole operations, also when the pool is wedged.
THEOREM PooledImplementation ==
  OneSettlementPerGame /\ PooledSpec => ImplementsBook
BY PoolOnlyWaits, Implementation, PTL

\* A request of a deadlock cycle holds a connection: it is in a transaction,
\* so breaking the cycle gives the connection back.
THEOREM VictimsAreConnected ==
  ASSUME NEW r \in Req, DeadlockVictim(r)
  PROVE  r \in Connected
<1>1. PICK S \in SUBSET Waiting : r \in S /\ Deadlocked(S)
  BY DEF DeadlockVictim
<1>2. InFlight(r)
  BY <1>1 DEF Waiting
<1>3. PICK q \in S : WaitsFor(r, q)
  BY <1>1 DEF Deadlocked
<1>4. pc[r] # "hours"
  <2>1. SUFFICES ASSUME pc[r] = "hours" PROVE FALSE
    OBVIOUS
  <2>2. Wants(r) = {}
    BY <2>1 DEF Wants
  <2> QED BY <1>3, <2>1, <2>2 DEF WaitsFor
<1> QED BY <1>2, <1>4 DEF Connected
==============================================================================
