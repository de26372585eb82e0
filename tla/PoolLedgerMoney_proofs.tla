----------------------- MODULE PoolLedgerMoney_proofs ------------------------
(***************************************************************************)
(* Proofs about the pool's money, from the invariant of PoolLedger_proofs: *)
(* as long as a game is settled by one request at a time, a bet is settled *)
(* once and balances match the ledger; and, with any number of settlements *)
(* at a time, the ledger is explained by the business records.             *)
(***************************************************************************)
EXTENDS PoolLedger_proofs, Sums

\* One settlement of a game at a time.
Serial ==
  \A q, r \in Req, g \in Game : Settling(q, g) /\ Settling(r, g) => q = r

\* A declaration's bets are still pending bets of its game.
PendingOK ==
  \A r \in Req : InFlight(r) /\ Op(r) = "declare" =>
    tx[r].pending \subseteq Pending(call[r].game)

\* A correction has found rows of its result, and those still to reverse are
\* live.
FoundOK ==
  \A r \in Req : InFlight(r) /\ Op(r) = "correct" /\ pc[r] # "credits" =>
    /\ \A p \in tx[r].found : p.ref = call[r].ref
    /\ pc[r] = "reverse" => tx[r].due \subseteq tx[r].found \cap payouts

\* Balances and ledger rows move together, committed or not.
Even == \A u \in User : balance[u] = net[u] /\ delta[u] = dnet[u]

MoneyInv ==
  /\ IInv /\ OneSettlementPerGame
  /\ Serial /\ InsertedOK /\ PendingOK /\ FoundOK /\ Even

-----------------------------------------------------------------------------
(* One settlement of a game at a time *)

\* A settlement in flight was in flight for the same game before.
LEMMA SettlingStays ==
  ASSUME IInv, NEW q \in Req, NEW g \in Game, Settling(q, g)', InFlight(q), call'[q] = call[q],
         \A x \in Req : results[x] # None => results'[x].game = results[x].game
  PROVE  Settling(q, g)
<1>1. CASE Op(q) = "declare"
  BY <1>1 DEF Settling, Op
<1>2. CASE Op(q) = "correct"
  <2>1. call[q].ref \in Req /\ results[call[q].ref] # None
    BY <1>2, CallTypes DEF IInv, StageOK, ReadOK, Op
  <2> QED BY <1>2, <2>1 DEF Settling, Op
<1> QED BY <1>1, <1>2 DEF Settling, Op

\* Every step keeps the settlements in flight on different games.
LEMMA SerialNext ==
  ASSUME IInv, OneSettlementPerGame, Serial, InsertedOK, [Next]_vars
  PROVE  Serial'
<1>1. ASSUME NEW r \in Req, Arrive(r) PROVE Serial'
  <2>1. PICK c \in Calls[r], s \in Stages \cup {"done", "failed"} :
          /\ Begin(r, c, s) /\ UNCHANGED <<db, rows>>
          /\ s \in Stages /\ c.op = "declare" => MaySettle(c.game)
          /\ s \in Stages /\ c.op = "correct" => MaySettle(results[c.ref].game)
    BY <1>1, ArriveStep
  <2>2. /\ call'[r] = c /\ pc'[r] = s /\ results' = results
        /\ \A q \in Req : q # r => pc'[q] = pc[q] /\ call'[q] = call[q]
    BY <2>1, BeginStep DEF db
  <2>3. ASSUME NEW q \in Req, NEW g \in Game, q # r, Settling(q, g)' PROVE Settling(q, g)
    BY <2>2, <2>3 DEF Settling, InFlight, Op
  <2>4. ASSUME NEW q \in Req, NEW g \in Game, q # r, Settling(r, g)' PROVE ~Settling(q, g)
    BY <2>1, <2>2, <2>4 DEF Settling, InFlight, Op, MaySettle
  <2> QED BY <2>3, <2>4 DEF Serial
<1>2. ASSUME NEW r \in Req, Works(r) PROVE Serial'
  <2> SUFFICES ASSUME NEW q \in Req, NEW g \in Game, Settling(q, g)' PROVE Settling(q, g)
    BY DEF Serial
  <2>1. InFlight(q) /\ call'[q] = call[q]
    BY <1>2, ProceedStep DEF Works, Settling, InFlight
  <2> QED BY <1>2, <2>1, RecordStays, SettlingStays
<1>3. CASE Tick \/ UNCHANGED vars
  BY <1>3 DEF Tick, Serial, Settling, InFlight, Op, vars, db
<1> QED BY <1>1, <1>2, <1>3 DEF Next, Works

-----------------------------------------------------------------------------
(* What a settlement has read stays as it was read *)

\* Two settlements in flight are about different games.
LEMMA OtherGame ==
  ASSUME IInv, Serial, NEW q \in Req, NEW r \in Req, q # r, NEW g \in Game,
         Settling(q, g)
  PROVE  ~Settling(r, g)
BY DEF Serial

\* Every step keeps a declaration's bets pending: only another settlement of the
\* game could link them.
LEMMA PendingNext ==
  ASSUME IInv, Serial, InsertedOK, PendingOK, [Next]_vars
  PROVE  PendingOK'
<1>1. ASSUME NEW r \in Req, Arrive(r) PROVE PendingOK'
  <2>1. PICK c \in Calls[r], s \in Stages \cup {"done", "failed"} :
          /\ Begin(r, c, s) /\ UNCHANGED <<db, rows>>
          /\ \A q \in Req : q # r => tx'[q] = tx[q]
          /\ s \in Stages /\ c.op = "declare" => tx'[r].pending = Pending(c.game)
    BY <1>1, ArriveStep
  <2>2. /\ call'[r] = c /\ pc'[r] = s /\ bets' = bets
        /\ \A q \in Req : q # r => pc'[q] = pc[q] /\ call'[q] = call[q]
    BY <2>1, BeginStep DEF db
  <2>3. ASSUME NEW q \in Req, InFlight(q)', Op(q)' = "declare"
        PROVE  tx'[q].pending \subseteq Pending(call'[q].game)
    <3>1. CASE q = r
      BY <2>1, <2>2, <2>3, <3>1 DEF InFlight, Op
    <3>2. CASE q # r
      BY <2>1, <2>2, <2>3, <3>2 DEF InFlight, Op, PendingOK
    <3> QED BY <3>1, <3>2
  <2> QED BY <2>2, <2>3 DEF PendingOK, Pending
<1>2. ASSUME NEW r \in Req, Works(r) PROVE PendingOK'
  <2>1. /\ InFlight(r) /\ call' = call
        /\ \A q \in Req : q # r => pc'[q] = pc[q] /\ tx'[q] = tx[q]
        /\ InFlight(r)' => tx'[r].pending = tx[r].pending
        /\ UNCHANGED db \/ CommitTransfer(r) \/ CommitBet(r) \/ CommitDeclare(r) \/ CommitCorrection(r)
    BY <1>2, ProceedStep DEF Works
  <2> SUFFICES ASSUME NEW q \in Req, InFlight(q)', Op(q)' = "declare",
                      NEW b \in tx'[q].pending
               PROVE  bets'[b] = bets[b] /\ b \in Pending(call[q].game)
    BY <2>1 DEF PendingOK, Pending
  <2>2. InFlight(q) /\ Op(q) = "declare" /\ tx'[q].pending = tx[q].pending
    BY <2>1 DEF InFlight, Op
  <2>3. b \in Pending(call[q].game) /\ b \in Req
    BY <2>2 DEF PendingOK, Pending
  <2>4. CASE UNCHANGED db \/ CommitTransfer(r) \/ CommitCorrection(r)
    BY <2>3, <2>4 DEF db, CommitTransfer, CommitCorrection
  <2>5. CASE CommitBet(r)
    <3>1. b # r
      BY <2>3, <2>5 DEF CommitBet, InsertedOK, Pending
    <3> QED BY <2>3, <2>5, <3>1 DEF CommitBet, IInv, TypeOK
  <2>6. CASE CommitDeclare(r)
    <3>1. q # r
      BY <2>6, PublishStep DEF CommitDeclare, InFlight, Stages
    <3>2. InFlight(r) /\ Op(r) = "declare"
      BY <2>6 DEF CommitDeclare, InFlight, Stages
    <3>3. b \notin tx[r].pending
      <4> SUFFICES ASSUME b \in tx[r].pending PROVE FALSE
        OBVIOUS
      <4>1. bets[b].game = call[r].game /\ bets[b].game = call[q].game
        BY <2>3, <3>2 DEF PendingOK, Pending
      <4>2. call[q].game \in Game
        BY <2>2, CallTypes DEF IInv, StageOK, Op
      <4>3. Settling(q, call[q].game) /\ Settling(r, call[q].game)
        BY <2>2, <3>2, <4>1 DEF Settling
      <4> QED BY <3>1, <4>2, <4>3, OtherGame
    <3> QED BY <2>3, <2>6, <3>3 DEF CommitDeclare
  <2> QED BY <2>1, <2>3, <2>4, <2>5, <2>6
<1>3. CASE Tick \/ UNCHANGED vars
  BY <1>3 DEF Tick, PendingOK, Pending, InFlight, Op, vars, db
<1> QED BY <1>1, <1>2, <1>3 DEF Next, Works

\* A correction's commit removes no row another one has found.
LEMMA FoundApart ==
  ASSUME IInv, Serial, FoundOK, NEW q \in Req, NEW r \in Req, q # r,
         InFlight(q), Op(q) = "correct", pc[q] # "credits",
         InFlight(r), Op(r) = "correct", pc[r] # "credits"
  PROVE  tx[q].found \cap tx[r].found = {}
<1> SUFFICES ASSUME NEW p \in tx[q].found, p \in tx[r].found PROVE FALSE
  OBVIOUS
<1>1. call[q].ref = call[r].ref
  BY DEF FoundOK
<1>2. call[q].ref \in Req /\ results[call[q].ref] # None
  BY CallTypes DEF IInv, StageOK, ReadOK, Op
<1>3. results[call[q].ref].game \in Game
  BY <1>2 DEF IInv, TypeOK, Result
<1>4. Settling(q, results[call[q].ref].game) /\ Settling(r, results[call[q].ref].game)
  BY <1>1 DEF Settling
<1> QED BY <1>3, <1>4, OtherGame

\* Every step keeps the rows a correction has yet to reverse live: only another
\* correction of the result could delete them.
LEMMA FoundNext ==
  ASSUME IInv, Serial, FoundOK, [Next]_vars
  PROVE  FoundOK'
<1>0. tx \in [Req -> Tx] /\ pc \in [Req -> Stages \cup {"idle", "done", "failed"}]
  BY DEF IInv, TypeOK
<1>1. ASSUME NEW r \in Req, Arrive(r) PROVE FoundOK'
  <2>1. PICK c \in Calls[r], s \in Stages \cup {"done", "failed"} :
          /\ Begin(r, c, s) /\ UNCHANGED <<db, rows>>
          /\ \A q \in Req : q # r => tx'[q] = tx[q]
          /\ s \in Stages /\ c.op = "correct" => s = "credits"
    BY <1>1, ArriveStep
  <2>2. /\ call'[r] = c /\ pc'[r] = s /\ payouts' = payouts
        /\ \A q \in Req : q # r => pc'[q] = pc[q] /\ call'[q] = call[q]
    BY <2>1, BeginStep DEF db
  <2> QED BY <2>1, <2>2 DEF FoundOK, InFlight, Op
<1>2. ASSUME NEW r \in Req, Works(r) PROVE FoundOK'
  <2>1. /\ InFlight(r) /\ call' = call
        /\ \A q \in Req : q # r => pc'[q] = pc[q] /\ tx'[q] = tx[q]
        /\ InFlight(r)' => pc[r] = "credits" \/ tx'[r].found = tx[r].found
        /\ UNCHANGED db \/ CommitTransfer(r) \/ CommitBet(r) \/ CommitDeclare(r) \/ CommitCorrection(r)
    BY <1>2, ProceedStep DEF Works
  <2>2. ASSUME NEW q \in Req, q # r, InFlight(q), Op(q) = "correct", pc[q] # "credits"
        PROVE  tx[q].found \cap payouts \subseteq payouts'
    <3>1. CASE UNCHANGED db \/ CommitTransfer(r) \/ CommitBet(r)
      BY <3>1 DEF db, CommitTransfer, CommitBet
    <3>2. CASE CommitDeclare(r)
      BY <3>2 DEF CommitDeclare
    <3>3. CASE CommitCorrection(r)
      <4>1. InFlight(r) /\ Op(r) = "correct" /\ pc[r] # "credits"
        BY <3>3 DEF CommitCorrection, InFlight, Stages
      <4>2. tx[q].found \cap tx[r].found = {}
        BY <2>2, <4>1, FoundApart
      <4> QED BY <3>3, <4>2 DEF CommitCorrection
    <3> QED BY <2>1, <3>1, <3>2, <3>3
  <2>3. ASSUME NEW q \in Req, q # r, InFlight(q)', Op(q)' = "correct", pc'[q] # "credits"
        PROVE  /\ \A p \in tx'[q].found : p.ref = call'[q].ref
               /\ pc'[q] = "reverse" => tx'[q].due \subseteq tx'[q].found \cap payouts'
    <3>1. InFlight(q) /\ Op(q) = "correct" /\ pc'[q] = pc[q] /\ tx'[q] = tx[q] /\ call'[q] = call[q]
      BY <2>1, <2>3 DEF InFlight, Op
    <3> QED BY <2>2, <2>3, <3>1 DEF FoundOK
  <2>4. ASSUME InFlight(r)', Op(r)' = "correct", pc'[r] # "credits"
        PROVE  /\ \A p \in tx'[r].found : p.ref = call'[r].ref
               /\ pc'[r] = "reverse" => tx'[r].due \subseteq tx'[r].found \cap payouts'
    <3>0. Op(r) = "correct" /\ ~Abort(r) /\ ~Publish(r)
      BY <1>0, <2>1, <2>4 DEF Op, Abort, Publish, Goto, InFlight, Stages
    <3>1. CASE pc[r] = "credits"
      <4> DEFINE found == {p \in payouts : p.ref = Ref(r)}
      <4>1. FindCredits(r)
        BY <1>2, <3>0, <3>1 DEF Works, Fail, DeadlockVictim, Proceed, InsertWallet, RaiseBalance,
             AssertBettingOpen, Debit, CommitTransfer, CommitBet, LinkBets, CreditWinner,
             CommitDeclare, ReverseCredit, Rescore, SaveResult, CommitCorrection
      <4>2. tx' = [tx EXCEPT ![r].found = found, ![r].due = found] /\ payouts' = payouts
            /\ found \in SUBSET Payout
        BY <4>1 DEF FindCredits, db, IInv, TypeOK
      <4>3. tx'[r].found = found /\ tx'[r].due = found
        <5> HIDE DEF found
        <5> QED BY <1>0, <4>2, TxFound
      <4> QED BY <2>1, <3>0, <4>2, <4>3 DEF Ref
    <3>2. CASE pc[r] # "credits"
      <4>1. tx'[r].found = tx[r].found /\ \A p \in tx[r].found : p.ref = call[r].ref
        BY <2>1, <2>4, <3>0, <3>2 DEF FoundOK
      <4>2. ASSUME pc'[r] = "reverse" PROVE tx'[r].due \subseteq tx[r].due /\ pc[r] = "reverse" /\ payouts' = payouts
        <5>1. ReverseCredit(r)
          BY <1>0, <1>2, <3>0, <3>2, <4>2 DEF Works, Fail, DeadlockVictim, Proceed, InsertWallet,
             RaiseBalance, AssertBettingOpen, Debit, CommitTransfer, CommitBet, LinkBets,
             CreditWinner, CommitDeclare, FindCredits, Rescore, SaveResult, CommitCorrection,
             CreditStage, Goto
        <5>2. PICK p : tx' = [tx EXCEPT ![r].due = tx[r].due \ {p}] /\ payouts' = payouts
          BY <3>0, <5>1 DEF ReverseCredit, db
        <5>3. tx[r].due \ {p} \in SUBSET Payout
          BY TxFields
        <5> QED BY <1>0, <5>1, <5>2, <5>3, TxDue DEF ReverseCredit
      <4> QED BY <2>1, <3>0, <4>1, <4>2 DEF FoundOK
    <3> QED BY <3>1, <3>2
  <2> QED BY <2>3, <2>4 DEF FoundOK
<1>3. CASE Tick \/ UNCHANGED vars
  BY <1>3 DEF Tick, FoundOK, InFlight, Op, vars, db
<1> QED BY <1>1, <1>2, <1>3 DEF Next, Works

-----------------------------------------------------------------------------
(* Balances and ledger move together *)

\* An update of a wallet row that its ledger rows account for.
LEMMA EvenMove ==
  ASSUME IInv, Even, NEW r \in Req, NEW u \in User, NEW d \in Int, Move(r, u, d, d),
         UNCHANGED <<balance, net>>
  PROVE  Even'
BY DEF IInv, TypeOK, Even, Move

\* A commit that publishes both sums, or none, keeps them equal.
LEMMA EvenRelease ==
  ASSUME IInv, Even, NEW r \in Req, Release(r),
         \A u \in User : \/ balance'[u] = balance[u] /\ net'[u] = net[u]
                         \/ balance'[u] = balance[u] + delta[u] /\ net'[u] = net[u] + dnet[u]
  PROVE  Even'
<1> SUFFICES ASSUME NEW u \in User PROVE balance'[u] = net'[u] /\ delta'[u] = dnet'[u]
  BY DEF Even
<1>1. balance[u] = net[u] /\ delta[u] = dnet[u]
  BY DEF Even
<1>2. delta'[u] = dnet'[u]
  BY <1>1, ReleaseRows
<1> QED BY <1>1, <1>2

\* Every step moves a balance and its ledger rows by the same amount.
LEMMA EvenNext ==
  ASSUME IInv, FoundOK, Even, [Next]_vars
  PROVE  Even'
<1>1. ASSUME UNCHANGED <<balance, net, delta, dnet>> PROVE Even'
  BY <1>1 DEF Even
<1>2. ASSUME NEW r \in Req, Arrive(r) PROVE Even'
  BY <1>1, <1>2, ArriveStep DEF db, rows
<1>3. ASSUME NEW r \in Req, Abort(r) PROVE Even'
  BY <1>3, EvenRelease DEF Abort, db
<1>4. ASSUME NEW r \in Req, Publish(r) PROVE Even'
  BY <1>4, EvenRelease DEF Publish
<1>5. ASSUME NEW r \in Req, InsertWallet(r), ~Abort(r) PROVE Even'
  <2>1. call[r].user \in User
    BY <1>5, CallTypes DEF InsertWallet, IInv, StageOK, InFlight, Stages, Op
  <2> QED BY <1>5, <2>1, EvenMove DEF InsertWallet, db
<1>6. ASSUME NEW r \in Req, RaiseBalance(r), ~Abort(r) PROVE Even'
  <2>1. call[r].user \in User /\ call[r].amount \in Nat
    BY <1>6, CallTypes, PoolLedgerAssumption DEF RaiseBalance, IInv, StageOK, InFlight, Stages, Op
  <2> QED BY <1>6, <2>1, EvenMove DEF RaiseBalance, Post, db
<1>7. ASSUME NEW r \in Req, Debit(r), ~Abort(r) PROVE Even'
  <2>1. call[r] \in CallSet /\ call[r].op \in {"bet", "withdraw"}
    BY <1>7 DEF Debit, IInv, StageOK, InFlight, Stages, Op
  <2>2. Debited(call[r]) \in Nat /\ call[r].user \in User
    BY <2>1, CallTypes, PoolLedgerAssumption DEF Debited
  <2>3. -Debited(call[r]) \in Int
    BY <2>2
  <2> QED BY <1>7, <2>2, <2>3, EvenMove DEF Debit, Post, db
<1>8. ASSUME NEW r \in Req, CreditWinner(r), ~Abort(r) PROVE Even'
  <2>1. PICK p \in NextDue(r) : Move(r, p.user, p.amount, p.amount) /\ UNCHANGED <<balance, net>>
    BY <1>8 DEF CreditWinner, Post, db
  <2>2. p.user \in User /\ p.amount \in Int
    BY TxFields DEF NextDue, Payout
  <2> QED BY <2>1, <2>2, EvenMove
<1>9. ASSUME NEW r \in Req, ReverseCredit(r), ~Abort(r) PROVE Even'
  <2>1. PICK p \in tx[r].due : /\ Move(r, p.user, -p.amount, -SoftDeleted(p))
                               /\ UNCHANGED <<balance, net>>
    BY <1>9 DEF ReverseCredit, db
  <2>2. p.user \in User /\ -p.amount \in Int
    BY TxFields DEF Payout
  <2>3. p \in payouts
    BY <1>9 DEF ReverseCredit, FoundOK, IInv, StageOK, InFlight, Stages
  <2> QED BY <2>1, <2>2, <2>3, EvenMove DEF SoftDeleted
<1>10. ASSUME NEW r \in Req, Proceed(r) PROVE Even'
  <2>1. CASE AssertBettingOpen(r) \/ FindCredits(r) \/ SaveResult(r)
    BY <1>1, <2>1 DEF AssertBettingOpen, FindCredits, SaveResult, db, rows
  <2>2. CASE LinkBets(r) \/ Rescore(r)
    BY <1>1, <1>3, <2>2 DEF LinkBets, Rescore, db, rows
  <2>3. CASE CommitTransfer(r) \/ CommitBet(r) \/ CommitDeclare(r) \/ CommitCorrection(r)
    BY <1>4, <2>3 DEF CommitTransfer, CommitBet, CommitDeclare, CommitCorrection
  <2> QED BY <1>3, <1>5, <1>6, <1>7, <1>8, <1>9, <1>10, <2>1, <2>2, <2>3 DEF Proceed
<1>11. CASE Tick \/ UNCHANGED vars
  BY <1>1, <1>11 DEF Tick, vars, db, rows
<1> QED BY <1>2, <1>3, <1>10, <1>11 DEF Next, Fail, DeadlockVictim

-----------------------------------------------------------------------------
\* The money invariant holds at the start.
LEMMA MoneyInit ==
  ASSUME Init, OneSettlementPerGame
  PROVE  MoneyInv
<1>1. Serial /\ PendingOK /\ FoundOK
  BY DEF Init, Serial, PendingOK, FoundOK, Settling, InFlight, Stages
<1>2. InsertedOK /\ Even
  BY DEF Init, InsertedOK, Even
<1> QED BY <1>1, <1>2, InitInv DEF MoneyInv

\* Every step keeps the money invariant.
LEMMA MoneyNext ==
  ASSUME MoneyInv, [Next]_vars
  PROVE  MoneyInv'
BY NextInv, SerialNext, InsertedNext, PendingNext, FoundNext, EvenNext DEF MoneyInv

\* With one settlement of a game at a time, what a settlement has read stays
\* true until it commits, and balance and ledger agree, committed or not.
THEOREM MoneyInvariance == OneSettlementPerGame /\ Spec => []MoneyInv
<1>1. OneSettlementPerGame /\ Init => MoneyInv
  BY MoneyInit
<1>2. MoneyInv /\ [Next]_vars => MoneyInv'
  BY MoneyNext
<1> QED BY <1>1, <1>2, PTL DEF Spec

\* Under the same discipline every user's balance is what the live rows of the
\* credit ledger add up to, in every interleaving and after every failure.
THEOREM LedgerAgrees == OneSettlementPerGame /\ Spec => []BalanceMatchesLedger
<1>1. MoneyInv => BalanceMatchesLedger
  BY DEF MoneyInv, Even, IInv, TypeOK, BalanceMatchesLedger
<1> QED BY <1>1, MoneyInvariance, PTL

\* Under the same discipline a bet linked to a result is never linked to another
\* one.
THEOREM NeverResettled == OneSettlementPerGame /\ Spec => SettledOnce
<1>1. MoneyInv /\ [Next]_vars => [KeepsSettled]_vars
  <2> SUFFICES ASSUME MoneyInv, Next, NEW b \in Req, bets[b] # None, bets[b].result # None
               PROVE  bets'[b] = bets[b]
    BY DEF KeepsSettled
  <2> USE DEF MoneyInv
  <2>1. ASSUME NEW r \in Req, Arrive(r) PROVE bets' = bets
    BY <2>1, ArriveStep DEF db
  <2>2. ASSUME NEW r \in Req, Works(r) PROVE bets'[b] = bets[b]
    <3>1. CASE UNCHANGED db \/ CommitTransfer(r) \/ CommitCorrection(r)
      BY <3>1 DEF db, CommitTransfer, CommitCorrection
    <3>2. CASE CommitBet(r)
      <4>1. b # r
        BY <3>2 DEF CommitBet, InsertedOK
      <4> QED BY <3>2, <4>1 DEF CommitBet, IInv, TypeOK
    <3>3. CASE CommitDeclare(r)
      <4>1. b \notin tx[r].pending
        BY <3>3 DEF CommitDeclare, PendingOK, Pending, InFlight, Stages
      <4> QED BY <3>3, <4>1 DEF CommitDeclare
    <3> QED BY <2>2, <3>1, <3>2, <3>3, ProceedStep DEF Works
  <2> QED BY <2>1, <2>2 DEF Next, Works, Tick, db
<1> QED BY <1>1, MoneyInvariance, PTL DEF Spec, SettledOnce

-----------------------------------------------------------------------------
(* What explains the ledger *)

AtUser(P, u) == {p \in P : p.user = u}

\* What the rows P add up to.
Worth(P) == SumFunctionOnSet([p \in P |-> p.amount], P)

Settles(r) == Op(r) \in {"declare", "correct"}

\* The CREDIT rows settlement r has soft deleted so far, and those it has inserted.
Reversed(r) ==
  IF pc[r] = "reverse" THEN tx[r].found \ tx[r].due
  ELSE IF Op(r) = "correct" /\ pc[r] \in {"rescore", "save", "credit", "commit"}
       THEN tx[r].found ELSE {}
Inserted(r) ==
  IF pc[r] = "credit" THEN NewCredits(r, tx[r].won) \ tx[r].due
  ELSE IF Settles(r) /\ pc[r] = "commit" THEN NewCredits(r, tx[r].won) ELSE {}

\* What r has written to u's ledger so far.
Written(r, u) ==
  IF Settles(r) THEN Worth(AtUser(Inserted(r), u)) - Worth(AtUser(Reversed(r) \cap payouts, u))
  ELSE IF pc[r] = "commit" /\ u = call[r].user
       THEN IF Op(r) = "topUp" THEN call[r].amount ELSE -Debited(call[r])
       ELSE 0

\* What a request in flight has written it has written under the locks it
\* holds; the rows it has found were inserted by requests that are done.
Own(r) ==
  /\ Op(r) = "correct" /\ pc[r] \in {"reverse", "rescore", "save", "credit", "commit"} =>
       /\ \A p \in tx[r].found : pc[p.by] = "done"
       /\ \A u \in User : IsFiniteSet(AtUser(tx[r].found, u))
  /\ pc[r] = "reverse" => tx[r].due \subseteq tx[r].found
  /\ pc[r] = "credit" => tx[r].due \subseteq NewCredits(r, tx[r].won)
  /\ \A p \in Inserted(r) \cup Reversed(r) : lock[p.user] = r
  /\ pc[r] = "commit" /\ ~Settles(r) => lock[call[r].user] = r
  /\ \A u \in User : lock[u] = r => dnet[u] = Written(r, u)

OwnOK == \A r \in Req : InFlight(r) => Own(r)

\* Live rows come from requests that are done, finitely many for each user.
LiveOK ==
  /\ \A p \in payouts : pc[p.by] = "done"
  /\ \A u \in User : IsFiniteSet(AtUser(payouts, u))

\* The requests that are done.
DoneOK ==
  \A r \in Req : /\ pc[r] = "done" => call[r] \in CallSet
                 /\ Standing[r] # None => pc[r] = "done"

BetsOf(u)   == {b \in Req : Standing[b] = None /\ bets[b] # None /\ bets[b].user = u}
Moved(u, o) == SumFunctionOnSet([r \in TransfersOf(u, o) |-> call[r].amount], TransfersOf(u, o))
Staked(u)   == SumFunctionOnSet([b \in BetsOf(u) |-> Total(bets[b].slip)], BetsOf(u))
Given(u)    == IF Opening[u] = None THEN 0 ELSE Opening[u]
Explained(u) ==
  net[u] = Given(u) + Moved(u, "topUp") - Moved(u, "withdraw") - Staked(u)
         + Worth(AtUser(payouts, u))

ExplainedInv ==
  /\ IInv /\ InsertedOK /\ DoneOK /\ LiveOK /\ OwnOK
  /\ \A u \in User : Explained(u)

-----------------------------------------------------------------------------
(* Sums of rows *)

\* LedgerExplained says of every user that his ledger is explained.
LEMMA ExplainedMeans == LedgerExplained <=> \A u \in User : Explained(u)
<1> DEFINE Sums(u) ==
      net[u] = (IF Opening[u] = None THEN 0 ELSE Opening[u])
             + MapThenSumSet(LAMBDA r : call[r].amount, TransfersOf(u, "topUp"))
             - MapThenSumSet(LAMBDA r : call[r].amount, TransfersOf(u, "withdraw"))
             - MapThenSumSet(LAMBDA b : Total(bets[b].slip),
                             {b \in Req : Standing[b] = None /\ bets[b] # None /\ bets[b].user = u})
             + MapThenSumSet(LAMBDA p : p.amount, {p \in payouts : p.user = u})
<1>1. LedgerExplained <=> \A u \in User : Sums(u)
  BY DEF LedgerExplained
<1>2. ASSUME NEW u \in User PROVE Sums(u) <=> Explained(u)
  <2> DEFINE topUps == MapThenSumSet(LAMBDA r : call[r].amount, TransfersOf(u, "topUp"))
             taken  == MapThenSumSet(LAMBDA r : call[r].amount, TransfersOf(u, "withdraw"))
             stakes == MapThenSumSet(LAMBDA b : Total(bets[b].slip),
                         {b \in Req : Standing[b] = None /\ bets[b] # None /\ bets[b].user = u})
             paid   == MapThenSumSet(LAMBDA p : p.amount, {p \in payouts : p.user = u})
  <2>1. topUps = Moved(u, "topUp")
    BY DEF MapThenSumSet, MapThenFoldSet, SumFunctionOnSet, FoldFunctionOnSet, Moved
  <2>2. taken = Moved(u, "withdraw")
    BY DEF MapThenSumSet, MapThenFoldSet, SumFunctionOnSet, FoldFunctionOnSet, Moved
  <2>3. stakes = Staked(u)
    BY DEF MapThenSumSet, MapThenFoldSet, SumFunctionOnSet, FoldFunctionOnSet, Staked, BetsOf
  <2>4. paid = Worth(AtUser(payouts, u))
    BY DEF MapThenSumSet, MapThenFoldSet, SumFunctionOnSet, FoldFunctionOnSet, Worth, AtUser
  <2>5. Sums(u) <=> net[u] = Given(u) + topUps - taken - stakes + paid
    BY DEF Given
  <2> HIDE DEF topUps, taken, stakes, paid, Sums
  <2> QED BY <2>1, <2>2, <2>3, <2>4, <2>5 DEF Explained
<1> HIDE DEF Sums
<1> QED BY <1>1, <1>2

\* No payout is worth nothing.
LEMMA WorthEmpty == Worth({}) = 0
BY SumEmpty DEF Worth

\* Payouts taken together are worth what they are worth apart.
LEMMA WorthUnion ==
  ASSUME NEW P, NEW Q, P \subseteq Payout, Q \subseteq Payout, IsFiniteSet(P), IsFiniteSet(Q),
         P \cap Q = {}
  PROVE  /\ Worth(P) \in Int /\ Worth(Q) \in Int
         /\ Worth(P \cup Q) = Worth(P) + Worth(Q)
<1> DEFINE f == [p \in P \cup Q |-> p.amount]
<1>1. \A p \in P \cup Q : f[p] \in Int
  BY DEF Payout
<1>2. Worth(P) = SumFunctionOnSet(f, P)
  <2>1. \A p \in P : [x \in P |-> x.amount][p] = f[p]
    OBVIOUS
  <2> HIDE DEF f
  <2> QED BY <2>1, SumSame DEF Worth
<1>3. Worth(Q) = SumFunctionOnSet(f, Q)
  <2>1. \A p \in Q : [x \in Q |-> x.amount][p] = f[p]
    OBVIOUS
  <2> HIDE DEF f
  <2> QED BY <2>1, SumSame DEF Worth
<1>4. Worth(P \cup Q) = SumFunctionOnSet(f, P \cup Q)
  BY DEF Worth
<1> HIDE DEF f
<1> QED BY <1>1, <1>2, <1>3, <1>4, SumInt, SumUnion

\* A payout is worth its amount.
LEMMA WorthOne ==
  ASSUME NEW p \in Payout
  PROVE  Worth({p}) = p.amount
<1> DEFINE f == [x \in {p} |-> x.amount]
<1>1. f[p] = p.amount /\ p.amount \in Int
  BY DEF Payout
<1>2. Worth({p}) = SumFunctionOnSet(f, {p})
  BY DEF Worth
<1>3. IsFiniteSet({p}) /\ \A x \in {p} : f[x] \in Int
  BY <1>1, FS_Singleton
<1> HIDE DEF f
<1>4. SumFunctionOnSet(f, {p}) = f[p] + SumFunctionOnSet(f, {p} \ {p})
  BY <1>3, SumTake
<1>5. {p} \ {p} = {}
  OBVIOUS
<1> QED BY <1>1, <1>2, <1>4, <1>5, SumEmpty

\* Payouts taken away are worth so much less.
LEMMA WorthMinus ==
  ASSUME NEW P, NEW Q, P \subseteq Payout, IsFiniteSet(P), Q \subseteq P
  PROVE  /\ Worth(P) \in Int /\ Worth(Q) \in Int
         /\ Worth(P \ Q) = Worth(P) - Worth(Q)
<1>1. IsFiniteSet(Q) /\ IsFiniteSet(P \ Q) /\ P = Q \cup (P \ Q) /\ Q \cap (P \ Q) = {}
  BY FS_Subset
<1>2. /\ Worth(Q) \in Int /\ Worth(P \ Q) \in Int
      /\ Worth(Q \cup (P \ Q)) = Worth(Q) + Worth(P \ Q)
  BY <1>1, WorthUnion
<1> DEFINE R == P \ Q
<1>3. P = Q \cup R /\ Worth(Q) \in Int /\ Worth(R) \in Int /\ Worth(Q \cup R) = Worth(Q) + Worth(R)
  BY <1>1, <1>2
<1> HIDE DEF R
<1>4. Worth(P) = Worth(Q) + Worth(R)
  BY <1>3
<1>5. Worth(P) \in Int /\ Worth(R) = Worth(P) - Worth(Q)
  BY <1>3, <1>4
<1> QED BY <1>3, <1>5 DEF R

\* A settlement inserts at most one row for a user.
LEMMA CreditsFinite ==
  ASSUME NEW r, NEW won, NEW u \in User
  PROVE  /\ IsFiniteSet(AtUser(NewCredits(r, won), u))
         /\ \A Q : IsFiniteSet(AtUser(NewCredits(r, won) \ Q, u))
<1> DEFINE row == [by |-> r, user |-> u, ref |-> Ref(r), amount |-> won[u].amount]
<1>1. AtUser(NewCredits(r, won), u) \subseteq {row}
  BY DEF NewCredits, AtUser
<1>2. \A Q : AtUser(NewCredits(r, won) \ Q, u) \subseteq {row}
  BY <1>1 DEF AtUser
<1>3. IsFiniteSet({row})
  BY FS_Singleton
<1> HIDE DEF row
<1> QED BY <1>1, <1>2, <1>3, FS_Subset

-----------------------------------------------------------------------------
(* What a request in flight has written *)

\* A request nobody touches keeps what it has written.
LEMMA OwnOther ==
  ASSUME IInv, NEW q \in Req, Own(q),
         tx'[q] = tx[q], pc'[q] = pc[q], call'[q] = call[q],
         \A r \in Req : pc[r] = "done" => pc'[r] = "done",
         \A u \in User : lock[u] = q => lock'[u] = q /\ dnet'[u] = dnet[u],
         \A u \in User : lock'[u] = q => lock[u] = q,
         \A p \in Reversed(q) : lock[p.user] = q => (p \in payouts' <=> p \in payouts)
  PROVE  Own(q)'
<1>1. tx[q].found \subseteq Payout /\ tx[q].won \in [User -> Entry]
  BY TxFields
<1>2. /\ Op(q)' = Op(q) /\ Settles(q)' = Settles(q)
      /\ NewCredits(q, tx[q].won)' = NewCredits(q, tx[q].won)
  BY DEF Op, Settles, NewCredits, Ref
<1>3. Inserted(q)' = Inserted(q) /\ Reversed(q)' = Reversed(q)
  BY <1>2 DEF Inserted, Reversed
<1>4. \A u \in User : lock[u] = q =>
        AtUser(Reversed(q) \cap payouts, u) = AtUser(Reversed(q) \cap payouts', u)
  BY DEF AtUser
<1>5. \A u \in User : lock[u] = q => Written(q, u)' = Written(q, u)
  BY <1>2, <1>3, <1>4 DEF Written
<1>6. \A p \in tx[q].found : p.by \in Req
  BY <1>1 DEF Payout
<1>7. \A p \in Inserted(q) \cup Reversed(q) : p.user \in User
  BY <1>1 DEF Inserted, Reversed, Payout, NewCredits
<1>8. \A p \in Inserted(q)' \cup Reversed(q)' : lock'[p.user] = q
  BY <1>3, <1>7 DEF Own
<1>9. \A u \in User : lock'[u] = q => dnet'[u] = Written(q, u)'
  BY <1>5 DEF Own
<1>10. pc'[q] = "commit" /\ ~Settles(q)' => lock'[call'[q].user] = q
  <2> SUFFICES ASSUME pc[q] = "commit", ~Settles(q) PROVE lock'[call[q].user] = q
    BY <1>2
  <2>1. call[q].user \in User
    BY CallTypes DEF IInv, StageOK, InFlight, Stages, Settles, Op
  <2> QED BY <2>1 DEF Own
<1>11. /\ pc'[q] = "reverse" => tx'[q].due \subseteq tx'[q].found
       /\ pc'[q] = "credit" => tx'[q].due \subseteq NewCredits(q, tx[q].won)'
  BY <1>2 DEF Own
<1>12. Op(q)' = "correct" /\ pc'[q] \in {"reverse", "rescore", "save", "credit", "commit"} =>
         /\ \A p \in tx'[q].found : pc'[p.by] = "done"
         /\ \A u \in User : IsFiniteSet(AtUser(tx'[q].found, u))
  BY <1>2, <1>6 DEF Own
<1> QED BY <1>8, <1>9, <1>10, <1>11, <1>12 DEF Own

\* Before its first wallet update a request has written nothing.
LEMMA OwnMove ==
  ASSUME IInv, NEW r \in Req, Own(r), NEW u \in User, Free(r, u),
         ~Settles(r) => pc[r] # "commit"
  PROVE  /\ dnet[u] = Written(r, u)
<1>1. CASE lock[u] = r
  BY <1>1 DEF Own
<1>2. CASE lock[u] # r
  <2>1. dnet[u] = 0
    BY <1>2 DEF Free, IInv, RowsOK
  <2>2. AtUser(Inserted(r), u) = {} /\ AtUser(Reversed(r) \cap payouts, u) = {}
    BY <1>2 DEF Own, AtUser
  <2>3. CASE Settles(r)
    BY <2>1, <2>2, <2>3, WorthEmpty DEF Written
  <2>4. CASE ~Settles(r)
    BY <2>1, <2>4 DEF Written
  <2> QED BY <2>3, <2>4
<1> QED BY <1>1, <1>2

\* The wallet a topUp inserts, raises, or a spend debits is the one it names.
LEMMA OwnInsert ==
  ASSUME IInv, NEW r \in Req, Own(r), InsertWallet(r), ~Abort(r)
  PROVE  Own(r)'
<1> DEFINE u == call[r].user
<1>1. pc[r] = "insert" /\ Op(r) = "topUp" /\ ~Settles(r) /\ u \in User
  BY CallTypes DEF InsertWallet, IInv, StageOK, InFlight, Stages, Op, Settles
<1>2. /\ lock[u] = None /\ Move(r, u, 0, 0) /\ Goto(r, "raise") /\ UNCHANGED <<db, env, call, tx>>
  BY DEF InsertWallet
<1>3. pc'[r] = "raise" /\ Op(r)' = "topUp" /\ ~Settles(r)'
  BY <1>1, <1>2 DEF Goto, IInv, TypeOK, Op, Settles
<1>4. dnet[u] = 0 /\ \A v \in User : lock[v] # r
  BY <1>1, <1>2, PoolLedgerAssumption DEF IInv, RowsOK, Holding
<1>5. \A v \in User : lock'[v] = r => dnet'[v] = 0
  BY <1>1, <1>2, <1>4 DEF Move, IInv, TypeOK
<1>6. Inserted(r)' = {} /\ Reversed(r)' = {}
  BY <1>3 DEF Inserted, Reversed, Settles
<1> QED BY <1>3, <1>5, <1>6 DEF Own, Written

\* A funding request or a bet that has moved the balance has moved it by its row's amount.
LEMMA OwnPost ==
  ASSUME IInv, NEW r \in Req, Own(r), NEW a \in Int, NEW u \in User,
         pc[r] \in {"raise", "debit"}, ~Settles(r), u = call[r].user,
         Free(r, u), Move(r, u, a, a), Goto(r, "commit"), UNCHANGED <<db, env, call, tx>>,
         a = IF Op(r) = "topUp" THEN call[r].amount ELSE -Debited(call[r])
  PROVE  Own(r)'
<1>1. pc'[r] = "commit" /\ Op(r)' = Op(r) /\ ~Settles(r)' /\ call' = call
  BY DEF Goto, IInv, TypeOK, Op, Settles
<1>2. \A v \in User : v # u => Written(r, v) = 0 /\ (lock[v] = r => dnet[v] = 0)
  BY DEF Own, Written
<1>3. dnet[u] = 0
  BY OwnMove DEF Written
<1>4. lock'[u] = r /\ \A v \in User : lock'[v] = r => dnet'[v] = IF v = u THEN a ELSE 0
  BY <1>2, <1>3 DEF Move, IInv, TypeOK
<1>5. Inserted(r)' = {} /\ Reversed(r)' = {}
  BY <1>1 DEF Inserted, Reversed, Settles
<1>6. \A v \in User : Written(r, v)' = IF v = u THEN a ELSE 0
  BY <1>1 DEF Written, Settles, Op
<1> QED BY <1>1, <1>4, <1>5, <1>6 DEF Own, Settles, Op

\* So a topUp or a spend has written its amount when it comes to its commit.
LEMMA OwnTransfer ==
  ASSUME IInv, NEW r \in Req, Own(r), RaiseBalance(r) \/ Debit(r), ~Abort(r)
  PROVE  Own(r)'
<1>1. CASE RaiseBalance(r)
  <2> DEFINE u == call[r].user  a == call[r].amount
  <2>0. pc[r] = "raise" /\ Op(r) = "topUp" /\ call[r] \in CallSet
    BY <1>1 DEF RaiseBalance, IInv, StageOK, InFlight, Stages
  <2>1. ~Settles(r) /\ u \in User /\ a \in Int
    <3>1. call[r].user \in User /\ call[r].amount \in Nat
      BY <2>0, CallTypes, PoolLedgerAssumption DEF Op
    <3> QED BY <2>0, <3>1 DEF Settles
  <2>2. Free(r, u) /\ Move(r, u, a, a) /\ Goto(r, "commit") /\ UNCHANGED <<db, env, call, tx>>
    BY <1>1 DEF RaiseBalance, Post
  <2> QED BY <2>0, <2>1, <2>2, OwnPost
<1>2. CASE Debit(r)
  <2> DEFINE u == call[r].user  a == -Debited(call[r])
  <2>1. call[r] \in CallSet /\ pc[r] = "debit" /\ Op(r) \in {"bet", "withdraw"}
    BY <1>2 DEF Debit, IInv, StageOK, InFlight, Stages
  <2>2. ~Settles(r) /\ u \in User /\ a \in Int
    <3>1. Debited(call[r]) \in Nat
      BY <2>1, CallTypes, PoolLedgerAssumption DEF Debited, Op
    <3> QED BY <2>1, <3>1, CallTypes DEF Settles, Op
  <2>3. Free(r, u) /\ Move(r, u, a, a) /\ Goto(r, "commit") /\ UNCHANGED <<db, env, call, tx>>
    BY <1>2 DEF Debit, Post
  <2> HIDE DEF a
  <2>4. a = IF Op(r) = "topUp" THEN call[r].amount ELSE -Debited(call[r])
    BY <2>1 DEF a
  <2> QED BY <2>1, <2>2, <2>3, <2>4, OwnPost
<1> QED BY <1>1, <1>2

\* A declaration that has linked its bets has credited nobody yet.
LEMMA OwnLink ==
  ASSUME IInv, NEW r \in Req, Own(r), LinkBets(r), ~Abort(r)
  PROVE  Own(r)'
<1> DEFINE wins == Winners(Stakes(tx[r].pending), call[r].number)
           new == NewCredits(r, wins)
<1>1. pc[r] = "link" /\ Op(r) = "declare" /\ InFlight(r)
  BY DEF LinkBets, IInv, StageOK, InFlight, Stages
<1>2. /\ CastOK(wins) /\ tx' = [tx EXCEPT ![r].won = wins, ![r].due = new]
      /\ Goto(r, CreditStage(new)) /\ UNCHANGED <<db, env, call, rows>>
  BY DEF LinkBets
<1>3. wins \in [User -> Entry] /\ new \subseteq Payout
  BY <1>1, <1>2, RefType, WinnersType, CreditsType, TxFields
<1>4. new = NewCredits(r, wins)
  OBVIOUS
<1> HIDE DEF wins, new
<1>5. tx'[r].won = wins /\ tx'[r].due = new
  <2>1. tx \in [Req -> Tx] /\ new \in SUBSET Payout
    BY <1>3 DEF IInv, TypeOK
  <2>2. tx' = [tx EXCEPT ![r].won = wins, ![r].due = new]
    BY <1>2
  <2>3. tx'[r].pending = tx[r].pending /\ tx'[r].won = wins
    BY <1>3, <2>1, <2>2, TxWon
  <2>4. \A x : x \in tx'[r].due <=> x \in new
    BY <1>3, <2>1, <2>2, TxWon
  <2> QED BY <2>3, <2>4
<1>6. NewCredits(r, tx[r].won)' = new
  BY <1>2, <1>4, <1>5 DEF NewCredits, Ref, Op
<1>7. /\ pc'[r] \in {"credit", "commit"} /\ (pc'[r] = "commit" => new = {})
      /\ Op(r)' = "declare" /\ Settles(r)'
  BY <1>1, <1>2 DEF Goto, CreditStage, IInv, TypeOK, Op, Settles
<1>8. Inserted(r)' = {} /\ Reversed(r)' = {}
  BY <1>5, <1>6, <1>7 DEF Inserted, Reversed
<1>9. \A u \in User : lock'[u] # r
  BY <1>1, <1>2, PoolLedgerAssumption DEF IInv, RowsOK, Holding, rows
<1> QED BY <1>5, <1>6, <1>7, <1>8, <1>9 DEF Own

\* A correction that has found the rows to reverse has reversed none.
LEMMA OwnFind ==
  ASSUME IInv, LiveOK, NEW r \in Req, Own(r), FindCredits(r)
  PROVE  Own(r)'
<1> DEFINE found == {p \in payouts : p.ref = Ref(r)}
<1>1. pc[r] = "credits" /\ Op(r) = "correct"
  BY DEF FindCredits, IInv, StageOK, InFlight, Stages
<1>2. /\ tx' = [tx EXCEPT ![r].found = found, ![r].due = found]
      /\ Goto(r, IF found = {} THEN "rescore" ELSE "reverse")
      /\ UNCHANGED <<db, env, call, rows>>
  BY DEF FindCredits
<1>3. /\ found \in SUBSET Payout /\ \A p \in found : pc[p.by] = "done" /\ p.by \in Req
      /\ \A u \in User : AtUser(found, u) \in SUBSET AtUser(payouts, u)
  BY DEF IInv, TypeOK, LiveOK, AtUser, Payout
<1>4. \A u \in User : IsFiniteSet(AtUser(found, u))
  BY <1>3, FS_Subset DEF LiveOK
<1> HIDE DEF found
<1>5. tx'[r].found = found /\ tx'[r].due = found
  BY <1>2, <1>3, TxFound DEF IInv, TypeOK
<1>6. /\ pc'[r] \in {"rescore", "reverse"} /\ (pc'[r] = "rescore" => found = {})
      /\ Op(r)' = "correct" /\ Settles(r)' /\ \A q \in Req : pc[q] = "done" => pc'[q] = "done"
  BY <1>1, <1>2 DEF Goto, IInv, TypeOK, Op, Settles
<1>7. Inserted(r)' = {} /\ Reversed(r)' = {}
  BY <1>5, <1>6 DEF Inserted, Reversed
<1>8. \A u \in User : lock'[u] # r
  BY <1>1, <1>2, PoolLedgerAssumption DEF IInv, RowsOK, Holding, rows
<1> QED BY <1>3, <1>4, <1>5, <1>6, <1>7, <1>8 DEF Own

\* A credited winner's row is written under the lock of his wallet.
LEMMA OwnCredit ==
  ASSUME IInv, NEW r \in Req, Own(r), CreditWinner(r), ~Abort(r)
  PROVE  Own(r)'
<1> DEFINE D == tx[r].due
           C == NewCredits(r, tx[r].won)
<1>1. pc[r] = "credit" /\ InFlight(r) /\ Settles(r)
  BY DEF CreditWinner, IInv, StageOK, InFlight, Stages, Settles
<1>2. PICK p \in NextDue(r) :
        /\ Free(r, p.user) /\ Move(r, p.user, p.amount, p.amount)
        /\ tx' = [tx EXCEPT ![r].due = D \ {p}]
        /\ Goto(r, CreditStage(D \ {p})) /\ UNCHANGED <<db, env, call>>
  BY DEF CreditWinner, Post
<1>3. D \subseteq C /\ p \in D /\ D \ {p} \in SUBSET Payout /\ p \in Payout
  BY <1>1, <1>2, TxFields DEF Own, NextDue
<1>4. /\ tx'[r].won = tx[r].won /\ tx'[r].found = tx[r].found
      /\ \A x : x \in tx'[r].due <=> x \in D \ {p}
  <2>1. tx \in [Req -> Tx] /\ tx' = [tx EXCEPT ![r].due = D \ {p}]
    BY <1>2 DEF IInv, TypeOK
  <2> HIDE DEF D
  <2> QED BY <1>3, <2>1, TxDue
<1>5. Op(r)' = Op(r) /\ Settles(r)' /\ C' = C
  BY <1>1, <1>2, <1>4 DEF Op, Settles, NewCredits, Ref
<1>6. pc'[r] = CreditStage(D \ {p}) /\ \A q \in Req : q # r => pc'[q] = pc[q]
  BY <1>2 DEF Goto, IInv, TypeOK
<1>7. Inserted(r) = C \ D /\ Inserted(r)' = (C \ D) \cup {p}
  BY <1>1, <1>3, <1>4, <1>5, <1>6 DEF Inserted, CreditStage
<1>8. Reversed(r)' = Reversed(r)
  BY <1>1, <1>4, <1>5, <1>6 DEF Reversed, CreditStage
<1>9. dnet[p.user] = Written(r, p.user) /\ p.user \in User
  BY <1>1, <1>2, <1>3, OwnMove DEF Payout
<1>10. /\ lock'[p.user] = r /\ dnet'[p.user] = dnet[p.user] + p.amount
       /\ \A u \in User : u # p.user => lock'[u] = lock[u] /\ dnet'[u] = dnet[u]
  BY <1>2, <1>9 DEF Move, IInv, TypeOK
<1>11. \A u \in User : u # p.user => Written(r, u)' = Written(r, u)
  <2>1. \A u \in User : u # p.user => AtUser(Inserted(r)', u) = AtUser(Inserted(r), u)
    BY <1>7 DEF AtUser
  <2>2. payouts' = payouts
    BY <1>2 DEF db
  <2> QED BY <1>1, <1>5, <1>8, <2>1, <2>2 DEF Written
<1>12. Written(r, p.user)' = Written(r, p.user) + p.amount
  <2> DEFINE A == AtUser(C \ D, p.user)  B == AtUser(Reversed(r) \cap payouts, p.user)
  <2>1. AtUser(Inserted(r)', p.user) = A \cup {p} /\ p \notin A
    BY <1>3, <1>7 DEF AtUser
  <2>2. A \subseteq Payout /\ IsFiniteSet(A)
    <3>1. C \subseteq Payout
      BY <1>1, RefType, TxFields, CreditsType DEF Settles
    <3>2. A \subseteq Payout
      BY <3>1 DEF AtUser
    <3> QED BY <1>9, <3>2, CreditsFinite
  <2>3. Worth(A) \in Int /\ Worth(A \cup {p}) = Worth(A) + p.amount
    <3>1. IsFiniteSet({p}) /\ {p} \subseteq Payout /\ A \cap {p} = {}
      BY <1>3, <2>1, FS_Singleton
    <3>2. Worth(A) \in Int /\ Worth(A \cup {p}) = Worth(A) + Worth({p})
      <4> HIDE DEF A
      <4> QED BY <2>2, <3>1, WorthUnion
    <3> QED BY <1>3, <3>2, WorthOne
  <2>4. Worth(B) \in Int /\ p.amount \in Int
    <3>1. IsFiniteSet(B) /\ B \subseteq Payout
      <4>1. Op(r) = "correct" => IsFiniteSet(AtUser(tx[r].found, p.user)) /\ Reversed(r) = tx[r].found
        BY <1>1, <1>9 DEF Own, Reversed
      <4>2. Op(r) # "correct" => Reversed(r) = {}
        BY <1>1 DEF Reversed
      <4>3. B \subseteq AtUser(Reversed(r), p.user)
        BY DEF AtUser
      <4>4. IsFiniteSet(AtUser(Reversed(r), p.user))
        <5>1. AtUser({}, p.user) = {}
          BY DEF AtUser
        <5> QED BY <4>1, <4>2, <5>1, FS_EmptySet
      <4>5. B \subseteq Payout
        BY DEF AtUser, IInv, TypeOK
      <4> QED BY <4>3, <4>4, <4>5, FS_Subset
    <3>2. Worth(B) \in Int
      <4> HIDE DEF B
      <4> QED BY <3>1, WorthMinus
    <3> QED BY <1>3, <3>2 DEF Payout
  <2>5. /\ Written(r, p.user) = Worth(A) - Worth(B)
        /\ Written(r, p.user)' = Worth(A \cup {p}) - Worth(B)
    BY <1>1, <1>2, <1>5, <1>7, <1>8, <2>1 DEF Written, db
  <2> HIDE DEF A, B
  <2> QED BY <2>3, <2>4, <2>5
<1>13. \A u \in User : lock'[u] = r => dnet'[u] = Written(r, u)'
  BY <1>9, <1>10, <1>11, <1>12 DEF Own
<1>14. \A x \in Inserted(r)' \cup Reversed(r)' : lock'[x.user] = r
  <2>1. \A x \in Inserted(r) \cup Reversed(r) : lock[x.user] = r /\ x.user \in User
    <3>1. C \subseteq Payout /\ tx[r].found \subseteq Payout
      BY <1>1, RefType, TxFields, CreditsType DEF Settles
    <3> QED BY <1>1, <3>1 DEF Own, Inserted, Reversed, Payout
  <2> QED BY <1>7, <1>8, <1>10, <2>1
<1>15. /\ pc'[r] \in {"credit", "commit"} /\ pc'[r] # "reverse"
       /\ pc'[r] = "credit" => tx'[r].due \subseteq C
  BY <1>3, <1>4, <1>6 DEF CreditStage
<1>16. Op(r) = "correct" => /\ \A x \in tx'[r].found : pc'[x.by] = "done"
                           /\ \A u \in User : IsFiniteSet(AtUser(tx'[r].found, u))
  <2>1. tx[r].found \subseteq Payout
    BY TxFields
  <2>2. \A x \in tx[r].found : x.by \in Req
    BY <2>1 DEF Payout
  <2> QED BY <1>1, <1>4, <1>6, <2>2 DEF Own
<1> QED BY <1>5, <1>13, <1>14, <1>15, <1>16 DEF Own

\* So is the soft delete of a credit, worth what the row was if it is live.
LEMMA OwnReverse ==
  ASSUME IInv, NEW r \in Req, Own(r), ReverseCredit(r), ~Abort(r)
  PROVE  Own(r)'
<1> DEFINE D == tx[r].due
           F == tx[r].found
<1>1. pc[r] = "reverse" /\ Op(r) = "correct" /\ Settles(r)
  BY DEF ReverseCredit, IInv, StageOK, Settles
<1>2. PICK p \in D :
        /\ Free(r, p.user) /\ Move(r, p.user, -p.amount, -SoftDeleted(p))
        /\ tx' = [tx EXCEPT ![r].due = D \ {p}]
        /\ Goto(r, IF D = {p} THEN "rescore" ELSE "reverse") /\ UNCHANGED <<db, env, call>>
  BY DEF ReverseCredit
<1>3. D \subseteq F /\ F \subseteq Payout /\ D \ {p} \in SUBSET Payout /\ p \in Payout
  BY <1>1, <1>2, TxFields DEF Own
<1>4. /\ tx'[r].won = tx[r].won /\ tx'[r].found = F
      /\ \A x : x \in tx'[r].due <=> x \in D \ {p}
  <2>1. tx \in [Req -> Tx] /\ tx' = [tx EXCEPT ![r].due = D \ {p}]
    BY <1>2 DEF IInv, TypeOK
  <2> HIDE DEF D
  <2> QED BY <1>3, <2>1, TxDue
<1>5. Op(r)' = "correct" /\ Settles(r)' /\ payouts' = payouts
  BY <1>1, <1>2 DEF Op, Settles, db
<1>6. /\ pc'[r] = IF D = {p} THEN "rescore" ELSE "reverse"
      /\ \A q \in Req : q # r => pc'[q] = pc[q]
  BY <1>2 DEF Goto, IInv, TypeOK
<1>7. Reversed(r) = F \ D /\ Reversed(r)' = (F \ D) \cup {p}
  <2>1. D = {p} => F = (F \ D) \cup {p}
    BY <1>3
  <2>2. F \ tx'[r].due = (F \ D) \cup {p}
    BY <1>2, <1>3, <1>4
  <2> QED BY <1>1, <1>4, <1>5, <1>6, <2>1, <2>2 DEF Reversed
<1>8. Inserted(r) = {} /\ Inserted(r)' = {}
  BY <1>1, <1>6 DEF Inserted
<1>9. dnet[p.user] = Written(r, p.user) /\ p.user \in User
  BY <1>1, <1>2, <1>3, OwnMove DEF Payout
<1>10. /\ lock'[p.user] = r /\ dnet'[p.user] = dnet[p.user] + -SoftDeleted(p)
       /\ \A u \in User : u # p.user => lock'[u] = lock[u] /\ dnet'[u] = dnet[u]
  BY <1>2, <1>9 DEF Move, IInv, TypeOK
<1>11. \A u \in User : u # p.user => Written(r, u)' = Written(r, u)
  <2>1. \A u \in User : u # p.user =>
          AtUser(Reversed(r)' \cap payouts', u) = AtUser(Reversed(r) \cap payouts, u)
    BY <1>5, <1>7 DEF AtUser
  <2> QED BY <1>1, <1>5, <1>8, <2>1 DEF Written
<1>12. Written(r, p.user)' = Written(r, p.user) + -SoftDeleted(p)
  <2> DEFINE A == AtUser((F \ D) \cap payouts, p.user)
             B == AtUser((F \ D) \cap payouts, p.user) \cup ({p} \cap payouts)
  <2>1. /\ AtUser(Reversed(r) \cap payouts, p.user) = A
        /\ AtUser(Reversed(r)' \cap payouts', p.user) = B
    BY <1>5, <1>7 DEF AtUser
  <2>2. A \subseteq Payout /\ IsFiniteSet(A) /\ p \notin A
    <3>1. IsFiniteSet(AtUser(F, p.user)) /\ A \subseteq AtUser(F, p.user)
      BY <1>1, <1>9 DEF Own, AtUser
    <3>2. A \subseteq Payout /\ p \notin A
      BY <1>2, <1>3 DEF AtUser
    <3> HIDE DEF A
    <3> QED BY <3>1, <3>2, FS_Subset
  <2>3. /\ AtUser(Inserted(r), p.user) = {} /\ AtUser(Inserted(r)', p.user) = {}
    BY <1>8 DEF AtUser
  <2>4. Written(r, p.user) = 0 - Worth(A) /\ Written(r, p.user)' = 0 - Worth(B)
    BY <1>1, <1>5, <2>1, <2>3, WorthEmpty DEF Written
  <2>5. Worth(A) \in Int /\ Worth(B) = Worth(A) + SoftDeleted(p) /\ SoftDeleted(p) \in Int
    <3>1. CASE p \in payouts
      <4>1. IsFiniteSet({p}) /\ {p} \subseteq Payout /\ A \cap {p} = {} /\ B = A \cup {p}
        BY <1>3, <2>2, <3>1, FS_Singleton
      <4>2. Worth(A) \in Int /\ Worth(A \cup {p}) = Worth(A) + Worth({p})
        <5> HIDE DEF A
        <5> QED BY <2>2, <4>1, WorthUnion
      <4>3. SoftDeleted(p) = p.amount /\ p.amount \in Int
        BY <1>3, <3>1 DEF SoftDeleted, Payout
      <4> QED BY <1>3, <4>1, <4>2, <4>3, WorthOne
    <3>2. CASE p \notin payouts
      <4>1. B = A /\ SoftDeleted(p) = 0
        BY <3>2 DEF SoftDeleted
      <4>2. Worth(A) \in Int
        <5> HIDE DEF A
        <5> QED BY <2>2, WorthMinus
      <4>3. Worth(B) = Worth(A)
        BY <4>1
      <4> HIDE DEF A, B
      <4> QED BY <4>1, <4>2, <4>3
    <3> QED BY <3>1, <3>2
  <2> HIDE DEF A, B
  <2> QED BY <2>4, <2>5
<1>13. \A u \in User : lock'[u] = r => dnet'[u] = Written(r, u)'
  BY <1>9, <1>10, <1>11, <1>12 DEF Own
<1>14. \A x \in Inserted(r)' \cup Reversed(r)' : lock'[x.user] = r
  <2>1. \A x \in F \ D : lock[x.user] = r /\ x.user \in User
    BY <1>3, <1>7 DEF Own, Payout
  <2> QED BY <1>7, <1>8, <1>10, <2>1
<1>15. pc'[r] = "reverse" => tx'[r].due \subseteq tx'[r].found
  BY <1>3, <1>4
<1>16. /\ \A x \in tx'[r].found : pc'[x.by] = "done"
       /\ \A u \in User : IsFiniteSet(AtUser(tx'[r].found, u))
  <2>1. \A x \in F : x.by \in Req
    BY <1>3 DEF Payout
  <2> QED BY <1>1, <1>4, <1>6, <2>1 DEF Own
<1> QED BY <1>5, <1>6, <1>13, <1>14, <1>15, <1>16 DEF Own

\* Rescoring and saving a correction write no ledger row.
LEMMA OwnRescore ==
  ASSUME IInv, NEW r \in Req, Own(r), Rescore(r) \/ SaveResult(r), ~Abort(r)
  PROVE  Own(r)'
<1>1. pc[r] \in {"rescore", "save"} /\ InFlight(r) /\ Op(r) = "correct" /\ Settles(r)
  BY DEF Rescore, SaveResult, IInv, StageOK, InFlight, Stages, Settles
<1>2. tx \in [Req -> Tx] /\ Ref(r) \in Req /\ tx[r].found \subseteq Payout
  BY <1>1, RefType, TxFields DEF IInv, TypeOK
<1>3. /\ tx'[r].found = tx[r].found /\ pc'[r] \in {"save", "credit", "commit"}
      /\ pc'[r] = "credit" => \A x : x \in tx'[r].due <=> x \in NewCredits(r, tx'[r].won)
      /\ pc'[r] = "commit" => NewCredits(r, tx'[r].won) = {}
      /\ UNCHANGED <<db, call, rows>>
  <2>1. CASE Rescore(r)
    <3> DEFINE w == Winners(Stakes(Linked(Ref(r))), call[r].number)
    <3>1. /\ CastOK(w) /\ Goto(r, "save") /\ UNCHANGED <<db, call, rows>>
          /\ tx' = [tx EXCEPT ![r].won = w, ![r].loaded = results[Ref(r)]]
      BY <2>1 DEF Rescore
    <3>2. w \in [User -> Entry] /\ results[Ref(r)] \in Result \cup {None}
      <4>1. Linked(Ref(r)) \in SUBSET Req
        BY DEF Linked
      <4> QED BY <1>1, <1>2, <3>1, <4>1, RefType, WinnersType DEF IInv, TypeOK
    <3> HIDE DEF w
    <3>3. tx'[r].pending = tx[r].pending /\ tx'[r].found = tx[r].found
      BY <1>2, <3>1, <3>2, TxLoaded
    <3>4. pc'[r] = "save"
      BY <3>1 DEF Goto, IInv, TypeOK
    <3> QED BY <3>1, <3>3, <3>4
  <2>2. CASE SaveResult(r)
    <3> DEFINE n == NewCredits(r, tx[r].won)
    <3>1. /\ Goto(r, CreditStage(n)) /\ UNCHANGED <<db, call, rows>>
          /\ tx' = [tx EXCEPT ![r].due = n]
      BY <2>2 DEF SaveResult
    <3>2. n \in SUBSET Payout
      BY <1>2, TxFields, CreditsType
    <3> HIDE DEF n
    <3>3. tx'[r].pending = tx[r].pending /\ tx'[r].found = tx[r].found /\ tx'[r].won = tx[r].won
      BY <1>2, <3>1, <3>2, TxDue
    <3>4. \A x : x \in tx'[r].due <=> x \in n
      BY <1>2, <3>1, <3>2, TxDue
    <3>5. pc'[r] = CreditStage(n)
      BY <3>1 DEF Goto, IInv, TypeOK
    <3>6. NewCredits(r, tx'[r].won) = n
      BY <3>3 DEF n
    <3> QED BY <3>1, <3>3, <3>4, <3>5, <3>6 DEF CreditStage
  <2> QED BY <2>1, <2>2
<1>4. /\ Op(r)' = "correct" /\ Settles(r)' /\ payouts' = payouts
      /\ NewCredits(r, tx[r].won)' = NewCredits(r, tx'[r].won)
  BY <1>1, <1>3 DEF Op, Settles, db, NewCredits, Ref
<1>5. Reversed(r) = tx[r].found /\ Reversed(r)' = tx[r].found
  BY <1>1, <1>3, <1>4 DEF Reversed
<1>6. Inserted(r) = {} /\ Inserted(r)' = {}
  BY <1>1, <1>3, <1>4 DEF Inserted
<1>7. \A u : Written(r, u)' = Written(r, u)
  BY <1>1, <1>4, <1>5, <1>6 DEF Written
<1>8. lock' = lock /\ dnet' = dnet
  BY <1>3 DEF rows
<1>9. \A q \in Req : pc[q] = "done" => pc'[q] = "done"
  BY <1>1 DEF Rescore, SaveResult, Abort, Goto, IInv, TypeOK
<1>10. \A x \in tx[r].found : x.by \in Req
  BY <1>2 DEF Payout
<1> QED BY <1>1, <1>3, <1>4, <1>5, <1>6, <1>7, <1>8, <1>9, <1>10 DEF Own

\* A bet that is let in has written nothing.
LEMMA OwnHours ==
  ASSUME IInv, NEW r \in Req, Own(r), AssertBettingOpen(r)
  PROVE  InFlight(r)' => Own(r)'
<1> SUFFICES ASSUME InFlight(r)' PROVE Own(r)'
  OBVIOUS
<1>1. pc[r] = "hours" /\ Op(r) = "bet" /\ UNCHANGED <<db, call, tx, rows>>
  BY DEF AssertBettingOpen, IInv, StageOK
<1>2. pc'[r] = "debit" /\ Op(r)' = "bet" /\ ~Settles(r)'
  BY <1>1 DEF AssertBettingOpen, Goto, IInv, TypeOK, InFlight, Stages, Op, Settles
<1>3. \A u \in User : lock'[u] # r
  BY <1>1, PoolLedgerAssumption DEF IInv, RowsOK, Holding, rows
<1>4. Inserted(r)' = {} /\ Reversed(r)' = {}
  BY <1>2 DEF Inserted, Reversed
<1> QED BY <1>2, <1>3, <1>4 DEF Own

\* A request that starts has written nothing.
LEMMA OwnBegin ==
  ASSUME IInv, NEW r \in Req, Arrive(r)
  PROVE  InFlight(r)' => Own(r)'
<1> SUFFICES ASSUME InFlight(r)' PROVE Own(r)'
  OBVIOUS
<1>1. PICK c \in Calls[r], s \in Stages \cup {"done", "failed"} :
        /\ Begin(r, c, s) /\ UNCHANGED <<db, rows>>
        /\ s \in {"raise", "insert", "debit", "hours", "link", "credits", "done", "failed"}
  BY DEF Arrive, TopUp, Withdraw, PlaceBet, Declare, UpdateResult, SetLockStatus, UpdateSubType,
         db, Stages
<1>2. /\ pc'[r] = s /\ s \in {"raise", "insert", "debit", "hours", "link", "credits"}
      /\ \A u \in User : lock'[u] # r
  BY <1>1, BeginStep DEF InFlight, Stages, rows
<1>3. Inserted(r)' = {} /\ Reversed(r)' = {}
  BY <1>2 DEF Inserted, Reversed
<1> QED BY <1>2, <1>3 DEF Own

\* Locks and uncommitted ledger rows of the requests that do not move.
LEMMA OthersNet ==
  ASSUME IInv, NEW r \in Req, NEW q \in Req, q # r, Works(r)
  PROVE  \A u \in User : /\ lock[u] = q => lock'[u] = q /\ dnet'[u] = dnet[u]
                         /\ lock'[u] = q => lock[u] = q
<1>0. q # None
  BY PoolLedgerAssumption
<1>1. CASE UNCHANGED rows
  BY <1>1 DEF rows
<1>2. CASE Release(r)
  BY <1>0, <1>2, ReleaseRows
<1>3. ASSUME NEW u \in User, NEW d, NEW n, Free(r, u) \/ lock[u] = None, Move(r, u, d, n)
      PROVE  \A v \in User : /\ lock[v] = q => lock'[v] = q /\ dnet'[v] = dnet[v]
                             /\ lock'[v] = q => lock[v] = q
  BY <1>0, <1>3 DEF Move, Free, IInv, TypeOK
<1>4. CASE Fail(r) \/ DeadlockVictim(r)
  BY <1>2, <1>4 DEF Fail, DeadlockVictim, Abort
<1>5. CASE InsertWallet(r)
  <2>1. call[r].user \in User
    BY <1>5, CallTypes DEF InsertWallet, IInv, StageOK, InFlight, Stages, Op
  <2> QED BY <1>2, <1>3, <1>5, <2>1 DEF InsertWallet, Abort
<1>6. CASE RaiseBalance(r) \/ Debit(r)
  <2>1. call[r].user \in User
    BY <1>6, CallTypes DEF RaiseBalance, Debit, IInv, StageOK, InFlight, Stages, Op
  <2> QED BY <1>2, <1>3, <1>6, <2>1 DEF RaiseBalance, Debit, Post, Abort
<1>7. CASE CreditWinner(r) \/ ReverseCredit(r)
  <2>1. \A p \in tx[r].due : p.user \in User
    BY TxFields DEF Payout
  <2> QED BY <1>2, <1>3, <1>7, <2>1 DEF CreditWinner, ReverseCredit, NextDue, Post, Abort
<1>8. CASE CommitTransfer(r) \/ CommitBet(r) \/ CommitDeclare(r) \/ CommitCorrection(r)
  BY <1>2, <1>8 DEF CommitTransfer, CommitBet, CommitDeclare, CommitCorrection, Publish
<1>9. CASE AssertBettingOpen(r) \/ LinkBets(r) \/ FindCredits(r) \/ Rescore(r) \/ SaveResult(r)
  BY <1>1, <1>2, <1>9 DEF AssertBettingOpen, LinkBets, FindCredits, Rescore, SaveResult, Abort
<1> QED BY <1>4, <1>5, <1>6, <1>7, <1>8, <1>9 DEF Works, Proceed

\* Rows another request has reversed under its locks stay live until it commits.
LEMMA OthersPayouts ==
  ASSUME IInv, NEW r \in Req, Own(r), NEW q \in Req, q # r, Own(q), Works(r)
  PROVE  \A p \in Reversed(q) : lock[p.user] = q => (p \in payouts' <=> p \in payouts)
<1> SUFFICES ASSUME NEW p \in Reversed(q), lock[p.user] = q PROVE p \in payouts' <=> p \in payouts
  OBVIOUS
<1>1. p \in tx[q].found /\ pc[p.by] = "done"
  BY DEF Own, Reversed, IInv, StageOK
<1>2. ASSUME pc[r] = "commit" PROVE \A won : p \notin NewCredits(r, won)
  BY <1>1, <1>2 DEF NewCredits
<1>3. CASE UNCHANGED db
  BY <1>3 DEF db
<1>4. CASE CommitTransfer(r) \/ CommitBet(r)
  BY <1>4 DEF CommitTransfer, CommitBet
<1>5. CASE CommitDeclare(r)
  BY <1>2, <1>5 DEF CommitDeclare
<1>6. CASE CommitCorrection(r)
  <2>1. pc[r] = "commit" /\ Op(r) = "correct"
        /\ payouts' = (payouts \ tx[r].found) \cup NewCredits(r, tx[r].won)
    BY <1>6 DEF CommitCorrection
  <2>2. p \notin tx[r].found
    BY <2>1 DEF Own, Reversed
  <2> QED BY <1>2, <2>1, <2>2
<1> QED BY <1>3, <1>4, <1>5, <1>6, ProceedStep DEF Works

\* Every step keeps what requests in flight have written.
LEMMA OwnNext ==
  ASSUME IInv, LiveOK, OwnOK, [Next]_vars
  PROVE  OwnOK'
<1>1. ASSUME NEW r \in Req, Arrive(r) PROVE OwnOK'
  <2> SUFFICES ASSUME NEW q \in Req, InFlight(q)' PROVE Own(q)'
    BY DEF OwnOK
  <2>1. CASE q = r
    BY <1>1, <2>1, OwnBegin
  <2>2. CASE q # r
    <3>1. PICK c \in Calls[r], s \in Stages \cup {"done", "failed"} :
            Begin(r, c, s) /\ UNCHANGED <<db, rows>> /\ tx'[q] = tx[q]
      BY <1>1, <2>2, ArriveStep
    <3>2. pc'[q] = pc[q] /\ call'[q] = call[q] /\ \A t \in Req : pc[t] = "done" => pc'[t] = "done"
      BY <2>2, <3>1, BeginStep
    <3>3. Own(q)
      BY <3>2 DEF OwnOK, InFlight
    <3> QED BY <3>1, <3>2, <3>3, OwnOther DEF db, rows
  <2> QED BY <2>1, <2>2
<1>2. ASSUME NEW r \in Req, Works(r) PROVE OwnOK'
  <2> SUFFICES ASSUME NEW q \in Req, InFlight(q)' PROVE Own(q)'
    BY DEF OwnOK
  <2>1. InFlight(r) /\ Own(r) /\ call' = call
    BY <1>2, ProceedStep DEF Works, OwnOK
  <2>2. CASE q = r
    <3>1. ~Abort(r) /\ ~Publish(r)
      BY <2>2 DEF Abort, Publish, Goto, InFlight, Stages, IInv, TypeOK
    <3> QED BY <1>2, <2>1, <2>2, <3>1, OwnInsert, OwnTransfer, OwnLink, OwnFind, OwnCredit, OwnReverse,
            OwnRescore, OwnHours DEF Works, Proceed, Fail, DeadlockVictim, CommitTransfer,
            CommitBet, CommitDeclare, CommitCorrection
  <2>3. CASE q # r
    <3>1. pc'[q] = pc[q] /\ tx'[q] = tx[q] /\ \A t \in Req : t # r => pc'[t] = pc[t]
      BY <1>2, <2>3, ProceedStep DEF Works
    <3>2. Own(q) /\ \A t \in Req : pc[t] = "done" => pc'[t] = "done"
      BY <2>1, <3>1 DEF OwnOK, InFlight, Stages
    <3> QED BY <1>2, <2>1, <2>3, <3>1, <3>2, OwnOther, OthersNet, OthersPayouts
  <2> QED BY <2>2, <2>3
<1>3. CASE Tick \/ UNCHANGED vars
  <2> SUFFICES ASSUME NEW q \in Req, InFlight(q)' PROVE Own(q)'
    BY DEF OwnOK
  <2>1. UNCHANGED <<db, pc, call, tx, rows>>
    BY <1>3 DEF Tick, vars
  <2>2. Own(q)
    BY <2>1 DEF OwnOK, InFlight
  <2> QED BY <2>1, <2>2, OwnOther DEF db, rows
<1> QED BY <1>1, <1>2, <1>3 DEF Next, Works

-----------------------------------------------------------------------------
(* What commits publish *)

\* A commit adds to each user's ledger what the request has written to it.
LEMMA PublishNet ==
  ASSUME IInv, NEW r \in Req, Own(r), pc[r] = "commit", Publish(r), NEW u \in User
  PROVE  net'[u] = net[u] + Written(r, u)
<1>1. CASE lock[u] = r
  BY <1>1 DEF Own, Publish
<1>2. CASE lock[u] # r
  <2>1. AtUser(Inserted(r), u) = {} /\ AtUser(Reversed(r) \cap payouts, u) = {}
    BY <1>2 DEF Own, AtUser
  <2>2. Written(r, u) = 0
    <3>1. CASE Settles(r)
      <4>1. Worth(AtUser(Inserted(r), u)) = Worth({})
        BY <2>1
      <4>2. Worth(AtUser(Reversed(r) \cap payouts, u)) = Worth({})
        BY <2>1
      <4> QED BY <3>1, <4>1, <4>2, WorthEmpty DEF Written
    <3>2. CASE ~Settles(r)
      BY <1>2, <3>2 DEF Own, Written
    <3> QED BY <3>1, <3>2
  <2>3. net'[u] = net[u] /\ net[u] \in Int
    BY <1>2 DEF Publish, IInv, TypeOK
  <2> QED BY <2>2, <2>3
<1> QED BY <1>1, <1>2

\* Amounts are numbers.
LEMMA AmountsInt == Amount \subseteq Int
<1>1. Amount \subseteq Nat \ {0}
  BY PoolLedgerAssumption
<1> QED BY <1>1

\* The transfers of a user are finitely many, and their amounts are numbers.
LEMMA TransfersFinite ==
  ASSUME DoneOK, NEW u \in User, NEW o \in {"topUp", "withdraw"}
  PROVE  /\ IsFiniteSet(TransfersOf(u, o)) /\ TransfersOf(u, o) \subseteq Req
         /\ \A r \in TransfersOf(u, o) : call[r].amount \in Int
         /\ Moved(u, o) \in Int
<1>1. TransfersOf(u, o) \subseteq Req /\ IsFiniteSet(TransfersOf(u, o))
  BY PoolLedgerAssumption, FS_Subset DEF TransfersOf
<1>2. \A r \in TransfersOf(u, o) : call[r].amount \in Int
  <2> TAKE r \in TransfersOf(u, o)
  <2>1. call[r] \in CallSet /\ call[r].op \in {"topUp", "withdraw"}
    BY DEF TransfersOf, DoneOK, Op
  <2>2. call[r].amount \in Amount
    BY <2>1, CallTypes
  <2> QED BY <2>2, AmountsInt
<1> DEFINE f == [r \in TransfersOf(u, o) |-> call[r].amount]
<1>3. \A r \in TransfersOf(u, o) : f[r] \in Int
  BY <1>2
<1>4. Moved(u, o) = SumFunctionOnSet(f, TransfersOf(u, o))
  BY DEF Moved
<1> HIDE DEF f
<1> QED BY <1>1, <1>2, <1>3, <1>4, SumInt

\* A step that ends no transfer leaves what was moved.
LEMMA MovedSame ==
  ASSUME NEW u, NEW o,
         \A r \in Req : pc[r] = "done" => pc'[r] = "done" /\ call'[r] = call[r],
         \A r \in Req : pc'[r] = "done" /\ pc[r] # "done" => Op(r)' # o
  PROVE  Moved(u, o)' = Moved(u, o)
<1> DEFINE T == TransfersOf(u, o)
<1>1. TransfersOf(u, o)' = T
  BY DEF TransfersOf, Op
<1>2. [r \in T |-> call'[r].amount] = [r \in T |-> call[r].amount]
  BY DEF TransfersOf
<1> HIDE DEF T
<1>3. Moved(u, o)' = SumFunctionOnSet([r \in T |-> call'[r].amount], T)
  BY <1>1 DEF Moved
<1> QED BY <1>2, <1>3 DEF Moved, T

\* The commit of a transfer adds its amount to what was moved.
LEMMA MovedMore ==
  ASSUME IInv, DoneOK, NEW r \in Req, CommitTransfer(r), NEW u \in User,
         NEW o \in {"topUp", "withdraw"}
  PROVE  Moved(u, o)' = Moved(u, o) + IF o = Op(r) /\ u = call[r].user THEN call[r].amount ELSE 0
<1>1. /\ pc[r] = "commit" /\ pc'[r] = "done" /\ call' = call
      /\ \A q \in Req : q # r => pc'[q] = pc[q]
  BY PublishStep DEF CommitTransfer
<1>2. CASE o = Op(r) /\ u = call[r].user
  <2> DEFINE T == TransfersOf(u, o)
             f == [q \in T \cup {r} |-> call[q].amount]
  <2>1. TransfersOf(u, o)' = T \cup {r} /\ r \notin T
    BY <1>1, <1>2 DEF TransfersOf, Op
  <2>2. \A q \in T \cup {r} : f[q] \in Int
    <3>0. call[r] \in CallSet /\ call[r].op \in {"topUp", "withdraw"}
      BY <1>1 DEF CommitTransfer, IInv, StageOK, InFlight, Stages, Op
    <3>1. call[r].amount \in Amount
      BY <3>0, CallTypes
    <3>2. call[r].amount \in Int
      BY <3>1, AmountsInt
    <3> QED BY <3>2, TransfersFinite
  <2>3. Moved(u, o)' = SumFunctionOnSet(f, T \cup {r})
    <3>1. f = [q \in T \cup {r} |-> call'[q].amount]
      BY <1>1
    <3> HIDE DEF f, T
    <3> QED BY <2>1, <3>1 DEF Moved
  <2>4. IsFiniteSet(T) /\ Moved(u, o) \in Int
    BY TransfersFinite
  <2>5. Moved(u, o) = SumFunctionOnSet(f, T)
    <3> DEFINE g == [q \in T |-> call[q].amount]
    <3>1. \A q \in T : g[q] = f[q]
      OBVIOUS
    <3>2. Moved(u, o) = SumFunctionOnSet(g, T)
      BY DEF Moved
    <3> HIDE DEF f, g, T
    <3> QED BY <2>4, <3>1, <3>2, SumSame
  <2>6. f[r] = call[r].amount /\ f[r] \in Int
    BY <2>2
  <2> HIDE DEF f, T
  <2>7. SumFunctionOnSet(f, T \cup {r}) = f[r] + SumFunctionOnSet(f, T)
    BY <2>1, <2>2, <2>4, SumAdd
  <2> QED BY <1>2, <2>3, <2>4, <2>5, <2>6, <2>7
<1>3. CASE ~(o = Op(r) /\ u = call[r].user)
  <2> DEFINE T == TransfersOf(u, o)
  <2>1. TransfersOf(u, o)' = T
    BY <1>1, <1>3 DEF TransfersOf, Op
  <2>2. Moved(u, o)' = Moved(u, o)
    BY <1>1, <2>1 DEF Moved
  <2> QED BY <1>3, <2>2, TransfersFinite
<1> QED BY <1>2, <1>3

\* The bets of a user are finitely many and cost a number.
LEMMA BetsFinite ==
  ASSUME IInv, NEW u \in User
  PROVE  /\ IsFiniteSet(BetsOf(u)) /\ BetsOf(u) \subseteq Req
         /\ \A b \in BetsOf(u) : Total(bets[b].slip) \in Int
         /\ Staked(u) \in Int
<1>1. BetsOf(u) \subseteq Req /\ IsFiniteSet(BetsOf(u))
  BY PoolLedgerAssumption, FS_Subset DEF BetsOf
<1>2. \A b \in BetsOf(u) : Total(bets[b].slip) \in Int
  <2>1. \A s \in Slip : Total(s) \in Int
    BY PoolLedgerAssumption
  <2> QED BY <2>1 DEF BetsOf, IInv, TypeOK, Bet
<1> DEFINE f == [b \in BetsOf(u) |-> Total(bets[b].slip)]
<1>3. \A b \in BetsOf(u) : f[b] \in Int
  BY <1>2
<1>4. Staked(u) = SumFunctionOnSet(f, BetsOf(u))
  BY DEF Staked
<1> HIDE DEF f
<1> QED BY <1>1, <1>2, <1>3, <1>4, SumInt

\* A step that places no bet and touches no user's slip leaves what was staked.
LEMMA StakedSame ==
  ASSUME NEW u,
         \A b \in Req : bets'[b] # None <=> bets[b] # None,
         \A b \in Req : bets[b] # None => bets'[b].user = bets[b].user /\ bets'[b].slip = bets[b].slip
  PROVE  Staked(u)' = Staked(u)
<1> DEFINE B == BetsOf(u)
<1>1. BetsOf(u)' = B
  BY DEF BetsOf
<1>2. [b \in B |-> Total(bets'[b].slip)] = [b \in B |-> Total(bets[b].slip)]
  BY DEF BetsOf
<1> HIDE DEF B
<1>3. Staked(u)' = SumFunctionOnSet([b \in B |-> Total(bets'[b].slip)], B)
  BY <1>1 DEF Staked, Total
<1> QED BY <1>2, <1>3 DEF Staked, B

\* The commit of a bet adds its price to what its user has staked.
LEMMA StakedMore ==
  ASSUME IInv, InsertedOK, DoneOK, NEW r \in Req, CommitBet(r), NEW u \in User
  PROVE  Staked(u)' = Staked(u) + IF u = call[r].user THEN Total(call[r].slip) ELSE 0
<1> DEFINE row == [user |-> call[r].user, game |-> call[r].game, slip |-> call[r].slip,
                   result |-> None]
           B == BetsOf(u)
<1>1. pc[r] = "commit" /\ call[r] \in CallSet /\ call[r].op = "bet"
  BY DEF CommitBet, IInv, StageOK, InFlight, Stages, Op
<1>2. /\ row # None /\ row.user = call[r].user /\ row.slip = call[r].slip
      /\ Total(row.slip) \in Int
  <2>1. row \in Bet
    BY <1>1, CallTypes, PoolLedgerAssumption DEF Bet
  <2>2. Total(call[r].slip) \in Int
    BY <1>1, CallTypes, PoolLedgerAssumption
  <2> QED BY <2>1, <2>2, PoolLedgerAssumption
<1>3. bets[r] = None /\ Standing[r] = None
  BY <1>1 DEF InsertedOK, DoneOK
<1>4. bets'[r] = row /\ \A b \in Req : b # r => bets'[b] = bets[b]
  <2>1. bets' = [bets EXCEPT ![r] = row]
    BY DEF CommitBet
  <2> HIDE DEF row
  <2> QED BY <2>1 DEF IInv, TypeOK
<1> HIDE DEF row
<1>5. IsFiniteSet(B) /\ B \subseteq Req /\ Staked(u) \in Int /\ r \notin B
      /\ \A b \in B : Total(bets[b].slip) \in Int
  BY <1>3, BetsFinite DEF BetsOf
<1>6. CASE u = call[r].user
  <2> DEFINE f == [b \in B \cup {r} |-> Total(bets'[b].slip)]
             g == [b \in B |-> Total(bets[b].slip)]
  <2>1. BetsOf(u)' = B \cup {r}
    BY <1>2, <1>3, <1>4, <1>6 DEF BetsOf
  <2>2. f[r] = Total(row.slip) /\ \A b \in B : g[b] = f[b] /\ g[b] \in Int
    BY <1>4, <1>5
  <2>3. Staked(u) = SumFunctionOnSet(g, B)
    BY DEF Staked
  <2> HIDE DEF B
  <2>4. Staked(u)' = SumFunctionOnSet(f, B \cup {r})
    BY <2>1 DEF Staked, Total
  <2> HIDE DEF f, g
  <2>5. SumFunctionOnSet(g, B) = SumFunctionOnSet(f, B)
    BY <1>5, <2>2, SumSame
  <2>6. SumFunctionOnSet(f, B \cup {r}) = f[r] + SumFunctionOnSet(f, B)
    <3>1. \A b \in B \cup {r} : f[b] \in Int
      BY <1>2, <2>2
    <3> QED BY <1>5, <3>1, SumAdd
  <2>7. Staked(u)' = Total(row.slip) + Staked(u)
    BY <2>2, <2>3, <2>4, <2>5, <2>6
  <2> QED BY <1>2, <1>5, <1>6, <2>7
<1>7. CASE u # call[r].user
  <2>1. BetsOf(u)' = B
    BY <1>2, <1>3, <1>4, <1>7 DEF BetsOf
  <2>2. [b \in B |-> Total(bets'[b].slip)] = [b \in B |-> Total(bets[b].slip)]
    BY <1>4, <1>5
  <2> HIDE DEF B
  <2>3. Staked(u)' = SumFunctionOnSet([b \in B |-> Total(bets'[b].slip)], B)
    BY <2>1 DEF Staked, Total
  <2>4. Staked(u)' = Staked(u)
    BY <2>2, <2>3 DEF Staked, B
  <2> QED BY <1>5, <1>7, <2>4
<1> QED BY <1>6, <1>7

\* A settlement's commit changes what a user has been paid by what it has written.
LEMMA PaidCommit ==
  ASSUME IInv, LiveOK, NEW r \in Req, Own(r), CommitDeclare(r) \/ CommitCorrection(r),
         NEW u \in User
  PROVE  /\ IsFiniteSet(AtUser(payouts', u))
         /\ Worth(AtUser(payouts, u)) \in Int /\ Written(r, u) \in Int
         /\ Worth(AtUser(payouts', u)) = Worth(AtUser(payouts, u)) + Written(r, u)
<1> DEFINE C == NewCredits(r, tx[r].won)
           F == Reversed(r)
           K == AtUser(payouts \ F, u)
           N == AtUser(C, u)
           L == AtUser(payouts, u)
           G == AtUser(F \cap payouts, u)
<1>1. pc[r] = "commit" /\ Settles(r) /\ Inserted(r) = C
  BY DEF CommitDeclare, CommitCorrection, Settles, Inserted
<1>2. payouts' = (payouts \ F) \cup C
  <2>1. CASE CommitDeclare(r)
    <3>1. F = {}
      BY <2>1 DEF CommitDeclare, Reversed
    <3>2. payouts' = payouts \cup C
      BY <2>1 DEF CommitDeclare
    <3> HIDE DEF C, F
    <3> QED BY <3>1, <3>2
  <2>2. CASE CommitCorrection(r)
    <3>1. F = tx[r].found
      BY <2>2 DEF CommitCorrection, Reversed
    <3>2. payouts' = (payouts \ tx[r].found) \cup C
      BY <2>2 DEF CommitCorrection
    <3> HIDE DEF C, F
    <3> QED BY <3>1, <3>2
  <2> QED BY <2>1, <2>2
<1>3. payouts \subseteq Payout /\ C \subseteq Payout
  <2>1. InFlight(r) /\ payouts \subseteq Payout
    BY <1>1 DEF InFlight, Stages, IInv, TypeOK
  <2>2. C \subseteq Payout
    BY <1>1, <2>1, RefType, TxFields, CreditsType DEF Settles
  <2> QED BY <2>1, <2>2
<1>4. C \cap payouts = {}
  BY <1>1 DEF NewCredits, LiveOK
<1>5. IsFiniteSet(L) /\ IsFiniteSet(N)
  BY CreditsFinite DEF LiveOK
<1> HIDE DEF C, F
<1>6. L \subseteq Payout /\ N \subseteq Payout /\ G \subseteq L /\ K = L \ G /\ K \cap N = {}
  BY <1>3, <1>4 DEF AtUser
<1>7. AtUser(payouts', u) = K \cup N
  BY <1>2 DEF AtUser
<1>8. Written(r, u) = Worth(N) - Worth(G)
  BY <1>1 DEF Written, F
<1> HIDE DEF K, N, L, G
<1>9. IsFiniteSet(K) /\ K \subseteq Payout
  BY <1>5, <1>6, FS_Subset
<1>10. Worth(L) \in Int /\ Worth(G) \in Int /\ Worth(L \ G) = Worth(L) - Worth(G)
  BY <1>5, <1>6, WorthMinus
<1>11. Worth(K) \in Int /\ Worth(N) \in Int /\ Worth(K \cup N) = Worth(K) + Worth(N)
  BY <1>5, <1>6, <1>9, WorthUnion
<1>12. Worth(K) = Worth(L) - Worth(G)
  BY <1>6, <1>10
<1>13. IsFiniteSet(K \cup N)
  BY <1>5, <1>9, FS_Union
<1>14. Worth(AtUser(payouts', u)) = Worth(L) + (Worth(N) - Worth(G))
  <2>1. Worth(AtUser(payouts', u)) = Worth(K \cup N)
    BY <1>7
  <2> QED BY <1>10, <1>11, <1>12, <2>1
<1> QED BY <1>7, <1>8, <1>10, <1>11, <1>13, <1>14 DEF L

\* Every step keeps live rows those of done requests, finitely many per user.
LEMMA LiveNext ==
  ASSUME IInv, LiveOK, OwnOK, [Next]_vars
  PROVE  LiveOK'
<1>0. \A p \in payouts : p.by \in Req
  BY DEF IInv, TypeOK, Payout
<1>1. ASSUME NEW r \in Req, Arrive(r) PROVE LiveOK'
  <2>1. PICK c \in Calls[r], s \in Stages \cup {"done", "failed"} :
          Begin(r, c, s) /\ UNCHANGED <<db, rows>>
    BY <1>1, ArriveStep
  <2>2. pc[r] = "idle" /\ \A q \in Req : q # r => pc'[q] = pc[q]
    BY <2>1, BeginStep
  <2> QED BY <1>0, <2>1, <2>2 DEF LiveOK, db
<1>2. ASSUME NEW r \in Req, Works(r) PROVE LiveOK'
  <2>1. InFlight(r) /\ Own(r) /\ \A q \in Req : q # r => pc'[q] = pc[q]
    BY <1>2, ProceedStep DEF Works, OwnOK
  <2>2. \A p \in payouts : pc'[p.by] = "done"
    BY <1>0, <2>1 DEF LiveOK, InFlight, Stages
  <2>3. CASE payouts' = payouts
    BY <2>2, <2>3 DEF LiveOK
  <2>4. CASE CommitDeclare(r) \/ CommitCorrection(r)
    <3>1. pc[r] = "commit" /\ Publish(r)
      BY <2>4 DEF CommitDeclare, CommitCorrection
    <3>2. pc'[r] = "done"
      BY <3>1, PublishStep
    <3>3. payouts' \subseteq payouts \cup NewCredits(r, tx[r].won)
      BY <2>4 DEF CommitDeclare, CommitCorrection
    <3>4. \A p \in NewCredits(r, tx[r].won) : p.by = r
      BY DEF NewCredits
    <3>5. \A p \in payouts' : pc'[p.by] = "done"
      BY <2>2, <3>2, <3>3, <3>4
    <3>6. \A u \in User : IsFiniteSet(AtUser(payouts', u))
      BY <2>1, <2>4, PaidCommit
    <3> QED BY <3>5, <3>6 DEF LiveOK
  <2>5. payouts' = payouts \/ CommitDeclare(r) \/ CommitCorrection(r)
    BY <1>2, ProceedStep DEF Works, db, CommitTransfer, CommitBet
  <2> QED BY <2>3, <2>4, <2>5
<1>3. CASE Tick \/ UNCHANGED vars
  BY <1>3 DEF Tick, vars, db, LiveOK
<1> QED BY <1>1, <1>2, <1>3 DEF Next, Works

\* Every step keeps what is known of the requests that are done.
LEMMA DoneNext ==
  ASSUME IInv, DoneOK, [Next]_vars
  PROVE  DoneOK'
<1>1. ASSUME NEW r \in Req, Arrive(r) PROVE DoneOK'
  <2>1. PICK c \in Calls[r], s \in Stages \cup {"done", "failed"} : Begin(r, c, s)
    BY <1>1, ArriveStep
  <2>2. /\ c \in CallSet /\ pc[r] = "idle" /\ call'[r] = c
        /\ \A q \in Req : q # r => pc'[q] = pc[q] /\ call'[q] = call[q]
    BY <2>1, BeginStep
  <2> QED BY <2>2 DEF DoneOK
<1>2. ASSUME NEW r \in Req, Works(r) PROVE DoneOK'
  <2>1. InFlight(r) /\ call' = call /\ \A q \in Req : q # r => pc'[q] = pc[q]
    BY <1>2, ProceedStep DEF Works
  <2>2. call[r] \in CallSet /\ pc[r] # "done"
    BY <2>1 DEF IInv, StageOK, InFlight, Stages
  <2> QED BY <2>1, <2>2 DEF DoneOK
<1>3. CASE Tick \/ UNCHANGED vars
  BY <1>3 DEF Tick, vars, DoneOK
<1> QED BY <1>1, <1>2, <1>3 DEF Next, Works

-----------------------------------------------------------------------------
(* The ledger is explained *)

\* A step that commits nothing leaves every ledger explained.
LEMMA ExplainedOther ==
  ASSUME NEW u \in User, Explained(u), UNCHANGED db,
         \A r \in Req : pc[r] = "done" => pc'[r] = "done" /\ call'[r] = call[r],
         \A r \in Req : pc'[r] = "done" /\ pc[r] # "done" => Op(r)' \notin {"topUp", "withdraw"}
  PROVE  Explained(u)'
<1>1. Moved(u, "topUp")' = Moved(u, "topUp") /\ Moved(u, "withdraw")' = Moved(u, "withdraw")
  BY MovedSame
<1>2. Staked(u)' = Staked(u)
  BY StakedSame DEF db
<1>3. AtUser(payouts, u)' = AtUser(payouts, u) /\ net' = net
  BY DEF db, AtUser
<1>4. Worth(AtUser(payouts, u))' = Worth(AtUser(payouts, u))
  BY <1>3 DEF Worth
<1> QED BY <1>1, <1>2, <1>3, <1>4 DEF Explained, Given

\* A commit changes a ledger and what explains it by the same amount.
LEMMA ExplainedCommit ==
  ASSUME ExplainedInv, NEW r \in Req, NEW u \in User,
         CommitTransfer(r) \/ CommitBet(r) \/ CommitDeclare(r) \/ CommitCorrection(r)
  PROVE  Explained(u)'
<1> USE DEF ExplainedInv
<1> DEFINE up    == Moved(u, "topUp")
           down  == Moved(u, "withdraw")
           paid  == Worth(AtUser(payouts, u))
           put   == Staked(u)
           w     == Written(r, u)
<1>1. pc[r] = "commit" /\ Publish(r) /\ InFlight(r) /\ Own(r) /\ call[r] \in CallSet
  BY DEF CommitTransfer, CommitBet, CommitDeclare, CommitCorrection, InFlight, Stages, OwnOK,
         IInv, StageOK
<1>2. net'[u] = net[u] + w /\ net[u] \in Int
  BY <1>1, PublishNet DEF IInv, TypeOK
<1>3. up \in Int /\ down \in Int /\ put \in Int
  BY TransfersFinite, BetsFinite
<1>4. paid \in Int
  <2>1. IsFiniteSet(AtUser(payouts, u)) /\ AtUser(payouts, u) \subseteq Payout
    BY DEF LiveOK, IInv, TypeOK, AtUser
  <2> QED BY <2>1, WorthMinus
<1>5. net[u] = Given(u) + up - down - put + paid /\ Given(u) \in Int
  BY PoolLedgerAssumption DEF Explained, Given
<1>6. /\ pc'[r] = "done" /\ call' = call
      /\ \A q \in Req : q # r => pc'[q] = pc[q]
  BY <1>1, PublishStep
<1>7. CASE CommitTransfer(r)
  <2>1. Op(r) \in {"topUp", "withdraw"} /\ ~Settles(r) /\ UNCHANGED <<bets, payouts>>
    BY <1>7 DEF CommitTransfer, Settles
  <2>2. call[r].amount \in Int
    <3>1. call[r].amount \in Amount
      BY <1>1, <2>1, CallTypes DEF Op
    <3> QED BY <3>1, AmountsInt
  <2>3. w = IF u = call[r].user THEN IF Op(r) = "topUp" THEN call[r].amount ELSE -call[r].amount
            ELSE 0
    BY <1>1, <2>1 DEF Written, Debited, Op
  <2>4. /\ Moved(u, "topUp")' = up + IF "topUp" = Op(r) /\ u = call[r].user THEN call[r].amount ELSE 0
        /\ Moved(u, "withdraw")'
             = down + IF "withdraw" = Op(r) /\ u = call[r].user THEN call[r].amount ELSE 0
    BY <1>7, MovedMore
  <2>5. Staked(u)' = put
    BY <2>1, StakedSame
  <2>6. Worth(AtUser(payouts, u))' = paid
    BY <2>1 DEF Worth, AtUser
  <2> HIDE DEF up, down, put, paid, w
  <2>7. net'[u] = Given(u) + Moved(u, "topUp")' - Moved(u, "withdraw")' - put + paid
    BY <1>2, <1>3, <1>4, <1>5, <2>1, <2>2, <2>3, <2>4
  <2> QED BY <2>5, <2>6, <2>7 DEF Explained, Given
<1>8. ASSUME ~CommitTransfer(r)
      PROVE  Moved(u, "topUp")' = up /\ Moved(u, "withdraw")' = down
  <2>1. Op(r)' \notin {"topUp", "withdraw"}
    BY <1>6, <1>8 DEF CommitBet, CommitDeclare, CommitCorrection, Op
  <2> QED BY <1>1, <1>6, <2>1, MovedSame
<1>9. CASE CommitBet(r)
  <2>1. Op(r) = "bet" /\ ~Settles(r) /\ UNCHANGED payouts /\ ~CommitTransfer(r)
    BY <1>9 DEF CommitBet, CommitTransfer, Settles
  <2>2. Total(call[r].slip) \in Int
    <3>1. call[r].slip \in Slip /\ \A s \in Slip : Total(s) \in Int
      BY <1>1, <2>1, CallTypes, PoolLedgerAssumption DEF Op
    <3> QED BY <3>1
  <2>3. w = IF u = call[r].user THEN -Total(call[r].slip) ELSE 0
    BY <1>1, <2>1 DEF Written, Debited, Op
  <2>4. Staked(u)' = put + IF u = call[r].user THEN Total(call[r].slip) ELSE 0
    BY <1>9, StakedMore
  <2>5. Worth(AtUser(payouts, u))' = paid
    BY <2>1 DEF Worth, AtUser
  <2>6. Moved(u, "topUp")' = up /\ Moved(u, "withdraw")' = down
    BY <1>8, <2>1
  <2> HIDE DEF up, down, put, paid, w
  <2>7. net'[u] = Given(u) + up - down - Staked(u)' + paid
    BY <1>2, <1>3, <1>4, <1>5, <2>2, <2>3, <2>4
  <2> QED BY <2>5, <2>6, <2>7 DEF Explained, Given
<1>10. CASE CommitDeclare(r) \/ CommitCorrection(r)
  <2>1. ~CommitTransfer(r)
    BY <1>10 DEF CommitDeclare, CommitCorrection, CommitTransfer
  <2>2. Moved(u, "topUp")' = up /\ Moved(u, "withdraw")' = down
    BY <1>8, <2>1
  <2>3. Staked(u)' = put
    <3>1. CASE CommitCorrection(r)
      BY <3>1, StakedSame DEF CommitCorrection
    <3>2. CASE CommitDeclare(r)
      <4>1. ASSUME NEW b \in tx[r].pending
            PROVE  /\ bets[b] # None /\ bets[b] \in Bet /\ bets'[b] \in Bet
                   /\ bets'[b].user = bets[b].user /\ bets'[b].slip = bets[b].slip
        <5>1. b \in Req /\ bets[b] # None /\ bets[b] \in Bet
          BY TxFields DEF IInv, ReadOK, TypeOK
        <5>2. bets'[b] = [bets[b] EXCEPT !.result = r]
          BY <3>2, <5>1 DEF CommitDeclare
        <5> QED BY <5>1, <5>2 DEF Bet
      <4>2. \A b \in Req : b \notin tx[r].pending => bets'[b] = bets[b]
        BY <3>2 DEF CommitDeclare
      <4>3. None \notin Bet
        BY PoolLedgerAssumption
      <4>4. \A b \in Req : bets'[b] # None <=> bets[b] # None
        BY <4>1, <4>2, <4>3
      <4>5. \A b \in Req : bets'[b].user = bets[b].user /\ bets'[b].slip = bets[b].slip
        BY <4>1, <4>2
      <4> QED BY <4>4, <4>5, StakedSame
    <3> QED BY <1>10, <3>1, <3>2
  <2>4. Worth(AtUser(payouts', u)) = paid + w /\ w \in Int
    BY <1>1, <1>10, PaidCommit
  <2>5. Worth(AtUser(payouts, u))' = paid + w
    BY <2>4 DEF Worth, AtUser
  <2> HIDE DEF up, down, put, paid, w
  <2>6. net'[u] = Given(u) + up - down - put + (paid + w)
    BY <1>2, <1>3, <1>4, <1>5, <2>4
  <2> QED BY <2>2, <2>3, <2>5, <2>6 DEF Explained, Given
<1> QED BY <1>7, <1>9, <1>10

\* Every step leaves every ledger explained.
LEMMA ExplainedNext ==
  ASSUME ExplainedInv, [Next]_vars
  PROVE  ExplainedInv'
<1> USE DEF ExplainedInv
<1> SUFFICES ASSUME NEW u \in User PROVE Explained(u)'
  BY NextInv, InsertedNext, DoneNext, LiveNext, OwnNext
<1>1. ASSUME NEW r \in Req, Arrive(r) PROVE Explained(u)'
  <2>1. PICK c \in Calls[r], s \in Stages \cup {"done", "failed"} :
          /\ Begin(r, c, s) /\ UNCHANGED db
          /\ s = "done" => c.op \notin {"topUp", "withdraw"}
    <3>1. CASE TopUp(r) \/ Withdraw(r) \/ PlaceBet(r)
      BY <3>1 DEF TopUp, Withdraw, PlaceBet, Stages
    <3>2. CASE Declare(r)
      BY <3>2 DEF Declare, Stages
    <3>3. CASE UpdateResult(r)
      BY <3>3 DEF UpdateResult, Stages
    <3>4. CASE SetLockStatus(r) \/ UpdateSubType(r)
      BY <3>4 DEF SetLockStatus, UpdateSubType, Stages
    <3> QED BY <1>1, <3>1, <3>2, <3>3, <3>4 DEF Arrive
  <2>2. /\ pc[r] = "idle" /\ call'[r] = c /\ pc'[r] = s
        /\ \A q \in Req : q # r => pc'[q] = pc[q] /\ call'[q] = call[q]
    BY <2>1, BeginStep
  <2> QED BY <2>1, <2>2, ExplainedOther DEF Op
<1>2. ASSUME NEW r \in Req, Works(r) PROVE Explained(u)'
  <2>1. InFlight(r) /\ call' = call /\ \A q \in Req : q # r => pc'[q] = pc[q]
    BY <1>2, ProceedStep DEF Works
  <2>2. CASE CommitTransfer(r) \/ CommitBet(r) \/ CommitDeclare(r) \/ CommitCorrection(r)
    BY <2>2, ExplainedCommit
  <2>3. CASE ~(CommitTransfer(r) \/ CommitBet(r) \/ CommitDeclare(r) \/ CommitCorrection(r))
    <3>1. UNCHANGED db
      BY <1>2, <2>3, ProceedStep DEF Works
    <3>2. pc'[r] # "done"
      BY <1>2, <2>1, <2>3 DEF Works, Proceed, Fail, DeadlockVictim, InsertWallet, RaiseBalance,
           AssertBettingOpen, Debit, LinkBets, CreditWinner, FindCredits, ReverseCredit, Rescore,
           SaveResult, CreditStage, Abort, Goto, IInv, TypeOK
    <3> QED BY <2>1, <3>1, <3>2, ExplainedOther DEF InFlight, Stages
  <2> QED BY <2>2, <2>3
<1>3. CASE Tick \/ UNCHANGED vars
  <2>1. UNCHANGED <<db, pc, call>>
    BY <1>3 DEF Tick, vars
  <2> QED BY <2>1, ExplainedOther
<1> QED BY <1>1, <1>2, <1>3 DEF Next, Works

\* The ledger a pool opens with is explained: nothing has been paid or staked.
LEMMA ExplainedInit == Init => ExplainedInv
<1> SUFFICES ASSUME Init PROVE ExplainedInv
  OBVIOUS
<1>1. InsertedOK /\ OwnOK
  BY DEF Init, InsertedOK, OwnOK, InFlight, Stages
<1>2. DoneOK
  <2> SUFFICES ASSUME NEW r \in Req, Standing[r] # None
               PROVE  call[r] \in CallSet /\ pc[r] = "done"
    BY DEF Init, DoneOK
  <2>1. Standing[r] \in PendingBet
    BY PoolLedgerAssumption
  <2>2. BetCall(Standing[r]) \in CallSet
    BY <2>1, PoolLedgerAssumption DEF BetCall, PendingBet, CallSet
  <2> QED BY <2>2 DEF Init
<1>3. LiveOK
  BY FS_EmptySet DEF Init, LiveOK, AtUser
<1>4. ASSUME NEW u \in User PROVE Explained(u)
  <2>1. \A o \in {"topUp", "withdraw"} : TransfersOf(u, o) = {}
    BY DEF Init, TransfersOf, Op, BetCall
  <2>2. BetsOf(u) = {}
    BY DEF Init, BetsOf
  <2>3. AtUser(payouts, u) = {}
    BY DEF Init, AtUser
  <2>4. Moved(u, "topUp") = 0 /\ Moved(u, "withdraw") = 0
    <3>1. \A o \in {"topUp", "withdraw"} :
            Moved(u, o) = SumFunctionOnSet([r \in TransfersOf(u, o) |-> call[r].amount], {})
      BY <2>1 DEF Moved
    <3> QED BY <3>1, SumEmpty
  <2>5. Staked(u) = 0
    <3>1. Staked(u) = SumFunctionOnSet([b \in BetsOf(u) |-> Total(bets[b].slip)], {})
      BY <2>2 DEF Staked
    <3> QED BY <3>1, SumEmpty
  <2>6. Worth(AtUser(payouts, u)) = 0
    <3>1. Worth(AtUser(payouts, u)) = Worth({})
      BY <2>3
    <3> QED BY <3>1, WorthEmpty
  <2>7. net[u] = Given(u) /\ Given(u) \in Int
    BY PoolLedgerAssumption DEF Init, Given
  <2> QED BY <2>4, <2>5, <2>6, <2>7 DEF Explained
<1> QED BY <1>1, <1>2, <1>3, <1>4, InitInv DEF ExplainedInv

\* What every request in flight has written, and what the requests that are
\* done explain of every ledger, in any interleaving.
THEOREM ExplainedInvariance == Spec => []ExplainedInv
BY ExplainedInit, ExplainedNext, PTL DEF Spec

\* Every ledger is explained by the business records at all times, also when
\* the same game is settled twice at a time: no discipline of the operators is
\* needed.
THEOREM LedgerIsExplained == Spec => []LedgerExplained
<1>1. ExplainedInv => LedgerExplained
  BY ExplainedMeans DEF ExplainedInv
<1> QED BY <1>1, ExplainedInvariance, PTL
==============================================================================
