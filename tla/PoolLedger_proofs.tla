-------------------------- MODULE PoolLedger_proofs --------------------------
(***************************************************************************)
(* Proofs about PoolLedger for every value of its constants: types, what   *)
(* may be overdrawn, and what a step of one request leaves to the others.  *)
(***************************************************************************)
EXTENDS PoolLedgerProps, TLAPS, FiniteSetTheorems

\* Stages in which a request may hold wallet rows.
Holding == {"raise", "reverse", "rescore", "save", "credit", "commit"}

\* A request is at a stage of what it asks for.
StageOK ==
  \A r \in Req :
    /\ InFlight(r) => call[r] \in CallSet
    /\ pc[r] \in {"insert", "raise"} => Op(r) = "topUp"
    /\ pc[r] = "hours" => Op(r) = "bet"
    /\ pc[r] = "debit" => Op(r) \in {"bet", "withdraw"}
    /\ pc[r] = "link" => Op(r) = "declare"
    /\ pc[r] \in {"credits", "reverse", "rescore", "save"} => Op(r) = "correct"
    /\ pc[r] = "credit" => Op(r) \in {"declare", "correct"}
    /\ pc[r] = "commit" => Op(r) \in {"topUp", "withdraw", "bet", "declare", "correct"}

\* Uncommitted changes belong to the request that holds the row, and the
\* balance it would publish fits the column.
RowsOK ==
  \A u \in User :
    /\ lock[u] = None => delta[u] = 0 /\ dnet[u] = 0
    /\ lock[u] # None => pc[lock[u]] \in Holding
    /\ balance[u] + delta[u] \in Int32

\* What a settlement has read still exists.
ReadOK ==
  \A r \in Req :
    /\ \A b \in tx[r].pending : bets[b] # None
    /\ InFlight(r) /\ Op(r) = "correct" => results[call[r].ref] # None

IInv == TypeOK /\ StageOK /\ RowsOK /\ ReadOK

-----------------------------------------------------------------------------
\* The record of a request outside a transaction has the record's type.
LEMMA NoTxType == NoTx \in Tx
BY PoolLedgerAssumption DEF NoTx, Tx, NoWinners, Entry

\* The fields of what a request asks for have their types.
LEMMA CallTypes ==
  ASSUME NEW c \in CallSet
  PROVE  /\ c.op \in {"topUp", "withdraw"} => c.user \in User /\ c.amount \in Amount
         /\ c.op = "bet" => c.user \in User /\ c.game \in Game /\ c.slip \in Slip
         /\ c.op = "declare" => c.game \in Game /\ c.number \in Number
         /\ c.op = "correct" => c.ref \in Req /\ c.number \in Number
         /\ c.op = "lockUser" => c.user \in User
         /\ c.op = "editSubType" => /\ c.game \in Game
                                    /\ c.closeTime \in Nat \cup {None}
                                    /\ c.isActive \in BOOLEAN \cup {None}
BY DEF CallSet

\* The invariant holds of a freshly opened pool, standing bets included.
LEMMA InitInv == Init => IInv
<1> SUFFICES ASSUME Init PROVE IInv
  OBVIOUS
<1>1. TypeOK
  <2>1. call \in [Req -> CallSet \cup {None}]
    <3>1. \A b \in PendingBet : BetCall(b) \in CallSet
      BY DEF PendingBet, BetCall, CallSet
    <3>2. Standing \in [Req -> PendingBet \cup {None}]
      BY PoolLedgerAssumption
    <3> QED BY <3>1, <3>2 DEF Init
  <2>2. subTypes \in [Game -> SubType]
    BY PoolLedgerAssumption DEF Init, SubType
  <2>3. Standing \in [Req -> Bet \cup {None}]
    BY PoolLedgerAssumption DEF PendingBet, Bet
  <2> QED BY <2>1, <2>2, <2>3, PoolLedgerAssumption, NoTxType DEF Init, TypeOK, Int32
<1>2. StageOK /\ RowsOK /\ ReadOK
  BY PoolLedgerAssumption DEF Init, StageOK, RowsOK, ReadOK, InFlight, Stages, NoTx, Int32
<1> QED BY <1>1, <1>2 DEF IInv

-----------------------------------------------------------------------------
(* The parts steps are made of *)

\* Freed rows leave the others as they were.
LEMMA ReleaseRows ==
  ASSUME IInv, NEW r \in Req, Release(r)
  PROVE  /\ lock' \in [User -> Req \cup {None}]
         /\ delta' \in [User -> Int] /\ dnet' \in [User -> Int]
         /\ \A u \in User : lock'[u] # r
         /\ \A u \in User : lock[u] # r =>
              lock'[u] = lock[u] /\ delta'[u] = delta[u] /\ dnet'[u] = dnet[u]
         /\ \A u \in User : lock[u] = r => lock'[u] = None /\ delta'[u] = 0 /\ dnet'[u] = 0
BY PoolLedgerAssumption DEF IInv, TypeOK, Release

\* A rollback (error, crash, deadlock victim) keeps the invariant.
LEMMA AbortStep ==
  ASSUME IInv, NEW r \in Req, Abort(r)
  PROVE  IInv'
<1> USE DEF IInv
<1>1. TypeOK'
  BY ReleaseRows, NoTxType DEF Abort, TypeOK, Goto, db, env
<1>2. StageOK'
  BY DEF Abort, TypeOK, StageOK, Goto, InFlight, Stages, Op
<1>3. RowsOK'
  BY ReleaseRows, PoolLedgerAssumption DEF Abort, TypeOK, RowsOK, Goto, db, Int32
<1>4. ReadOK'
  BY DEF Abort, TypeOK, ReadOK, Goto, InFlight, Stages, Op, db, NoTx
<1> QED BY <1>1, <1>2, <1>3, <1>4

\* A wallet update by r of a row it holds or may take.
LEMMA MoveRows ==
  ASSUME IInv, NEW r \in Req, NEW u \in User, NEW d \in Int, NEW n \in Int,
         Free(r, u), Fits(u, d), Move(r, u, d, n), balance' = balance,
         pc'[r] \in Holding, \A q \in Req : q # r => pc'[q] = pc[q]
  PROVE  /\ lock' \in [User -> Req \cup {None}]
         /\ delta' \in [User -> Int] /\ dnet' \in [User -> Int]
         /\ RowsOK'
<1>1. /\ lock' \in [User -> Req \cup {None}]
      /\ delta' \in [User -> Int] /\ dnet' \in [User -> Int]
  BY DEF IInv, TypeOK, Move
<1>2. ASSUME NEW v \in User, v # u
      PROVE  lock'[v] = lock[v] /\ delta'[v] = delta[v] /\ dnet'[v] = dnet[v]
  BY <1>2 DEF IInv, TypeOK, Move
<1>3. lock'[u] = r /\ delta'[u] = delta[u] + d
  BY DEF IInv, TypeOK, Move
<1>4. r # None
  BY PoolLedgerAssumption
<1>5. ASSUME NEW v \in User, v # u, lock[v] # None
      PROVE  pc'[lock[v]] \in Holding
  <2>1. lock[v] \in Req /\ pc[lock[v]] \in Holding
    BY <1>5 DEF IInv, TypeOK, RowsOK
  <2> QED BY <2>1
<1>6. balance'[u] + delta'[u] \in Int32
  <2>1. balance[u] \in Int /\ delta[u] \in Int
    BY PoolLedgerAssumption DEF IInv, TypeOK, Int32
  <2> QED BY <2>1, <1>3 DEF Fits
<1> QED BY <1>1, <1>2, <1>3, <1>4, <1>5, <1>6 DEF IInv, RowsOK

\* The updates of a transaction's record keep its type.
LEMMA TxRecord ==
  ASSUME NEW t \in Tx
  PROVE  /\ \A P \in SUBSET Req, n \in Nat : [t EXCEPT !.pending = P, !.began = n] \in Tx
         /\ \A w \in [User -> Entry], D \in SUBSET Payout : [t EXCEPT !.won = w, !.due = D] \in Tx
         /\ \A D \in SUBSET Payout : [t EXCEPT !.due = D] \in Tx
         /\ \A D \in SUBSET Payout : [t EXCEPT !.found = D, !.due = D] \in Tx
         /\ \A w \in [User -> Entry], x \in Result \cup {None} :
              [t EXCEPT !.won = w, !.loaded = x] \in Tx
<1>1. ASSUME NEW P \in SUBSET Req, NEW n \in Nat 
      PROVE  [t EXCEPT !.pending = P, !.began = n] \in Tx
  BY DEF Tx
<1>2. ASSUME NEW w \in [User -> Entry], NEW D \in SUBSET Payout 
      PROVE  [t EXCEPT !.won = w, !.due = D] \in Tx
  BY DEF Tx
<1>3. ASSUME NEW D \in SUBSET Payout 
      PROVE  [t EXCEPT !.due = D] \in Tx
  BY DEF Tx
<1>4. ASSUME NEW D \in SUBSET Payout 
      PROVE  [t EXCEPT !.found = D, !.due = D] \in Tx
  BY DEF Tx
<1>5. ASSUME NEW w \in [User -> Entry], NEW x \in Result \cup {None} 
      PROVE  [t EXCEPT !.won = w, !.loaded = x] \in Tx
  BY DEF Tx
<1> QED BY <1>1, <1>2, <1>3, <1>4, <1>5 

\* A declaration records the bets it found and when it began.
LEMMA TxPending ==
  ASSUME tx \in [Req -> Tx], NEW r \in Req, NEW P \in SUBSET Req, NEW n \in Nat,
         tx' = [tx EXCEPT ![r].pending = P, ![r].began = n]
  PROVE  /\ tx' \in [Req -> Tx] /\ \A q \in Req : q # r => tx'[q] = tx[q]
         /\ tx'[r].pending = P /\ tx'[r].began = n
<1> DEFINE t == [tx[r] EXCEPT !.pending = P, !.began = n]
<1>1. tx[r] \in Tx
  OBVIOUS
<1>2. t \in Tx
  BY <1>1, TxRecord
<1>3. t.pending = P /\ t.began = n
  BY <1>1 DEF Tx
<1>4. tx' = [tx EXCEPT ![r] = t]
  OBVIOUS
<1> HIDE DEF t
<1> QED BY <1>2, <1>3, <1>4

\* A settlement records the winners and the credits it owes them.
LEMMA TxWon ==
  ASSUME tx \in [Req -> Tx], NEW r \in Req, NEW w \in [User -> Entry], NEW D \in SUBSET Payout,
         tx' = [tx EXCEPT ![r].won = w, ![r].due = D]
  PROVE  /\ tx' \in [Req -> Tx] /\ \A q \in Req : q # r => tx'[q] = tx[q]
         /\ tx'[r].won = w /\ tx'[r].due = D
         /\ tx'[r].pending = tx[r].pending /\ tx'[r].found = tx[r].found
<1> DEFINE t == [tx[r] EXCEPT !.won = w, !.due = D]
<1>1. tx[r] \in Tx
  OBVIOUS
<1>2. t \in Tx
  BY <1>1, TxRecord
<1>3. t.won = w /\ t.due = D /\ t.pending = tx[r].pending /\ t.found = tx[r].found
  BY <1>1 DEF Tx
<1>4. tx' = [tx EXCEPT ![r] = t]
  OBVIOUS
<1> HIDE DEF t
<1> QED BY <1>2, <1>3, <1>4

\* A settlement records the credits it still owes.
LEMMA TxDue ==
  ASSUME tx \in [Req -> Tx], NEW r \in Req, NEW D \in SUBSET Payout,
         tx' = [tx EXCEPT ![r].due = D]
  PROVE  /\ tx' \in [Req -> Tx] /\ \A q \in Req : q # r => tx'[q] = tx[q]
         /\ tx'[r].due = D
         /\ tx'[r].pending = tx[r].pending /\ tx'[r].found = tx[r].found
         /\ tx'[r].won = tx[r].won /\ tx'[r].loaded = tx[r].loaded
<1> DEFINE t == [tx[r] EXCEPT !.due = D]
<1>1. tx[r] \in Tx
  OBVIOUS
<1>2. t \in Tx
  BY <1>1, TxRecord
<1>3. /\ t.due = D /\ t.pending = tx[r].pending /\ t.found = tx[r].found
      /\ t.won = tx[r].won /\ t.loaded = tx[r].loaded
  BY <1>1 DEF Tx
<1>4. tx' = [tx EXCEPT ![r] = t]
  OBVIOUS
<1> HIDE DEF t
<1> QED BY <1>2, <1>3, <1>4

\* A correction records the credits it has to reverse.
LEMMA TxFound ==
  ASSUME tx \in [Req -> Tx], NEW r \in Req, NEW D \in SUBSET Payout,
         tx' = [tx EXCEPT ![r].found = D, ![r].due = D]
  PROVE  /\ tx' \in [Req -> Tx] /\ \A q \in Req : q # r => tx'[q] = tx[q]
         /\ tx'[r].found = D /\ tx'[r].due = D
         /\ tx'[r].pending = tx[r].pending /\ tx'[r].won = tx[r].won
<1> DEFINE t == [tx[r] EXCEPT !.found = D, !.due = D]
<1>1. tx[r] \in Tx
  OBVIOUS
<1>2. t \in Tx
  BY <1>1, TxRecord
<1>3. t.found = D /\ t.due = D /\ t.pending = tx[r].pending /\ t.won = tx[r].won
  BY <1>1 DEF Tx
<1>4. tx' = [tx EXCEPT ![r] = t]
  OBVIOUS
<1> HIDE DEF t
<1> QED BY <1>2, <1>3, <1>4

\* A correction records the new winners and the row it loaded.
LEMMA TxLoaded ==
  ASSUME tx \in [Req -> Tx], NEW r \in Req, NEW w \in [User -> Entry], NEW x \in Result \cup {None},
         tx' = [tx EXCEPT ![r].won = w, ![r].loaded = x]
  PROVE  /\ tx' \in [Req -> Tx] /\ \A q \in Req : q # r => tx'[q] = tx[q]
         /\ tx'[r].won = w /\ tx'[r].loaded = x
         /\ tx'[r].pending = tx[r].pending /\ tx'[r].found = tx[r].found
<1> DEFINE t == [tx[r] EXCEPT !.won = w, !.loaded = x]
<1>1. tx[r] \in Tx
  OBVIOUS
<1>2. t \in Tx
  BY <1>1, TxRecord
<1>3. t.won = w /\ t.loaded = x /\ t.pending = tx[r].pending /\ t.found = tx[r].found
  BY <1>1 DEF Tx
<1>4. tx' = [tx EXCEPT ![r] = t]
  OBVIOUS
<1> HIDE DEF t
<1> QED BY <1>2, <1>3, <1>4

\* The fields of a transaction's record have their types.
LEMMA TxFields ==
  ASSUME IInv, NEW r \in Req
  PROVE  /\ tx[r] \in Tx /\ tx[r].pending \subseteq Req /\ tx[r].found \subseteq Payout
         /\ tx[r].due \subseteq Payout /\ tx[r].won \in [User -> Entry]
         /\ tx[r].loaded \in Result \cup {None} /\ tx[r].began \in Nat
BY DEF IInv, TypeOK, Tx

\* A request that starts holds no wallet row yet and disturbs no other request.
LEMMA BeginStep ==
  ASSUME IInv, NEW r \in Req, NEW c \in Calls[r], NEW s, Begin(r, c, s)
  PROVE  /\ c \in CallSet /\ pc[r] = "idle"
         /\ call' = [call EXCEPT ![r] = c] /\ call' \in [Req -> CallSet \cup {None}]
         /\ call'[r] = c /\ pc'[r] = s
         /\ \A q \in Req : q # r => pc'[q] = pc[q] /\ call'[q] = call[q]
         /\ \A u \in User : lock[u] # r
BY PoolLedgerAssumption DEF Begin, Goto, IInv, TypeOK, RowsOK, Holding

-----------------------------------------------------------------------------
(* topUp *)

\* Starting a topUp keeps the invariant.
LEMMA TopUpStep ==
  ASSUME IInv, NEW r \in Req, TopUp(r)
  PROVE  IInv'
<1> USE DEF IInv
<1> PICK c \in Calls[r] : /\ c.op = "topUp"
                          /\ Begin(r, c, IF c.user \in wallets THEN "raise" ELSE "insert")
  BY DEF TopUp
<1>0. UNCHANGED <<db, env, tx, rows>>
  BY DEF TopUp
<1>1. TypeOK'
  BY <1>0, BeginStep DEF TypeOK, db, env, rows, Begin, Goto, Stages
<1>2. StageOK'
  BY <1>0, BeginStep DEF TypeOK, StageOK, InFlight, Stages, Op
<1>3. RowsOK'
  BY <1>0, BeginStep DEF TypeOK, RowsOK, db, rows, Int32
<1>4. ReadOK'
  BY <1>0, BeginStep DEF TypeOK, ReadOK, db, InFlight, Stages, Op
<1> QED BY <1>1, <1>2, <1>3, <1>4

\* createWalletForUser's insert, done or refused, keeps the invariant.
LEMMA InsertWalletStep ==
  ASSUME IInv, NEW r \in Req, InsertWallet(r)
  PROVE  IInv'
<1> USE DEF IInv
<1>0. call[r] \in CallSet /\ call[r].op = "topUp" /\ call[r].user \in User
  BY CallTypes DEF InsertWallet, StageOK, InFlight, Stages, Op
<1>1. CASE Abort(r)
  BY <1>1, AbortStep
<1>2. CASE ~Abort(r)
  <2> DEFINE u == call[r].user
  <2>0. /\ lock[u] = None /\ Move(r, u, 0, 0) /\ Goto(r, "raise")
        /\ UNCHANGED <<db, env, call, tx>> /\ pc[r] = "insert"
    BY <1>2 DEF InsertWallet
  <2>1. Free(r, u) /\ Fits(u, 0)
    BY <1>0, <2>0, PoolLedgerAssumption DEF Free, Fits, RowsOK, TypeOK, Int32
  <2>2. /\ lock' \in [User -> Req \cup {None}]
        /\ delta' \in [User -> Int] /\ dnet' \in [User -> Int]
        /\ RowsOK'
    BY <1>0, <2>0, <2>1, MoveRows DEF TypeOK, Goto, Holding, db
  <2>3. TypeOK'
    BY <2>0, <2>2 DEF TypeOK, db, env, Goto, Stages
  <2>4. StageOK'
    BY <1>0, <2>0 DEF TypeOK, StageOK, InFlight, Stages, Op, Goto
  <2>5. ReadOK'
    BY <1>0, <2>0 DEF TypeOK, ReadOK, db, InFlight, Stages, Op, Goto
  <2> QED BY <2>2, <2>3, <2>4, <2>5
<1> QED BY <1>1, <1>2

\* The increment of a topUp keeps the invariant, refused or not.
LEMMA RaiseBalanceStep ==
  ASSUME IInv, NEW r \in Req, RaiseBalance(r)
  PROVE  IInv'
<1> USE DEF IInv
<1>0. /\ call[r] \in CallSet /\ call[r].op = "topUp"
      /\ call[r].user \in User /\ call[r].amount \in Nat
  BY CallTypes, PoolLedgerAssumption DEF RaiseBalance, StageOK, InFlight, Stages, Op
<1>1. CASE Abort(r)
  BY <1>1, AbortStep
<1>2. CASE ~Abort(r)
  <2> DEFINE u == call[r].user  a == call[r].amount
  <2>0. /\ Free(r, u) /\ Fits(u, a) /\ Move(r, u, a, a) /\ Goto(r, "commit")
        /\ UNCHANGED <<db, env, call, tx>> /\ pc[r] = "raise"
    BY <1>2 DEF RaiseBalance, Post
  <2>2. /\ lock' \in [User -> Req \cup {None}]
        /\ delta' \in [User -> Int] /\ dnet' \in [User -> Int]
        /\ RowsOK'
    BY <1>0, <2>0, MoveRows DEF TypeOK, Goto, Holding, db
  <2>3. TypeOK'
    BY <2>0, <2>2 DEF TypeOK, db, env, Goto, Stages
  <2>4. StageOK'
    BY <1>0, <2>0 DEF TypeOK, StageOK, InFlight, Stages, Op, Goto
  <2>5. ReadOK'
    BY <1>0, <2>0 DEF TypeOK, ReadOK, db, InFlight, Stages, Op, Goto
  <2> QED BY <2>2, <2>3, <2>4, <2>5
<1> QED BY <1>1, <1>2

-----------------------------------------------------------------------------
(* Withdrawals and bets *)

\* Starting a withdrawal keeps the invariant.
LEMMA WithdrawStep ==
  ASSUME IInv, NEW r \in Req, Withdraw(r)
  PROVE  IInv'
<1> USE DEF IInv
<1> PICK c \in Calls[r] : c.op = "withdraw" /\ Begin(r, c, "debit")
  BY DEF Withdraw
<1>0. UNCHANGED <<db, env, tx, rows>>
  BY DEF Withdraw
<1>1. TypeOK'
  BY <1>0, BeginStep DEF TypeOK, db, env, rows, Begin, Goto, Stages
<1>2. StageOK'
  BY <1>0, BeginStep DEF TypeOK, StageOK, InFlight, Stages, Op
<1>3. RowsOK'
  BY <1>0, BeginStep DEF TypeOK, RowsOK, db, rows, Int32
<1>4. ReadOK'
  BY <1>0, BeginStep DEF TypeOK, ReadOK, db, InFlight, Stages, Op
<1> QED BY <1>1, <1>2, <1>3, <1>4

\* placeBet's account check keeps the invariant.
LEMMA PlaceBetStep ==
  ASSUME IInv, NEW r \in Req, PlaceBet(r)
  PROVE  IInv'
<1> USE DEF IInv
<1> PICK c \in Calls[r] : /\ c.op = "bet"
                          /\ Begin(r, c, IF c.user \in active THEN "hours" ELSE "failed")
  BY DEF PlaceBet
<1>0. UNCHANGED <<db, env, tx, rows>>
  BY DEF PlaceBet
<1>1. TypeOK'
  BY <1>0, BeginStep DEF TypeOK, db, env, rows, Begin, Goto, Stages
<1>2. StageOK'
  BY <1>0, BeginStep DEF TypeOK, StageOK, InFlight, Stages, Op
<1>3. RowsOK'
  BY <1>0, BeginStep DEF TypeOK, RowsOK, db, rows, Int32
<1>4. ReadOK'
  BY <1>0, BeginStep DEF TypeOK, ReadOK, db, InFlight, Stages, Op
<1> QED BY <1>1, <1>2, <1>3, <1>4

\* assertBettingOpen keeps the invariant.
LEMMA AssertBettingOpenStep ==
  ASSUME IInv, NEW r \in Req, AssertBettingOpen(r)
  PROVE  IInv'
<1> USE DEF IInv
<1>0. UNCHANGED <<db, env, call, tx, rows>> /\ pc[r] = "hours" /\ Op(r) = "bet"
  BY DEF AssertBettingOpen, StageOK
<1>1. TypeOK'
  BY <1>0 DEF AssertBettingOpen, TypeOK, db, env, rows, Goto, Stages
<1>2. StageOK'
  BY <1>0 DEF AssertBettingOpen, TypeOK, StageOK, InFlight, Stages, Op, Goto
<1>3. RowsOK'
  BY <1>0 DEF AssertBettingOpen, TypeOK, RowsOK, db, rows, Goto, Holding
<1>4. ReadOK'
  BY <1>0 DEF AssertBettingOpen, TypeOK, ReadOK, db, InFlight, Stages, Op, Goto
<1> QED BY <1>1, <1>2, <1>3, <1>4

\* debit's guard is what keeps the new balance in range: a request at this
\* stage holds no row yet.
LEMMA DebitStep ==
  ASSUME IInv, NEW r \in Req, Debit(r)
  PROVE  IInv'
<1> USE DEF IInv
<1>0. /\ call[r] \in CallSet /\ Op(r) \in {"bet", "withdraw"} /\ call[r].user \in User
      /\ Debited(call[r]) \in Nat
  BY CallTypes, PoolLedgerAssumption DEF Debit, StageOK, InFlight, Stages, Op, Debited
<1>1. CASE Abort(r)
  BY <1>1, AbortStep
<1>2. CASE ~Abort(r)
  <2> DEFINE u == call[r].user  a == Debited(call[r])
  <2>0. /\ Covered(u, a) /\ Free(r, u) /\ Move(r, u, -a, -a) /\ Goto(r, "commit")
        /\ UNCHANGED <<db, env, call, tx>> /\ pc[r] = "debit"
    BY <1>2 DEF Debit, Post
  <2>1. Fits(u, -a)
    <3>1. lock[u] = None /\ delta[u] = 0
      BY <1>0, <2>0 DEF Free, RowsOK, Holding
    <3>2. balance[u] \in Int32 /\ balance[u] >= a
      BY <1>0, <2>0 DEF Covered, TypeOK
    <3> QED BY <1>0, <3>1, <3>2, PoolLedgerAssumption DEF Fits, Int32
  <2>2. /\ lock' \in [User -> Req \cup {None}]
        /\ delta' \in [User -> Int] /\ dnet' \in [User -> Int]
        /\ RowsOK'
    BY <1>0, <2>0, <2>1, MoveRows DEF TypeOK, Goto, Holding, db
  <2>3. TypeOK'
    BY <2>0, <2>2 DEF TypeOK, db, env, Goto, Stages
  <2>4. StageOK'
    BY <1>0, <2>0 DEF TypeOK, StageOK, InFlight, Stages, Op, Goto
  <2>5. ReadOK'
    BY <1>0, <2>0 DEF TypeOK, ReadOK, db, InFlight, Stages, Op, Goto
  <2> QED BY <2>2, <2>3, <2>4, <2>5
<1> QED BY <1>1, <1>2

-----------------------------------------------------------------------------
(* Commits *)

\* A commit publishes balances that fit and leaves no row to the request.
LEMMA PublishStep ==
  ASSUME IInv, NEW r \in Req, pc[r] = "commit", Publish(r)
  PROVE  /\ wallets' \subseteq User /\ balance' \in [User -> Int32] /\ net' \in [User -> Int]
         /\ active' \subseteq User /\ subTypes' \in [Game -> SubType] /\ clock' \in Nat
         /\ pc' \in [Req -> Stages \cup {"idle", "done", "failed"}]
         /\ call' \in [Req -> CallSet \cup {None}] /\ tx' \in [Req -> Tx]
         /\ lock' \in [User -> Req \cup {None}]
         /\ delta' \in [User -> Int] /\ dnet' \in [User -> Int]
         /\ StageOK' /\ RowsOK'
         /\ call' = call /\ tx'[r] = NoTx /\ pc'[r] = "done"
         /\ \A q \in Req : q # r => tx'[q] = tx[q] /\ pc'[q] = pc[q]
<1> USE DEF IInv
<1>1. Release(r)
  BY DEF Publish
<1>2. wallets' \subseteq User /\ balance' \in [User -> Int32] /\ net' \in [User -> Int]
  BY DEF Publish, TypeOK, RowsOK
<1>3. /\ pc' \in [Req -> Stages \cup {"idle", "done", "failed"}]
      /\ call' \in [Req -> CallSet \cup {None}] /\ tx' \in [Req -> Tx]
      /\ active' \subseteq User /\ subTypes' \in [Game -> SubType] /\ clock' \in Nat
      /\ call' = call /\ tx'[r] = NoTx /\ pc'[r] = "done"
      /\ \A q \in Req : q # r => tx'[q] = tx[q] /\ pc'[q] = pc[q]
  BY NoTxType DEF Publish, TypeOK, Goto, env
<1>4. StageOK'
  BY <1>3 DEF StageOK, InFlight, Stages, Op
<1>5. RowsOK'
  <2> SUFFICES ASSUME NEW u \in User
               PROVE  /\ lock'[u] = None => delta'[u] = 0 /\ dnet'[u] = 0
                      /\ lock'[u] # None => pc'[lock'[u]] \in Holding
                      /\ balance'[u] + delta'[u] \in Int32
    BY DEF RowsOK
  <2>1. CASE lock[u] = r
    BY <1>1, <1>2, <2>1, ReleaseRows, PoolLedgerAssumption DEF Int32
  <2>2. CASE lock[u] # r
    BY <1>1, <1>3, <2>2, ReleaseRows DEF Publish, TypeOK, RowsOK
  <2> QED BY <2>1, <2>2
<1> QED BY <1>1, <1>2, <1>3, <1>4, <1>5, ReleaseRows

\* A commit that removes no bet and no result leaves what others have read in place.
LEMMA ReadAfterCommit ==
  ASSUME IInv, NEW r \in Req, pc[r] = "commit", Publish(r),
         \A b \in Req : bets[b] # None => bets'[b] # None,
         \A x \in Req : results[x] # None => results'[x] # None
  PROVE  ReadOK'
<1> SUFFICES ASSUME NEW q \in Req
             PROVE  /\ \A b \in tx'[q].pending : bets'[b] # None
                    /\ InFlight(q)' /\ Op(q)' = "correct" => results'[call'[q].ref] # None
  BY DEF ReadOK
<1>1. CASE q = r
  BY <1>1, PublishStep DEF NoTx, InFlight, Stages
<1>2. CASE q # r
  <2>1. tx'[q] = tx[q] /\ pc'[q] = pc[q] /\ call' = call
    BY <1>2, PublishStep
  <2>2. tx[q].pending \subseteq Req
    BY TxFields
  <2>3. \A b \in tx[q].pending : bets[b] # None
    BY DEF IInv, ReadOK
  <2>4. ASSUME InFlight(q), Op(q) = "correct" PROVE call[q].ref \in Req /\ results[call[q].ref] # None
    BY <2>4, CallTypes DEF IInv, ReadOK, StageOK, Op
  <2> QED BY <2>1, <2>2, <2>3, <2>4 DEF InFlight, Op
<1> QED BY <1>1, <1>2

\* The commit of a topUp or a withdrawal keeps the invariant.
LEMMA CommitTransferStep ==
  ASSUME IInv, NEW r \in Req, CommitTransfer(r)
  PROVE  IInv'
<1> USE DEF IInv
<1>1. TypeOK' /\ StageOK' /\ RowsOK'
  BY PublishStep DEF CommitTransfer, TypeOK
<1>2. ReadOK'
  BY ReadAfterCommit DEF CommitTransfer
<1> QED BY <1>1, <1>2

\* The commit of a bet keeps the invariant.
LEMMA CommitBetStep ==
  ASSUME IInv, NEW r \in Req, CommitBet(r)
  PROVE  IInv'
<1> USE DEF IInv
<1>0. call[r] \in CallSet /\ call[r].op = "bet"
  BY DEF CommitBet, StageOK, InFlight, Stages, Op
<1>1. bets' \in [Req -> Bet \cup {None}] /\ \A b \in Req : bets[b] # None => bets'[b] # None
  <2> DEFINE row == [user |-> call[r].user, game |-> call[r].game,
                     slip |-> call[r].slip, result |-> None]
  <2>1. row \in Bet /\ row # None
    BY <1>0, CallTypes, PoolLedgerAssumption DEF Bet
  <2>2. bets' = [bets EXCEPT ![r] = row]
    BY DEF CommitBet
  <2> HIDE DEF row
  <2> QED BY <2>1, <2>2 DEF TypeOK
<1>2. TypeOK' /\ StageOK' /\ RowsOK'
  BY <1>1, PublishStep DEF CommitBet, TypeOK
<1>3. ReadOK'
  BY <1>1, ReadAfterCommit DEF CommitBet
<1> QED BY <1>2, <1>3

-----------------------------------------------------------------------------
(* Settlements *)

\* getWinners returns an amount and a set of bet ids per user once its cast succeeds.
LEMMA WinnersType ==
  ASSUME NEW B \in SUBSET Req, NEW n \in Number, CastOK(Winners(Stakes(B), n))
  PROVE  Winners(Stakes(B), n) \in [User -> Entry]
<1> DEFINE S == Stakes(B)  won == Winners(S, n)
<1>1. ASSUME NEW u \in User PROVE won[u] \in Entry
  <2>1. won[u] = [amount |-> Prize(S, u, n), bets |-> WinningBets(S, u, n)]
    BY DEF Winners
  <2>2. won[u].amount \in Nat
    BY PoolLedgerAssumption DEF CastOK
  <2>3. WinningBets(S, u, n) \subseteq Req
    BY DEF WinningBets, StakesOf, Stakes
  <2> QED BY <2>1, <2>2, <2>3 DEF Entry
<1> QED BY <1>1 DEF Winners

\* The rows a settlement inserts for its winners are CREDIT rows.
LEMMA CreditsType ==
  ASSUME NEW r \in Req, Ref(r) \in Req, NEW won \in [User -> Entry]
  PROVE  NewCredits(r, won) \subseteq Payout
BY DEF NewCredits, Payout, Entry

\* A settlement in flight is about a result id and draws a number.
LEMMA RefType ==
  ASSUME IInv, NEW r \in Req, InFlight(r), Op(r) \in {"declare", "correct"}
  PROVE  Ref(r) \in Req /\ call[r].number \in Number
BY CallTypes DEF IInv, StageOK, Ref, Op

\* Starting a declaration keeps the invariant.
LEMMA DeclareStep ==
  ASSUME IInv, NEW r \in Req, Declare(r)
  PROVE  IInv'
<1> USE DEF IInv
<1> PICK c \in Calls[r] :
      /\ c.op = "declare" /\ Begin(r, c, "link")
      /\ tx' = [tx EXCEPT ![r].pending = Pending(c.game), ![r].began = clock]
      /\ UNCHANGED <<db, env, rows>>
  BY DEF Declare
<1>1. tx' \in [Req -> Tx] /\ tx'[r].pending = Pending(c.game)
      /\ \A q \in Req : q # r => tx'[q] = tx[q]
  <2>1. Pending(c.game) \in SUBSET Req /\ clock \in Nat /\ tx \in [Req -> Tx]
    BY DEF Pending, TypeOK
  <2> QED BY <2>1, TxPending
<1>2. TypeOK'
  BY <1>1, BeginStep DEF TypeOK, db, env, rows, Begin, Goto, Stages
<1>3. StageOK'
  BY BeginStep DEF TypeOK, StageOK, InFlight, Stages, Op
<1>4. RowsOK'
  BY BeginStep DEF TypeOK, RowsOK, db, rows, Int32
<1>5. ReadOK'
  BY <1>1, BeginStep DEF TypeOK, ReadOK, db, InFlight, Stages, Op, Pending
<1> QED BY <1>2, <1>3, <1>4, <1>5

\* Linking the bets and computing the winners keeps the invariant.
LEMMA LinkBetsStep ==
  ASSUME IInv, NEW r \in Req, LinkBets(r)
  PROVE  IInv'
<1> USE DEF IInv
<1> DEFINE won == Winners(Stakes(tx[r].pending), call[r].number)
           new == NewCredits(r, won)
<1>0. InFlight(r) /\ Op(r) = "declare" /\ Ref(r) \in Req /\ call[r].number \in Number
      /\ pc[r] = "link"
  BY RefType DEF LinkBets, StageOK, InFlight, Stages
<1>1. CASE Abort(r)
  BY <1>1, AbortStep
<1>2. CASE ~Abort(r)
  <2>0. /\ CastOK(won) /\ tx' = [tx EXCEPT ![r].won = won, ![r].due = new]
        /\ Goto(r, CreditStage(new)) /\ UNCHANGED <<db, env, call, rows>>
    BY <1>2 DEF LinkBets
  <2>1. won \in [User -> Entry] /\ new \subseteq Payout
    BY <1>0, <2>0, WinnersType, CreditsType DEF TypeOK, Tx
  <2> HIDE DEF won, new
  <2>2. tx' \in [Req -> Tx] /\ \A q \in Req : tx'[q].pending = tx[q].pending
    <3>1. tx \in [Req -> Tx]
      BY DEF TypeOK
    <3> QED BY <2>0, <2>1, <3>1, TxWon
  <2>3. TypeOK'
    BY <2>0, <2>2 DEF TypeOK, db, env, rows, Goto, Stages, CreditStage
  <2>4. StageOK'
    BY <1>0, <2>0 DEF TypeOK, StageOK, InFlight, Stages, Op, Goto, CreditStage
  <2>5. RowsOK'
    BY <2>0 DEF TypeOK, RowsOK, db, rows, Goto, CreditStage, Holding
  <2>6. ReadOK'
    BY <1>0, <2>0, <2>2 DEF TypeOK, ReadOK, db, InFlight, Stages, Op, Goto, CreditStage
  <2> QED BY <2>3, <2>4, <2>5, <2>6
<1> QED BY <1>1, <1>2

\* Crediting one winner keeps the invariant.
LEMMA CreditWinnerStep ==
  ASSUME IInv, NEW r \in Req, CreditWinner(r)
  PROVE  IInv'
<1> USE DEF IInv
<1>0. pc[r] = "credit" /\ InFlight(r) /\ Op(r) \in {"declare", "correct"}
  BY DEF CreditWinner, StageOK, InFlight, Stages
<1>1. CASE Abort(r)
  BY <1>1, AbortStep
<1>2. CASE ~Abort(r)
  <2> PICK p \in NextDue(r) :
        /\ Free(r, p.user) /\ Fits(p.user, p.amount)
        /\ Move(r, p.user, p.amount, p.amount)
        /\ tx' = [tx EXCEPT ![r].due = @ \ {p}]
        /\ Goto(r, CreditStage(tx[r].due \ {p}))
        /\ UNCHANGED <<db, env, call>>
    BY <1>2 DEF CreditWinner, Post
  <2>1. p.user \in User /\ p.amount \in Nat
    BY DEF NextDue, TypeOK, Tx, Payout
  <2>2. /\ lock' \in [User -> Req \cup {None}]
        /\ delta' \in [User -> Int] /\ dnet' \in [User -> Int]
        /\ RowsOK'
    <3>1. balance' = balance /\ pc'[r] \in Holding /\ \A q \in Req : q # r => pc'[q] = pc[q]
      BY DEF TypeOK, Goto, Holding, db, CreditStage
    <3>2. p.amount \in Int
      BY <2>1
    <3> QED BY <2>1, <3>1, <3>2, MoveRows
  <2>3. tx' \in [Req -> Tx] /\ \A q \in Req : tx'[q].pending = tx[q].pending
    <3>1. tx \in [Req -> Tx] /\ tx[r].due \ {p} \in SUBSET Payout
      BY TxFields DEF TypeOK
    <3>2. tx' = [tx EXCEPT ![r].due = tx[r].due \ {p}]
      OBVIOUS
    <3> QED BY <3>1, <3>2, TxDue
  <2>4. TypeOK'
    BY <2>2, <2>3 DEF TypeOK, db, env, Goto, Stages, CreditStage
  <2>5. StageOK'
    BY <1>0 DEF TypeOK, StageOK, InFlight, Stages, Op, Goto, CreditStage
  <2>6. ReadOK'
    BY <1>0, <2>3 DEF TypeOK, ReadOK, db, InFlight, Stages, Op, Goto, CreditStage
  <2> QED BY <2>2, <2>4, <2>5, <2>6
<1> QED BY <1>1, <1>2

\* The commit of a declaration keeps the invariant: the bets it links still exist.
LEMMA CommitDeclareStep ==
  ASSUME IInv, NEW r \in Req, CommitDeclare(r)
  PROVE  IInv'
<1> USE DEF IInv
<1>0. pc[r] = "commit" /\ InFlight(r) /\ Op(r) = "declare" /\ Publish(r)
      /\ Ref(r) \in Req /\ call[r].game \in Game /\ call[r].number \in Number
  BY CallTypes, RefType DEF CommitDeclare, StageOK, InFlight, Stages, Op
<1>1. tx[r].pending \subseteq Req /\ tx[r].won \in [User -> Entry] /\ tx[r].began \in Nat
  BY DEF TypeOK, Tx
<1>2. results' \in [Req -> Result \cup {None}]
      /\ \A x \in Req : results[x] # None => results'[x] # None
  <2> DEFINE row == [game |-> call[r].game, number |-> call[r].number,
                     count |-> Cardinality(tx[r].pending), winners |-> tx[r].won,
                     at |-> tx[r].began]
  <2>1. Cardinality(tx[r].pending) \in Nat
    BY <1>1, PoolLedgerAssumption, FS_Subset, FS_CardinalityType
  <2>2. row \in Result /\ row # None
    BY <1>0, <1>1, <2>1, PoolLedgerAssumption DEF Result
  <2>3. results' = [results EXCEPT ![r] = row]
    BY DEF CommitDeclare
  <2> HIDE DEF row
  <2> QED BY <2>2, <2>3 DEF TypeOK
<1>3. bets' \in [Req -> Bet \cup {None}] /\ \A b \in Req : bets[b] # None => bets'[b] # None
  <2> SUFFICES ASSUME NEW b \in Req
               PROVE  bets'[b] \in Bet \cup {None} /\ (bets[b] # None => bets'[b] # None)
    BY DEF CommitDeclare
  <2>1. CASE b \in tx[r].pending
    <3>1. bets[b] \in Bet
      BY <2>1 DEF ReadOK, TypeOK
    <3>2. bets'[b] = [bets[b] EXCEPT !.result = r]
      BY <2>1 DEF CommitDeclare
    <3>3. bets'[b] \in Bet
      BY <3>1, <3>2 DEF Bet
    <3> QED BY <3>3, PoolLedgerAssumption
  <2>2. CASE b \notin tx[r].pending
    BY <2>2 DEF CommitDeclare, TypeOK
  <2> QED BY <2>1, <2>2
<1>4. payouts' \subseteq Payout
  BY <1>0, <1>1, CreditsType DEF CommitDeclare, TypeOK
<1>5. TypeOK' /\ StageOK' /\ RowsOK'
  BY <1>0, <1>2, <1>3, <1>4, PublishStep DEF TypeOK
<1>6. ReadOK'
  BY <1>0, <1>2, <1>3, ReadAfterCommit
<1> QED BY <1>5, <1>6

\* updateResult's checks keep the invariant.
LEMMA UpdateResultStep ==
  ASSUME IInv, NEW r \in Req, UpdateResult(r)
  PROVE  IInv'
<1> USE DEF IInv
<1> PICK c \in Calls[r], s \in {"failed", "credits"} :
      c.op = "correct" /\ Begin(r, c, s) /\ (s = "credits" => results[c.ref] # None)
  BY DEF UpdateResult, Editable
<1>0. UNCHANGED <<db, env, tx, rows>>
  BY DEF UpdateResult
<1>1. TypeOK'
  BY <1>0, BeginStep DEF TypeOK, db, env, rows, Begin, Goto, Stages
<1>2. StageOK'
  BY <1>0, BeginStep DEF TypeOK, StageOK, InFlight, Stages, Op
<1>3. RowsOK'
  BY <1>0, BeginStep DEF TypeOK, RowsOK, db, rows, Int32
<1>4. ReadOK'
  BY <1>0, BeginStep DEF TypeOK, ReadOK, db, InFlight, Stages, Op
<1> QED BY <1>1, <1>2, <1>3, <1>4

\* Finding the rows to reverse keeps the invariant.
LEMMA FindCreditsStep ==
  ASSUME IInv, NEW r \in Req, FindCredits(r)
  PROVE  IInv'
<1> USE DEF IInv
<1> DEFINE found == {p \in payouts : p.ref = Ref(r)}
<1>0. /\ pc[r] = "credits" /\ InFlight(r) /\ Op(r) = "correct"
      /\ tx' = [tx EXCEPT ![r].found = found, ![r].due = found]
      /\ Goto(r, IF found = {} THEN "rescore" ELSE "reverse")
      /\ UNCHANGED <<db, env, call, rows>>
  BY DEF FindCredits, StageOK, InFlight, Stages
<1>1. found \in SUBSET Payout /\ tx \in [Req -> Tx]
  BY DEF TypeOK
<1> HIDE DEF found
<1>2. tx' \in [Req -> Tx] /\ \A q \in Req : tx'[q].pending = tx[q].pending
  BY <1>0, <1>1, TxFound
<1>3. TypeOK'
  BY <1>0, <1>2 DEF TypeOK, db, env, rows, Goto, Stages
<1>4. StageOK'
  BY <1>0 DEF TypeOK, StageOK, InFlight, Stages, Op, Goto
<1>5. RowsOK'
  BY <1>0 DEF TypeOK, RowsOK, db, rows, Goto, Holding
<1>6. ReadOK'
  BY <1>0, <1>2 DEF TypeOK, ReadOK, db, InFlight, Stages, Op, Goto
<1> QED BY <1>3, <1>4, <1>5, <1>6

\* Reversing one credit keeps the invariant: the new balance fits its column.
LEMMA ReverseCreditStep ==
  ASSUME IInv, NEW r \in Req, ReverseCredit(r)
  PROVE  IInv'
<1> USE DEF IInv
<1>0. pc[r] = "reverse" /\ InFlight(r) /\ Op(r) = "correct"
  BY DEF ReverseCredit, StageOK, InFlight, Stages
<1>1. CASE Abort(r)
  BY <1>1, AbortStep
<1>2. CASE ~Abort(r)
  <2> PICK p \in tx[r].due :
        /\ Free(r, p.user) /\ Fits(p.user, -p.amount)
        /\ Move(r, p.user, -p.amount, -SoftDeleted(p))
        /\ tx' = [tx EXCEPT ![r].due = @ \ {p}]
        /\ Goto(r, IF tx[r].due = {p} THEN "rescore" ELSE "reverse")
        /\ UNCHANGED <<db, env, call>>
    BY <1>2 DEF ReverseCredit
  <2>1. p.user \in User /\ p.amount \in Nat /\ -p.amount \in Int /\ -SoftDeleted(p) \in Int
    BY DEF TypeOK, Tx, Payout, SoftDeleted
  <2>2. /\ lock' \in [User -> Req \cup {None}]
        /\ delta' \in [User -> Int] /\ dnet' \in [User -> Int]
        /\ RowsOK'
    <3>1. balance' = balance /\ pc'[r] \in Holding /\ \A q \in Req : q # r => pc'[q] = pc[q]
      BY DEF TypeOK, Goto, Holding, db
    <3> QED BY <2>1, <3>1, MoveRows
  <2>3. tx' \in [Req -> Tx] /\ \A q \in Req : tx'[q].pending = tx[q].pending
    <3>1. tx \in [Req -> Tx] /\ tx[r].due \ {p} \in SUBSET Payout
      BY TxFields DEF TypeOK
    <3>2. tx' = [tx EXCEPT ![r].due = tx[r].due \ {p}]
      OBVIOUS
    <3> QED BY <3>1, <3>2, TxDue
  <2>4. TypeOK'
    BY <2>2, <2>3 DEF TypeOK, db, env, Goto, Stages
  <2>5. StageOK'
    BY <1>0 DEF TypeOK, StageOK, InFlight, Stages, Op, Goto
  <2>6. ReadOK'
    BY <1>0, <2>3 DEF TypeOK, ReadOK, db, InFlight, Stages, Op, Goto
  <2> QED BY <2>2, <2>4, <2>5, <2>6
<1> QED BY <1>1, <1>2

\* Computing the winners of the corrected number keeps the invariant.
LEMMA RescoreStep ==
  ASSUME IInv, NEW r \in Req, Rescore(r)
  PROVE  IInv'
<1> USE DEF IInv
<1> DEFINE won == Winners(Stakes(Linked(Ref(r))), call[r].number)
<1>0. pc[r] = "rescore" /\ InFlight(r) /\ Op(r) = "correct"
      /\ Ref(r) \in Req /\ call[r].number \in Number
  BY RefType DEF Rescore, StageOK, InFlight, Stages
<1>1. CASE Abort(r)
  BY <1>1, AbortStep
<1>2. CASE ~Abort(r)
  <2>0. /\ CastOK(won) /\ tx' = [tx EXCEPT ![r].won = won, ![r].loaded = results[Ref(r)]]
        /\ Goto(r, "save") /\ UNCHANGED <<db, env, call, rows>>
    BY <1>2 DEF Rescore
  <2>1. won \in [User -> Entry]
    <3>1. Linked(Ref(r)) \in SUBSET Req
      BY DEF Linked
    <3> QED BY <1>0, <2>0, <3>1, WinnersType
  <2>2. results[Ref(r)] \in Result \cup {None} /\ tx \in [Req -> Tx]
    BY <1>0 DEF TypeOK
  <2> HIDE DEF won
  <2>3. tx' \in [Req -> Tx] /\ \A q \in Req : tx'[q].pending = tx[q].pending
    BY <2>0, <2>1, <2>2, TxLoaded
  <2>4. TypeOK'
    BY <2>0, <2>3 DEF TypeOK, db, env, rows, Goto, Stages
  <2>5. StageOK'
    BY <1>0, <2>0 DEF TypeOK, StageOK, InFlight, Stages, Op, Goto
  <2>6. RowsOK'
    BY <2>0 DEF TypeOK, RowsOK, db, rows, Goto, Holding
  <2>7. ReadOK'
    BY <1>0, <2>0, <2>3 DEF TypeOK, ReadOK, db, InFlight, Stages, Op, Goto
  <2> QED BY <2>4, <2>5, <2>6, <2>7
<1> QED BY <1>1, <1>2

\* Saving the corrected result keeps the invariant.
LEMMA SaveResultStep ==
  ASSUME IInv, NEW r \in Req, SaveResult(r)
  PROVE  IInv'
<1> USE DEF IInv
<1> DEFINE new == NewCredits(r, tx[r].won)
<1>0. /\ pc[r] = "save" /\ InFlight(r) /\ Op(r) = "correct" /\ Ref(r) \in Req
      /\ tx' = [tx EXCEPT ![r].due = new] /\ Goto(r, CreditStage(new))
      /\ UNCHANGED <<db, env, call, rows>>
  BY RefType DEF SaveResult, StageOK, InFlight, Stages
<1>1. new \in SUBSET Payout /\ tx \in [Req -> Tx]
  BY <1>0, TxFields, CreditsType DEF TypeOK
<1> HIDE DEF new
<1>2. tx' \in [Req -> Tx] /\ \A q \in Req : tx'[q].pending = tx[q].pending
  BY <1>0, <1>1, TxDue
<1>3. TypeOK'
  BY <1>0, <1>2 DEF TypeOK, db, env, rows, Goto, Stages, CreditStage
<1>4. StageOK'
  BY <1>0 DEF TypeOK, StageOK, InFlight, Stages, Op, Goto, CreditStage
<1>5. RowsOK'
  BY <1>0 DEF TypeOK, RowsOK, db, rows, Goto, Holding, CreditStage
<1>6. ReadOK'
  BY <1>0, <1>2 DEF TypeOK, ReadOK, db, InFlight, Stages, Op, Goto, CreditStage
<1> QED BY <1>3, <1>4, <1>5, <1>6

\* The commit of a correction keeps the invariant.
LEMMA CommitCorrectionStep ==
  ASSUME IInv, NEW r \in Req, CommitCorrection(r)
  PROVE  IInv'
<1> USE DEF IInv
<1>0. pc[r] = "commit" /\ InFlight(r) /\ Op(r) = "correct" /\ Publish(r)
      /\ Ref(r) \in Req /\ call[r].number \in Number /\ results[Ref(r)] # None
  BY RefType DEF CommitCorrection, StageOK, ReadOK, InFlight, Stages, Ref, Op
<1>1. tx[r].won \in [User -> Entry] /\ results[Ref(r)] \in Result
  BY <1>0, TxFields DEF TypeOK
<1>2. results' \in [Req -> Result \cup {None}]
      /\ \A x \in Req : results[x] # None => results'[x] # None
  <2>1. Saved(r) \in Result
    <3> DEFINE old == results[Ref(r)]
               n == IF tx[r].loaded.number = call[r].number THEN old.number ELSE call[r].number
               w == IF tx[r].loaded.winners = tx[r].won THEN old.winners ELSE tx[r].won
    <3>1. n \in Number /\ w \in [User -> Entry]
      BY <1>0, <1>1 DEF Result
    <3>2. Saved(r) = [old EXCEPT !.number = n, !.winners = w]
      BY <1>1 DEF Saved, Result
    <3> HIDE DEF n, w
    <3> QED BY <1>1, <3>1, <3>2 DEF Result
  <2>2. results' = [results EXCEPT ![Ref(r)] = Saved(r)]
    BY DEF CommitCorrection
  <2> QED BY <1>0, <2>1, <2>2, PoolLedgerAssumption DEF TypeOK
<1>3. payouts' \subseteq Payout
  BY <1>0, <1>1, CreditsType DEF CommitCorrection, TypeOK
<1>4. bets' = bets
  BY DEF CommitCorrection
<1>5. TypeOK' /\ StageOK' /\ RowsOK'
  BY <1>0, <1>2, <1>3, <1>4, PublishStep DEF TypeOK
<1>6. ReadOK'
  BY <1>0, <1>2, <1>4, ReadAfterCommit
<1> QED BY <1>5, <1>6

-----------------------------------------------------------------------------
(* What bets are admitted against *)

\* Locking or unlocking an account keeps the invariant.
LEMMA SetLockStatusStep ==
  ASSUME IInv, NEW r \in Req, SetLockStatus(r)
  PROVE  IInv'
<1> USE DEF IInv
<1> PICK c \in Calls[r] :
      /\ c.op = "lockUser" /\ Begin(r, c, "done")
      /\ active' = IF c.on THEN active \ {c.user} ELSE active \cup {c.user}
  BY DEF SetLockStatus
<1>0. UNCHANGED <<db, subTypes, clock, tx, rows>>
  BY DEF SetLockStatus
<1>1. TypeOK'
  <2>1. active' \subseteq User
    BY BeginStep, CallTypes DEF TypeOK
  <2> QED BY <1>0, <2>1, BeginStep DEF TypeOK, db, rows, Begin, Goto, Stages
<1>2. StageOK'
  BY <1>0, BeginStep DEF TypeOK, StageOK, InFlight, Stages, Op
<1>3. RowsOK'
  BY <1>0, BeginStep DEF TypeOK, RowsOK, db, rows, Int32
<1>4. ReadOK'
  BY <1>0, BeginStep DEF TypeOK, ReadOK, db, InFlight, Stages, Op
<1> QED BY <1>1, <1>2, <1>3, <1>4

\* Opening or closing a sub type keeps the invariant.
LEMMA UpdateSubTypeStep ==
  ASSUME IInv, NEW r \in Req, UpdateSubType(r)
  PROVE  IInv'
<1> USE DEF IInv
<1> PICK c \in Calls[r] :
      /\ c.op = "editSubType" /\ Begin(r, c, "done")
      /\ subTypes' = [subTypes EXCEPT ![c.game] =
           [closeTime |-> Edited(c.closeTime, @.closeTime),
            isActive  |-> Edited(c.isActive, @.isActive)]]
  BY DEF UpdateSubType
<1>0. UNCHANGED <<db, active, clock, tx, rows>>
  BY DEF UpdateSubType
<1>1. TypeOK'
  <2>1. subTypes' \in [Game -> SubType]
    <3>1. c \in CallSet /\ subTypes \in [Game -> SubType]
      BY BeginStep DEF TypeOK
    <3>2. /\ c.game \in Game /\ c.closeTime \in Nat \cup {None}
          /\ c.isActive \in BOOLEAN \cup {None}
      BY <3>1, CallTypes
    <3>3. subTypes[c.game].closeTime \in Nat /\ subTypes[c.game].isActive \in BOOLEAN
      BY <3>1, <3>2 DEF SubType
    <3>4. [closeTime |-> Edited(c.closeTime, subTypes[c.game].closeTime),
           isActive  |-> Edited(c.isActive, subTypes[c.game].isActive)] \in SubType
      BY <3>2, <3>3 DEF Edited, SubType
    <3> QED BY <3>1, <3>4
  <2> QED BY <1>0, <2>1, BeginStep DEF TypeOK, db, rows, Begin, Goto, Stages
<1>2. StageOK'
  BY <1>0, BeginStep DEF TypeOK, StageOK, InFlight, Stages, Op
<1>3. RowsOK'
  BY <1>0, BeginStep DEF TypeOK, RowsOK, db, rows, Int32
<1>4. ReadOK'
  BY <1>0, BeginStep DEF TypeOK, ReadOK, db, InFlight, Stages, Op
<1> QED BY <1>1, <1>2, <1>3, <1>4

\* The passing of time keeps the invariant.
LEMMA TickStep ==
  ASSUME IInv, Tick
  PROVE  IInv'
BY DEF IInv, Tick, TypeOK, StageOK, RowsOK, ReadOK, InFlight, Op, db, rows

\* A step that changes nothing keeps the invariant.
LEMMA StutterStep ==
  ASSUME IInv, UNCHANGED vars
  PROVE  IInv'
BY DEF IInv, vars, TypeOK, StageOK, RowsOK, ReadOK, InFlight, Op, db, env, rows

-----------------------------------------------------------------------------
\* Every step of the pool keeps the invariant.
LEMMA NextInv ==
  ASSUME IInv, [Next]_vars
  PROVE  IInv'
<1>1. CASE Tick
  BY <1>1, TickStep
<1>2. ASSUME NEW r \in Req, Arrive(r) PROVE IInv'
  BY <1>2, TopUpStep, WithdrawStep, PlaceBetStep, DeclareStep, UpdateResultStep,
     SetLockStatusStep, UpdateSubTypeStep DEF Arrive
<1>3. ASSUME NEW r \in Req, Proceed(r) PROVE IInv'
  BY <1>3, InsertWalletStep, RaiseBalanceStep, AssertBettingOpenStep, DebitStep,
     CommitTransferStep, CommitBetStep, LinkBetsStep, CreditWinnerStep, CommitDeclareStep,
     FindCreditsStep, ReverseCreditStep, RescoreStep, SaveResultStep, CommitCorrectionStep
     DEF Proceed
<1>4. ASSUME NEW r \in Req, Fail(r) \/ DeadlockVictim(r) PROVE IInv'
  BY <1>4, AbortStep DEF Fail, DeadlockVictim
<1>5. CASE UNCHANGED vars
  BY <1>5, StutterStep
<1> QED BY <1>1, <1>2, <1>3, <1>4, <1>5 DEF Next

\* Every reachable state is well typed, each request is at a stage of what it
\* asks for, and only a live request holds uncommitted changes.
THEOREM Invariance == Spec => []IInv
BY InitInv, NextInv, PTL DEF Spec

\* Every variable keeps its type: balances stay within the integer column
\* although corrections take money back without looking at them.
THEOREM Typing == Spec => []TypeOK
<1>1. IInv => TypeOK
  BY DEF IInv
<1> QED BY <1>1, Invariance, PTL

-----------------------------------------------------------------------------
(* No spend overdraws a wallet *)

\* A request that is no correction leaves the wallets it holds with as much
\* as it found there, or with what covers it.
Solvent ==
  \A u \in User : lock[u] # None /\ Op(lock[u]) # "correct" =>
    delta[u] >= 0 \/ balance[u] + delta[u] >= 0

\* A wallet update that adds, or takes what is there, leaves Solvent true.
LEMMA SolventMove ==
  ASSUME IInv, Solvent, NEW r \in Req, NEW u \in User, NEW d \in Int, NEW n \in Int,
         Free(r, u), Move(r, u, d, n), UNCHANGED <<balance, call>>,
         \/ Op(r) = "correct"
         \/ d >= 0
         \/ delta[u] = 0 /\ balance[u] + d >= 0
  PROVE  Solvent'
<1>1. ASSUME NEW v \in User, v # u PROVE lock'[v] = lock[v] /\ delta'[v] = delta[v]
  BY <1>1 DEF IInv, TypeOK, Move
<1>2. lock'[u] = r /\ delta'[u] = delta[u] + d /\ delta[u] \in Int /\ balance[u] \in Int
  BY PoolLedgerAssumption DEF IInv, TypeOK, Move, Int32
<1>3. r # None
  BY PoolLedgerAssumption
<1>4. Op(r) # "correct" => delta'[u] >= 0 \/ balance[u] + delta'[u] >= 0
  <2>1. CASE lock[u] = None
    BY <1>2, <2>1 DEF IInv, RowsOK
  <2>2. CASE lock[u] = r
    BY <1>2, <1>3, <2>2 DEF Solvent
  <2> QED BY <2>1, <2>2 DEF Free
<1> QED BY <1>1, <1>2, <1>4 DEF Solvent, Op

\* So does the end of a transaction, whatever it publishes.
LEMMA SolventRelease ==
  ASSUME IInv, Solvent, NEW r \in Req, Release(r), call' = call,
         \A u \in User : lock[u] # r => balance'[u] = balance[u]
  PROVE  Solvent'
<1> SUFFICES ASSUME NEW u \in User, lock'[u] # None, call'[lock'[u]].op # "correct"
             PROVE  delta'[u] >= 0 \/ balance'[u] + delta'[u] >= 0
  BY DEF Solvent, Op
<1>1. lock[u] # r
  BY ReleaseRows
<1>2. lock'[u] = lock[u] /\ delta'[u] = delta[u] /\ balance'[u] = balance[u]
  BY <1>1, ReleaseRows
<1>3. Op(lock[u]) # "correct"
  BY <1>2 DEF Op
<1> QED BY <1>2, <1>3 DEF Solvent

\* And a request that starts: it holds no row yet.
LEMMA SolventBegin ==
  ASSUME IInv, Solvent, NEW r \in Req, NEW c \in Calls[r], NEW s, Begin(r, c, s),
         UNCHANGED <<balance, rows>>
  PROVE  Solvent'
<1>1. \A q \in Req : q # r => call'[q] = call[q]
  BY BeginStep
<1>2. \A u \in User : lock[u] # r
  BY BeginStep
<1>3. \A u \in User : lock[u] # None => lock[u] \in Req
  BY DEF IInv, TypeOK
<1>4. \A u \in User : lock[u] # None => call'[lock[u]] = call[lock[u]]
  BY <1>1, <1>2, <1>3
<1> QED BY <1>4 DEF Solvent, Op, rows

\* No step lets a request that is no correction take more than is there.
LEMMA SolventNext ==
  ASSUME IInv, Solvent, [Next]_vars
  PROVE  Solvent'
<1>1. ASSUME NEW r \in Req, Arrive(r) PROVE Solvent'
  <2>1. PICK c \in Calls[r], s \in Stages \cup {"done", "failed"} :
          Begin(r, c, s) /\ UNCHANGED <<balance, rows>>
    BY <1>1 DEF Arrive, TopUp, Withdraw, PlaceBet, Declare, UpdateResult, SetLockStatus,
                UpdateSubType, db, Stages
  <2> QED BY <2>1, SolventBegin
<1>2. ASSUME NEW r \in Req, Abort(r) PROVE Solvent'
  BY <1>2, SolventRelease DEF Abort, db
<1>3. ASSUME NEW r \in Req, Publish(r) PROVE Solvent'
  BY <1>3, SolventRelease DEF Publish, IInv, TypeOK
<1>4. ASSUME NEW r \in Req, InsertWallet(r), ~Abort(r) PROVE Solvent'
  <2>1. call[r].user \in User /\ Free(r, call[r].user)
    BY <1>4, CallTypes DEF InsertWallet, Free, IInv, StageOK, InFlight, Stages, Op
  <2> QED BY <1>4, <2>1, SolventMove DEF InsertWallet, db
<1>5. ASSUME NEW r \in Req, RaiseBalance(r), ~Abort(r) PROVE Solvent'
  <2>1. call[r].user \in User /\ call[r].amount \in Nat
    BY <1>5, CallTypes, PoolLedgerAssumption DEF RaiseBalance, IInv, StageOK, InFlight, Stages, Op
  <2> QED BY <1>5, <2>1, SolventMove DEF RaiseBalance, Post, db
<1>6. ASSUME NEW r \in Req, Debit(r), ~Abort(r) PROVE Solvent'
  <2> DEFINE u == call[r].user  a == Debited(call[r])
  <2>0. call[r] \in CallSet /\ call[r].op \in {"bet", "withdraw"}
    BY <1>6 DEF Debit, IInv, StageOK, InFlight, Stages, Op
  <2>1. u \in User /\ a \in Nat /\ -a \in Int
    <3>1. Debited(call[r]) \in Nat /\ call[r].user \in User
      BY <2>0, CallTypes, PoolLedgerAssumption DEF Debited
    <3> QED BY <3>1
  <2>2. /\ Free(r, u) /\ Covered(u, a) /\ Move(r, u, -a, -a)
        /\ UNCHANGED <<balance, call>> /\ pc[r] = "debit"
    BY <1>6 DEF Debit, Post, db
  <2>3. delta[u] = 0
    BY <2>1, <2>2 DEF Free, IInv, RowsOK, Holding
  <2>4. balance[u] + -a >= 0
    BY <2>1, <2>2, PoolLedgerAssumption DEF Covered, IInv, TypeOK, Int32
  <2> HIDE DEF u, a
  <2> QED BY <2>1, <2>2, <2>3, <2>4, SolventMove
<1>7. ASSUME NEW r \in Req, CreditWinner(r), ~Abort(r) PROVE Solvent'
  <2>1. PICK p \in NextDue(r) : /\ Free(r, p.user) /\ Move(r, p.user, p.amount, p.amount)
                                /\ UNCHANGED <<balance, call>>
    BY <1>7 DEF CreditWinner, Post, db
  <2>2. p.user \in User /\ p.amount \in Nat
    BY TxFields DEF NextDue, Payout
  <2> QED BY <2>1, <2>2, SolventMove
<1>8. ASSUME NEW r \in Req, ReverseCredit(r), ~Abort(r) PROVE Solvent'
  <2>1. PICK p \in tx[r].due :
          /\ Free(r, p.user) /\ Move(r, p.user, -p.amount, -SoftDeleted(p))
          /\ UNCHANGED <<balance, call>>
    BY <1>8 DEF ReverseCredit, db
  <2>2. p.user \in User /\ -p.amount \in Int /\ -SoftDeleted(p) \in Int
    BY TxFields DEF Payout, SoftDeleted
  <2>3. Op(r) = "correct"
    BY <1>8 DEF ReverseCredit, IInv, StageOK
  <2> QED BY <2>1, <2>2, <2>3, SolventMove
<1>9. ASSUME UNCHANGED <<balance, call, rows>> PROVE Solvent'
  BY <1>9 DEF Solvent, Op, rows
<1>10. ASSUME NEW r \in Req, Proceed(r) PROVE Solvent'
  <2>1. CASE AssertBettingOpen(r) \/ FindCredits(r) \/ SaveResult(r)
    BY <1>9, <2>1 DEF AssertBettingOpen, FindCredits, SaveResult, db
  <2>2. CASE LinkBets(r) \/ Rescore(r)
    BY <1>2, <1>9, <2>2 DEF LinkBets, Rescore, db
  <2>3. CASE CommitTransfer(r) \/ CommitBet(r) \/ CommitDeclare(r) \/ CommitCorrection(r)
    BY <1>3, <2>3 DEF CommitTransfer, CommitBet, CommitDeclare, CommitCorrection
  <2> QED BY <1>2, <1>4, <1>5, <1>6, <1>7, <1>8, <1>10, <2>1, <2>2, <2>3 DEF Proceed
<1>11. CASE Tick \/ UNCHANGED vars
  BY <1>9, <1>11 DEF Tick, vars, db, rows
<1> QED BY <1>1, <1>2, <1>10, <1>11 DEF Next, Fail, DeadlockVictim

\* Whatever races with debit's balance check, a committed balance falls below
\* zero only in the commit of a correction.
THEOREM NoOverdraft == Spec => OnlyCorrectionsOverdraw
<1>1. Init => Solvent
  BY DEF Init, Solvent
<1>2. IInv /\ Solvent /\ [Next]_vars => Solvent'
  BY SolventNext
<1>3. IInv /\ Solvent /\ [Next]_vars => [OverdrawsInCorrection]_vars
  <2> SUFFICES ASSUME IInv, Solvent, Next PROVE OverdrawsInCorrection \/ UNCHANGED vars
    OBVIOUS
  <2>1. ASSUME balance' = balance PROVE OverdrawsInCorrection
    BY <2>1, PoolLedgerAssumption DEF OverdrawsInCorrection, IInv, TypeOK, Int32
  <2>2. ASSUME NEW r \in Req, pc[r] = "commit", Publish(r) PROVE OverdrawsInCorrection
    <3> SUFFICES ASSUME NEW u \in User, balance'[u] < balance[u], balance'[u] < 0
                 PROVE  Op(r) = "correct" /\ pc'[r] = "done"
      BY <2>2 DEF OverdrawsInCorrection
    <3>1. balance[u] \in Int /\ delta[u] \in Int
      BY PoolLedgerAssumption DEF IInv, TypeOK, Int32
    <3>2. balance'[u] = IF lock[u] = r THEN balance[u] + delta[u] ELSE balance[u]
      BY <2>2 DEF Publish
    <3>3. lock[u] = r /\ r # None /\ ~(delta[u] >= 0 \/ balance[u] + delta[u] >= 0)
      BY <3>1, <3>2, PoolLedgerAssumption
    <3> QED BY <2>2, <3>3, PublishStep DEF Solvent
  <2>3. ASSUME NEW r \in Req, Arrive(r) PROVE balance' = balance
    BY <2>3 DEF Arrive, TopUp, Withdraw, PlaceBet, Declare, UpdateResult, SetLockStatus,
                UpdateSubType, db
  <2>4. ASSUME NEW r \in Req, Abort(r) PROVE balance' = balance
    BY <2>4 DEF Abort, db
  <2>5. ASSUME NEW r \in Req, Proceed(r), balance' # balance
        PROVE  pc[r] = "commit" /\ Publish(r)
    BY <2>4, <2>5 DEF Proceed, InsertWallet, RaiseBalance, AssertBettingOpen, Debit, CommitTransfer,
         CommitBet, LinkBets, CreditWinner, CommitDeclare, FindCredits, ReverseCredit, Rescore,
         SaveResult, CommitCorrection, db
  <2> QED BY <2>1, <2>2, <2>3, <2>4, <2>5 DEF Next, Fail, DeadlockVictim, Tick, db
<1> QED BY <1>1, <1>2, <1>3, Invariance, PTL DEF Spec, OnlyCorrectionsOverdraw

-----------------------------------------------------------------------------
(* What a step of one request leaves to the others *)

\* Bets and results are there once the request that inserts them is done.
InsertedOK ==
  /\ \A x \in Req : results[x] # None => pc[x] = "done"
  /\ \A b \in Req : bets[b] # None => pc[b] = "done"

\* What a settlement does to its record keeps the bets it found.
LEMMA TxKeep ==
  ASSUME tx \in [Req -> Tx], NEW r \in Req, NEW w, NEW D,
         \/ tx' = [tx EXCEPT ![r].won = w, ![r].due = D]
         \/ tx' = [tx EXCEPT ![r].due = D]
         \/ tx' = [tx EXCEPT ![r].won = w, ![r].loaded = D]
  PROVE  /\ tx'[r].pending = tx[r].pending /\ tx'[r].found = tx[r].found
         /\ \A q \in Req : q # r => tx'[q] = tx[q]
<1>1. tx[r] \in Tx
  OBVIOUS
<1>2. ASSUME NEW t, tx' = [tx EXCEPT ![r] = t], t.pending = tx[r].pending, t.found = tx[r].found
      PROVE  /\ tx'[r].pending = tx[r].pending /\ tx'[r].found = tx[r].found
             /\ \A q \in Req : q # r => tx'[q] = tx[q]
  BY <1>2
<1>3. CASE tx' = [tx EXCEPT ![r].won = w, ![r].due = D]
  <2> DEFINE t == [tx[r] EXCEPT !.won = w, !.due = D]
  <2>1. t.pending = tx[r].pending /\ t.found = tx[r].found
    BY <1>1 DEF Tx
  <2>2. tx' = [tx EXCEPT ![r] = t]
    BY <1>3
  <2> HIDE DEF t
  <2> QED BY <2>1, <2>2, <1>2
<1>4. CASE tx' = [tx EXCEPT ![r].due = D]
  <2> DEFINE t == [tx[r] EXCEPT !.due = D]
  <2>1. t.pending = tx[r].pending /\ t.found = tx[r].found
    BY <1>1 DEF Tx
  <2>2. tx' = [tx EXCEPT ![r] = t]
    BY <1>4
  <2> HIDE DEF t
  <2> QED BY <2>1, <2>2, <1>2
<1>5. CASE tx' = [tx EXCEPT ![r].won = w, ![r].loaded = D]
  <2> DEFINE t == [tx[r] EXCEPT !.won = w, !.loaded = D]
  <2>1. t.pending = tx[r].pending /\ t.found = tx[r].found
    BY <1>1 DEF Tx
  <2>2. tx' = [tx EXCEPT ![r] = t]
    BY <1>5
  <2> HIDE DEF t
  <2> QED BY <2>1, <2>2, <1>2
<1> QED BY <1>3, <1>4, <1>5

\* A request that starts changes nothing on record; a settlement starts only
\* on a game nobody settles.
LEMMA ArriveStep ==
  ASSUME IInv, NEW r \in Req, Arrive(r)
  PROVE  \E c \in Calls[r], s \in Stages \cup {"done", "failed"} :
           /\ Begin(r, c, s) /\ UNCHANGED <<db, rows>>
           /\ \A q \in Req : q # r => tx'[q] = tx[q]
           /\ s \in Stages /\ c.op = "declare" =>
                MaySettle(c.game) /\ tx'[r].pending = Pending(c.game)
           /\ s \in Stages /\ c.op = "correct" =>
                /\ s = "credits" /\ results[c.ref] # None
                /\ MaySettle(results[c.ref].game)
<1>1. CASE TopUp(r)
  BY <1>1 DEF TopUp, Stages
<1>2. CASE Withdraw(r)
  BY <1>2 DEF Withdraw, Stages
<1>3. CASE PlaceBet(r)
  BY <1>3 DEF PlaceBet, Stages
<1>4. CASE Declare(r)
  <2> PICK c \in Calls[r] :
        /\ c.op = "declare" /\ MaySettle(c.game) /\ Begin(r, c, "link")
        /\ tx' = [tx EXCEPT ![r].pending = Pending(c.game), ![r].began = clock]
        /\ UNCHANGED <<db, env, rows>>
    BY <1>4 DEF Declare
  <2>1. Pending(c.game) \in SUBSET Req /\ clock \in Nat /\ tx \in [Req -> Tx]
    BY DEF Pending, IInv, TypeOK
  <2>2. tx'[r].pending = Pending(c.game) /\ \A q \in Req : q # r => tx'[q] = tx[q]
    BY <2>1, TxPending
  <2> QED BY <2>2 DEF Stages
<1>5. CASE UpdateResult(r)
  BY <1>5 DEF UpdateResult, Editable, Stages
<1>6. CASE SetLockStatus(r)
  BY <1>6 DEF SetLockStatus, db, Stages
<1>7. CASE UpdateSubType(r)
  BY <1>7 DEF UpdateSubType, db, Stages
<1> QED BY <1>1, <1>2, <1>3, <1>4, <1>5, <1>6, <1>7 DEF Arrive

\* A request that goes on leaves the others where they are, keeps what it has
\* found until it ends, and changes the record only in its commit.
LEMMA ProceedStep ==
  ASSUME IInv, NEW r \in Req, Proceed(r) \/ Fail(r) \/ DeadlockVictim(r)
  PROVE  /\ InFlight(r) /\ call' = call
         /\ \A q \in Req : q # r => pc'[q] = pc[q] /\ tx'[q] = tx[q]
         /\ InFlight(r)' => /\ tx'[r].pending = tx[r].pending
                            /\ pc[r] = "credits" \/ tx'[r].found = tx[r].found
         /\ \/ UNCHANGED db
            \/ CommitTransfer(r) \/ CommitBet(r) \/ CommitDeclare(r) \/ CommitCorrection(r)
<1>0. tx \in [Req -> Tx] /\ pc \in [Req -> Stages \cup {"idle", "done", "failed"}]
  BY DEF IInv, TypeOK
<1> DEFINE Others == \A q \in Req : q # r => pc'[q] = pc[q]
           Keeps  == /\ tx'[r].pending = tx[r].pending /\ tx'[r].found = tx[r].found
                     /\ \A q \in Req : q # r => tx'[q] = tx[q]
<1>1. ASSUME Abort(r), InFlight(r)
      PROVE  /\ call' = call /\ UNCHANGED db /\ ~InFlight(r)'
             /\ \A q \in Req : q # r => pc'[q] = pc[q] /\ tx'[q] = tx[q]
  BY <1>0, <1>1 DEF Abort, Goto, InFlight, Stages
<1>2. CASE Fail(r) \/ DeadlockVictim(r)
  BY <1>1, <1>2 DEF Fail, DeadlockVictim, Waiting
<1>3. CASE InsertWallet(r) \/ RaiseBalance(r) \/ AssertBettingOpen(r) \/ Debit(r)
  <2>1. InFlight(r)
    BY <1>3 DEF InsertWallet, RaiseBalance, AssertBettingOpen, Debit, InFlight, Stages
  <2>2. ASSUME ~Abort(r) PROVE UNCHANGED <<db, call, tx>> /\ Others
    BY <1>0, <1>3, <2>2 DEF InsertWallet, RaiseBalance, AssertBettingOpen, Debit, Goto
  <2> QED BY <1>1, <2>1, <2>2
<1>4. CASE LinkBets(r) \/ Rescore(r) \/ CreditWinner(r) \/ ReverseCredit(r) \/ SaveResult(r)
  <2>1. InFlight(r)
    BY <1>4 DEF LinkBets, Rescore, CreditWinner, ReverseCredit, SaveResult, InFlight, Stages
  <2>2. ASSUME ~Abort(r) PROVE UNCHANGED <<db, call>> /\ Others /\ Keeps
    <3>1. CASE LinkBets(r)
      <4> DEFINE won == Winners(Stakes(tx[r].pending), call[r].number)
                 new == NewCredits(r, won)
      <4>1. /\ tx' = [tx EXCEPT ![r].won = won, ![r].due = new]
            /\ UNCHANGED <<db, call>> /\ Goto(r, CreditStage(new))
        BY <2>2, <3>1 DEF LinkBets
      <4> HIDE DEF won, new
      <4> QED BY <1>0, <4>1, TxKeep DEF Goto
    <3>2. CASE Rescore(r)
      <4> DEFINE won == Winners(Stakes(Linked(Ref(r))), call[r].number)
      <4>1. /\ tx' = [tx EXCEPT ![r].won = won, ![r].loaded = results[Ref(r)]]
            /\ UNCHANGED <<db, call>> /\ Goto(r, "save")
        BY <2>2, <3>2 DEF Rescore
      <4> HIDE DEF won
      <4> QED BY <1>0, <4>1, TxKeep DEF Goto
    <3>3. CASE CreditWinner(r)
      <4>1. PICK p : /\ tx' = [tx EXCEPT ![r].due = tx[r].due \ {p}]
                     /\ UNCHANGED <<db, call>> /\ Goto(r, CreditStage(tx[r].due \ {p}))
        BY <2>2, <3>3 DEF CreditWinner
      <4> QED BY <1>0, <4>1, TxKeep DEF Goto
    <3>4. CASE ReverseCredit(r)
      <4>1. PICK p : /\ tx' = [tx EXCEPT ![r].due = tx[r].due \ {p}] /\ UNCHANGED <<db, call>>
                     /\ Goto(r, IF tx[r].due = {p} THEN "rescore" ELSE "reverse")
        BY <2>2, <3>4 DEF ReverseCredit
      <4> QED BY <1>0, <4>1, TxKeep DEF Goto
    <3>5. CASE SaveResult(r)
      <4> DEFINE new == NewCredits(r, tx[r].won)
      <4>1. /\ tx' = [tx EXCEPT ![r].due = new] /\ UNCHANGED <<db, call>>
            /\ Goto(r, CreditStage(new))
        BY <3>5 DEF SaveResult
      <4> HIDE DEF new
      <4> QED BY <1>0, <4>1, TxKeep DEF Goto
    <3> QED BY <1>4, <3>1, <3>2, <3>3, <3>4, <3>5
  <2> QED BY <1>1, <2>1, <2>2
<1>5. CASE FindCredits(r)
  <2> DEFINE found == {p \in payouts : p.ref = Ref(r)}
  <2>1. found \in SUBSET Payout
    BY DEF IInv, TypeOK
  <2>2. /\ pc[r] = "credits" /\ UNCHANGED <<db, call>>
        /\ tx' = [tx EXCEPT ![r].found = found, ![r].due = found]
        /\ Goto(r, IF found = {} THEN "rescore" ELSE "reverse")
    BY <1>5 DEF FindCredits
  <2> HIDE DEF found
  <2>3. tx'[r].pending = tx[r].pending /\ \A q \in Req : q # r => tx'[q] = tx[q]
    BY <1>0, <2>1, <2>2, TxFound
  <2> QED BY <1>0, <2>2, <2>3 DEF Goto, InFlight, Stages
<1>6. CASE CommitTransfer(r) \/ CommitBet(r) \/ CommitDeclare(r) \/ CommitCorrection(r)
  <2>1. pc[r] = "commit" /\ Publish(r)
    BY <1>6 DEF CommitTransfer, CommitBet, CommitDeclare, CommitCorrection
  <2>2. InFlight(r) /\ ~InFlight(r)'
    BY <2>1, PublishStep DEF InFlight, Stages
  <2> QED BY <1>6, <2>1, <2>2, PublishStep
<1> QED BY <1>2, <1>3, <1>4, <1>5, <1>6 DEF Proceed

\* A request works: it goes on, or it ends.
Works(r) == Proceed(r) \/ Fail(r) \/ DeadlockVictim(r)

\* Results and bets stay on record, results keep their game, and only their
\* own request inserts them.
LEMMA RecordStays ==
  ASSUME IInv, InsertedOK, NEW r \in Req, Works(r)
  PROVE  /\ \A x \in Req : results[x] # None =>
              results'[x] # None /\ results'[x].game = results[x].game
         /\ \A x \in Req : results[x] = None /\ results'[x] # None => x = r /\ pc'[r] = "done"
         /\ \A b \in Req : bets[b] # None => bets'[b] # None
         /\ \A b \in Req : bets[b] = None /\ bets'[b] # None => b = r /\ pc'[r] = "done"
<1>0. UNCHANGED db \/ CommitTransfer(r) \/ CommitBet(r) \/ CommitDeclare(r) \/ CommitCorrection(r)
  BY ProceedStep DEF Works
<1>1. CASE UNCHANGED db
  BY <1>1 DEF db
<1>2. CASE CommitTransfer(r)
  BY <1>2 DEF CommitTransfer
<1>3. ASSUME pc[r] = "commit", Publish(r) PROVE pc'[r] = "done" /\ results[r] = None /\ bets[r] = None
  BY <1>3, PublishStep DEF InsertedOK
<1>4. CASE CommitBet(r)
  <2>1. results' = results /\ \A b \in Req : b # r => bets'[b] = bets[b]
    BY <1>4 DEF CommitBet, IInv, TypeOK
  <2> QED BY <1>3, <1>4, <2>1 DEF CommitBet
<1>5. CASE CommitDeclare(r)
  <2>1. \A x \in Req : x # r => results'[x] = results[x]
    BY <1>5 DEF CommitDeclare, IInv, TypeOK
  <2>2. ASSUME NEW b \in Req
        PROVE  /\ bets[b] # None => bets'[b] # None
               /\ bets[b] = None => bets'[b] = None
    <3>1. CASE b \in tx[r].pending
      <4>1. bets[b] # None /\ bets[b] \in Bet
        BY <3>1 DEF IInv, ReadOK, TypeOK
      <4>2. bets'[b] = [bets[b] EXCEPT !.result = r]
        BY <1>5, <3>1 DEF CommitDeclare
      <4>3. bets'[b] \in Bet
        BY <4>1, <4>2 DEF Bet
      <4> QED BY <4>1, <4>3, PoolLedgerAssumption
    <3>2. CASE b \notin tx[r].pending
      BY <1>5, <3>2 DEF CommitDeclare
    <3> QED BY <3>1, <3>2
  <2> QED BY <1>3, <1>5, <2>1, <2>2 DEF CommitDeclare
<1>6. CASE CommitCorrection(r)
  <2>1. pc[r] = "commit" /\ Op(r) = "correct" /\ bets' = bets
        /\ results' = [results EXCEPT ![Ref(r)] = Saved(r)]
    BY <1>6 DEF CommitCorrection
  <2>2. Ref(r) \in Req /\ results[Ref(r)] # None
    BY <2>1, RefType DEF IInv, ReadOK, InFlight, Stages, Ref, Op
  <2>3. results[Ref(r)] \in Result /\ results' \in [Req -> Result \cup {None}]
    BY <1>6, <2>2, CommitCorrectionStep DEF IInv, TypeOK
  <2>4. results'[Ref(r)] = Saved(r)
    BY <2>1, <2>2 DEF IInv, TypeOK
  <2>5. Saved(r).game = results[Ref(r)].game /\ Saved(r) \in Result
    <3> DEFINE old == results[Ref(r)]
               n == IF tx[r].loaded.number = call[r].number THEN old.number ELSE call[r].number
               w == IF tx[r].loaded.winners = tx[r].won THEN old.winners ELSE tx[r].won
    <3>1. Saved(r) = [old EXCEPT !.number = n, !.winners = w]
      BY <2>3 DEF Saved, Result
    <3>2. n \in Number /\ w \in [User -> Entry]
      BY <2>1, <2>3, TxFields, RefType DEF Result, InFlight, Stages
    <3> HIDE DEF n, w
    <3> QED BY <2>3, <3>1, <3>2 DEF Result
  <2>6. Saved(r) # None
    BY <2>5, PoolLedgerAssumption
  <2>7. \A x \in Req : x # Ref(r) => results'[x] = results[x]
    BY <2>1 DEF IInv, TypeOK
  <2> QED BY <2>1, <2>2, <2>4, <2>5, <2>6, <2>7
<1> QED BY <1>0, <1>1, <1>2, <1>4, <1>5, <1>6

\* Every step keeps InsertedOK: a bet or result appears in its request's commit.
LEMMA InsertedNext ==
  ASSUME IInv, InsertedOK, [Next]_vars
  PROVE  InsertedOK'
<1>1. ASSUME NEW r \in Req, Arrive(r) PROVE InsertedOK'
  <2>1. PICK c \in Calls[r], s \in Stages \cup {"done", "failed"} :
          Begin(r, c, s) /\ UNCHANGED <<db, rows>>
    BY <1>1, ArriveStep
  <2>2. pc[r] = "idle" /\ \A q \in Req : q # r => pc'[q] = pc[q]
    BY <2>1, BeginStep
  <2> QED BY <2>1, <2>2 DEF InsertedOK, db
<1>2. ASSUME NEW r \in Req, Works(r) PROVE InsertedOK'
  <2>1. InFlight(r) /\ \A q \in Req : q # r => pc'[q] = pc[q]
    BY <1>2, ProceedStep DEF Works
  <2>2. pc[r] # "done"
    BY <2>1 DEF InFlight, Stages
  <2> QED BY <1>2, <2>1, <2>2, RecordStays DEF InsertedOK
<1>3. CASE Tick \/ UNCHANGED vars
  BY <1>3 DEF Tick, InsertedOK, vars, db
<1> QED BY <1>1, <1>2, <1>3 DEF Next, Works
==============================================================================
